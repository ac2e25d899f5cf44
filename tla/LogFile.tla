------------------------------- MODULE LogFile -------------------------------
(***************************************************************************)
(* The worker of the file logger, src/src/logfile.cpp.  Each turn waits up *)
(* to a second, writes at most Batch messages, closes the file and, if it  *)
(* has grown too large, renames the backup files with locker_ held.  A     *)
(* failed backup is logged.                                                *)
(***************************************************************************)
EXTENDS LogConfig

CONSTANT
  Batch   (* 10001: the messages one turn writes                           *)

ASSUME LogFileAssumption == Batch \in Nat \ {0}

VARIABLES
  count,  (* message_count                                                 *)
  file,   (* file_ is open                                                 *)
  lost    (* history: the messages taken out while the file could not be   *)
          (* opened                                                        *)

files == <<count, file, lost>>

Saved == SeqRange(done) \ lost

(* The backup before the loop may fail; locker_ is not held. *)
FileStart ==
  /\ WorkerAt("start")
  /\ wpc' = "turn"
  /\ WorkerLogs \/ UNCHANGED logging
  /\ UNCHANGED <<type, present, chain, list, locker, stop, hand, done, owner,
                 accepted, files>>

(* Fault: the count of the messages is not reset. *)
FileTurnCountsOn ==
  /\ WorkerAt("turn")
  /\ locker = Free
  /\ IF stop
     THEN wpc' = "drain" /\ locker' = Worker
     ELSE wpc' = "sleep" /\ UNCHANGED locker
  /\ UNCHANGED <<type, present, chain, list, stop, logging, hand, done, owner,
                 accepted, files>>

(* The turn begins: without a stop the worker sleeps and gives up the lock. *)
FileTurn ==
  /\ WorkerAt("turn")
  /\ locker = Free
  /\ count' = 0
  /\ IF stop
     THEN wpc' = "drain" /\ locker' = Worker
     ELSE wpc' = "sleep" /\ UNCHANGED locker
  /\ UNCHANGED <<type, present, chain, list, stop, logging, hand, done, owner,
                 accepted, file, lost>>

(* The second is over, or Stop has notified. *)
FileWake ==
  /\ WorkerAt("sleep")
  /\ locker = Free
  /\ locker' = Worker
  /\ wpc' = "drain"
  /\ UNCHANGED <<type, present, chain, list, stop, logging, hand, done, owner,
                 accepted, files>>

(* Fault: the newest message is written first. *)
FilePopLast ==
  /\ WorkerAt("drain")
  /\ list # <<>>
  /\ count < Batch
  /\ hand' = <<list[Len(list)]>>
  /\ list' = SubSeq(list, 1, Len(list) - 1)
  /\ locker' = Free
  /\ wpc' = "write"
  /\ UNCHANGED <<type, present, chain, stop, logging, done, owner, accepted, files>>

FilePop ==
  /\ WorkerAt("drain")
  /\ list # <<>>
  /\ count < Batch
  /\ hand' = <<Head(list)>>
  /\ list' = Tail(list)
  /\ locker' = Free
  /\ wpc' = "write"
  /\ UNCHANGED <<type, present, chain, stop, logging, done, owner, accepted, files>>

(* HandleMessage writes the text, which is not empty.  A file that is not  *)
(* open is opened first; if that fails, the message is dropped.            *)
HandleMessage ==
  /\ done' = done \o hand
  /\ hand' = <<>>
  /\ \/ file' = TRUE /\ UNCHANGED lost
     \/ ~file /\ lost' = lost \cup SeqRange(hand) /\ UNCHANGED file

(* It runs without the lock. *)
FileWrite ==
  /\ WorkerAt("write")
  /\ HandleMessage
  /\ wpc' = "relock"
  /\ UNCHANGED <<type, present, chain, list, locker, stop, logging, owner,
                 accepted, count>>

FileRelock ==
  /\ WorkerAt("relock")
  /\ locker = Free
  /\ locker' = Worker
  /\ count' = count + 1
  /\ wpc' = "drain"
  /\ UNCHANGED <<type, present, chain, list, stop, logging, hand, done, owner,
                 accepted, file, lost>>

(* The file is closed.  When something was written it may have grown too   *)
(* large, the backup may fail, and the failure is logged with locker_ held. *)
FileClose ==
  /\ WorkerAt("drain")
  /\ list = <<>> \/ count = Batch
  /\ file' = FALSE
  /\ \/ UNCHANGED logging
     \/ count > 0 /\ WorkerLogs
  /\ wpc' = "unlock"
  /\ UNCHANGED <<type, present, chain, list, locker, stop, hand, done, owner,
                 accepted, count, lost>>

(* Fault: the worker ends without the second drain. *)
FileUnlockNoDrain ==
  /\ WorkerAt("unlock")
  /\ locker' = Free
  /\ wpc' = IF stop THEN "ended" ELSE "turn"
  /\ UNCHANGED <<type, present, chain, list, stop, logging, hand, done, owner,
                 accepted, files>>

FileUnlock ==
  /\ WorkerAt("unlock")
  /\ locker' = Free
  /\ wpc' = "test"
  /\ UNCHANGED <<type, present, chain, list, stop, logging, hand, done, owner,
                 accepted, files>>

FileTest ==
  /\ WorkerAt("test")
  /\ wpc' = IF stop THEN "final" ELSE "turn"
  /\ UNCHANGED <<type, present, chain, list, locker, stop, logging, hand, done,
                 owner, accepted, files>>

(* The second drain takes no lock.  An AddLogMessage that has passed its   *)
(* tests may push at the same time: the two are ordered either way.        *)
FileFinalPop ==
  /\ WorkerAt("final")
  /\ list # <<>>
  /\ hand' = <<Head(list)>>
  /\ list' = Tail(list)
  /\ wpc' = "finalWrite"
  /\ UNCHANGED <<type, present, chain, locker, stop, logging, done, owner,
                 accepted, files>>

FileFinalWrite ==
  /\ WorkerAt("finalWrite")
  /\ HandleMessage
  /\ wpc' = "final"
  /\ UNCHANGED <<type, present, chain, list, locker, stop, logging, owner,
                 accepted, count>>

FileEnd ==
  /\ WorkerAt("final")
  /\ list = <<>>
  /\ file' = FALSE
  /\ wpc' = "ended"
  /\ UNCHANGED <<type, present, chain, list, locker, stop, logging, hand, done,
                 owner, accepted, count, lost>>

FileThread ==
  \/ FileStart
  \/ FileTurn
  \/ FileWake
  \/ FilePop
  \/ FileWrite
  \/ FileRelock
  \/ FileClose
  \/ FileUnlock
  \/ FileTest
  \/ FileFinalPop
  \/ FileFinalWrite
  \/ FileEnd
=============================================================================
