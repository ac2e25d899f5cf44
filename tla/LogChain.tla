------------------------------- MODULE LogChain -------------------------------
(***************************************************************************)
(* The log chain with a logger of one of the two types in it: the threads  *)
(* that log, the worker of the logger and the owner of the chain together. *)
(***************************************************************************)
EXTENDS LogFile, Syslog

lvars == <<vars, files, inService>>

Init ==
  /\ LogInit
  /\ wpc = IF type = "LogToFile" THEN "start" ELSE "turn"
  /\ count = 0
  /\ file = FALSE
  /\ lost = {}
  /\ inService = TRUE

WorkerThread ==
  \/ type = "LogToFile" /\ FileThread /\ UNCHANGED inService
  \/ type = "LogToSyslog" /\ SyslogThread /\ UNCHANGED files

Next ==
  \/ \E a \in Adders : LogCall(a) /\ UNCHANGED <<files, inService>>
  \/ \E t \in Thread : LogStep(t) /\ UNCHANGED <<files, inService>>
  \/ WorkerThread
  \/ OwnerCall /\ UNCHANGED <<files, inService>>
  \/ OwnerStep /\ UNCHANGED <<files, inService>>

Spec == Init /\ [][Next]_lvars

(* Every thread inside a call and the worker are scheduled; a mutex is fair. *)
FairSpec ==
  /\ Spec
  /\ SF_lvars(WorkerThread)
  /\ \A t \in Thread : SF_lvars(LogStep(t) /\ UNCHANGED <<files, inService>>)
  /\ SF_lvars(OwnerStep /\ UNCHANGED <<files, inService>>)

-----------------------------------------------------------------------------
(* Three ways to wait for ever.  The worker logs a failed backup with its  *)
(* own mutex held and wants it again; or it wants the chain from a thread  *)
(* that wants that mutex; or it wants the chain from the owner, who holds  *)
(* it to join the worker.                                                  *)
OwnLock   == locker = Worker /\ At(Worker, "lock")
LockOrder == locker = Worker /\ At(Worker, "chain")
               /\ \E a \in Adders : chain = a /\ At(a, "lock")
JoinLock  == chain = Owner /\ At(Worker, "chain")
Knot      == OwnLock \/ LockOrder \/ JoinLock

(* Who waits for whom: for a mutex, that of the chain or the logger's, or  *)
(* for the end of the worker.                                              *)
Actor == Thread \cup {Owner}

WaitsFor(x, y) ==
  \/ x \in Thread /\ At(x, "chain") /\ chain = y
  \/ x \in Thread /\ At(x, "lock") /\ locker = y
  \/ x = Worker /\ At(x, "idle") /\ wpc \in {"turn", "sleep", "relock"} /\ locker = y
  \/ x = Owner /\ opc \in {"delete", "chainClear"} /\ chain = y
  \/ x = Owner /\ opc \in {"deleteJoin", "chainJoin"} /\ y = Worker
       /\ wpc \notin {"ended", "none"}

(* x is inside a call or, if it is the worker, inside its loop. *)
Running(x) ==
  \/ x \in Thread /\ ~At(x, "idle")
  \/ x = Worker /\ wpc \notin {"ended", "none"}
  \/ x = Owner /\ opc # "idle"

TypeOK ==
  /\ type \in Types
  /\ present \in BOOLEAN
  /\ chain \in Thread \cup {Owner, Free}
  /\ list \in Seq(Msg)
  /\ locker \in Thread \cup {Free}
  /\ stop \in BOOLEAN
  /\ apc \in [Thread -> {"idle", "chain", "test", "lock", "push", "leave"}]
  /\ sent \in [Thread -> 0..MaxMsg]
  /\ wpc \in {"start", "turn", "sleep", "drain", "write", "send", "relock",
              "unlock", "test", "final", "finalWrite", "ended", "none"}
  /\ hand \in Seq(Msg)
  /\ done \in Seq(Msg)
  /\ opc \in {"idle", "delete", "deleteJoin", "chainJoin", "chainClear"}
  /\ calls \in 0..MaxCall
  /\ accepted \in Seq(Msg)
  /\ due \subseteq Msg
  /\ count \in 0..Batch
  /\ file \in BOOLEAN
  /\ lost \subseteq Msg
  /\ inService \in BOOLEAN

(* A message that was accepted is handled exactly once, in the order of    *)
(* acceptance, or still waits for the worker of a logger in the chain.     *)
(* Handled means written or sent, or given up: the file logger drops a     *)
(* message when its file cannot be opened, the syslog logger when the host *)
(* cannot be reached.                                                      *)
Conserved == present => accepted = done \o hand \o list

(* The three knots are the only ones: outside them whoever is waited for   *)
(* is running, and waits are chained at most twice, so that the last one   *)
(* of a chain waits for nobody.  No mutex is left locked, and there is no  *)
(* circle.                                                                 *)
NoOtherKnot ==
  Knot \/ /\ \A x, y \in Actor : WaitsFor(x, y) => Running(y)
          /\ \A w, x, y, z \in Actor :
               ~(WaitsFor(w, x) /\ WaitsFor(x, y) /\ WaitsFor(y, z))

(* When the file logger has stopped, every message that was in its list at *)
(* that moment is in the file, or its turn came and the file could not be  *)
(* opened: none is left behind.  "All messages in the queue is saved to    *)
(* the file" (logfile.cpp) promises more than that.  Nor does the like hold *)
(* of the syslog logger, whose worker does not look at its list again when *)
(* it has seen the flag.                                                   *)
StopHandlesAll ==
  [][(type = "LogToFile" /\ stop /\ ~stop') => due \subseteq Saved \cup lost]_lvars

(* No message stays in the list of a logger that is not stopped, except    *)
(* behind one of the three knots: it is written, sent or given up.         *)
Handled ==
  \A m \in Msg :
    m \in SeqRange(list) ~> m \in SeqRange(done) \/ stop \/ ~present \/ Knot

(* A thread that logs is held up by a turn of the worker at most, never by *)
(* a lock that is not given back; and so is the owner who deletes.         *)
LogReturns   == \A t \in Thread : ~At(t, "idle") ~> At(t, "idle") \/ Knot
OwnerReturns == opc # "idle" ~> opc = "idle" \/ Knot

(* "The queue is saved to a file by a worker thread": at least each        *)
(* message is taken to the file, whatever becomes of the backup of an old  *)
(* file.                                                                   *)
QueueIsSaved ==
  \A m \in Msg : m \in SeqRange(accepted) ~> m \in SeqRange(done)

(* "Deletes a logger by its name": the call comes to an end.               *)
DeleteReturns == opc = "deleteJoin" ~> opc = "idle"
=============================================================================
