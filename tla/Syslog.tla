-------------------------------- MODULE Syslog --------------------------------
(***************************************************************************)
(* The worker of the syslog logger, src/src/syslog.cpp.  It sleeps only    *)
(* when the list was empty at the start of the turn, sends every message   *)
(* in a UDP datagram of its own, and logs that the remote host has gone    *)
(* out of service or has come back.                                        *)
(***************************************************************************)
EXTENDS LogConfig

VARIABLE
  inService   (* in_service: the last message could be sent                *)

(* The predicate of the wait looks at the flag and at list_empty, which    *)
(* was read before: with messages there is no wait.                        *)
SyslogTurn ==
  /\ WorkerAt("turn")
  /\ locker = Free
  /\ IF stop \/ list # <<>>
     THEN wpc' = "drain" /\ locker' = Worker
     ELSE wpc' = "sleep" /\ UNCHANGED locker
  /\ UNCHANGED <<type, present, chain, list, stop, logging, hand, done, owner,
                 accepted, inService>>

(* The two seconds are over, or Stop has notified. *)
SyslogWake ==
  /\ WorkerAt("sleep")
  /\ locker = Free
  /\ locker' = Worker
  /\ wpc' = "drain"
  /\ UNCHANGED <<type, present, chain, list, stop, logging, hand, done, owner,
                 accepted, inService>>

(* Fault: the lock is kept while the message is sent. *)
SyslogPopLocked ==
  /\ WorkerAt("drain")
  /\ list # <<>>
  /\ hand' = <<Head(list)>>
  /\ list' = Tail(list)
  /\ wpc' = "send"
  /\ UNCHANGED <<type, present, chain, locker, stop, logging, done, owner,
                 accepted, inService>>

SyslogPop ==
  /\ WorkerAt("drain")
  /\ list # <<>>
  /\ hand' = <<Head(list)>>
  /\ list' = Tail(list)
  /\ locker' = Free
  /\ wpc' = "send"
  /\ UNCHANGED <<type, present, chain, stop, logging, done, owner, accepted,
                 inService>>

(* The message is sent or given up; a change of service is logged with     *)
(* LOG_ERROR or LOG_INFO, without locker_.                                 *)
SyslogSend ==
  /\ WorkerAt("send")
  /\ done' = done \o hand
  /\ hand' = <<>>
  /\ \E sentOk \in BOOLEAN :
       /\ inService' = sentOk
       /\ IF sentOk = inService THEN UNCHANGED logging ELSE WorkerLogs
  /\ wpc' = "relock"
  /\ UNCHANGED <<type, present, chain, list, locker, stop, owner, accepted>>

SyslogRelock ==
  /\ WorkerAt("relock")
  /\ locker = Free
  /\ locker' = Worker
  /\ wpc' = "drain"
  /\ UNCHANGED <<type, present, chain, list, stop, logging, hand, done, owner,
                 accepted, inService>>

SyslogUnlock ==
  /\ WorkerAt("drain")
  /\ list = <<>>
  /\ locker' = Free
  /\ wpc' = "test"
  /\ UNCHANGED <<type, present, chain, list, stop, logging, hand, done, owner,
                 accepted, inService>>

SyslogTest ==
  /\ WorkerAt("test")
  /\ wpc' = IF stop THEN "ended" ELSE "turn"
  /\ UNCHANGED <<type, present, chain, list, locker, stop, logging, hand, done,
                 owner, accepted, inService>>

SyslogThread ==
  \/ SyslogTurn
  \/ SyslogWake
  \/ SyslogPop
  \/ SyslogSend
  \/ SyslogRelock
  \/ SyslogUnlock
  \/ SyslogTest
=============================================================================
