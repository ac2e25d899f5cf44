------------------------------ MODULE LogConfig ------------------------------
(***************************************************************************)
(* The log chain of src/src/logconfig.cpp, with one logger in it, and what *)
(* the two loggers that have a thread of their own share: LogFile          *)
(* (src/src/logfile.cpp) and Syslog (src/src/syslog.cpp).                  *)
(*                                                                         *)
(* Everything that is logged goes through LogConfig::AddLogMessage, which  *)
(* holds the mutex of the chain while each logger puts the message in its  *)
(* own list, under its own mutex.  A worker thread of the logger empties   *)
(* the list.  When the worker itself logs, its message takes the same way. *)
(* The owner of the chain deletes the logger, or all of them.              *)
(***************************************************************************)
EXTENDS Naturals, Sequences, FiniteSets

CONSTANTS
  Adders,    (* the threads of the application that log                    *)
  Worker,    (* the worker thread of the logger                            *)
  Owner,     (* the thread that deletes loggers                            *)
  Free,      (* the owner of an unlocked mutex                             *)
  Types,     (* the types of the logger: see LogType                       *)
  MaxMsg,    (* bound: the messages of one thread                          *)
  MaxCall    (* bound: the calls of the owner                              *)

LogType == {"LogToFile", "LogToSyslog"}

ASSUME LogConfigAssumption ==
  /\ Types \subseteq LogType
  /\ MaxMsg \in Nat
  /\ MaxCall \in Nat
  /\ Worker \notin Adders
  /\ Owner \notin Adders \cup {Worker}
  /\ Free \notin Adders \cup {Worker, Owner}

Thread == Adders \cup {Worker}
Msg    == Thread \X (1..MaxMsg)

VARIABLES
  type,     (* the type of the logger                                      *)
  present,  (* the logger is in log_chain_                                 *)
  chain,    (* LogConfig::locker_: who holds it, or Free                   *)
  list,     (* message_list_                                               *)
  locker,   (* the logger's locker_: who holds it, or Free                 *)
  stop,     (* stop_thread_                                                *)
  apc,      (* apc[t]: where the thread t is in AddLogMessage              *)
  sent,     (* sent[t]: its calls, the last one carries <<t, sent[t]>>     *)
  wpc,      (* where the worker is; "none" after it has been joined        *)
  hand,     (* the message the worker has taken out and not handled yet    *)
  done,     (* the messages handled, in that order                         *)
  opc,      (* where the owner is                                          *)
  calls,    (* the number of calls of the owner                            *)
  accepted, (* history: the messages pushed, in that order                 *)
  due       (* history: the messages in the list when it was stopped       *)

logging == <<apc, sent>>
worker  == <<wpc, hand, done>>
owner   == <<opc, calls, due>>
vars    == <<type, present, chain, list, locker, stop, logging, worker, owner,
             accepted>>

SeqRange(s) == {s[i] : i \in 1..Len(s)}

LogInit ==
  /\ type \in Types
  /\ present = TRUE
  /\ chain = Free
  /\ list = <<>>
  /\ locker = Free
  /\ stop = FALSE
  /\ apc = [t \in Thread |-> "idle"]
  /\ sent = [t \in Thread |-> 0]
  /\ hand = <<>>
  /\ done = <<>>
  /\ opc = "idle"
  /\ calls = 0
  /\ accepted = <<>>
  /\ due = {}

-----------------------------------------------------------------------------
(* LogConfig::AddLogMessage and, inside it, AddLogMessage of the logger,   *)
(* which tests its flag once without and once with its mutex.              *)

At(t, pc)   == apc[t] = pc
Goto(t, pc) == apc' = [apc EXCEPT ![t] = pc]

StartLog(t) ==
  /\ At(t, "idle")
  /\ sent[t] < MaxMsg
  /\ sent' = [sent EXCEPT ![t] = @ + 1]
  /\ Goto(t, "chain")

LogCall(a) ==
  /\ StartLog(a)
  /\ UNCHANGED <<type, present, chain, list, locker, stop, worker, owner, accepted>>

(* The chain is locked; an empty one is unlocked at once. *)
LogLock(t) ==
  /\ At(t, "chain")
  /\ chain = Free
  /\ IF present
     THEN Goto(t, "test") /\ chain' = t
     ELSE Goto(t, "idle") /\ UNCHANGED chain
  /\ UNCHANGED <<type, present, list, locker, stop, sent, worker, owner, accepted>>

AddTest(t) ==
  /\ At(t, "test")
  /\ Goto(t, IF stop THEN "leave" ELSE "lock")
  /\ UNCHANGED <<type, present, chain, list, locker, stop, sent, worker, owner,
                 accepted>>

(* Fault: the early return keeps the lock. *)
AddLockKept(t) ==
  /\ At(t, "lock")
  /\ locker = Free
  /\ locker' = t
  /\ Goto(t, IF stop THEN "leave" ELSE "push")
  /\ UNCHANGED <<type, present, chain, list, stop, sent, worker, owner, accepted>>

AddLock(t) ==
  /\ At(t, "lock")
  /\ locker = Free
  /\ IF stop
     THEN Goto(t, "leave") /\ UNCHANGED locker
     ELSE Goto(t, "push") /\ locker' = t
  /\ UNCHANGED <<type, present, chain, list, stop, sent, worker, owner, accepted>>

(* Fault: the message is pushed before it has been filled in. *)
AddPushBlank(t) ==
  /\ At(t, "push")
  /\ list' = Append(list, <<t, 0>>)
  /\ accepted' = Append(accepted, <<t, 0>>)
  /\ locker' = Free
  /\ Goto(t, "leave")
  /\ UNCHANGED <<type, present, chain, stop, sent, worker, owner>>

AddPush(t) ==
  /\ At(t, "push")
  /\ list' = Append(list, <<t, sent[t]>>)
  /\ accepted' = Append(accepted, <<t, sent[t]>>)
  /\ locker' = Free
  /\ Goto(t, "leave")
  /\ UNCHANGED <<type, present, chain, stop, sent, worker, owner>>

LogUnlock(t) ==
  /\ At(t, "leave")
  /\ chain' = Free
  /\ Goto(t, "idle")
  /\ UNCHANGED <<type, present, list, locker, stop, sent, worker, owner, accepted>>

LogStep(t) ==
  \/ LogLock(t)
  \/ AddTest(t)
  \/ AddLock(t)
  \/ AddPush(t)
  \/ LogUnlock(t)

(* LOG_ERROR or LOG_INFO in the worker, which goes on when the call is     *)
(* through.  Bound: after MaxMsg messages it logs no more.                 *)
WorkerAt(pc) == wpc = pc /\ At(Worker, "idle")

WorkerLogs ==
  \/ StartLog(Worker)
  \/ sent[Worker] = MaxMsg /\ UNCHANGED logging

-----------------------------------------------------------------------------
(* The owner *)

Call(pc) ==
  /\ opc = "idle"
  /\ calls < MaxCall
  /\ calls' = calls + 1
  /\ opc' = pc

(* Stop, or its copy in the destructor of LogFile, begins. *)
StopThread ==
  /\ stop' = TRUE
  /\ due' = SeqRange(list)

(* The worker is joined, if there is one, and the flag is taken back. *)
JoinThread ==
  /\ wpc \in {"ended", "none"}
  /\ wpc' = "none"
  /\ stop' = FALSE

DeleteLoggerCall ==
  /\ Call("delete")
  /\ UNCHANGED <<type, present, chain, list, locker, stop, logging, worker, due,
                 accepted>>

(* DeleteLogger erases the logger with the chain locked: its destructor    *)
(* stops and joins the worker.                                             *)
DeleteLoggerLock ==
  /\ opc = "delete"
  /\ chain = Free
  /\ IF present
     THEN opc' = "deleteJoin" /\ chain' = Owner /\ StopThread
     ELSE opc' = "idle" /\ UNCHANGED <<chain, stop, due>>
  /\ UNCHANGED <<type, present, list, locker, logging, worker, calls, accepted>>

DeleteLoggerErase ==
  /\ opc = "deleteJoin"
  /\ JoinThread
  /\ present' = FALSE
  /\ list' = <<>>
  /\ chain' = Free
  /\ opc' = "idle"
  /\ UNCHANGED <<type, locker, logging, hand, done, calls, due, accepted>>

(* DeleteLogChain does not lock the chain: it stops the logger ...         *)
DeleteLogChainCall ==
  /\ present
  /\ Call("chainJoin")
  /\ StopThread
  /\ UNCHANGED <<type, present, chain, list, locker, logging, worker, accepted>>

DeleteLogChainJoin ==
  /\ opc = "chainJoin"
  /\ JoinThread
  /\ opc' = "chainClear"
  /\ UNCHANGED <<type, present, chain, list, locker, logging, hand, done, calls,
                 due, accepted>>

(* ... and clears the chain, which no other thread may be using then.      *)
DeleteLogChainClear ==
  /\ opc = "chainClear"
  /\ chain = Free
  /\ present' = FALSE
  /\ list' = <<>>
  /\ opc' = "idle"
  /\ UNCHANGED <<type, chain, locker, stop, logging, worker, calls, due, accepted>>

OwnerStep ==
  \/ DeleteLoggerLock
  \/ DeleteLoggerErase
  \/ DeleteLogChainJoin
  \/ DeleteLogChainClear

OwnerCall == DeleteLoggerCall \/ DeleteLogChainCall
=============================================================================
