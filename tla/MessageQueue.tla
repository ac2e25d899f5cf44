---------------------------- MODULE MessageQueue ----------------------------
(***************************************************************************)
(* The shared-memory queue of src/src/messagequeue.cpp.  A master process  *)
(* (ListenServer, ListenConsole) creates a shared memory object under a    *)
(* well-known name and fetches messages; client processes (ListenProxy)    *)
(* open the object by its name at every Add.                               *)
(*                                                                         *)
(* Each construction of a master makes a new object, a "segment"; the name *)
(* is bound to the newest one.  A process that opened an older segment     *)
(* keeps working on it.  Segments are numbered by creation.                *)
(*                                                                         *)
(* The actions are the steps other threads and processes can tell apart:   *)
(* the semaphore, nof_messages and task_stop_ are read outside the lock.   *)
(***************************************************************************)
EXTENDS Naturals, Sequences, FiniteSets

CONSTANTS
  Clients,     (* client objects, each with the thread that calls Add      *)
  Masters,     (* master objects, each with the one thread that calls Get  *)
  Capacity,    (* 256: the slots of the ring and the values of queue_in    *)
  MaxNof,      (* 65535: the largest value of nof_messages                 *)
  Flags,       (* the values SetActive is called with                      *)
  Levels,      (* the values SetLogLevel is called with                    *)
  MaxMsg,      (* bound: Add calls of one client                           *)
  MaxSegment,  (* bound: constructions of a master                         *)
  Stops,       (* the processes whose Stop is called                       *)
  Crashes,     (* the processes that may be killed                         *)
  NoMsg,       (* a slot or a buffer never written                         *)
  Free         (* the owner of an unlocked locker                          *)

ASSUME QueueAssumption ==
  /\ Capacity \in Nat \ {0}
  /\ MaxNof \in Nat
  /\ Capacity < MaxNof
  /\ Flags \subseteq BOOLEAN
  /\ MaxMsg \in Nat
  /\ MaxSegment \in Nat
  /\ Clients \cap Masters = {}
  /\ Free \notin Clients \cup Masters

Segment == 1..MaxSegment
Msg     == Clients \X (1..MaxMsg)

VARIABLES
  (* the name service *)
  name,      (* the segment bound to the shared memory name, 0: none        *)
  created,   (* the number of segments created                              *)
  (* SharedListenQueue, one per segment *)
  locker,    (* locker[s]: the process holding the mutex, or Free           *)
  sem,       (* sem[s]: the count of message_semaphore                      *)
  nof,       (* nof[s]: nof_messages                                        *)
  qin,       (* qin[s]: queue_in                                            *)
  qout,      (* qout[s]: queue_out                                          *)
  slot,      (* slot[s][i]: queue[i]                                        *)
  taken,     (* history: the segments whose oldest message has been fetched *)
             (* and is still counted                                        *)
  active,    (* active[s]                                                   *)
  level,     (* level[s]: log_level                                         *)
  (* a client *)
  cpc,       (* cpc[c]: where the thread calling Add is                     *)
  cseg,      (* cseg[c]: the segment that Add has opened                    *)
  sent,      (* sent[c]: Add calls made, the last one carries <<c, sent>>   *)
  cstop,     (* cstop[c]: task_stop_                                        *)
  ctask,     (* ctask[c]: the thread ClientTask                             *)
  cactive,   (* cactive[c]: the local active_                               *)
  clevel,    (* clevel[c]: the local log_level_                             *)
  (* a master *)
  mseg,      (* mseg[m]: the segment behind queue_, 0: no object            *)
  mstop,     (* mstop[m]: task_stop_                                        *)
  wpc,       (* wpc[m]: where the thread calling Get is                     *)
  dest       (* dest[m]: the message the last successful Get returned       *)

names   == <<name, created>>
ring    == <<locker, sem, nof, qin, qout, slot, taken>>
status  == <<active, level>>
adder   == <<cpc, cseg, sent>>
client  == <<cstop, ctask, cactive, clevel>>
master  == <<mseg, mstop>>
getter  == <<wpc, dest>>
vars    == <<names, ring, status, adder, client, master, getter>>

Init ==
  /\ name = 0
  /\ created = 0
  /\ locker = [s \in Segment |-> Free]
  /\ sem = [s \in Segment |-> 0]
  /\ nof = [s \in Segment |-> 0]
  /\ qin = [s \in Segment |-> 0]
  /\ qout = [s \in Segment |-> 0]
  /\ slot = [s \in Segment |-> [i \in 0..(Capacity - 1) |-> NoMsg]]
  /\ taken = {}
  /\ active = [s \in Segment |-> FALSE]
  /\ level = [s \in Segment |-> 0]
  /\ cpc = [c \in Clients |-> "idle"]
  /\ cseg = [c \in Clients |-> 0]
  /\ sent = [c \in Clients |-> 0]
  /\ cstop = [c \in Clients |-> FALSE]
  /\ ctask = [c \in Clients |-> "run"]
  /\ cactive = [c \in Clients |-> FALSE]
  /\ clevel = [c \in Clients |-> 0]
  /\ mseg = [m \in Masters |-> 0]
  /\ mstop = [m \in Masters |-> FALSE]
  /\ wpc = [m \in Masters |-> "idle"]
  /\ dest = [m \in Masters |-> NoMsg]

(* Fault: the index wraps one place late. *)
LateSucc(i) == IF i = Capacity THEN 0 ELSE i + 1

(* ++ on the uint8_t queue_in and queue_out; -- on the uint16_t count. *)
Succ(i) == IF i = Capacity - 1 THEN 0 ELSE i + 1
Pred(n) == IF n = 0 THEN MaxNof ELSE n - 1

(* Fault: one message too many is let in. *)
LooseFull(n) == n > Capacity

(* The test of Add that makes it wait. *)
Full(n) == n > Capacity - 1

(* The slot that lies n places behind slot i, for i and n within Capacity. *)
Slot(i, n) == IF i + n < Capacity THEN i + n ELSE i + n - Capacity

(* The messages of segment s that no Get has fetched, the oldest first.    *)
Size(s)     == nof[s] - (IF s \in taken THEN 1 ELSE 0)
Contents(s) == [j \in 1..Size(s) |-> slot[s][Slot(qout[s], j - 1)]]

-----------------------------------------------------------------------------
(* MessageQueue::Add.  AddCall also stands for the loop entry do { *)

AddCall(c) ==
  /\ cpc[c] = "idle"
  /\ sent[c] < MaxMsg
  /\ cpc' = [cpc EXCEPT ![c] = "open"]
  /\ sent' = [sent EXCEPT ![c] = @ + 1]
  /\ UNCHANGED <<names, ring, status, cseg, client, master, getter>>

(* Opening a name that is not bound throws; Add swallows the exception. *)
AddOpen(c) ==
  /\ cpc[c] = "open"
  /\ cseg' = [cseg EXCEPT ![c] = name]
  /\ cpc' = [cpc EXCEPT ![c] = IF name = 0 THEN "idle" ELSE "check"]
  /\ UNCHANGED <<names, ring, status, sent, client, master, getter>>

AddCheckStop(c) ==
  /\ cpc[c] = "check"
  /\ cpc' = [cpc EXCEPT ![c] = IF cstop[c] THEN "idle" ELSE "lock"]
  /\ UNCHANGED <<names, ring, status, cseg, sent, client, master, getter>>

(* Fault: the slot is claimed without the mutex. *)
AddNoLock(c) ==
  /\ cpc[c] = "lock"
  /\ cpc' = [cpc EXCEPT ![c] = "store"]
  /\ UNCHANGED <<names, ring, status, cseg, sent, client, master, getter>>

AddLock(c) ==
  /\ cpc[c] = "lock"
  /\ locker[cseg[c]] = Free
  /\ locker' = [locker EXCEPT ![cseg[c]] = c]
  /\ cpc' = [cpc EXCEPT ![c] = "store"]
  /\ UNCHANGED <<names, sem, nof, qin, qout, slot, taken, status, cseg, sent,
                 client, master, getter>>

(* Fault: the client sleeps with the mutex in its hand. *)
AddFullLocked(c) ==
  /\ cpc[c] = "store"
  /\ Full(nof[cseg[c]])
  /\ cpc' = [cpc EXCEPT ![c] = "sleep"]
  /\ UNCHANGED <<names, ring, status, cseg, sent, client, master, getter>>

(* The ring is full: unlock, sleep 1 ms. *)
AddFull(c) ==
  /\ cpc[c] = "store"
  /\ Full(nof[cseg[c]])
  /\ locker' = [locker EXCEPT ![cseg[c]] = Free]
  /\ cpc' = [cpc EXCEPT ![c] = "sleep"]
  /\ UNCHANGED <<names, sem, nof, qin, qout, slot, taken, status, cseg, sent,
                 client, master, getter>>

(* After the sleep the lock is taken and at once given back by the end of  *)
(* the loop body; then the name is opened again.                           *)
AddRetry(c) ==
  /\ cpc[c] = "sleep"
  /\ locker[cseg[c]] = Free
  /\ cpc' = [cpc EXCEPT ![c] = "open"]
  /\ UNCHANGED <<names, ring, status, cseg, sent, client, master, getter>>

AddStore(c) ==
  LET s == cseg[c] IN
  /\ cpc[c] = "store"
  /\ ~Full(nof[s])
  /\ slot' = [slot EXCEPT ![s][qin[s]] = <<c, sent[c]>>]
  /\ cpc' = [cpc EXCEPT ![c] = "advance"]
  /\ UNCHANGED <<names, locker, sem, nof, qin, qout, taken, status, cseg, sent,
                 client, master, getter>>

(* The index and the count are two stores, and a client may be killed      *)
(* between them.                                                           *)
AddAdvance(c) ==
  /\ cpc[c] = "advance"
  /\ qin' = [qin EXCEPT ![cseg[c]] = Succ(@)]
  /\ cpc' = [cpc EXCEPT ![c] = "count"]
  /\ UNCHANGED <<names, locker, sem, nof, qout, slot, taken, status, cseg, sent,
                 client, master, getter>>

AddCount(c) ==
  /\ cpc[c] = "count"
  /\ nof' = [nof EXCEPT ![cseg[c]] = @ + 1]
  /\ cpc' = [cpc EXCEPT ![c] = "post"]
  /\ UNCHANGED <<names, locker, sem, qin, qout, slot, taken, status, cseg, sent,
                 client, master, getter>>

(* Fault: the message is counted but not announced. *)
AddNoPost(c) ==
  /\ cpc[c] = "post"
  /\ cpc' = [cpc EXCEPT ![c] = "unlock"]
  /\ UNCHANGED <<names, ring, status, cseg, sent, client, master, getter>>

AddPost(c) ==
  /\ cpc[c] = "post"
  /\ sem' = [sem EXCEPT ![cseg[c]] = @ + 1]
  /\ cpc' = [cpc EXCEPT ![c] = "unlock"]
  /\ UNCHANGED <<names, locker, nof, qin, qout, slot, taken, status, cseg, sent,
                 client, master, getter>>

AddUnlock(c) ==
  /\ cpc[c] = "unlock"
  /\ locker' = [locker EXCEPT ![cseg[c]] = Free]
  /\ cpc' = [cpc EXCEPT ![c] = "idle"]
  /\ UNCHANGED <<names, sem, nof, qin, qout, slot, taken, status, cseg, sent,
                 client, master, getter>>

Add(c) ==
  \/ AddOpen(c)
  \/ AddCheckStop(c)
  \/ AddLock(c)
  \/ AddFull(c)
  \/ AddRetry(c)
  \/ AddStore(c)
  \/ AddAdvance(c)
  \/ AddCount(c)
  \/ AddPost(c)
  \/ AddUnlock(c)

-----------------------------------------------------------------------------
(* MessageQueue::Get.  A call that returns false at once changes nothing.  *)

GetBlocking(m) ==
  /\ wpc[m] = "idle"
  /\ mseg[m] # 0
  /\ ~mstop[m]
  /\ wpc' = [wpc EXCEPT ![m] = "wait"]
  /\ UNCHANGED <<names, ring, status, adder, client, master, dest>>

(* message_semaphore.wait() and a successful try_wait(). *)
GetToken(m) ==
  /\ \/ wpc[m] = "wait"
     \/ wpc[m] = "idle" /\ mseg[m] # 0 /\ ~mstop[m]
  /\ sem[mseg[m]] > 0
  /\ sem' = [sem EXCEPT ![mseg[m]] = @ - 1]
  /\ wpc' = [wpc EXCEPT ![m] = "token"]
  /\ UNCHANGED <<names, locker, nof, qin, qout, slot, taken, status, adder,
                 client, master, dest>>

(* Fault: a token is taken for a message without looking at the count. *)
GetTrusting(m) ==
  /\ wpc[m] = "token"
  /\ wpc' = [wpc EXCEPT ![m] = IF mstop[m] THEN "idle" ELSE "lock"]
  /\ UNCHANGED <<names, ring, status, adder, client, master, dest>>

(* The test of task_stop_ and nof_messages, outside the lock. *)
GetCheck(m) ==
  /\ wpc[m] = "token"
  /\ wpc' = [wpc EXCEPT ![m] =
               IF mstop[m] \/ nof[mseg[m]] = 0 THEN "idle" ELSE "lock"]
  /\ UNCHANGED <<names, ring, status, adder, client, master, dest>>

GetLock(m) ==
  LET s == mseg[m] IN
  /\ wpc[m] = "lock"
  /\ locker[s] = Free
  /\ locker' = [locker EXCEPT ![s] = m]
  /\ wpc' = [wpc EXCEPT ![m] = "take"]
  /\ UNCHANGED <<names, sem, nof, qin, qout, slot, taken, status, adder, client,
                 master, dest>>

(* The message is copied to the caller and queue_out moves; the count      *)
(* follows, and the master may be killed in between.                       *)
GetTake(m) ==
  LET s == mseg[m] IN
  /\ wpc[m] = "take"
  /\ dest' = [dest EXCEPT ![m] = slot[s][qout[s]]]
  /\ qout' = [qout EXCEPT ![s] = Succ(@)]
  /\ taken' = taken \cup {s}
  /\ wpc' = [wpc EXCEPT ![m] = "count"]
  /\ UNCHANGED <<names, locker, sem, nof, qin, slot, status, adder, client, master>>

GetCount(m) ==
  LET s == mseg[m] IN
  /\ wpc[m] = "count"
  /\ nof' = [nof EXCEPT ![s] = Pred(@)]
  /\ taken' = taken \ {s}
  /\ wpc' = [wpc EXCEPT ![m] = "unlock"]
  /\ UNCHANGED <<names, locker, sem, qin, qout, slot, status, adder, client,
                 master, dest>>

GetUnlock(m) ==
  /\ wpc[m] = "unlock"
  /\ locker' = [locker EXCEPT ![mseg[m]] = Free]
  /\ wpc' = [wpc EXCEPT ![m] = "idle"]
  /\ UNCHANGED <<names, sem, nof, qin, qout, slot, taken, status, adder, client,
                 master, dest>>

Get(m) ==
  \/ GetBlocking(m)
  \/ GetToken(m)
  \/ GetCheck(m)
  \/ GetLock(m)
  \/ GetTake(m)
  \/ GetCount(m)
  \/ GetUnlock(m)

-----------------------------------------------------------------------------
(* Construction, destruction and control of a master. *)

(* The constructor removes whatever object has the name and creates one. *)
ConstructMaster(m) ==
  /\ mseg[m] = 0
  /\ created < MaxSegment
  /\ created' = created + 1
  /\ name' = created'
  /\ mseg' = [mseg EXCEPT ![m] = created']
  /\ mstop' = [mstop EXCEPT ![m] = FALSE]
  /\ UNCHANGED <<ring, status, adder, client, getter>>

SetActive(m) ==
  /\ mseg[m] # 0
  /\ \E a \in Flags : active' = [active EXCEPT ![mseg[m]] = a]
  /\ UNCHANGED <<names, ring, level, adder, client, master, getter>>

SetLogLevel(m) ==
  /\ mseg[m] # 0
  /\ \E l \in Levels : level' = [level EXCEPT ![mseg[m]] = l]
  /\ UNCHANGED <<names, ring, active, adder, client, master, getter>>

(* Fault: the flag is cleared but nobody is woken. *)
NoFakeMessage ==
  IF name = 0
  THEN UNCHANGED <<sem, active>>
  ELSE active' = [active EXCEPT ![name] = FALSE] /\ UNCHANGED sem

(* The part of Stop() behind task_stop_: it goes to the segment that has   *)
(* the name now, which need not be the one behind queue_.                  *)
FakeMessage ==
  IF name = 0
  THEN UNCHANGED <<sem, active>>
  ELSE /\ active' = [active EXCEPT ![name] = FALSE]
       /\ sem' = [sem EXCEPT ![name] = @ + 1]

StopMaster(m) ==
  /\ m \in Stops
  /\ mseg[m] # 0
  /\ ~mstop[m]
  /\ mstop' = [mstop EXCEPT ![m] = TRUE]
  /\ FakeMessage
  /\ UNCHANGED <<names, locker, nof, qin, qout, slot, taken, level, adder, client,
                 mseg, getter>>

(* The destructor runs when the thread that calls Get has been joined.  It *)
(* removes the object that has the name, whoever created it.               *)
DestroyMaster(m) ==
  /\ mseg[m] # 0
  /\ wpc[m] = "idle"
  /\ active' = [active EXCEPT ![mseg[m]] = FALSE]
  /\ level' = [level EXCEPT ![mseg[m]] = 0]
  /\ sem' = [sem EXCEPT ![mseg[m]] = @ + 1]
  /\ name' = 0
  /\ mseg' = [mseg EXCEPT ![m] = 0]
  /\ UNCHANGED <<created, locker, nof, qin, qout, slot, taken, adder, client,
                 mstop, getter>>

(* The process is killed: the name and the lock keep their state. *)
CrashMaster(m) ==
  /\ m \in Crashes
  /\ mseg[m] # 0
  /\ mseg' = [mseg EXCEPT ![m] = 0]
  /\ wpc' = [wpc EXCEPT ![m] = "idle"]
  /\ UNCHANGED <<names, ring, status, adder, client, mstop, dest>>

-----------------------------------------------------------------------------
(* The client's polling thread and its Stop. *)

(* Fault: a name that is gone is taken for no news. *)
CheckQueueKeeps(c) ==
  /\ ctask[c] = "run"
  /\ cactive' = [cactive EXCEPT ![c] = IF name = 0 THEN @ ELSE active[name]]
  /\ clevel' = [clevel EXCEPT ![c] = IF name = 0 THEN @ ELSE level[name]]
  /\ ctask' = [ctask EXCEPT ![c] = IF cstop[c] THEN "ended" ELSE "run"]
  /\ UNCHANGED <<names, ring, status, adder, cstop, master, getter>>

(* One turn of ClientTask: CheckQueue, then the loop condition.  Nothing    *)
(* wakes a thread that waits out its second, so a turn is taken at any time.*)
CheckQueue(c) ==
  /\ ctask[c] = "run"
  /\ cactive' = [cactive EXCEPT ![c] = name # 0 /\ active[name]]
  /\ clevel' = [clevel EXCEPT ![c] = IF name = 0 THEN 0 ELSE level[name]]
  /\ ctask' = [ctask EXCEPT ![c] = IF cstop[c] THEN "ended" ELSE "run"]
  /\ UNCHANGED <<names, ring, status, adder, cstop, master, getter>>

(* The loop condition when the flag is set between two turns. *)
EndTask(c) ==
  /\ ctask[c] = "run"
  /\ cstop[c]
  /\ ctask' = [ctask EXCEPT ![c] = "ended"]
  /\ UNCHANGED <<names, ring, status, adder, cstop, cactive, clevel, master,
                 getter>>

(* SetLogLevel of a client changes its local copy only. *)
SetClientLevel(c) ==
  /\ cpc[c] # "dead"
  /\ \E l \in Levels : clevel' = [clevel EXCEPT ![c] = l]
  /\ UNCHANGED <<names, ring, status, adder, cstop, ctask, cactive, master,
                 getter>>

StopClient(c) ==
  /\ c \in Stops
  /\ cpc[c] # "dead"
  /\ ~cstop[c]
  /\ cstop' = [cstop EXCEPT ![c] = TRUE]
  /\ UNCHANGED <<names, ring, status, adder, ctask, cactive, clevel, master,
                 getter>>

(* Stop() once more, when the thread is joined already: the other branch.  *)
(* Bound: one such call.                                                   *)
StopClientAgain(c) ==
  /\ ctask[c] = "ended"
  /\ ctask' = [ctask EXCEPT ![c] = "again"]
  /\ FakeMessage
  /\ UNCHANGED <<names, locker, nof, qin, qout, slot, taken, level, adder, cstop,
                 cactive, clevel, master, getter>>

CrashClient(c) ==
  /\ c \in Crashes
  /\ cpc[c] # "dead"
  /\ cpc' = [cpc EXCEPT ![c] = "dead"]
  /\ ctask' = [ctask EXCEPT ![c] = "dead"]
  /\ UNCHANGED <<names, ring, status, cseg, sent, cstop, cactive, clevel,
                 master, getter>>

-----------------------------------------------------------------------------
ClientStep(c) ==
  \/ AddCall(c)
  \/ Add(c)
  \/ CheckQueue(c)
  \/ EndTask(c)
  \/ SetClientLevel(c)
  \/ StopClient(c)
  \/ StopClientAgain(c)
  \/ CrashClient(c)

MasterStep(m) ==
  \/ Get(m)
  \/ ConstructMaster(m)
  \/ SetActive(m)
  \/ SetLogLevel(m)
  \/ StopMaster(m)
  \/ DestroyMaster(m)
  \/ CrashMaster(m)

Next ==
  \/ \E c \in Clients : ClientStep(c)
  \/ \E m \in Masters : MasterStep(m)

Spec == Init /\ [][Next]_vars

-----------------------------------------------------------------------------
(* Properties *)

CpcSet == {"idle", "open", "check", "lock", "store", "advance", "count",
           "post", "unlock", "sleep", "dead"}
WpcSet == {"idle", "wait", "token", "lock", "take", "count", "unlock"}

TypeOK ==
  /\ name \in 0..created
  /\ created \in 0..MaxSegment
  /\ locker \in [Segment -> Clients \cup Masters \cup {Free}]
  /\ sem \in [Segment -> Nat]
  /\ nof \in [Segment -> 0..MaxNof]
  /\ qin \in [Segment -> 0..(Capacity - 1)]
  /\ qout \in [Segment -> 0..(Capacity - 1)]
  /\ slot \in [Segment -> [0..(Capacity - 1) -> Msg \cup {NoMsg}]]
  /\ taken \subseteq Segment
  /\ active \in [Segment -> BOOLEAN]
  /\ level \in [Segment -> Levels \cup {0}]
  /\ cpc \in [Clients -> CpcSet]
  /\ cseg \in [Clients -> 0..created]
  /\ sent \in [Clients -> 0..MaxMsg]
  /\ cstop \in [Clients -> BOOLEAN]
  /\ ctask \in [Clients -> {"run", "ended", "again", "dead"}]
  /\ cactive \in [Clients -> BOOLEAN]
  /\ clevel \in [Clients -> Levels \cup {0}]
  /\ mseg \in [Masters -> 0..created]
  /\ mstop \in [Masters -> BOOLEAN]
  /\ wpc \in [Masters -> WpcSet]
  /\ dest \in [Masters -> Msg \cup {NoMsg}]

(* Whoever gets the mutex finds a sound ring: the slots between queue_out  *)
(* and queue_in are as many as the count says.  Inside the mutex an index  *)
(* moves before the count, and a process that is killed there leaves the   *)
(* two at odds for good; then the mutex is never free again.  The count,   *)
(* which is read outside the mutex, never exceeds the slots.               *)
RingConsistent ==
  \A s \in Segment :
    /\ nof[s] <= Capacity
    /\ locker[s] = Free => qin[s] = Slot(qout[s], nof[s])

(* The test of nof_messages outside the lock is still true inside it: Get  *)
(* never fetches from an empty ring, and never counts below zero, even     *)
(* when Stop has posted tokens that stand for no message.                  *)
NoUnderflow ==
  \A m \in Masters : wpc[m] \in {"lock", "take", "count"} => nof[mseg[m]] > 0

(* The messages whose token is still on its way: the client has counted    *)
(* the message and is about to post.                                       *)
Posting(s) == {c \in Clients : cpc[c] = "post" /\ cseg[c] = s}
Killed(s)  == {c \in Clients : cpc[c] = "dead" /\ locker[s] = c}

(* No message is stranded: while the master of a segment runs, every       *)
(* message of the ring has a token in the semaphore, in the hand of Get,   *)
(* or in the hand of a client.  (A client killed inside the lock leaves    *)
(* the segment locked for ever; nothing is promised then.)                 *)
NoStranded ==
  \A m \in Masters :
    LET s == mseg[m] IN
    s # 0 /\ ~mstop[m] /\ Killed(s) = {} =>
      nof[s] <= sem[s] + Cardinality(Posting(s))
                  + (IF wpc[m] \in {"token", "lock", "take", "count"} THEN 1 ELSE 0)

(* The promise of ListenFifo, with each ring read as a queue. *)
Fifo == INSTANCE ListenFifo WITH
  fifo <- [s \in Segment |-> Contents(s)],
  busy <- [c \in Clients |-> cpc[c] \in {"open", "check", "lock", "store",
                                        "advance", "count", "sleep"}]

(* The queue implements it: whatever the interleaving of clients, Get,     *)
(* Stop, restarts of the master and crashes, messages leave in the order   *)
(* they were stored, none twice, none overwritten before it is fetched.    *)
FifoSpec == Fifo!Spec

(* Each thread is scheduled; a thread that waits for the interprocess      *)
(* mutex gets it when it is free again and again; the owner of a master    *)
(* calls Get in a loop.                                                    *)
Fairness ==
  /\ \A c \in Clients :
       /\ WF_vars(AddOpen(c) \/ AddCheckStop(c) \/ AddFull(c) \/ AddStore(c)
                    \/ AddAdvance(c) \/ AddCount(c) \/ AddPost(c) \/ AddUnlock(c))
       /\ SF_vars(AddLock(c))
       /\ SF_vars(AddRetry(c))
       /\ WF_vars(CheckQueue(c))
  /\ \A m \in Masters :
       /\ WF_vars(GetBlocking(m) \/ GetToken(m) \/ GetCheck(m) \/ GetTake(m)
                    \/ GetCount(m) \/ GetUnlock(m))
       /\ SF_vars(GetLock(m))

FairSpec == Spec /\ Fairness

(* What the ring of a master holds. *)
Waiting(m) ==
  LET s == mseg[m] IN
  IF s = 0 THEN {} ELSE {Contents(s)[j] : j \in 1..Size(s)}

(* A message in the ring of a running master is fetched in the end, unless *)
(* the master is stopped, destroyed or replaced in the meantime.           *)
Delivered ==
  \A m \in Masters, e \in Msg :
    e \in Waiting(m) ~> e \notin Waiting(m) \/ mstop[m]

(* Add always returns while its master fetches: it does not wait for ever  *)
(* for a place in the ring.                                                *)
AddReturns ==
  \A c \in Clients :
    cpc[c] # "idle" ~> cpc[c] = "idle" \/ \E m \in Masters : mstop[m]

(* "This returns the blocking get in worker thread" (listenconsole.cpp):   *)
(* after Stop of a master its thread leaves Get.                           *)
StopReturnsGet ==
  \A m \in Masters : mstop[m] ~> wpc[m] = "idle" \/ ~mstop[m]

(* ClientTask and CheckQueue: a client whose thread runs sees the master it *)
(* can reach become active within a turn, and sees it gone: the cached flag *)
(* does not stay stale.  Nor does the log level: one set locally does not   *)
(* last, and that of a master that is gone falls back to 0.                 *)
StatusFollows(c) ==
  \A a \in BOOLEAN :
    <>[]((name # 0 /\ active[name]) = a) =>
      <>[](cactive[c] = a \/ ctask[c] # "run")

LevelFollows(c) ==
  \A l \in Levels \cup {0} :
    <>[]((IF name = 0 THEN 0 ELSE level[name]) = l) =>
      []<>(clevel[c] = l \/ ctask[c] # "run")

CopiesFollow == \A c \in Clients : StatusFollows(c) /\ LevelFollows(c)
=============================================================================
