------------------------- MODULE MessageQueueProofs -------------------------
(***************************************************************************)
(* Proofs about MessageQueue, for every number of clients and masters,     *)
(* every capacity and any set of processes that stop or are killed:        *)
(*   TypeCorrect    the type invariant                                     *)
(*   RingSafe       RingConsistent                                         *)
(*   NeverUnderflows NoUnderflow                                           *)
(*   ImplementsFifo the queue implements ListenFifo                        *)
(* They rest on one inductive invariant, IInv.                             *)
(***************************************************************************)
EXTENDS MessageQueue, SequenceTheorems, TLAPS

Locked == {"store", "advance", "count", "post", "unlock"}
Held   == {"take", "count", "unlock"}

(* A client inside the critical section of Add owns the mutex of the       *)
(* segment it has opened; a thread past the open has opened a segment that *)
(* exists; the message it carries has a number.                            *)
ClientInv ==
  \A c \in Clients :
    /\ cpc[c] \notin {"idle", "open", "dead"} => cseg[c] # 0
    /\ cpc[c] \in Locked => locker[cseg[c]] = c
    /\ cpc[c] \notin {"idle", "dead"} => sent[c] # 0

(* A segment has at most one master; Get works on an existing segment and  *)
(* owns its mutex inside the critical section.                             *)
MasterInv ==
  /\ \A m, n \in Masters : mseg[m] = mseg[n] /\ mseg[m] # 0 => m = n
  /\ \A m \in Masters :
       /\ wpc[m] # "idle" => mseg[m] # 0
       /\ wpc[m] \in Held => locker[mseg[m]] = m

(* The indices of a ring agree with its count. *)
Even(s) == s \notin taken /\ qin[s] = Slot(qout[s], nof[s])

(* A ring nobody works on is even; the last message a fetch has not yet    *)
(* taken off the count is still in the count.                              *)
SegmentRing(s) ==
  /\ nof[s] <= Capacity
  /\ locker[s] = Free => Even(s)
  /\ s \in taken => nof[s] > 0

(* What Add knows of the ring it has locked: it is even but for the moment *)
(* between the index and the count; from the write of the slot to its      *)
(* counting there is room for the message, which lies behind the counted   *)
(* ones.                                                                   *)
ClientRing(c) ==
  LET s == cseg[c] IN
  /\ cpc[c] \in Locked \ {"count"} => Even(s)
  /\ cpc[c] = "count" => s \notin taken /\ qin[s] = Slot(qout[s], nof[s] + 1)
  /\ cpc[c] \in {"advance", "count"} =>
       nof[s] < Capacity /\ slot[s][Slot(qout[s], nof[s])] = <<c, sent[c]>>

(* What Get knows of the ring it has locked. *)
MasterRing(m) ==
  LET s == mseg[m] IN
  /\ wpc[m] \in {"take", "unlock"} => Even(s)
  /\ wpc[m] = "count" => s \in taken /\ qin[s] = Slot(qout[s], nof[s] - 1)

RingInv ==
  /\ \A s \in Segment : SegmentRing(s)
  /\ \A c \in Clients : ClientRing(c)
  /\ \A m \in Masters : MasterRing(m)

IInv ==
  /\ TypeOK
  /\ ClientInv
  /\ MasterInv
  /\ RingInv
  /\ NoUnderflow

-----------------------------------------------------------------------------
(* Arithmetic of the ring. *)

(* Succ moves to the slot one place behind. *)
LEMMA SuccSlot ==
  ASSUME NEW i \in 0..(Capacity - 1)
  PROVE  /\ Succ(i) \in 0..(Capacity - 1)
         /\ \A n \in 0..(Capacity - 1) : Succ(Slot(i, n)) = Slot(i, n + 1)
         /\ \A n \in 0..(Capacity - 1) : Slot(Succ(i), n) = Slot(i, n + 1)
         /\ \A n \in 0..Capacity : Slot(i, n) \in 0..(Capacity - 1)
  BY QueueAssumption DEF Succ, Slot

(* Different places are different slots. *)
LEMMA SlotInjective ==
  ASSUME NEW i \in 0..(Capacity - 1),
         NEW n \in 0..(Capacity - 1), NEW k \in 0..(Capacity - 1),
         Slot(i, n) = Slot(i, k)
  PROVE  n = k
  BY QueueAssumption DEF Slot

(* The count goes down by one unless it is zero. *)
LEMMA PredFacts ==
  ASSUME NEW n \in 0..MaxNof
  PROVE  /\ Pred(n) \in 0..MaxNof
         /\ n > 0 => Pred(n) = n - 1
  BY QueueAssumption DEF Pred

-----------------------------------------------------------------------------
(* The type invariant. *)

(* The first state is well typed. *)
LEMMA InitType == Init => TypeOK
  BY QueueAssumption DEF Init, TypeOK, Segment, CpcSet, WpcSet

(* The semaphore and nof_messages count up. *)
LEMMA CountUp ==
  ASSUME NEW S, NEW f \in [S -> Nat], NEW x
  PROVE  [f EXCEPT ![x] = @ + 1] \in [S -> Nat]
<1>1. \A y \in S : f[y] + 1 \in Nat
  OBVIOUS
<1>. QED  BY <1>1

(* The fake message of Stop keeps the types of what it changes. *)
LEMMA FakeMessageType ==
  ASSUME FakeMessage, sem \in [Segment -> Nat],
         active \in [Segment -> BOOLEAN]
  PROVE  sem' \in [Segment -> Nat] /\ active' \in [Segment -> BOOLEAN]
<1>1. CASE name = 0
  BY <1>1 DEF FakeMessage
<1>2. CASE name # 0
  <2>1. /\ sem' = [sem EXCEPT ![name] = @ + 1]
        /\ active' = [active EXCEPT ![name] = FALSE]
    BY <1>2 DEF FakeMessage
  <2>2. sem' \in [Segment -> Nat]
    BY <2>1, CountUp
  <2>3. active' \in [Segment -> BOOLEAN]
    BY <2>1
  <2>. QED  BY <2>2, <2>3
<1>. QED  BY <1>1, <1>2

(* A thread past the open works on a segment that exists. *)
LEMMA ClientSegment ==
  ASSUME IInv, NEW c \in Clients, cpc[c] \notin {"idle", "open", "dead"}
  PROVE  cseg[c] \in Segment
<1>1. cseg[c] # 0 /\ cseg[c] \in 0..created /\ created \in 0..MaxSegment
  BY DEF IInv, ClientInv, TypeOK
<1>. QED  BY <1>1, QueueAssumption DEF Segment

(* A call of Add in progress carries a message of its client. *)
LEMMA ClientMsg ==
  ASSUME IInv, NEW c \in Clients, cpc[c] \notin {"idle", "dead"}
  PROVE  <<c, sent[c]>> \in Msg
<1>1. sent[c] # 0 /\ sent[c] \in 0..MaxMsg
  BY DEF IInv, ClientInv, TypeOK
<1>. QED  BY <1>1, QueueAssumption DEF Msg

(* A constructed master works on a segment that exists. *)
LEMMA MasterSegment ==
  ASSUME IInv, NEW m \in Masters, mseg[m] # 0
  PROVE  mseg[m] \in Segment
<1>1. mseg[m] \in 0..created /\ created \in 0..MaxSegment
  BY DEF IInv, TypeOK
<1>. QED  BY <1>1, QueueAssumption DEF Segment

(* So does the thread inside its Get. *)
LEMMA GetSegment ==
  ASSUME IInv, NEW m \in Masters, wpc[m] # "idle"
  PROVE  mseg[m] \in Segment
<1>1. mseg[m] # 0
  BY DEF IInv, MasterInv
<1>. QED  BY <1>1, MasterSegment

(* Every step keeps the types. *)
LEMMA TypeStep == IInv /\ [Next]_vars => TypeOK'
<1> SUFFICES ASSUME IInv, [Next]_vars PROVE TypeOK'
  OBVIOUS
<1>Type. TypeOK
  BY DEF IInv
<1> USE <1>Type DEF TypeOK, names, ring, status, adder,
            client, master, getter, CpcSet, WpcSet
<1>AddCall. ASSUME NEW c \in Clients, AddCall(c) PROVE TypeOK'
  <2>1. sent[c] \in 0..MaxMsg /\ sent[c] < MaxMsg
    BY <1>AddCall DEF AddCall
  <2>2. sent[c] + 1 \in 0..MaxMsg
    BY <2>1, QueueAssumption
  <2>3. sent' \in [Clients -> 0..MaxMsg]
    BY <1>AddCall, <2>2 DEF AddCall
  <2>. QED  BY <1>AddCall, <2>3 DEF AddCall
<1>AddOpen. ASSUME NEW c \in Clients, AddOpen(c) PROVE TypeOK'
  BY <1>AddOpen DEF AddOpen
<1>AddCheckStop. ASSUME NEW c \in Clients, AddCheckStop(c) PROVE TypeOK'
  BY <1>AddCheckStop DEF AddCheckStop
<1>AddLock. ASSUME NEW c \in Clients, AddLock(c) PROVE TypeOK'
  BY <1>AddLock DEF AddLock
<1>AddFull. ASSUME NEW c \in Clients, AddFull(c) PROVE TypeOK'
  BY <1>AddFull DEF AddFull
<1>AddRetry. ASSUME NEW c \in Clients, AddRetry(c) PROVE TypeOK'
  BY <1>AddRetry DEF AddRetry
<1>AddStore. ASSUME NEW c \in Clients, AddStore(c) PROVE TypeOK'
  <2>1. <<c, sent[c]>> \in Msg
    BY <1>AddStore, ClientMsg DEF AddStore
  <2>2. slot' \in [Segment -> [0..(Capacity - 1) -> Msg \cup {NoMsg}]]
    BY <1>AddStore, <2>1 DEF AddStore
  <2>. QED  BY <1>AddStore, <2>2 DEF AddStore
<1>AddAdvance. ASSUME NEW c \in Clients, AddAdvance(c) PROVE TypeOK'
  <2>1. cseg[c] \in Segment
    BY <1>AddAdvance, ClientSegment DEF AddAdvance
  <2>2. qin' \in [Segment -> 0..(Capacity - 1)]
    BY <1>AddAdvance, <2>1, SuccSlot DEF AddAdvance
  <2>. QED  BY <1>AddAdvance, <2>2 DEF AddAdvance
<1>AddCount. ASSUME NEW c \in Clients, AddCount(c) PROVE TypeOK'
  <2>1. cseg[c] \in Segment /\ nof[cseg[c]] < Capacity
    BY <1>AddCount, ClientSegment DEF AddCount, IInv, RingInv, ClientRing
  <2>2. nof[cseg[c]] + 1 \in 0..MaxNof
    BY <2>1, QueueAssumption
  <2>3. nof' \in [Segment -> 0..MaxNof]
    BY <1>AddCount, <2>2 DEF AddCount
  <2>. QED  BY <1>AddCount, <2>3 DEF AddCount
<1>AddPost. ASSUME NEW c \in Clients, AddPost(c) PROVE TypeOK'
  <2>1. sem' \in [Segment -> Nat]
    BY <1>AddPost, CountUp DEF AddPost
  <2>. QED  BY <1>AddPost, <2>1 DEF AddPost
<1>AddUnlock. ASSUME NEW c \in Clients, AddUnlock(c) PROVE TypeOK'
  BY <1>AddUnlock DEF AddUnlock
<1>CheckQueue. ASSUME NEW c \in Clients, CheckQueue(c) PROVE TypeOK'
  <2>1. name /= 0 => name \in Segment
    BY QueueAssumption DEF Segment
  <2>2. cactive' \in [Clients -> BOOLEAN]
    BY <1>CheckQueue, <2>1 DEF CheckQueue
  <2>3. clevel' \in [Clients -> Levels \cup {0}]
    BY <1>CheckQueue, <2>1, QueueAssumption DEF CheckQueue
  <2>4. ctask' \in [Clients -> {"run", "ended", "again", "dead"}]
    BY <1>CheckQueue DEF CheckQueue
  <2>. QED  BY <1>CheckQueue, <2>2, <2>3, <2>4 DEF CheckQueue
<1>EndTask. ASSUME NEW c \in Clients, EndTask(c) PROVE TypeOK'
  BY <1>EndTask DEF EndTask
<1>SetClientLevel. ASSUME NEW c \in Clients, SetClientLevel(c) PROVE TypeOK'
  <2>1. clevel' \in [Clients -> Levels \cup {0}]
    BY <1>SetClientLevel DEF SetClientLevel
  <2>. QED  BY <1>SetClientLevel, <2>1 DEF SetClientLevel
<1>StopClient. ASSUME NEW c \in Clients, StopClient(c) PROVE TypeOK'
  BY <1>StopClient DEF StopClient
<1>StopClientAgain. ASSUME NEW c \in Clients, StopClientAgain(c) PROVE TypeOK'
  <2>1. sem' \in [Segment -> Nat] /\ active' \in [Segment -> BOOLEAN]
    BY <1>StopClientAgain, FakeMessageType DEF StopClientAgain
  <2>2. ctask' \in [Clients -> {"run", "ended", "again", "dead"}]
    BY <1>StopClientAgain DEF StopClientAgain
  <2>. QED  BY <1>StopClientAgain, <2>1, <2>2 DEF StopClientAgain
<1>CrashClient. ASSUME NEW c \in Clients, CrashClient(c) PROVE TypeOK'
  BY <1>CrashClient DEF CrashClient
<1>GetBlocking. ASSUME NEW m \in Masters, GetBlocking(m) PROVE TypeOK'
  BY <1>GetBlocking DEF GetBlocking
<1>GetToken. ASSUME NEW m \in Masters, GetToken(m) PROVE TypeOK'
  <2>1. mseg[m] \in Segment => sem[mseg[m]] - 1 \in Nat
    BY <1>GetToken DEF GetToken
  <2>2. sem' \in [Segment -> Nat]
    BY <1>GetToken, <2>1 DEF GetToken
  <2>3. wpc' \in [Masters -> WpcSet]
    BY <1>GetToken DEF GetToken
  <2>. QED  BY <1>GetToken, <2>2, <2>3 DEF GetToken
<1>GetCheck. ASSUME NEW m \in Masters, GetCheck(m) PROVE TypeOK'
  BY <1>GetCheck DEF GetCheck
<1>GetLock. ASSUME NEW m \in Masters, GetLock(m) PROVE TypeOK'
  <2>1. locker' \in [Segment -> Clients \cup Masters \cup {Free}]
    BY <1>GetLock DEF GetLock
  <2>. QED  BY <1>GetLock, <2>1 DEF GetLock
<1>GetTake. ASSUME NEW m \in Masters, GetTake(m) PROVE TypeOK'
  <2>1. mseg[m] \in Segment
    BY <1>GetTake, GetSegment DEF GetTake
  <2>2. dest' \in [Masters -> Msg \cup {NoMsg}]
    <3>1. slot[mseg[m]][qout[mseg[m]]] \in Msg \cup {NoMsg}
      <4>1. /\ slot[mseg[m]] \in [0..(Capacity - 1) -> Msg \cup {NoMsg}]
            /\ qout[mseg[m]] \in 0..(Capacity - 1)
        BY <2>1
      <4>. QED  BY <4>1
    <3>. QED  BY <1>GetTake, <3>1 DEF GetTake
  <2>3. qout' \in [Segment -> 0..(Capacity - 1)]
    BY <1>GetTake, <2>1, SuccSlot DEF GetTake
  <2>. QED  BY <1>GetTake, <2>1, <2>2, <2>3 DEF GetTake, WpcSet
<1>GetCount. ASSUME NEW m \in Masters, GetCount(m) PROVE TypeOK'
  <2>1. mseg[m] \in Segment
    BY <1>GetCount, GetSegment DEF GetCount
  <2>2. nof' \in [Segment -> 0..MaxNof]
    BY <1>GetCount, <2>1, PredFacts DEF GetCount
  <2>. QED  BY <1>GetCount, <2>1, <2>2 DEF GetCount, WpcSet
<1>GetUnlock. ASSUME NEW m \in Masters, GetUnlock(m) PROVE TypeOK'
  BY <1>GetUnlock DEF GetUnlock
<1>ConstructMaster. ASSUME NEW m \in Masters, ConstructMaster(m) PROVE TypeOK'
  <2>1. created' \in 0..MaxSegment /\ created \in 0..created'
    BY <1>ConstructMaster, QueueAssumption DEF ConstructMaster
  <2>2. name' \in 0..created' /\ created' \in 0..created'
    BY <1>ConstructMaster, <2>1, QueueAssumption DEF ConstructMaster
  <2>3. mseg' \in [Masters -> 0..created']
    BY <1>ConstructMaster, <2>1, <2>2, QueueAssumption DEF ConstructMaster
  <2>4. cseg' \in [Clients -> 0..created']
    BY <1>ConstructMaster, <2>1, QueueAssumption DEF ConstructMaster
  <2>5. mstop' \in [Masters -> BOOLEAN]
    BY <1>ConstructMaster DEF ConstructMaster
  <2>. QED  BY <1>ConstructMaster, <2>1, <2>2, <2>3, <2>4, <2>5 DEF ConstructMaster
<1>SetActive. ASSUME NEW m \in Masters, SetActive(m) PROVE TypeOK'
  <2>1. active' \in [Segment -> BOOLEAN]
    BY <1>SetActive, QueueAssumption DEF SetActive
  <2>. QED  BY <1>SetActive, <2>1 DEF SetActive
<1>SetLogLevel. ASSUME NEW m \in Masters, SetLogLevel(m) PROVE TypeOK'
  <2>1. level' \in [Segment -> Levels \cup {0}]
    BY <1>SetLogLevel DEF SetLogLevel
  <2>. QED  BY <1>SetLogLevel, <2>1 DEF SetLogLevel
<1>StopMaster. ASSUME NEW m \in Masters, StopMaster(m) PROVE TypeOK'
  <2>1. sem' \in [Segment -> Nat] /\ active' \in [Segment -> BOOLEAN]
    BY <1>StopMaster, FakeMessageType DEF StopMaster
  <2>2. mstop' \in [Masters -> BOOLEAN]
    BY <1>StopMaster DEF StopMaster
  <2>. QED  BY <1>StopMaster, <2>1, <2>2 DEF StopMaster
<1>DestroyMaster. ASSUME NEW m \in Masters, DestroyMaster(m) PROVE TypeOK'
  <2>1. sem' \in [Segment -> Nat] /\ active' \in [Segment -> BOOLEAN]
    <3>1. /\ sem' = [sem EXCEPT ![mseg[m]] = @ + 1]
          /\ active' = [active EXCEPT ![mseg[m]] = FALSE]
      BY <1>DestroyMaster DEF DestroyMaster
    <3>2. sem' \in [Segment -> Nat]
      BY <3>1, CountUp
    <3>. QED  BY <3>1, <3>2
  <2>2. level' \in [Segment -> Levels \cup {0}]
    BY <1>DestroyMaster, QueueAssumption DEF DestroyMaster
  <2>3. name' \in 0..created' /\ mseg' \in [Masters -> 0..created']
    BY <1>DestroyMaster, QueueAssumption DEF DestroyMaster
  <2>. QED  BY <1>DestroyMaster, <2>1, <2>2, <2>3 DEF DestroyMaster
<1>CrashMaster. ASSUME NEW m \in Masters, CrashMaster(m) PROVE TypeOK'
  <2>1. mseg' \in [Masters -> 0..created']
    BY <1>CrashMaster, QueueAssumption DEF CrashMaster
  <2>. QED  BY <1>CrashMaster, <2>1 DEF CrashMaster, WpcSet
<1>Stutter. CASE UNCHANGED vars
  BY <1>Stutter DEF vars
<1>. QED
  BY <1>AddCall, <1>AddOpen, <1>AddCheckStop, <1>AddLock, <1>AddFull,
     <1>AddRetry, <1>AddStore, <1>AddAdvance, <1>AddCount, <1>AddPost,
     <1>AddUnlock, <1>CheckQueue, <1>EndTask, <1>SetClientLevel,
     <1>StopClient, <1>StopClientAgain, <1>CrashClient, <1>GetBlocking,
     <1>GetToken, <1>GetCheck, <1>GetLock, <1>GetTake, <1>GetCount,
     <1>GetUnlock, <1>ConstructMaster,
     <1>SetActive, <1>SetLogLevel, <1>StopMaster, <1>DestroyMaster,
     <1>CrashMaster, <1>Stutter
     DEF Next, ClientStep, MasterStep, Add, Get

-----------------------------------------------------------------------------
(* The parts of the inductive invariant. *)

(* Every step keeps what is known of a thread inside Add. *)
LEMMA ClientStepInv == IInv /\ [Next]_vars => ClientInv'
<1> SUFFICES ASSUME IInv, [Next]_vars PROVE ClientInv'
  OBVIOUS
<1> USE QueueAssumption
    DEF IInv, TypeOK, ClientInv, MasterInv, Segment, CpcSet, Locked, Held, names,
        ring, status, adder, client, master, getter
<1>AddLock. ASSUME NEW c \in Clients, AddLock(c) PROVE ClientInv'
  <2>1. cseg[c] \in Segment
    BY <1>AddLock, ClientSegment DEF AddLock
  <2>2. ASSUME NEW d \in Clients, cpc[d] \in Locked
        PROVE  cseg[d] # cseg[c] /\ cseg[d] \in Segment /\ locker[cseg[d]] = d
    <3>1. cseg[d] \in Segment
      BY <2>2, ClientSegment
    <3>2. locker[cseg[c]] = Free /\ locker[cseg[d]] = d
      BY <1>AddLock, <2>2 DEF AddLock
    <3>. QED  BY <3>1, <3>2
  <2>3. /\ locker'[cseg[c]] = c
        /\ \A s \in Segment : s # cseg[c] => locker'[s] = locker[s]
    BY <1>AddLock, <2>1 DEF AddLock
  <2>4. ASSUME NEW d \in Clients, cpc'[d] \in Locked
        PROVE  locker'[cseg'[d]] = d
    BY <1>AddLock, <2>2, <2>3, <2>4 DEF AddLock
  <2>. QED  BY <1>AddLock, <2>4 DEF AddLock
<1>AddFull. ASSUME NEW c \in Clients, AddFull(c) PROVE ClientInv'
  <2>1. \A d \in Clients \ {c} : cpc[d] \in Locked =>
          cseg[d] # cseg[c] /\ cseg[d] \in Segment /\ locker[cseg[d]] = d
    BY <1>AddFull, ClientSegment DEF AddFull
  <2>2. ASSUME NEW d \in Clients, cpc'[d] \in Locked
        PROVE  locker'[cseg'[d]] = d
    <3>1. d # c /\ cpc[d] \in Locked
      BY <1>AddFull, <2>2 DEF AddFull
    <3>. QED  BY <1>AddFull, <2>1, <3>1 DEF AddFull
  <2>. QED  BY <1>AddFull, <2>2 DEF AddFull
<1>AddCall. ASSUME NEW c \in Clients, AddCall(c) PROVE ClientInv'
  BY <1>AddCall DEF AddCall
<1>AddOpen. ASSUME NEW c \in Clients, AddOpen(c) PROVE ClientInv'
  BY <1>AddOpen DEF AddOpen
<1>AddCheckStop. ASSUME NEW c \in Clients, AddCheckStop(c) PROVE ClientInv'
  BY <1>AddCheckStop DEF AddCheckStop
<1>AddRetry. ASSUME NEW c \in Clients, AddRetry(c) PROVE ClientInv'
  BY <1>AddRetry DEF AddRetry
<1>AddStore. ASSUME NEW c \in Clients, AddStore(c) PROVE ClientInv'
  BY <1>AddStore DEF AddStore
<1>AddAdvance. ASSUME NEW c \in Clients, AddAdvance(c) PROVE ClientInv'
  BY <1>AddAdvance DEF AddAdvance
<1>AddCount. ASSUME NEW c \in Clients, AddCount(c) PROVE ClientInv'
  BY <1>AddCount DEF AddCount
<1>AddPost. ASSUME NEW c \in Clients, AddPost(c) PROVE ClientInv'
  BY <1>AddPost DEF AddPost
<1>AddUnlock. ASSUME NEW c \in Clients, AddUnlock(c) PROVE ClientInv'
  BY <1>AddUnlock DEF AddUnlock
<1>CheckQueue. ASSUME NEW c \in Clients, CheckQueue(c) PROVE ClientInv'
  BY <1>CheckQueue DEF CheckQueue
<1>EndTask. ASSUME NEW c \in Clients, EndTask(c) PROVE ClientInv'
  BY <1>EndTask DEF EndTask
<1>SetClientLevel. ASSUME NEW c \in Clients, SetClientLevel(c) PROVE ClientInv'
  BY <1>SetClientLevel DEF SetClientLevel
<1>StopClient. ASSUME NEW c \in Clients, StopClient(c) PROVE ClientInv'
  BY <1>StopClient DEF StopClient
<1>StopClientAgain. ASSUME NEW c \in Clients, StopClientAgain(c) PROVE ClientInv'
  BY <1>StopClientAgain DEF StopClientAgain, FakeMessage
<1>CrashClient. ASSUME NEW c \in Clients, CrashClient(c) PROVE ClientInv'
  BY <1>CrashClient DEF CrashClient
<1>GetBlocking. ASSUME NEW m \in Masters, GetBlocking(m) PROVE ClientInv'
  BY <1>GetBlocking DEF GetBlocking
<1>GetToken. ASSUME NEW m \in Masters, GetToken(m) PROVE ClientInv'
  BY <1>GetToken DEF GetToken
<1>GetCheck. ASSUME NEW m \in Masters, GetCheck(m) PROVE ClientInv'
  BY <1>GetCheck DEF GetCheck
<1>GetLock. ASSUME NEW m \in Masters, GetLock(m) PROVE ClientInv'
  <2>1. ASSUME NEW d \in Clients, cpc[d] \in Locked
        PROVE  cseg[d] # mseg[m] /\ cseg[d] \in Segment /\ locker[cseg[d]] = d
    <3>1. cseg[d] \in Segment
      BY <2>1, ClientSegment
    <3>2. locker[cseg[d]] = d /\ locker[mseg[m]] = Free
      BY <1>GetLock, <2>1 DEF GetLock
    <3>3. d # m /\ d # Free
      OBVIOUS
    <3>. QED  BY <3>1, <3>2, <3>3
  <2>2. ASSUME NEW d \in Clients, cpc'[d] \in Locked
        PROVE  locker'[cseg'[d]] = d
    BY <1>GetLock, <2>1, <2>2 DEF GetLock
  <2>. QED  BY <1>GetLock, <2>2 DEF GetLock
<1>GetTake. ASSUME NEW m \in Masters, GetTake(m) PROVE ClientInv'
  BY <1>GetTake DEF GetTake
<1>GetCount. ASSUME NEW m \in Masters, GetCount(m) PROVE ClientInv'
  BY <1>GetCount DEF GetCount
<1>GetUnlock. ASSUME NEW m \in Masters, GetUnlock(m) PROVE ClientInv'
  <2>1. ASSUME NEW d \in Clients, cpc[d] \in Locked
        PROVE  cseg[d] # mseg[m] /\ cseg[d] \in Segment /\ locker[cseg[d]] = d
    <3>1. cseg[d] \in Segment
      BY <2>1, ClientSegment
    <3>2. locker[cseg[d]] = d /\ locker[mseg[m]] = m
      BY <1>GetUnlock, <2>1 DEF GetUnlock
    <3>3. d # m /\ d # Free
      OBVIOUS
    <3>. QED  BY <3>1, <3>2, <3>3
  <2>2. ASSUME NEW d \in Clients, cpc'[d] \in Locked
        PROVE  locker'[cseg'[d]] = d
    BY <1>GetUnlock, <2>1, <2>2 DEF GetUnlock
  <2>. QED  BY <1>GetUnlock, <2>2 DEF GetUnlock
<1>ConstructMaster. ASSUME NEW m \in Masters, ConstructMaster(m) PROVE ClientInv'
  BY <1>ConstructMaster DEF ConstructMaster
<1>SetActive. ASSUME NEW m \in Masters, SetActive(m) PROVE ClientInv'
  BY <1>SetActive DEF SetActive
<1>SetLogLevel. ASSUME NEW m \in Masters, SetLogLevel(m) PROVE ClientInv'
  BY <1>SetLogLevel DEF SetLogLevel
<1>StopMaster. ASSUME NEW m \in Masters, StopMaster(m) PROVE ClientInv'
  BY <1>StopMaster DEF StopMaster, FakeMessage
<1>DestroyMaster. ASSUME NEW m \in Masters, DestroyMaster(m) PROVE ClientInv'
  BY <1>DestroyMaster DEF DestroyMaster
<1>CrashMaster. ASSUME NEW m \in Masters, CrashMaster(m) PROVE ClientInv'
  BY <1>CrashMaster DEF CrashMaster
<1>Stutter. CASE UNCHANGED vars
  BY <1>Stutter DEF vars
<1>. QED
  BY <1>AddCall, <1>AddOpen, <1>AddCheckStop, <1>AddLock, <1>AddFull,
     <1>AddRetry, <1>AddStore, <1>AddAdvance, <1>AddCount, <1>AddPost,
     <1>AddUnlock, <1>CheckQueue, <1>EndTask, <1>SetClientLevel,
     <1>StopClient, <1>StopClientAgain, <1>CrashClient, <1>GetBlocking,
     <1>GetToken, <1>GetCheck, <1>GetLock, <1>GetTake, <1>GetCount,
     <1>GetUnlock, <1>ConstructMaster,
     <1>SetActive, <1>SetLogLevel, <1>StopMaster, <1>DestroyMaster,
     <1>CrashMaster, <1>Stutter
     DEF Next, ClientStep, MasterStep, Add, Get

(* Every step keeps what is known of a thread inside Get. *)
LEMMA MasterStepInv == IInv /\ [Next]_vars => MasterInv'
<1> SUFFICES ASSUME IInv, [Next]_vars PROVE MasterInv'
  OBVIOUS
<1> USE QueueAssumption
    DEF IInv, TypeOK, MasterInv, ClientInv, Segment, WpcSet, Locked, Held, names,
        ring, status, adder, client, master, getter
<1>GetLock. ASSUME NEW m \in Masters, GetLock(m) PROVE MasterInv'
  <2>1. mseg[m] \in Segment
    BY <1>GetLock, GetSegment DEF GetLock
  <2>2. \A n \in Masters : n # m /\ wpc[n] \in Held =>
          mseg[n] # mseg[m] /\ mseg[n] \in Segment
    BY <1>GetLock, <2>1, GetSegment DEF GetLock
  <2>3. ASSUME NEW n \in Masters, wpc'[n] \in Held
        PROVE  locker'[mseg'[n]] = n
    <3>1. CASE n = m
      BY <1>GetLock, <2>1, <3>1 DEF GetLock
    <3>2. CASE n # m
      BY <1>GetLock, <2>2, <2>3, <3>2 DEF GetLock
    <3>. QED  BY <3>1, <3>2
  <2>. QED  BY <1>GetLock, <2>3 DEF GetLock
<1>GetTake. ASSUME NEW m \in Masters, GetTake(m) PROVE MasterInv'
  BY <1>GetTake DEF GetTake
<1>GetCount. ASSUME NEW m \in Masters, GetCount(m) PROVE MasterInv'
  BY <1>GetCount DEF GetCount
<1>GetUnlock. ASSUME NEW m \in Masters, GetUnlock(m) PROVE MasterInv'
  <2>1. \A n \in Masters : n # m /\ wpc[n] \in Held =>
          mseg[n] # mseg[m] /\ mseg[n] \in Segment
    BY <1>GetUnlock, GetSegment DEF GetUnlock
  <2>2. ASSUME NEW n \in Masters, wpc'[n] \in Held
        PROVE  locker'[mseg'[n]] = n
    <3>1. n # m /\ wpc[n] \in Held
      BY <1>GetUnlock, <2>2 DEF GetUnlock
    <3>. QED  BY <1>GetUnlock, <2>1, <3>1 DEF GetUnlock
  <2>. QED  BY <1>GetUnlock, <2>2 DEF GetUnlock
<1>ConstructMaster. ASSUME NEW m \in Masters, ConstructMaster(m)
                    PROVE  MasterInv'
  <2>1. \A n \in Masters : mseg[n] # created + 1
    BY <1>ConstructMaster DEF ConstructMaster
  <2>2. wpc[m] = "idle" /\ created + 1 # 0
    BY <1>ConstructMaster DEF ConstructMaster
  <2>. QED  BY <1>ConstructMaster, <2>1, <2>2 DEF ConstructMaster
<1>AddCall. ASSUME NEW c \in Clients, AddCall(c) PROVE MasterInv'
  BY <1>AddCall DEF AddCall
<1>AddOpen. ASSUME NEW c \in Clients, AddOpen(c) PROVE MasterInv'
  BY <1>AddOpen DEF AddOpen
<1>AddCheckStop. ASSUME NEW c \in Clients, AddCheckStop(c) PROVE MasterInv'
  BY <1>AddCheckStop DEF AddCheckStop
<1>AddLock. ASSUME NEW c \in Clients, AddLock(c) PROVE MasterInv'
  <2>1. ASSUME NEW n \in Masters, wpc[n] \in Held
        PROVE  mseg[n] # cseg[c] /\ mseg[n] \in Segment /\ locker[mseg[n]] = n
    <3>1. mseg[n] \in Segment
      BY <2>1, GetSegment
    <3>2. locker[mseg[n]] = n /\ locker[cseg[c]] = Free /\ n # Free
      BY <1>AddLock, <2>1 DEF AddLock
    <3>. QED  BY <3>1, <3>2
  <2>2. ASSUME NEW n \in Masters, wpc'[n] \in Held
        PROVE  locker'[mseg'[n]] = n
    BY <1>AddLock, <2>1, <2>2 DEF AddLock
  <2>. QED  BY <1>AddLock, <2>2 DEF AddLock
<1>AddFull. ASSUME NEW c \in Clients, AddFull(c) PROVE MasterInv'
  BY <1>AddFull DEF AddFull
<1>AddRetry. ASSUME NEW c \in Clients, AddRetry(c) PROVE MasterInv'
  BY <1>AddRetry DEF AddRetry
<1>AddStore. ASSUME NEW c \in Clients, AddStore(c) PROVE MasterInv'
  BY <1>AddStore DEF AddStore
<1>AddAdvance. ASSUME NEW c \in Clients, AddAdvance(c) PROVE MasterInv'
  BY <1>AddAdvance DEF AddAdvance
<1>AddCount. ASSUME NEW c \in Clients, AddCount(c) PROVE MasterInv'
  BY <1>AddCount DEF AddCount
<1>AddPost. ASSUME NEW c \in Clients, AddPost(c) PROVE MasterInv'
  BY <1>AddPost DEF AddPost
<1>AddUnlock. ASSUME NEW c \in Clients, AddUnlock(c) PROVE MasterInv'
  BY <1>AddUnlock DEF AddUnlock
<1>CheckQueue. ASSUME NEW c \in Clients, CheckQueue(c) PROVE MasterInv'
  BY <1>CheckQueue DEF CheckQueue
<1>EndTask. ASSUME NEW c \in Clients, EndTask(c) PROVE MasterInv'
  BY <1>EndTask DEF EndTask
<1>SetClientLevel. ASSUME NEW c \in Clients, SetClientLevel(c) PROVE MasterInv'
  BY <1>SetClientLevel DEF SetClientLevel
<1>StopClient. ASSUME NEW c \in Clients, StopClient(c) PROVE MasterInv'
  BY <1>StopClient DEF StopClient
<1>StopClientAgain. ASSUME NEW c \in Clients, StopClientAgain(c) PROVE MasterInv'
  BY <1>StopClientAgain DEF StopClientAgain, FakeMessage
<1>CrashClient. ASSUME NEW c \in Clients, CrashClient(c) PROVE MasterInv'
  BY <1>CrashClient DEF CrashClient
<1>GetBlocking. ASSUME NEW m \in Masters, GetBlocking(m) PROVE MasterInv'
  BY <1>GetBlocking DEF GetBlocking
<1>GetToken. ASSUME NEW m \in Masters, GetToken(m) PROVE MasterInv'
  BY <1>GetToken DEF GetToken
<1>GetCheck. ASSUME NEW m \in Masters, GetCheck(m) PROVE MasterInv'
  BY <1>GetCheck DEF GetCheck
<1>SetActive. ASSUME NEW m \in Masters, SetActive(m) PROVE MasterInv'
  BY <1>SetActive DEF SetActive
<1>SetLogLevel. ASSUME NEW m \in Masters, SetLogLevel(m) PROVE MasterInv'
  BY <1>SetLogLevel DEF SetLogLevel
<1>StopMaster. ASSUME NEW m \in Masters, StopMaster(m) PROVE MasterInv'
  BY <1>StopMaster DEF StopMaster, FakeMessage
<1>DestroyMaster. ASSUME NEW m \in Masters, DestroyMaster(m) PROVE MasterInv'
  BY <1>DestroyMaster DEF DestroyMaster
<1>CrashMaster. ASSUME NEW m \in Masters, CrashMaster(m) PROVE MasterInv'
  BY <1>CrashMaster DEF CrashMaster
<1>Stutter. CASE UNCHANGED vars
  BY <1>Stutter DEF vars
<1>. QED
  BY <1>AddCall, <1>AddOpen, <1>AddCheckStop, <1>AddLock, <1>AddFull,
     <1>AddRetry, <1>AddStore, <1>AddAdvance, <1>AddCount, <1>AddPost,
     <1>AddUnlock, <1>CheckQueue, <1>EndTask, <1>SetClientLevel,
     <1>StopClient, <1>StopClientAgain, <1>CrashClient, <1>GetBlocking,
     <1>GetToken, <1>GetCheck, <1>GetLock, <1>GetTake, <1>GetCount,
     <1>GetUnlock, <1>ConstructMaster,
     <1>SetActive, <1>SetLogLevel, <1>StopMaster, <1>DestroyMaster,
     <1>CrashMaster, <1>Stutter
     DEF Next, ClientStep, MasterStep, Add, Get

(* What a step of process p does to the rings: all but ring t stay as they *)
(* are, t (if there is one) is free or locked by p, and nobody but p moves.*)
Touches(t, p) ==
  /\ t \in Segment => locker[t] \in {p, Free}
  /\ \A s \in Segment \ {t} :
       /\ nof'[s] = nof[s] /\ qin'[s] = qin[s] /\ qout'[s] = qout[s]
       /\ slot'[s] = slot[s] /\ locker'[s] = locker[s]
       /\ s \in taken' <=> s \in taken
  /\ \A d \in Clients \ {p} :
       cpc'[d] = cpc[d] /\ cseg'[d] = cseg[d] /\ sent'[d] = sent[d]
  /\ \A n \in Masters \ {p} : wpc'[n] = wpc[n] /\ mseg'[n] = mseg[n]

(* It is enough to look at the ring and the process that move. *)
LEMMA RingFrame ==
  ASSUME IInv, NEW t, NEW p \in Clients \cup Masters, Touches(t, p),
         t \in Segment => SegmentRing(t)',
         p \in Clients => ClientRing(p)',
         p \in Masters => MasterRing(p)'
  PROVE  RingInv'
<1>1. RingInv /\ ClientInv /\ MasterInv
  BY DEF IInv
<1>2. ASSUME NEW s \in Segment PROVE SegmentRing(s)'
  <2>1. CASE s = t
    BY <1>2, <2>1
  <2>2. CASE s # t
    BY <1>1, <2>2 DEF RingInv, SegmentRing, Even, Touches
  <2>. QED  BY <2>1, <2>2
<1>3. ASSUME NEW d \in Clients PROVE ClientRing(d)'
  <2>1. CASE d = p
    BY <1>3, <2>1
  <2>2. CASE d # p /\ cpc[d] \in Locked
    <3>1. cseg[d] \in Segment /\ locker[cseg[d]] = d
      BY <1>1, <2>2, ClientSegment DEF ClientInv, Locked
    <3>2. cseg[d] # t
      BY <2>2, <3>1, QueueAssumption DEF Touches
    <3>3. /\ cpc'[d] = cpc[d] /\ cseg'[d] = cseg[d] /\ sent'[d] = sent[d]
          /\ nof'[cseg[d]] = nof[cseg[d]] /\ qin'[cseg[d]] = qin[cseg[d]]
          /\ qout'[cseg[d]] = qout[cseg[d]] /\ slot'[cseg[d]] = slot[cseg[d]]
          /\ cseg[d] \in taken' <=> cseg[d] \in taken
      BY <2>2, <3>1, <3>2 DEF Touches
    <3>4. ClientRing(d)
      BY <1>1 DEF RingInv
    <3>. QED  BY <3>3, <3>4 DEF ClientRing, Even
  <2>3. CASE d # p /\ cpc[d] \notin Locked
    BY <2>3 DEF Touches, ClientRing, Locked
  <2>. QED  BY <2>1, <2>2, <2>3
<1>4. ASSUME NEW n \in Masters PROVE MasterRing(n)'
  <2>1. CASE n = p
    BY <1>4, <2>1
  <2>2. CASE n # p /\ wpc[n] \in Held
    <3>1. mseg[n] \in Segment /\ locker[mseg[n]] = n
      BY <1>1, <2>2, GetSegment DEF MasterInv, Held
    <3>2. mseg[n] # t
      BY <2>2, <3>1, QueueAssumption DEF Touches
    <3>3. /\ wpc'[n] = wpc[n] /\ mseg'[n] = mseg[n]
          /\ nof'[mseg[n]] = nof[mseg[n]] /\ qin'[mseg[n]] = qin[mseg[n]]
          /\ qout'[mseg[n]] = qout[mseg[n]]
          /\ mseg[n] \in taken' <=> mseg[n] \in taken
      BY <2>2, <3>1, <3>2 DEF Touches
    <3>4. MasterRing(n)
      BY <1>1 DEF RingInv
    <3>. QED  BY <3>3, <3>4 DEF MasterRing, Even
  <2>3. CASE n # p /\ wpc[n] \notin Held
    BY <2>3 DEF Touches, MasterRing, Held
  <2>. QED  BY <2>1, <2>2, <2>3
<1>. QED  BY <1>2, <1>3, <1>4 DEF RingInv

(* The arithmetic of the two index steps: storing moves queue_in one ahead *)
(* of the count, fetching moves queue_out one ahead.                       *)
LEMMA IndexSteps ==
  ASSUME NEW i \in 0..(Capacity - 1), NEW n \in 0..Capacity
  PROVE  /\ n < Capacity => Succ(Slot(i, n)) = Slot(i, n + 1)
         /\ n > 0 => Slot(i, n) = Slot(Succ(i), n - 1)
<1>1. ASSUME n < Capacity PROVE Succ(Slot(i, n)) = Slot(i, n + 1)
  <2>1. n \in 0..(Capacity - 1)
    BY <1>1, QueueAssumption
  <2>. QED  BY <2>1, SuccSlot
<1>2. ASSUME n > 0 PROVE Slot(i, n) = Slot(Succ(i), n - 1)
  <2>1. n - 1 \in 0..(Capacity - 1) /\ (n - 1) + 1 = n
    BY <1>2, QueueAssumption
  <2>. QED  BY <2>1, SuccSlot
<1>. QED  BY <1>1, <1>2

(* Every step of a client keeps the rings sound. *)
LEMMA ClientRingStep ==
  ASSUME IInv, NEW c \in Clients, ClientStep(c)
  PROVE  RingInv'
<1> DEFINE t == cseg[c]
<1> USE QueueAssumption
<1>0. /\ cpc \in [Clients -> CpcSet] /\ cseg \in [Clients -> 0..created]
      /\ sent \in [Clients -> 0..MaxMsg]
      /\ locker \in [Segment -> Clients \cup Masters \cup {Free}]
      /\ nof \in [Segment -> 0..MaxNof] /\ qin \in [Segment -> 0..(Capacity - 1)]
      /\ qout \in [Segment -> 0..(Capacity - 1)]
      /\ slot \in [Segment -> [0..(Capacity - 1) -> Msg \cup {NoMsg}]]
  BY DEF IInv, TypeOK
<1>1. /\ \A s \in Segment : SegmentRing(s)
      /\ ClientRing(c)
      /\ cpc[c] \in Locked => locker[t] = c
  BY DEF IInv, RingInv, ClientInv
<1>2. cpc[c] \in Locked \cup {"lock"} => t \in Segment
  BY ClientSegment DEF Locked
<1>3. cpc[c] \in Locked \cup {"lock"} =>
        nof[t] \in 0..Capacity /\ qout[t] \in 0..(Capacity - 1)
  BY <1>0, <1>1, <1>2 DEF SegmentRing
<1>4. c \notin Masters
  OBVIOUS
(* The steps that leave the rings alone. *)
<1>Idle. CASE \/ AddCall(c) \/ AddOpen(c) \/ AddCheckStop(c) \/ AddRetry(c)
              \/ CheckQueue(c) \/ EndTask(c) \/ SetClientLevel(c)
              \/ StopClient(c) \/ StopClientAgain(c) \/ CrashClient(c)
  <2>1. UNCHANGED <<locker, nof, qin, qout, slot, taken, wpc, mseg>>
    BY <1>Idle DEF AddCall, AddOpen, AddCheckStop, AddRetry, CheckQueue,
       EndTask, SetClientLevel, StopClient, StopClientAgain, CrashClient,
       ring, master, getter
  <2>2. \A d \in Clients \ {c} :
          cpc'[d] = cpc[d] /\ cseg'[d] = cseg[d] /\ sent'[d] = sent[d]
    BY <1>0, <1>Idle DEF AddCall, AddOpen, AddCheckStop, AddRetry, CheckQueue,
       EndTask, SetClientLevel, StopClient, StopClientAgain, CrashClient,
       adder
  <2>3. Touches(0, c)
    BY <2>1, <2>2 DEF Touches, Segment
  <2>4. ClientRing(c)'
    <3>1. CASE UNCHANGED <<cpc, cseg, sent>>
      BY <1>1, <2>1, <3>1 DEF ClientRing, Even
    <3>2. CASE cpc'[c] \notin Locked
      BY <3>2 DEF ClientRing, Locked
    <3>. QED
      BY <1>0, <1>Idle, <3>1, <3>2 DEF AddCall, AddOpen, AddCheckStop, AddRetry,
         CheckQueue, EndTask, SetClientLevel, StopClient, StopClientAgain,
         CrashClient, adder, Locked
  <2>. QED  BY <1>4, <2>3, <2>4, RingFrame DEF Segment
(* Inside the mutex, or taking it. *)
<1>5. ASSUME cpc[c] \in Locked \cup {"lock"},
             cpc[c] = "lock" => locker[t] = Free,
             \E p : cpc' = [cpc EXCEPT ![c] = p],
             UNCHANGED <<cseg, sent, wpc, mseg, qout, taken>>,
             \A s \in Segment \ {t} :
               /\ nof'[s] = nof[s] /\ qin'[s] = qin[s]
               /\ slot'[s] = slot[s] /\ locker'[s] = locker[s],
             SegmentRing(t)', ClientRing(c)'
      PROVE  RingInv'
  <2>1. Touches(t, c)
    BY <1>0, <1>1, <1>5 DEF Touches
  <2>. QED  BY <1>4, <1>5, <2>1, RingFrame
<1>AddLock. CASE AddLock(c)
  <2>1. Even(t) /\ nof[t] <= Capacity /\ t \in Segment
    BY <1>1, <1>2, <1>AddLock DEF AddLock, SegmentRing
  <2>2. UNCHANGED <<cseg, nof, qin, qout, slot, taken>> /\ cpc'[c] = "store"
        /\ locker'[t] = c /\ c # Free
    BY <1>0, <1>AddLock, <2>1 DEF AddLock
  <2>3. SegmentRing(t)'
    BY <2>1, <2>2 DEF SegmentRing, Even
  <2>4. ClientRing(c)'
    BY <2>1, <2>2 DEF ClientRing, Even
  <2>. QED  BY <1>0, <1>5, <1>AddLock, <2>3, <2>4 DEF AddLock, master, getter
<1>Unlock. CASE AddFull(c) \/ AddUnlock(c)
  <2>1. Even(t) /\ nof[t] <= Capacity /\ t \in Segment /\ cpc[c] \in Locked
    BY <1>1, <1>2, <1>Unlock
    DEF AddFull, AddUnlock, SegmentRing, ClientRing, Locked
  <2>2. UNCHANGED <<cseg, nof, qin, qout, slot, taken>>
        /\ cpc'[c] \notin Locked
    BY <1>0, <1>Unlock DEF AddFull, AddUnlock, Locked
  <2>3. SegmentRing(t)'
    BY <2>1, <2>2 DEF SegmentRing, Even
  <2>4. ClientRing(c)'
    BY <2>2 DEF ClientRing, Locked
  <2>. QED
    BY <1>0, <1>5, <1>Unlock, <2>1, <2>3, <2>4
    DEF AddFull, AddUnlock, master, getter, Locked
<1>AddStore. CASE AddStore(c)
  <2>1. /\ Even(t) /\ t \in Segment /\ cpc[c] \in Locked /\ locker[t] = c
        /\ nof[t] < Capacity
    <3>1. cpc[c] \in Locked \ {"count"} /\ ~(nof[t] > Capacity - 1)
      BY <1>AddStore DEF AddStore, Full, Locked
    <3>2. t \in Segment /\ nof[t] \in 0..Capacity
      BY <1>2, <1>3, <3>1
    <3>. QED  BY <1>1, <3>1, <3>2 DEF ClientRing
  <2>2. UNCHANGED <<cseg, sent, nof, qin, qout, taken, locker>>
        /\ cpc'[c] = "advance"
    BY <1>0, <1>AddStore DEF AddStore
  <2>3. slot'[t][qin[t]] = <<c, sent[c]>>
    <3>1. slot'[t] = [slot[t] EXCEPT ![qin[t]] = <<c, sent[c]>>]
      BY <1>0, <1>AddStore, <2>1 DEF AddStore
    <3>2. slot[t] \in [0..(Capacity - 1) -> Msg \cup {NoMsg}]
          /\ qin[t] \in 0..(Capacity - 1)
      BY <1>0, <2>1
    <3>. QED  BY <3>1, <3>2
  <2>4. SegmentRing(t)'
    BY <1>1, <2>1, <2>2 DEF SegmentRing, Even
  <2>5. ClientRing(c)'
    BY <2>1, <2>2, <2>3 DEF ClientRing, Even
  <2>. QED
    BY <1>0, <1>5, <1>AddStore, <2>1, <2>4, <2>5 DEF AddStore, master, getter
<1>AddAdvance. CASE AddAdvance(c)
  <2>1. /\ Even(t) /\ t \in Segment /\ cpc[c] \in Locked /\ locker[t] = c
        /\ nof[t] < Capacity
        /\ slot[t][Slot(qout[t], nof[t])] = <<c, sent[c]>>
    BY <1>1, <1>2, <1>AddAdvance DEF AddAdvance, ClientRing, Locked
  <2>2. UNCHANGED <<cseg, sent, nof, slot, qout, taken, locker>>
        /\ cpc'[c] = "count" /\ qin'[t] = Succ(qin[t])
    BY <1>0, <1>AddAdvance, <2>1 DEF AddAdvance
  <2>3. qin'[t] = Slot(qout[t], nof[t] + 1)
    BY <1>3, <2>1, <2>2, IndexSteps DEF Even
  <2>4. SegmentRing(t)'
    BY <1>1, <2>1, <2>2 DEF SegmentRing
  <2>5. ClientRing(c)'
    BY <2>1, <2>2, <2>3 DEF ClientRing, Even
  <2>. QED
    BY <1>0, <1>5, <1>AddAdvance, <2>1, <2>4, <2>5 DEF AddAdvance, master, getter
<1>AddCount. CASE AddCount(c)
  <2>1. /\ t \notin taken /\ t \in Segment /\ cpc[c] \in Locked /\ locker[t] = c
        /\ nof[t] < Capacity /\ nof[t] \in 0..Capacity
        /\ qin[t] = Slot(qout[t], nof[t] + 1)
    BY <1>1, <1>2, <1>3, <1>AddCount DEF AddCount, ClientRing, Locked
  <2>2. UNCHANGED <<cseg, sent, qin, slot, qout, taken, locker>>
        /\ cpc'[c] = "post" /\ nof'[t] = nof[t] + 1
    BY <1>0, <1>AddCount, <2>1 DEF AddCount
  <2>3. nof'[t] <= Capacity /\ Even(t)'
    BY <2>1, <2>2 DEF Even
  <2>4. SegmentRing(t)'
    BY <2>1, <2>2, <2>3 DEF SegmentRing
  <2>5. ClientRing(c)'
    BY <2>2, <2>3 DEF ClientRing, Even
  <2>. QED
    BY <1>0, <1>5, <1>AddCount, <2>1, <2>4, <2>5 DEF AddCount, master, getter
<1>AddPost. CASE AddPost(c)
  <2>1. Even(t) /\ t \in Segment /\ cpc[c] \in Locked
    BY <1>1, <1>2, <1>AddPost DEF AddPost, ClientRing, Locked
  <2>2. UNCHANGED <<cseg, sent, nof, qin, slot, qout, taken, locker>>
        /\ cpc'[c] = "unlock"
    BY <1>0, <1>AddPost DEF AddPost
  <2>3. SegmentRing(t)'
    BY <1>1, <2>1, <2>2 DEF SegmentRing, Even
  <2>4. ClientRing(c)'
    BY <2>1, <2>2 DEF ClientRing, Even
  <2>. QED
    BY <1>0, <1>5, <1>AddPost, <2>1, <2>3, <2>4 DEF AddPost, master, getter, Locked
<1>. QED
  BY <1>Idle, <1>AddLock, <1>Unlock, <1>AddStore, <1>AddAdvance, <1>AddCount,
     <1>AddPost DEF ClientStep, Add

(* Every step of a master keeps the rings sound. *)
LEMMA MasterRingStep ==
  ASSUME IInv, NEW m \in Masters, MasterStep(m)
  PROVE  RingInv'
<1> DEFINE t == mseg[m]
<1> USE QueueAssumption
<1>0. /\ wpc \in [Masters -> WpcSet] /\ mseg \in [Masters -> 0..created]
      /\ locker \in [Segment -> Clients \cup Masters \cup {Free}]
      /\ nof \in [Segment -> 0..MaxNof] /\ qin \in [Segment -> 0..(Capacity - 1)]
      /\ qout \in [Segment -> 0..(Capacity - 1)]
  BY DEF IInv, TypeOK
<1>1. /\ \A s \in Segment : SegmentRing(s)
      /\ MasterRing(m)
      /\ wpc[m] \in Held => locker[t] = m
      /\ wpc[m] \in {"lock", "take", "count"} => nof[t] > 0
      /\ mseg[m] = 0 => wpc[m] = "idle"
  BY DEF IInv, RingInv, MasterInv, NoUnderflow
<1>2. wpc[m] # "idle" =>
        t \in Segment /\ nof[t] \in 0..Capacity /\ qout[t] \in 0..(Capacity - 1)
  BY <1>0, <1>1, GetSegment DEF SegmentRing
<1>3. m \notin Clients
  OBVIOUS
(* The steps that leave the rings alone. *)
<1>Idle. CASE \/ GetBlocking(m) \/ GetToken(m) \/ GetCheck(m)
              \/ ConstructMaster(m) \/ SetActive(m) \/ SetLogLevel(m)
              \/ StopMaster(m) \/ DestroyMaster(m) \/ CrashMaster(m)
  <2>1. UNCHANGED <<locker, nof, qin, qout, slot, taken, cpc, cseg, sent>>
    BY <1>Idle DEF GetBlocking, GetToken, GetCheck, ConstructMaster, SetActive,
       SetLogLevel, StopMaster, DestroyMaster, CrashMaster, ring, adder
  <2>2. \A n \in Masters \ {m} : wpc'[n] = wpc[n] /\ mseg'[n] = mseg[n]
    BY <1>0, <1>Idle DEF GetBlocking, GetToken, GetCheck, ConstructMaster,
       SetActive, SetLogLevel, StopMaster, DestroyMaster, CrashMaster, master,
       getter
  <2>3. Touches(0, m)
    BY <2>1, <2>2 DEF Touches, Segment
  <2>4. MasterRing(m)'
    <3>1. CASE UNCHANGED <<wpc, mseg>>
      BY <1>1, <2>1, <3>1 DEF MasterRing, Even
    <3>2. CASE wpc'[m] \notin Held
      BY <3>2 DEF MasterRing, Held
    <3>. QED
      BY <1>0, <1>1, <1>Idle, <3>1, <3>2 DEF GetBlocking, GetToken, GetCheck,
         ConstructMaster, SetActive, SetLogLevel, StopMaster, DestroyMaster,
         CrashMaster, master, getter, Held
  <2>. QED  BY <1>3, <2>3, <2>4, RingFrame DEF Segment
(* Inside the mutex, or taking it. *)
<1>4. ASSUME wpc[m] \in Held \cup {"lock"},
             wpc[m] = "lock" => locker[t] = Free,
             \E p : wpc' = [wpc EXCEPT ![m] = p],
             UNCHANGED <<cpc, cseg, sent, mseg, slot, qin>>,
             \A s \in Segment \ {t} :
               /\ nof'[s] = nof[s] /\ qout'[s] = qout[s]
               /\ locker'[s] = locker[s]
               /\ s \in taken' <=> s \in taken,
             SegmentRing(t)', MasterRing(m)'
      PROVE  RingInv'
  <2>1. Touches(t, m)
    BY <1>0, <1>1, <1>4 DEF Touches
  <2>. QED  BY <1>3, <1>4, <2>1, RingFrame
<1>GetLock. CASE GetLock(m)
  <2>1. Even(t) /\ nof[t] <= Capacity /\ t \in Segment
    BY <1>1, <1>2, <1>GetLock DEF GetLock, SegmentRing
  <2>2. UNCHANGED <<mseg, nof, qin, qout, taken>> /\ wpc'[m] = "take"
        /\ locker'[t] = m /\ m # Free
    BY <1>0, <1>GetLock, <2>1 DEF GetLock, master
  <2>3. SegmentRing(t)'
    BY <2>1, <2>2 DEF SegmentRing, Even
  <2>4. MasterRing(m)'
    BY <2>1, <2>2 DEF MasterRing, Even
  <2>. QED  BY <1>0, <1>4, <1>GetLock, <2>3, <2>4 DEF GetLock, master, adder
<1>GetTake. CASE GetTake(m)
  <2>1. /\ Even(t) /\ t \in Segment /\ wpc[m] \in Held /\ locker[t] = m
        /\ nof[t] > 0 /\ nof[t] \in 0..Capacity
    BY <1>1, <1>2, <1>GetTake DEF GetTake, MasterRing, Held
  <2>2. UNCHANGED <<mseg, nof, qin, locker>> /\ wpc'[m] = "count"
        /\ qout'[t] = Succ(qout[t]) /\ t \in taken'
    BY <1>0, <1>GetTake, <2>1 DEF GetTake, master
  <2>3. qin'[t] = Slot(qout'[t], nof'[t] - 1)
    BY <1>2, <1>GetTake, <2>1, <2>2, IndexSteps DEF Even, GetTake
  <2>4. SegmentRing(t)'
    BY <2>1, <2>2 DEF SegmentRing
  <2>5. MasterRing(m)'
    BY <2>2, <2>3 DEF MasterRing
  <2>. QED
    BY <1>0, <1>4, <1>GetTake, <2>1, <2>4, <2>5 DEF GetTake, master, adder
<1>GetCount. CASE GetCount(m)
  <2>1. /\ t \in Segment /\ wpc[m] \in Held /\ locker[t] = m
        /\ nof[t] > 0 /\ nof[t] \in 0..Capacity /\ nof[t] \in 0..MaxNof
        /\ qin[t] = Slot(qout[t], nof[t] - 1)
    BY <1>0, <1>1, <1>2, <1>GetCount DEF GetCount, MasterRing, Held
  <2>2. UNCHANGED <<mseg, qin, qout, locker>> /\ wpc'[m] = "unlock"
        /\ nof'[t] = nof[t] - 1 /\ t \notin taken'
    BY <1>0, <1>GetCount, <2>1, PredFacts DEF GetCount, master
  <2>3. Even(t)' /\ nof'[t] <= Capacity
    BY <2>1, <2>2 DEF Even
  <2>4. SegmentRing(t)'
    BY <2>2, <2>3 DEF SegmentRing
  <2>5. MasterRing(m)'
    BY <2>2, <2>3 DEF MasterRing, Even
  <2>. QED
    BY <1>0, <1>4, <1>GetCount, <2>1, <2>4, <2>5 DEF GetCount, master, adder
<1>GetUnlock. CASE GetUnlock(m)
  <2>1. Even(t) /\ t \in Segment /\ wpc[m] \in Held /\ nof[t] <= Capacity
    BY <1>1, <1>2, <1>GetUnlock DEF GetUnlock, MasterRing, Held, SegmentRing
  <2>2. UNCHANGED <<mseg, nof, qin, qout, taken>> /\ wpc'[m] = "idle"
    BY <1>0, <1>GetUnlock DEF GetUnlock, master
  <2>3. SegmentRing(t)'
    BY <2>1, <2>2 DEF SegmentRing, Even
  <2>4. MasterRing(m)'
    BY <2>2 DEF MasterRing
  <2>. QED
    BY <1>0, <1>4, <1>GetUnlock, <2>1, <2>3, <2>4 DEF GetUnlock, master, adder, Held
<1>. QED
  BY <1>Idle, <1>GetLock, <1>GetTake, <1>GetCount, <1>GetUnlock
  DEF MasterStep, Get

(* The count and the two indices of a ring agree again when the mutex is   *)
(* given back.                                                             *)
LEMMA RingStepInv == IInv /\ [Next]_vars => RingInv'
<1> SUFFICES ASSUME IInv, [Next]_vars PROVE RingInv'
  OBVIOUS
<1>1. CASE UNCHANGED vars
  BY <1>1 DEF vars, ring, adder, master, getter, IInv, RingInv, SegmentRing,
     ClientRing, MasterRing, Even
<1>. QED  BY <1>1, ClientRingStep, MasterRingStep DEF Next

(* The message that Get saw outside the lock stays: one thread fetches. *)
LEMMA UnderflowStepInv == IInv /\ [Next]_vars => NoUnderflow'
<1> SUFFICES ASSUME IInv, [Next]_vars PROVE NoUnderflow'
  OBVIOUS
<1> USE QueueAssumption
    DEF IInv, TypeOK, NoUnderflow, MasterInv, Segment, WpcSet, names, ring,
        status, adder, client, master, getter
<1>AddCount. ASSUME NEW c \in Clients, AddCount(c) PROVE NoUnderflow'
  <2>1. \A n \in Masters : wpc[n] \in {"lock", "take", "count"} =>
          mseg[n] \in Segment
    BY GetSegment
  <2>2. ASSUME NEW s \in Segment, nof[s] > 0
        PROVE  nof'[s] > 0
    <3>1. nof[s] \in Nat
      OBVIOUS
    <3>2. CASE s = cseg[c]
      BY <1>AddCount, <2>2, <3>1, <3>2 DEF AddCount
    <3>3. CASE s # cseg[c]
      BY <1>AddCount, <2>2, <3>3 DEF AddCount
    <3>. QED  BY <3>2, <3>3
  <2>. QED  BY <1>AddCount, <2>1, <2>2 DEF AddCount
<1>GetCheck. ASSUME NEW m \in Masters, GetCheck(m) PROVE NoUnderflow'
  <2>1. mseg[m] \in Segment
    BY <1>GetCheck, GetSegment DEF GetCheck
  <2>2. nof[mseg[m]] \in Nat
    BY <2>1
  <2>3. ASSUME NEW n \in Masters, wpc'[n] \in {"lock", "take", "count"}
        PROVE  nof'[mseg'[n]] > 0
    <3>1. CASE n = m
      <4>1. nof[mseg[m]] # 0
        BY <1>GetCheck, <2>3, <3>1 DEF GetCheck
      <4>. QED  BY <1>GetCheck, <2>2, <3>1, <4>1 DEF GetCheck
    <3>2. CASE n # m
      BY <1>GetCheck, <2>3, <3>2 DEF GetCheck
    <3>. QED  BY <3>1, <3>2
  <2>. QED  BY <2>3
<1>GetLock. ASSUME NEW m \in Masters, GetLock(m) PROVE NoUnderflow'
  BY <1>GetLock DEF GetLock
<1>GetTake. ASSUME NEW m \in Masters, GetTake(m) PROVE NoUnderflow'
  BY <1>GetTake DEF GetTake
<1>GetCount. ASSUME NEW m \in Masters, GetCount(m) PROVE NoUnderflow'
  <2>1. \A n \in Masters : n # m /\ wpc[n] \in {"lock", "take", "count"} =>
          mseg[n] # mseg[m]
    BY <1>GetCount DEF GetCount
  <2>. QED  BY <1>GetCount, <2>1 DEF GetCount
<1>AddCall. ASSUME NEW c \in Clients, AddCall(c) PROVE NoUnderflow'
  BY <1>AddCall DEF AddCall
<1>AddOpen. ASSUME NEW c \in Clients, AddOpen(c) PROVE NoUnderflow'
  BY <1>AddOpen DEF AddOpen
<1>AddCheckStop. ASSUME NEW c \in Clients, AddCheckStop(c) PROVE NoUnderflow'
  BY <1>AddCheckStop DEF AddCheckStop
<1>AddLock. ASSUME NEW c \in Clients, AddLock(c) PROVE NoUnderflow'
  BY <1>AddLock DEF AddLock
<1>AddFull. ASSUME NEW c \in Clients, AddFull(c) PROVE NoUnderflow'
  BY <1>AddFull DEF AddFull
<1>AddRetry. ASSUME NEW c \in Clients, AddRetry(c) PROVE NoUnderflow'
  BY <1>AddRetry DEF AddRetry
<1>AddStore. ASSUME NEW c \in Clients, AddStore(c) PROVE NoUnderflow'
  BY <1>AddStore DEF AddStore
<1>AddAdvance. ASSUME NEW c \in Clients, AddAdvance(c) PROVE NoUnderflow'
  BY <1>AddAdvance DEF AddAdvance
<1>AddPost. ASSUME NEW c \in Clients, AddPost(c) PROVE NoUnderflow'
  BY <1>AddPost DEF AddPost
<1>AddUnlock. ASSUME NEW c \in Clients, AddUnlock(c) PROVE NoUnderflow'
  BY <1>AddUnlock DEF AddUnlock
<1>CheckQueue. ASSUME NEW c \in Clients, CheckQueue(c) PROVE NoUnderflow'
  BY <1>CheckQueue DEF CheckQueue
<1>EndTask. ASSUME NEW c \in Clients, EndTask(c) PROVE NoUnderflow'
  BY <1>EndTask DEF EndTask
<1>SetClientLevel. ASSUME NEW c \in Clients, SetClientLevel(c) PROVE NoUnderflow'
  BY <1>SetClientLevel DEF SetClientLevel
<1>StopClient. ASSUME NEW c \in Clients, StopClient(c) PROVE NoUnderflow'
  BY <1>StopClient DEF StopClient
<1>StopClientAgain. ASSUME NEW c \in Clients, StopClientAgain(c) PROVE NoUnderflow'
  BY <1>StopClientAgain DEF StopClientAgain, FakeMessage
<1>CrashClient. ASSUME NEW c \in Clients, CrashClient(c) PROVE NoUnderflow'
  BY <1>CrashClient DEF CrashClient
<1>GetBlocking. ASSUME NEW m \in Masters, GetBlocking(m) PROVE NoUnderflow'
  BY <1>GetBlocking DEF GetBlocking
<1>GetToken. ASSUME NEW m \in Masters, GetToken(m) PROVE NoUnderflow'
  BY <1>GetToken DEF GetToken
<1>GetUnlock. ASSUME NEW m \in Masters, GetUnlock(m) PROVE NoUnderflow'
  BY <1>GetUnlock DEF GetUnlock
<1>ConstructMaster. ASSUME NEW m \in Masters, ConstructMaster(m) PROVE NoUnderflow'
  BY <1>ConstructMaster DEF ConstructMaster
<1>SetActive. ASSUME NEW m \in Masters, SetActive(m) PROVE NoUnderflow'
  BY <1>SetActive DEF SetActive
<1>SetLogLevel. ASSUME NEW m \in Masters, SetLogLevel(m) PROVE NoUnderflow'
  BY <1>SetLogLevel DEF SetLogLevel
<1>StopMaster. ASSUME NEW m \in Masters, StopMaster(m) PROVE NoUnderflow'
  BY <1>StopMaster DEF StopMaster, FakeMessage
<1>DestroyMaster. ASSUME NEW m \in Masters, DestroyMaster(m) PROVE NoUnderflow'
  BY <1>DestroyMaster DEF DestroyMaster
<1>CrashMaster. ASSUME NEW m \in Masters, CrashMaster(m) PROVE NoUnderflow'
  BY <1>CrashMaster DEF CrashMaster
<1>Stutter. CASE UNCHANGED vars
  BY <1>Stutter DEF vars
<1>. QED
  BY <1>AddCall, <1>AddOpen, <1>AddCheckStop, <1>AddLock, <1>AddFull,
     <1>AddRetry, <1>AddStore, <1>AddAdvance, <1>AddCount, <1>AddPost,
     <1>AddUnlock, <1>CheckQueue, <1>EndTask, <1>SetClientLevel,
     <1>StopClient, <1>StopClientAgain, <1>CrashClient, <1>GetBlocking,
     <1>GetToken, <1>GetCheck, <1>GetLock, <1>GetTake, <1>GetCount,
     <1>GetUnlock, <1>ConstructMaster,
     <1>SetActive, <1>SetLogLevel, <1>StopMaster, <1>DestroyMaster,
     <1>CrashMaster, <1>Stutter
     DEF Next, ClientStep, MasterStep, Add, Get

-----------------------------------------------------------------------------
(* The theorems. *)

(* The inductive invariant holds in every reachable state. *)
LEMMA Invariance == Spec => []IInv
<1>1. Init => IInv
  <2> SUFFICES ASSUME Init PROVE IInv
    OBVIOUS
  <2>1. TypeOK
    BY InitType
  <2>2. ClientInv /\ MasterInv /\ NoUnderflow
    BY DEF Init, ClientInv, MasterInv, NoUnderflow, Locked, Held
  <2>3. RingInv
    BY QueueAssumption DEF Init, RingInv, SegmentRing, ClientRing, MasterRing,
       Even, Slot, Locked
  <2>. QED  BY <2>1, <2>2, <2>3 DEF IInv
<1>2. IInv /\ [Next]_vars => IInv'
  BY TypeStep, ClientStepInv, MasterStepInv, RingStepInv, UnderflowStepInv
  DEF IInv
<1>. QED  BY <1>1, <1>2, PTL DEF Spec

(* Every variable keeps its type: in particular the count stays within its *)
(* uint16_t and both indices within the ring.                              *)
THEOREM TypeCorrect == Spec => []TypeOK
<1>1. IInv => TypeOK
  BY DEF IInv
<1>. QED  BY <1>1, Invariance, PTL

(* Whatever clients and masters do, also when they are stopped, restarted  *)
(* or killed between two stores, whoever finds the mutex of a ring free    *)
(* finds its indices and its count in agreement (MessageQueue::Add and     *)
(* MessageQueue::Get): a process killed between the index and the count    *)
(* leaves them at odds, but it keeps the mutex.                            *)
THEOREM RingSafe == Spec => []RingConsistent
<1>1. IInv => RingConsistent
  BY DEF IInv, RingInv, SegmentRing, Even, RingConsistent
<1>. QED  BY <1>1, Invariance, PTL

(* Get never fetches from an empty ring, although it looks at the count    *)
(* outside the lock and Stop posts tokens without a message                *)
(* (MessageQueue::Get).                                                    *)
THEOREM NeverUnderflows == Spec => []NoUnderflow
<1>1. IInv => NoUnderflow
  BY DEF IInv
<1>. QED  BY <1>1, Invariance, PTL

-----------------------------------------------------------------------------
(* The ring, read as a queue. *)

Busy == {"open", "check", "lock", "store", "advance", "count", "sleep"}
FifoOf == [s \in Segment |-> Contents(s)]
BusyOf == [c \in Clients |-> cpc[c] \in Busy]

ContentsType ==
  \A s \in Segment :
    /\ Contents(s) \in Seq(Msg \cup {NoMsg})
    /\ Len(Contents(s)) = Size(s)
    /\ Size(s) \in 0..Capacity
    /\ \A j \in 1..Size(s) : Contents(s)[j] = slot[s][Slot(qout[s], j - 1)]

(* What a ring holds is a sequence as long as the count says, less the     *)
(* message that has been fetched and is still counted.                     *)
LEMMA ContentsSeq == IInv => ContentsType
<1> SUFFICES ASSUME IInv, NEW s \in Segment
             PROVE  /\ Contents(s) \in Seq(Msg \cup {NoMsg})
                    /\ Len(Contents(s)) = Size(s)
                    /\ Size(s) \in 0..Capacity
                    /\ \A j \in 1..Size(s) :
                         Contents(s)[j] = slot[s][Slot(qout[s], j - 1)]
  BY DEF ContentsType
<1>1. Size(s) \in 0..Capacity /\ qout[s] \in 0..(Capacity - 1)
  <2>1. /\ nof[s] \in 0..MaxNof /\ qout[s] \in 0..(Capacity - 1)
        /\ nof[s] <= Capacity
        /\ s \in taken => nof[s] > 0
    BY DEF IInv, TypeOK, RingInv, SegmentRing
  <2>. QED  BY <2>1, QueueAssumption DEF Size
<1>2. \A j \in 1..Size(s) : slot[s][Slot(qout[s], j - 1)] \in Msg \cup {NoMsg}
  <2> SUFFICES ASSUME NEW j \in 1..Size(s)
               PROVE  slot[s][Slot(qout[s], j - 1)] \in Msg \cup {NoMsg}
    OBVIOUS
  <2>1. j - 1 \in 0..Capacity
    BY <1>1, QueueAssumption
  <2>2. Slot(qout[s], j - 1) \in 0..(Capacity - 1)
    BY <1>1, <2>1, SuccSlot
  <2>3. slot[s] \in [0..(Capacity - 1) -> Msg \cup {NoMsg}]
    BY DEF IInv, TypeOK
  <2>. QED  BY <2>2, <2>3
<1>3. Size(s) \in Nat
  BY <1>1, QueueAssumption
<1>4. Contents(s) \in [1..Size(s) -> Msg \cup {NoMsg}]
  BY <1>2 DEF Contents
<1>5. Contents(s) \in Seq(Msg \cup {NoMsg})
  BY <1>3, <1>4, SeqDef
<1>6. Len(Contents(s)) = Size(s)
  BY <1>3, <1>4, <1>5, LenProperties
<1>. QED  BY <1>1, <1>5, <1>6 DEF Contents

(* The contents of a ring depend on its count, queue_out, the slots and    *)
(* whether a message is being fetched only.                                *)
LEMMA ContentsSame ==
  ASSUME NEW s, Size(s)' = Size(s), qout'[s] = qout[s], slot'[s] = slot[s]
  PROVE  Contents(s)' = Contents(s)
  BY DEF Contents

(* Storing into the free slot at queue_in does not show in the contents.   *)
LEMMA StoreInvisible ==
  ASSUME IInv, NEW c \in Clients, AddStore(c)
  PROVE  \A s \in Segment : Contents(s)' = Contents(s)
<1> DEFINE r == cseg[c]
<1>1. r \in Segment
  BY ClientSegment DEF AddStore
<1>2. /\ nof[r] \in 0..(Capacity - 1) /\ qout[r] \in 0..(Capacity - 1)
      /\ Even(r) /\ Size(r) = nof[r]
  <2>1. nof[r] \in 0..MaxNof /\ qout[r] \in 0..(Capacity - 1)
        /\ ~(nof[r] > Capacity - 1)
    BY <1>1 DEF IInv, TypeOK, AddStore, Full
  <2>2. Even(r)
    BY DEF IInv, RingInv, ClientRing, Locked, AddStore
  <2>. QED  BY <2>1, <2>2, QueueAssumption DEF Even, Size
<1>3. UNCHANGED <<nof, qout, taken>>
  BY DEF AddStore
<1>4. ASSUME NEW j \in 1..nof[r]
      PROVE  slot'[r][Slot(qout[r], j - 1)] = slot[r][Slot(qout[r], j - 1)]
  <2>1. qin[r] = Slot(qout[r], nof[r])
    BY <1>2 DEF Even
  <2>2. j - 1 \in 0..(Capacity - 1) /\ j - 1 # nof[r]
    BY <1>2, QueueAssumption
  <2>3. Slot(qout[r], j - 1) # qin[r]
    BY <1>2, <2>1, <2>2, SlotInjective
  <2>4. slot[r] \in [0..(Capacity - 1) -> Msg \cup {NoMsg}]
        /\ Slot(qout[r], j - 1) \in 0..(Capacity - 1)
    <3>1. slot[r] \in [0..(Capacity - 1) -> Msg \cup {NoMsg}]
      BY <1>1 DEF IInv, TypeOK
    <3>2. j - 1 \in 0..Capacity
      BY <2>2, QueueAssumption
    <3>. QED  BY <1>2, <3>1, <3>2, SuccSlot
  <2>5. slot'[r] = [slot[r] EXCEPT ![qin[r]] = <<c, sent[c]>>]
    BY <1>1 DEF AddStore, IInv, TypeOK
  <2>. QED  BY <2>3, <2>4, <2>5
<1>5. \A s \in Segment \ {r} : slot'[s] = slot[s]
  BY <1>1 DEF AddStore, IInv, TypeOK
<1>6. Contents(r)' = Contents(r)
  <2>1. Size(r)' = nof[r] /\ qout'[r] = qout[r]
    BY <1>2, <1>3 DEF Size, AddStore
  <2>. QED  BY <1>2, <1>4, <2>1 DEF Contents, AddStore
<1>7. ASSUME NEW s \in Segment \ {r} PROVE Contents(s)' = Contents(s)
  BY <1>3, <1>5, ContentsSame DEF Size
<1>8. ASSUME NEW s \in Segment PROVE Contents(s)' = Contents(s)
  <2>1. CASE s = r
    <3>1. r' = r
      BY DEF AddStore
    <3>. QED  BY <1>6, <2>1, <3>1
  <2>2. CASE s # r
    BY <1>7, <2>2
  <2>. QED  BY <2>1, <2>2
<1>. QED  BY <1>8

(* Counting the message appends it. *)
LEMMA CountAppends ==
  ASSUME IInv, IInv', NEW c \in Clients, AddCount(c)
  PROVE  /\ cseg[c] \in Segment
         /\ Len(Contents(cseg[c])) < Capacity
         /\ Contents(cseg[c])' = Append(Contents(cseg[c]), <<c, sent[c]>>)
         /\ \A s \in Segment \ {cseg[c]} : Contents(s)' = Contents(s)
<1> DEFINE r == cseg[c]
           V == Msg \cup {NoMsg}
<1>1. /\ r \in Segment /\ r \notin taken /\ nof[r] < Capacity
      /\ slot[r][Slot(qout[r], nof[r])] = <<c, sent[c]>>
  BY ClientSegment DEF AddCount, IInv, RingInv, ClientRing
<1>2. <<c, sent[c]>> \in V
  BY ClientMsg DEF AddCount
<1>3. /\ nof'[r] = nof[r] + 1 /\ \A s \in Segment \ {r} : nof'[s] = nof[s]
      /\ slot' = slot /\ qout' = qout /\ taken' = taken /\ cseg' = cseg
  BY <1>1 DEF AddCount, IInv, TypeOK
<1>4. /\ Contents(r) \in Seq(V) /\ Len(Contents(r)) = nof[r] /\ nof[r] \in Nat
      /\ \A j \in 1..nof[r] : Contents(r)[j] = slot[r][Slot(qout[r], j - 1)]
  <2>1. nof[r] \in Nat
    BY <1>1, QueueAssumption DEF IInv, TypeOK
  <2>2. Size(r) = nof[r]
    BY <1>1, <2>1 DEF Size
  <2>. QED  BY <1>1, <2>1, <2>2, ContentsSeq DEF ContentsType
<1>5. /\ Contents(r)' \in Seq(V) /\ Len(Contents(r)') = nof[r] + 1
      /\ \A j \in 1..(nof[r] + 1) :
           Contents(r)'[j] = slot[r][Slot(qout[r], j - 1)]
  <2>1. ContentsType'
    BY ContentsSeq, PTL
  <2>2. Size(r)' = nof[r] + 1
    BY <1>1, <1>3, <1>4 DEF Size
  <2>3. /\ Contents(r)' \in Seq(V)
        /\ Len(Contents(r)') = Size(r)'
        /\ \A j \in 1..Size(r)' :
             Contents(r)'[j] = slot'[r][Slot(qout'[r], j - 1)]
    BY <1>1, <1>3, <2>1 DEF ContentsType
  <2>. QED  BY <1>3, <2>2, <2>3
<1>6. Append(Contents(r), <<c, sent[c]>>) \in Seq(V)
      /\ Len(Append(Contents(r), <<c, sent[c]>>)) = nof[r] + 1
      /\ \A j \in 1..nof[r] :
           Append(Contents(r), <<c, sent[c]>>)[j] = Contents(r)[j]
      /\ Append(Contents(r), <<c, sent[c]>>)[nof[r] + 1] = <<c, sent[c]>>
  BY <1>2, <1>4, AppendProperties
<1>7. slot[r][Slot(qout[r], (nof[r] + 1) - 1)] = <<c, sent[c]>>
  <2>1. (nof[r] + 1) - 1 = nof[r]
    BY <1>4
  <2>. QED  BY <1>1, <2>1
<1>8. Contents(r)' = Append(Contents(r), <<c, sent[c]>>)
  <2>1. ASSUME NEW j \in 1..(nof[r] + 1)
        PROVE  Contents(r)'[j] = Append(Contents(r), <<c, sent[c]>>)[j]
    <3>1. CASE j = nof[r] + 1
      <4>1. Contents(r)'[j] = slot[r][Slot(qout[r], (nof[r] + 1) - 1)]
        BY <1>5, <3>1
      <4>. QED  BY <1>6, <1>7, <3>1, <4>1
    <3>2. CASE j \in 1..nof[r]
      BY <1>4, <1>5, <1>6, <3>2
    <3>. QED  BY <1>4, <3>1, <3>2
  <2>. QED  BY <1>4, <1>5, <1>6, <2>1, SeqEqual
<1>9. ASSUME NEW s \in Segment \ {r} PROVE Contents(s)' = Contents(s)
  BY <1>3, ContentsSame DEF Size
<1>. QED  BY <1>1, <1>4, <1>8, <1>9

(* Copying the message and moving queue_out removes the head. *)
LEMMA TakeRemovesHead ==
  ASSUME IInv, IInv', NEW m \in Masters, GetTake(m)
  PROVE  /\ mseg[m] \in Segment
         /\ Contents(mseg[m]) # <<>>
         /\ dest' = [dest EXCEPT ![m] = Head(Contents(mseg[m]))]
         /\ Contents(mseg[m])' = Tail(Contents(mseg[m]))
         /\ \A s \in Segment \ {mseg[m]} : Contents(s)' = Contents(s)
<1> DEFINE r == mseg[m]
           V == Msg \cup {NoMsg}
<1>1. r \in Segment /\ nof[r] > 0 /\ r \notin taken
  BY GetSegment DEF GetTake, IInv, NoUnderflow, RingInv, MasterRing, Even
<1>3. nof[r] \in 1..Capacity /\ qout[r] \in 0..(Capacity - 1)
      /\ Size(r) = nof[r]
  <2>1. nof[r] \in 0..MaxNof /\ nof[r] <= Capacity /\ qout[r] \in 0..(Capacity - 1)
    BY <1>1 DEF IInv, TypeOK, RingInv, SegmentRing
  <2>. QED  BY <1>1, <2>1, QueueAssumption DEF Size
<1>2. /\ Contents(r) \in Seq(V) /\ Len(Contents(r)) = nof[r] /\ nof[r] \in Nat
      /\ \A j \in 1..nof[r] : Contents(r)[j] = slot[r][Slot(qout[r], j - 1)]
  <2>1. ContentsType
    BY ContentsSeq
  <2>2. /\ Contents(r) \in Seq(V)
        /\ Len(Contents(r)) = Size(r)
        /\ \A j \in 1..Size(r) : Contents(r)[j] = slot[r][Slot(qout[r], j - 1)]
    BY <1>1, <2>1 DEF ContentsType
  <2>3. nof[r] \in Nat
    BY <1>3, QueueAssumption
  <2>. QED  BY <1>3, <2>2, <2>3
<1>4. /\ slot' = slot /\ mseg' = mseg /\ nof' = nof
      /\ qout'[r] = Succ(qout[r]) /\ taken' = taken \cup {r}
      /\ \A s \in Segment \ {r} : qout'[s] = qout[s]
  BY <1>1, <1>3 DEF GetTake, IInv, TypeOK, master
<1>5. /\ Contents(r)' \in Seq(V) /\ Len(Contents(r)') = nof[r] - 1
      /\ \A j \in 1..(nof[r] - 1) :
           Contents(r)'[j] = slot[r][Slot(Succ(qout[r]), j - 1)]
  <2>1. ContentsType'
    BY ContentsSeq, PTL
  <2>2. Size(r)' = nof[r] - 1
    BY <1>4 DEF Size
  <2>3. /\ Contents(r)' \in Seq(V)
        /\ Len(Contents(r)') = Size(r)'
        /\ \A j \in 1..Size(r)' :
             Contents(r)'[j] = slot'[r][Slot(qout'[r], j - 1)]
    BY <1>1, <1>4, <2>1 DEF ContentsType
  <2>. QED  BY <1>4, <2>2, <2>3
<1>6. Contents(r) # <<>>
  BY <1>2, <1>3, EmptySeq
<1>7. Head(Contents(r)) = slot[r][qout[r]]
  <2>1. Contents(r)[1] = slot[r][Slot(qout[r], 0)]
    BY <1>2, <1>3
  <2>2. Slot(qout[r], 0) = qout[r]
    BY <1>3, QueueAssumption DEF Slot
  <2>. QED  BY <1>2, <1>6, <2>1, <2>2
<1>8. /\ Tail(Contents(r)) \in Seq(V)
      /\ Len(Tail(Contents(r))) = nof[r] - 1
      /\ \A j \in 1..(nof[r] - 1) : Tail(Contents(r))[j] = Contents(r)[j + 1]
  BY <1>2, <1>6, HeadTailProperties
<1>9. ASSUME NEW j \in 1..(nof[r] - 1)
      PROVE  Contents(r)'[j] = Tail(Contents(r))[j]
  <2>1. j - 1 \in 0..(Capacity - 1) /\ j + 1 \in 1..nof[r]
    BY <1>3, QueueAssumption
  <2>2. Slot(Succ(qout[r]), j - 1) = Slot(qout[r], (j - 1) + 1)
    BY <1>3, <2>1, SuccSlot
  <2>3. Contents(r)[j + 1] = slot[r][Slot(qout[r], (j + 1) - 1)]
    BY <1>2, <2>1
  <2>4. (j - 1) + 1 = (j + 1) - 1
    OBVIOUS
  <2>. QED  BY <1>5, <1>8, <2>2, <2>3, <2>4
<1>10. Contents(r)' = Tail(Contents(r))
  BY <1>2, <1>5, <1>8, <1>9, SeqEqual
<1>11. ASSUME NEW s \in Segment \ {r} PROVE Contents(s)' = Contents(s)
  BY <1>4, ContentsSame DEF Size
<1>12. dest' = [dest EXCEPT ![m] = slot[r][qout[r]]]
  BY DEF GetTake
<1>. QED  BY <1>1, <1>6, <1>7, <1>10, <1>11, <1>12

(* Taking the fetched message off the count changes the contents no more.  *)
LEMMA CountInvisible ==
  ASSUME IInv, NEW m \in Masters, GetCount(m)
  PROVE  \A s \in Segment : Contents(s)' = Contents(s)
<1> DEFINE r == mseg[m]
<1>1. r \in Segment /\ nof[r] > 0 /\ r \in taken
  BY GetSegment DEF GetCount, IInv, NoUnderflow, RingInv, MasterRing
<1>2. nof[r] \in 0..MaxNof
  BY <1>1 DEF IInv, TypeOK
<1>3. /\ slot' = slot /\ qout' = qout /\ nof'[r] = nof[r] - 1
      /\ taken' = taken \ {r} /\ \A s \in Segment \ {r} : nof'[s] = nof[s]
  BY <1>1, <1>2, PredFacts DEF GetCount, IInv, TypeOK
<1>4. ASSUME NEW s \in Segment PROVE Size(s)' = Size(s)
  <2>1. CASE s = r
    BY <1>1, <1>2, <1>3, <2>1 DEF Size
  <2>2. CASE s # r
    BY <1>3, <2>2 DEF Size
  <2>. QED  BY <2>1, <2>2
<1>. QED  BY <1>3, <1>4, ContentsSame

(* A step that leaves the rings, the results and the state of the calls    *)
(* alone is invisible to ListenFifo.                                       *)
LEMMA Invisible ==
  ASSUME \A s \in Segment : Contents(s)' = Contents(s),
         UNCHANGED <<dest, sent>>,
         \A c \in Clients : (cpc'[c] \in Busy) <=> (cpc[c] \in Busy)
  PROVE  UNCHANGED Fifo!vars
<1>1. FifoOf' = FifoOf
  BY DEF FifoOf
<1>2. BusyOf' = BusyOf
  BY DEF BusyOf
<1>. QED  BY <1>1, <1>2 DEF Fifo!vars, FifoOf, BusyOf, Busy

(* A step that touches none of these leaves all contents alone. *)
LEMMA ContentsFrame ==
  ASSUME UNCHANGED <<nof, qout, slot, taken>>
  PROVE  \A s \in Segment : Contents(s)' = Contents(s)
  BY DEF Contents, Size

(* The two mapped functions change at one place. *)
LEMMA FifoChange ==
  ASSUME NEW r \in Segment, NEW v, Contents(r)' = v,
         \A s \in Segment \ {r} : Contents(s)' = Contents(s)
  PROVE  FifoOf' = [FifoOf EXCEPT ![r] = v]
<1>1. FifoOf' = [s \in Segment |-> Contents(s)']
  BY DEF FifoOf
<1>2. [FifoOf EXCEPT ![r] = v] =
        [s \in Segment |-> IF s = r THEN v ELSE Contents(s)]
  BY DEF FifoOf
<1>3. \A s \in Segment : Contents(s)' = IF s = r THEN v ELSE Contents(s)
  OBVIOUS
<1>. QED  BY <1>1, <1>2, <1>3

(* The state of one call changes at one place. *)
LEMMA BusyChange ==
  ASSUME NEW c \in Clients, NEW p, cpc \in [Clients -> CpcSet],
         cpc' = [cpc EXCEPT ![c] = p]
  PROVE  BusyOf' = [BusyOf EXCEPT ![c] = p \in Busy]
<1>1. BusyOf' = [d \in Clients |-> cpc'[d] \in Busy]
  BY DEF BusyOf
<1>2. \A d \in Clients : cpc'[d] = IF d = c THEN p ELSE cpc[d]
  OBVIOUS
<1>3. [BusyOf EXCEPT ![c] = p \in Busy] =
        [d \in Clients |-> IF d = c THEN p \in Busy ELSE cpc[d] \in Busy]
  BY Zenon DEF BusyOf
<1>4. \A d \in Clients :
        (cpc'[d] \in Busy) = IF d = c THEN p \in Busy ELSE cpc[d] \in Busy
  BY <1>2, Zenon
<1>. QED  BY <1>1, <1>3, <1>4, Zenon

(* Add gives its message up, or is killed before it is counted. *)
LEMMA DropStep ==
  ASSUME NEW c \in Clients, cpc \in [Clients -> CpcSet], cpc[c] \in Busy,
         \A s \in Segment : Contents(s)' = Contents(s),
         UNCHANGED <<dest, sent>>,
         NEW p, p \notin Busy, cpc' = [cpc EXCEPT ![c] = p]
  PROVE  Fifo!Drop(c)
<1>1. FifoOf' = FifoOf
  BY DEF FifoOf
<1>2. BusyOf' = [BusyOf EXCEPT ![c] = FALSE]
  <2>1. (p \in Busy) = FALSE
    OBVIOUS
  <2>. QED  BY <2>1, BusyChange, Zenon
<1>3. BusyOf[c]
  BY DEF BusyOf
<1>. QED  BY <1>1, <1>2, <1>3 DEF Fifo!Drop, FifoOf, BusyOf, Busy

(* Every step of the queue is a step of ListenFifo or none. *)
LEMMA FifoStep ==
  ASSUME IInv, IInv', [Next]_vars
  PROVE  [Fifo!Next]_(Fifo!vars)
<1> USE DEF names, ring, status, adder, client, master, getter
<1>0. cpc \in [Clients -> CpcSet] /\ sent \in [Clients -> 0..MaxMsg]
  BY DEF IInv, TypeOK
<1>AddCall. ASSUME NEW c \in Clients, AddCall(c) PROVE Fifo!Call(c)
  <2>1. FifoOf' = FifoOf
    BY <1>AddCall, ContentsFrame DEF AddCall, FifoOf
  <2>2. ~BusyOf[c] /\ BusyOf' = [BusyOf EXCEPT ![c] = TRUE]
    BY <1>AddCall, <1>0 DEF AddCall, BusyOf, Busy
  <2>. QED  BY <1>AddCall, <2>1, <2>2
            DEF AddCall, Fifo!Call, FifoOf, BusyOf, Busy
<1>AddOpen. ASSUME NEW c \in Clients, AddOpen(c)
            PROVE  Fifo!Drop(c) \/ UNCHANGED Fifo!vars
  <2>1. CASE name = 0
    <3>1. cpc' = [cpc EXCEPT ![c] = "idle"] /\ cpc[c] \in Busy
          /\ "idle" \notin Busy /\ UNCHANGED <<nof, qout, slot, taken, dest, sent>>
      BY <1>AddOpen, <2>1 DEF AddOpen, Busy
    <3>. QED  BY <1>0, <3>1, ContentsFrame, DropStep
  <2>2. CASE name # 0
    BY <1>AddOpen, <1>0, <2>2, ContentsFrame, Invisible DEF AddOpen, Busy
  <2>. QED  BY <2>1, <2>2
<1>AddCheckStop. ASSUME NEW c \in Clients, AddCheckStop(c)
                 PROVE  Fifo!Drop(c) \/ UNCHANGED Fifo!vars
  <2>1. CASE cstop[c]
    BY <1>AddCheckStop, <1>0, <2>1, ContentsFrame, DropStep
       DEF AddCheckStop, Busy
  <2>2. CASE ~cstop[c]
    BY <1>AddCheckStop, <1>0, <2>2, ContentsFrame, Invisible
       DEF AddCheckStop, Busy
  <2>. QED  BY <2>1, <2>2
<1>Wait. ASSUME NEW c \in Clients,
                AddLock(c) \/ AddFull(c) \/ AddRetry(c) \/ AddAdvance(c)
                  \/ AddPost(c) \/ AddUnlock(c)
         PROVE  UNCHANGED Fifo!vars
  <2>1. UNCHANGED <<nof, qout, slot, taken, dest, sent>>
    BY <1>Wait DEF AddLock, AddFull, AddRetry, AddAdvance, AddPost, AddUnlock
  <2>2. \A d \in Clients : (cpc'[d] \in Busy) <=> (cpc[d] \in Busy)
    BY <1>Wait, <1>0
       DEF AddLock, AddFull, AddRetry, AddAdvance, AddPost, AddUnlock, Busy
  <2>. QED  BY <2>1, <2>2, ContentsFrame, Invisible
<1>AddStore. ASSUME NEW c \in Clients, AddStore(c) PROVE UNCHANGED Fifo!vars
  BY <1>AddStore, <1>0, StoreInvisible, Invisible DEF AddStore, Busy
<1>AddCount. ASSUME NEW c \in Clients, AddCount(c)
             PROVE  \E s \in Segment : Fifo!Put(c, s)
  <2>0. PICK r \in Segment : r = cseg[c]
    BY <1>AddCount, CountAppends
  <2>1. r \in Segment /\ Len(Contents(r)) < Capacity
    BY <1>AddCount, <2>0, CountAppends
  <2>2. FifoOf' = [FifoOf EXCEPT ![r] = Append(@, <<c, sent[c]>>)]
    <3>1. FifoOf[r] = Contents(r)
      BY <2>1 DEF FifoOf
    <3>2. FifoOf' = [FifoOf EXCEPT ![r] = Append(Contents(r), <<c, sent[c]>>)]
      <4>1. cseg' = cseg
        BY <1>AddCount DEF AddCount
      <4>2. /\ Contents(r)' = Append(Contents(r), <<c, sent[c]>>)
            /\ \A s \in Segment \ {r} : Contents(s)' = Contents(s)
        BY <1>AddCount, <2>0, <4>1, CountAppends
      <4>. QED  BY <4>2, FifoChange
    <3>. QED  BY <3>1, <3>2
  <2>3. BusyOf[c] /\ BusyOf' = [BusyOf EXCEPT ![c] = FALSE]
    <3>1. cpc[c] \in Busy /\ cpc' = [cpc EXCEPT ![c] = "post"]
      BY <1>AddCount DEF AddCount, Busy
    <3>2. ("post" \in Busy) = FALSE
      BY DEF Busy
    <3>3. BusyOf' = [BusyOf EXCEPT ![c] = FALSE]
      BY <1>0, <3>1, <3>2, BusyChange, Zenon
    <3>. QED  BY <3>1, <3>3 DEF BusyOf
  <2>4. UNCHANGED <<dest, sent>>
    BY <1>AddCount DEF AddCount
  <2>. QED  BY <2>0, <2>1, <2>2, <2>3, <2>4
            DEF Fifo!Put, FifoOf, BusyOf, Busy
<1>GetCount. ASSUME NEW m \in Masters, GetCount(m) PROVE UNCHANGED Fifo!vars
  <2>1. UNCHANGED <<dest, sent, cpc>>
    BY <1>GetCount DEF GetCount
  <2>. QED  BY <1>GetCount, <2>1, CountInvisible, Invisible
<1>GetTake. ASSUME NEW m \in Masters, GetTake(m)
            PROVE  \E s \in Segment : Fifo!Take(m, s)
  <2>0. PICK r \in Segment : r = mseg[m]
    BY <1>GetTake, TakeRemovesHead
  <2>1. r \in Segment /\ Contents(r) # <<>>
    BY <1>GetTake, <2>0, TakeRemovesHead
  <2>2. FifoOf' = [FifoOf EXCEPT ![r] = Tail(@)]
    <3>1. FifoOf[r] = Contents(r)
      BY <2>1 DEF FifoOf
    <3>2. FifoOf' = [FifoOf EXCEPT ![r] = Tail(Contents(r))]
      <4>1. mseg' = mseg
        BY <1>GetTake DEF GetTake
      <4>2. /\ Contents(r)' = Tail(Contents(r))
            /\ \A s \in Segment \ {r} : Contents(s)' = Contents(s)
        BY <1>GetTake, <2>0, <4>1, TakeRemovesHead
      <4>. QED  BY <4>2, FifoChange
    <3>. QED  BY <3>1, <3>2
  <2>3. dest' = [dest EXCEPT ![m] = Head(Contents(r))]
    BY <1>GetTake, <2>0, TakeRemovesHead
  <2>4. UNCHANGED <<sent, cpc>>
    BY <1>GetTake DEF GetTake
  <2>. QED  BY <2>1, <2>2, <2>3, <2>4 DEF Fifo!Take, FifoOf
<1>CrashClient. ASSUME NEW c \in Clients, CrashClient(c)
                PROVE  Fifo!Drop(c) \/ UNCHANGED Fifo!vars
  <2>1. CASE cpc[c] \in Busy
    BY <1>CrashClient, <1>0, <2>1, ContentsFrame, DropStep
       DEF CrashClient, Busy
  <2>2. CASE cpc[c] \notin Busy
    BY <1>CrashClient, <1>0, <2>2, ContentsFrame, Invisible
       DEF CrashClient, Busy
  <2>. QED  BY <2>1, <2>2
<1>Quiet. ASSUME \/ \E c \in Clients :
                      \/ CheckQueue(c) \/ EndTask(c) \/ SetClientLevel(c)
                      \/ StopClient(c) \/ StopClientAgain(c)
                 \/ \E m \in Masters :
                      \/ GetBlocking(m) \/ GetToken(m) \/ GetCheck(m)
                      \/ GetLock(m) \/ GetUnlock(m) \/ ConstructMaster(m)
                      \/ SetActive(m) \/ SetLogLevel(m) \/ StopMaster(m)
                      \/ DestroyMaster(m) \/ CrashMaster(m)
                 \/ UNCHANGED vars
          PROVE  UNCHANGED Fifo!vars
  <2>1. UNCHANGED <<nof, qout, slot, taken, dest, sent, cpc>>
    BY <1>Quiet DEF vars, CheckQueue, EndTask, SetClientLevel, StopClient,
       StopClientAgain, GetBlocking, GetToken, GetCheck, GetLock,
       GetUnlock, ConstructMaster, SetActive, SetLogLevel, StopMaster,
       DestroyMaster, CrashMaster
  <2>. QED  BY <2>1, ContentsFrame, Invisible
<1>. QED
  BY <1>AddCall, <1>AddOpen, <1>AddCheckStop, <1>Wait, <1>AddStore,
     <1>AddCount, <1>GetCount, <1>GetTake, <1>CrashClient, <1>Quiet
     DEF Next, ClientStep, MasterStep, Add, Get, Fifo!Next, Segment

(* The shared-memory queue implements ListenFifo: no message is lost from  *)
(* the ring, overwritten, duplicated or taken out of order by any          *)
(* interleaving of Add, Get, Stop, restarts and crashes.                   *)
THEOREM ImplementsFifo == Spec => FifoSpec
<1>1. Init => Fifo!Init
  <2> SUFFICES ASSUME Init PROVE Fifo!Init
    OBVIOUS
  <2>1. \A s \in Segment : Contents(s) = <<>>
    BY DEF Init, Contents, Size
  <2>2. FifoOf = [s \in 1..MaxSegment |-> <<>>]
    BY <2>1 DEF FifoOf, Segment
  <2>3. BusyOf = [c \in Clients |-> FALSE]
    <3>1. \A c \in Clients : (cpc[c] \in Busy) = FALSE
      BY DEF Init, Busy
    <3>. QED  BY <3>1 DEF BusyOf
  <2>. QED  BY <2>2, <2>3 DEF Init, Fifo!Init, FifoOf, BusyOf, Busy
<1>2. IInv /\ IInv' /\ [Next]_vars => [Fifo!Next]_(Fifo!vars)
  BY FifoStep
<1>. QED  BY <1>1, <1>2, Invariance, PTL DEF Spec, FifoSpec, Fifo!Spec

=============================================================================
