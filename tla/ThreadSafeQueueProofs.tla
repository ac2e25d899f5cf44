------------------------ MODULE ThreadSafeQueueProofs ------------------------
(***************************************************************************)
(* Proofs about ThreadSafeQueue, for any threads and any number of calls:  *)
(*   QueueTypeCorrect   the type invariant                                 *)
(*   NeverAllAsleep     NotAllAsleep, with every call of the owner         *)
(*   WakeupsAlwaysSuffice  WakeupsSuffice, until the queue is stopped      *)
(***************************************************************************)
EXTENDS ThreadSafeQueue, FiniteSetTheorems, SequenceTheorems, TLAPS

GetStates == {"idle", "lock", "try", "decided", "waiting", "woken"}

(* A thread between its test and its sleep has the mutex, so that what it  *)
(* saw is still true: the queue is empty.                                  *)
DecidedInv ==
  \A g \in Getters : gpc[g] = "decided" => lock = g /\ queue = <<>>

(* The item in the hand of Put has a number. *)
PutInv == \A p \in Putters : ppc[p] = "push" => puts[p] # 0

IInv ==
  /\ TypeOK
  /\ DecidedInv
  /\ PutInv
  /\ NotAllAsleep

-----------------------------------------------------------------------------
(* A notification wakes one sleeper or nobody; nobody else moves. *)
LEMMA NotifyWakes ==
  ASSUME TypeOK, NotifyOne
  PROVE  /\ gpc' \in [Getters -> GetStates]
         /\ Waiting' \subseteq Waiting
         /\ Woken \subseteq Woken'
         /\ \A g \in Getters : gpc'[g] = "decided" => gpc[g] = "decided"
         /\ Waiting # {} => \E g \in Waiting :
               Woken' = Woken \cup {g} /\ g \notin Waiting' /\ g \notin Woken
<1>. USE DEF TypeOK, GetStates
<1>1. CASE Waiting = {}
  BY <1>1 DEF NotifyOne, Waiting, Woken
<1>2. CASE Waiting # {}
  <2>1. PICK g \in Waiting : gpc' = [gpc EXCEPT ![g] = "woken"]
    BY <1>2 DEF NotifyOne
  <2>2. g \in Getters /\ gpc[g] = "waiting"
    BY <2>1 DEF Waiting
  <2>. QED  BY <2>1, <2>2 DEF Waiting, Woken
<1>. QED  BY <1>1, <1>2

(* What a Get does to the queue and to its result. *)
LEMMA TakeOrRefuse ==
  ASSUME TypeOK, NEW g \in Getters, Take(g) \/ Refuse(g)
  PROVE  /\ queue' \in Seq(Item)
         /\ dest' \in [Getters -> Item \cup {NoItem}]
         /\ Len(queue') <= Len(queue)
         /\ queue = <<>> => queue' = <<>>
<1>1. CASE Take(g)
  <2>1. queue \in Seq(Item) /\ queue # <<>>
    BY <1>1 DEF TypeOK, Take
  <2>2. Head(queue) \in Item /\ Tail(queue) \in Seq(Item)
        /\ Len(Tail(queue)) = Len(queue) - 1 /\ Len(queue) \in Nat
    BY <2>1, HeadTailProperties, LenProperties
  <2>. QED  BY <1>1, <2>1, <2>2 DEF TypeOK, Take
<1>2. CASE Refuse(g)
  <2>1. Len(queue) \in Nat
    BY LenProperties DEF TypeOK
  <2>. QED  BY <1>2, <2>1 DEF TypeOK, Refuse
<1>. QED  BY <1>1, <1>2

(* What one turn of Clear does to the queue. *)
LEMMA PopFacts ==
  ASSUME TypeOK, ClearPop
  PROVE  /\ queue' \in Seq(Item)
         /\ Len(queue') <= Len(queue)
         /\ queue = <<>> => queue' = <<>>
<1>1. queue \in Seq(Item) /\ Len(queue) \in Nat
  BY LenProperties DEF TypeOK
<1>2. CASE queue = <<>> \/ stop
  BY <1>1, <1>2 DEF ClearPop
<1>3. CASE ~(queue = <<>> \/ stop)
  <2>1. Tail(queue) \in Seq(Item) /\ Len(Tail(queue)) = Len(queue) - 1
    BY <1>1, <1>3, HeadTailProperties
  <2>. QED  BY <1>1, <1>3, <2>1 DEF ClearPop
<1>. QED  BY <1>2, <1>3

(* What Put does to the queue. *)
LEMMA PushFacts ==
  ASSUME TypeOK, NEW p \in Putters, puts[p] # 0, PutPush(p)
  PROVE  /\ queue' \in Seq(Item)
         /\ Len(queue') = Len(queue) + 1
         /\ queue' # <<>>
<1>1. queue \in Seq(Item) /\ puts[p] \in 1..MaxPut
  BY ThreadSafeQueueAssumption DEF TypeOK
<1>2. <<p, puts[p]>> \in Item
  BY <1>1 DEF Item
<1>3. queue' = Append(queue, <<p, puts[p]>>)
  BY DEF PutPush
<1>. QED  BY <1>1, <1>2, <1>3, AppendProperties

-----------------------------------------------------------------------------
(* Initially nobody is in a call and the queue is empty. *)
LEMMA InitInv == Init => IInv
<1> SUFFICES ASSUME Init PROVE IInv
  OBVIOUS
<1>1. TypeOK
  <2>1. queue \in Seq(Item)
    BY EmptySeq DEF Init
  <2>2. 0 \in 0..MaxPut /\ 0 \in 0..MaxCall
    BY ThreadSafeQueueAssumption
  <2>. QED  BY <2>1, <2>2 DEF Init, TypeOK
<1>2. DecidedInv /\ PutInv /\ NotAllAsleep
  BY DEF Init, DecidedInv, PutInv, NotAllAsleep
<1>. QED  BY <1>1, <1>2 DEF IInv

(* Every step keeps the types. *)
LEMMA TypeStep == IInv /\ [Next]_vars => TypeOK'
<1> SUFFICES ASSUME IInv, [Next]_vars PROVE TypeOK'
  OBVIOUS
<1>Type. TypeOK /\ PutInv
  BY DEF IInv
<1> USE DEF putter, getter, owner
<1>PutCall. ASSUME NEW p \in Putters, PutCall(p) PROVE TypeOK'
  <2>1. puts[p] + 1 \in 0..MaxPut
    BY <1>PutCall, <1>Type, ThreadSafeQueueAssumption DEF PutCall, TypeOK
  <2>. QED  BY <1>PutCall, <1>Type, <2>1 DEF PutCall, TypeOK
<1>PutPush. ASSUME NEW p \in Putters, PutPush(p) PROVE TypeOK'
  <2>1. queue' \in Seq(Item)
    BY <1>PutPush, <1>Type, PushFacts DEF PutPush, PutInv
  <2>2. gpc' \in [Getters -> GetStates]
    BY <1>PutPush, <1>Type, NotifyWakes DEF PutPush
  <2>. QED  BY <1>PutPush, <1>Type, <2>1, <2>2 DEF PutPush, TypeOK, GetStates
<1>GetCall. ASSUME NEW g \in Getters, GetCall(g) PROVE TypeOK'
  BY <1>GetCall, <1>Type DEF GetCall, TypeOK
<1>GetTry. ASSUME NEW g \in Getters, GetTry(g) PROVE TypeOK'
  <2>1. queue' \in Seq(Item) /\ dest' \in [Getters -> Item \cup {NoItem}]
    BY <1>GetTry, <1>Type, TakeOrRefuse DEF GetTry
  <2>. QED  BY <1>GetTry, <1>Type, <2>1 DEF GetTry, TypeOK
<1>GetReady. ASSUME NEW g \in Getters, GetReady(g) PROVE TypeOK'
  <2>1. queue' \in Seq(Item) /\ dest' \in [Getters -> Item \cup {NoItem}]
    BY <1>GetReady, <1>Type, TakeOrRefuse DEF GetReady
  <2>. QED  BY <1>GetReady, <1>Type, <2>1 DEF GetReady, TypeOK
<1>GetDecide. ASSUME NEW g \in Getters, GetDecide(g) PROVE TypeOK'
  BY <1>GetDecide, <1>Type DEF GetDecide, TypeOK
<1>GetSleep. ASSUME NEW g \in Getters, GetSleep(g) PROVE TypeOK'
  BY <1>GetSleep, <1>Type DEF GetSleep, TypeOK
<1>GetSpurious. ASSUME NEW g \in Getters, GetSpurious(g) PROVE TypeOK'
  BY <1>GetSpurious, <1>Type DEF GetSpurious, TypeOK
<1>StopCall. ASSUME StopCall PROVE TypeOK'
  <2>1. calls + 1 \in 0..MaxCall
    BY <1>StopCall, <1>Type, ThreadSafeQueueAssumption DEF StopCall, Call, TypeOK
  <2>. QED  BY <1>StopCall, <1>Type, <2>1 DEF StopCall, Call, TypeOK
<1>StartCall. ASSUME StartCall PROVE TypeOK'
  <2>1. calls + 1 \in 0..MaxCall
    BY <1>StartCall, <1>Type, ThreadSafeQueueAssumption DEF StartCall, Call, TypeOK
  <2>. QED  BY <1>StartCall, <1>Type, <2>1 DEF StartCall, Call, TypeOK
<1>StartEmpty. ASSUME StartEmpty PROVE TypeOK'
  BY <1>StartEmpty, <1>Type DEF StartEmpty, TypeOK
<1>ClearCall. ASSUME ClearCall PROVE TypeOK'
  <2>1. calls + 1 \in 0..MaxCall
    BY <1>ClearCall, <1>Type, ThreadSafeQueueAssumption DEF ClearCall, Call, TypeOK
  <2>. QED  BY <1>ClearCall, <1>Type, <2>1 DEF ClearCall, Call, TypeOK
<1>ClearTest. ASSUME ClearTest PROVE TypeOK'
  BY <1>ClearTest, <1>Type DEF ClearTest, TypeOK
<1>DeleteCall. ASSUME DeleteCall PROVE TypeOK'
  <2>1. calls + 1 \in 0..MaxCall
    BY <1>DeleteCall, <1>Type, ThreadSafeQueueAssumption DEF DeleteCall, Call, TypeOK
  <2>. QED  BY <1>DeleteCall, <1>Type, <2>1 DEF DeleteCall, Call, TypeOK
<1>Notify. ASSUME NEW from, NEW to \in {"idle", "deleteLock"}, Notify(from, to) PROVE TypeOK'
  <2>1. gpc' \in [Getters -> GetStates]
    BY <1>Notify, <1>Type, NotifyWakes DEF Notify
  <2>. QED  BY <1>Notify, <1>Type, <2>1 DEF Notify, TypeOK, GetStates
<1>ClearPop. ASSUME ClearPop PROVE TypeOK'
  <2>1. queue' \in Seq(Item)
    BY <1>ClearPop, <1>Type, PopFacts
  <2>. QED  BY <1>ClearPop, <1>Type, <2>1 DEF ClearPop, TypeOK
<1>DeleteEmpty. ASSUME DeleteEmpty PROVE TypeOK'
  <2>1. <<>> \in Seq(Item)
    BY EmptySeq
  <2>. QED  BY <1>DeleteEmpty, <1>Type, <2>1 DEF DeleteEmpty, TypeOK
<1>Stutter. ASSUME UNCHANGED vars PROVE TypeOK'
  BY <1>Stutter, <1>Type DEF vars, TypeOK
<1>. QED
  BY <1>PutCall, <1>PutPush, <1>GetCall, <1>GetTry, <1>GetReady, <1>GetDecide,
     <1>GetSleep, <1>GetSpurious, <1>StopCall, <1>StartCall, <1>StartEmpty,
     <1>ClearCall, <1>ClearTest, <1>DeleteCall, <1>Notify, <1>ClearPop,
     <1>DeleteEmpty, <1>Stutter
  DEF Next, Get, Owner, StopNotify, StartNotify, DeleteNotify

(* A thread falls asleep, and decides to, only while the mutex keeps the    *)
(* queue empty.                                                            *)
LEMMA DecidedStep == IInv /\ [Next]_vars => DecidedInv' /\ PutInv'
<1> SUFFICES ASSUME IInv, [Next]_vars PROVE DecidedInv' /\ PutInv'
  OBVIOUS
<1>Inv. TypeOK /\ DecidedInv /\ PutInv
  BY DEF IInv
<1>Free. lock = Free => \A g \in Getters : gpc[g] # "decided"
  BY <1>Inv, ThreadSafeQueueAssumption DEF DecidedInv
<1> USE DEF putter, getter, owner, DecidedInv, PutInv
<1>PutCall. ASSUME NEW p \in Putters, PutCall(p) PROVE DecidedInv' /\ PutInv'
  <2>1. puts[p] \in Nat
    BY <1>Inv, ThreadSafeQueueAssumption DEF TypeOK
  <2>. QED  BY <1>PutCall, <1>Inv, <2>1 DEF PutCall, TypeOK
<1>PutPush. ASSUME NEW p \in Putters, PutPush(p) PROVE DecidedInv' /\ PutInv'
  <2>1. \A g \in Getters : gpc'[g] # "decided"
    BY <1>PutPush, <1>Inv, <1>Free, NotifyWakes DEF PutPush
  <2>. QED  BY <1>PutPush, <1>Inv, <2>1 DEF PutPush, TypeOK
<1>GetCall. ASSUME NEW g \in Getters, GetCall(g) PROVE DecidedInv' /\ PutInv'
  BY <1>GetCall, <1>Inv, <1>Free DEF GetCall, TypeOK
<1>GetTry. ASSUME NEW g \in Getters, GetTry(g) PROVE DecidedInv' /\ PutInv'
  BY <1>GetTry, <1>Inv, <1>Free DEF GetTry, TypeOK
<1>GetReady. ASSUME NEW g \in Getters, GetReady(g) PROVE DecidedInv' /\ PutInv'
  BY <1>GetReady, <1>Inv, <1>Free DEF GetReady, TypeOK
<1>GetDecide. ASSUME NEW g \in Getters, GetDecide(g) PROVE DecidedInv' /\ PutInv'
  BY <1>GetDecide, <1>Inv, <1>Free DEF GetDecide, TypeOK
<1>GetSleep. ASSUME NEW g \in Getters, GetSleep(g) PROVE DecidedInv' /\ PutInv'
  BY <1>GetSleep, <1>Inv, <1>Free DEF GetSleep, TypeOK
<1>GetSpurious. ASSUME NEW g \in Getters, GetSpurious(g) PROVE DecidedInv' /\ PutInv'
  BY <1>GetSpurious, <1>Inv, <1>Free DEF GetSpurious, TypeOK
<1>StopCall. ASSUME StopCall PROVE DecidedInv' /\ PutInv'
  BY <1>StopCall, <1>Inv, <1>Free DEF StopCall, TypeOK, Call
<1>StartCall. ASSUME StartCall PROVE DecidedInv' /\ PutInv'
  BY <1>StartCall, <1>Inv, <1>Free DEF StartCall, TypeOK, Call
<1>StartEmpty. ASSUME StartEmpty PROVE DecidedInv' /\ PutInv'
  BY <1>StartEmpty, <1>Inv, <1>Free DEF StartEmpty, TypeOK
<1>ClearCall. ASSUME ClearCall PROVE DecidedInv' /\ PutInv'
  BY <1>ClearCall, <1>Inv, <1>Free DEF ClearCall, TypeOK, Call
<1>ClearTest. ASSUME ClearTest PROVE DecidedInv' /\ PutInv'
  BY <1>ClearTest, <1>Inv, <1>Free DEF ClearTest, TypeOK
<1>DeleteCall. ASSUME DeleteCall PROVE DecidedInv' /\ PutInv'
  BY <1>DeleteCall, <1>Inv, <1>Free DEF DeleteCall, TypeOK, Call
<1>Notify. ASSUME NEW from, NEW to \in {"idle", "deleteLock"}, Notify(from, to) PROVE DecidedInv' /\ PutInv'
  <2>1. \A g \in Getters : gpc'[g] = "decided" => gpc[g] = "decided"
    BY <1>Notify, <1>Inv, NotifyWakes DEF Notify
  <2>. QED  BY <1>Notify, <1>Inv, <2>1 DEF Notify
<1>ClearPop. ASSUME ClearPop PROVE DecidedInv' /\ PutInv'
  BY <1>ClearPop, <1>Inv, <1>Free DEF ClearPop
<1>DeleteEmpty. ASSUME DeleteEmpty PROVE DecidedInv' /\ PutInv'
  BY <1>DeleteEmpty, <1>Inv, <1>Free DEF DeleteEmpty, TypeOK
<1>Stutter. ASSUME UNCHANGED vars PROVE DecidedInv' /\ PutInv'
  BY <1>Stutter, <1>Inv DEF vars
<1>. QED
  BY <1>PutCall, <1>PutPush, <1>GetCall, <1>GetTry, <1>GetReady, <1>GetDecide,
     <1>GetSleep, <1>GetSpurious, <1>StopCall, <1>StartCall, <1>StartEmpty,
     <1>ClearCall, <1>ClearTest, <1>DeleteCall, <1>Notify, <1>ClearPop,
     <1>DeleteEmpty, <1>Stutter
  DEF Next, Get, Owner, StopNotify, StartNotify, DeleteNotify

(* When the queue has an item somebody is awake: the one Put notified, or  *)
(* one who was awake before; to fall asleep needs an empty queue.          *)
LEMMA AsleepStep == IInv /\ [Next]_vars => NotAllAsleep'
<1> SUFFICES ASSUME IInv, [Next]_vars PROVE NotAllAsleep'
  OBVIOUS
<1>Inv. TypeOK /\ DecidedInv /\ PutInv /\ NotAllAsleep
  BY DEF IInv
<1>Awake. ASSUME NEW g \in Getters, gpc'[g] # "waiting" PROVE NotAllAsleep'
  BY <1>Awake DEF NotAllAsleep, Waiting
<1>Frame. ASSUME Waiting' \subseteq Waiting, queue = <<>> => queue' = <<>>
          PROVE  NotAllAsleep'
  <2>1. Waiting \subseteq Getters
    BY DEF Waiting
  <2>. QED  BY <1>Frame, <1>Inv, <2>1 DEF NotAllAsleep
<1> USE DEF putter, getter, owner
<1>PutCall. ASSUME NEW p \in Putters, PutCall(p) PROVE NotAllAsleep'
  BY <1>PutCall, <1>Frame DEF PutCall, Waiting
<1>PutPush. ASSUME NEW p \in Putters, PutPush(p) PROVE NotAllAsleep'
  <2>1. CASE Waiting = {}
    <3>1. Waiting' = {}
      BY <1>PutPush, <1>Inv, <2>1, NotifyWakes DEF PutPush
    <3>. QED  BY <3>1, ThreadSafeQueueAssumption DEF NotAllAsleep
  <2>2. CASE Waiting # {}
    <3>1. PICK g \in Waiting : g \notin Waiting'
      BY <1>PutPush, <1>Inv, <2>2, NotifyWakes DEF PutPush
    <3>2. g \in Getters
      BY <3>1 DEF Waiting
    <3>. QED  BY <3>1, <3>2 DEF NotAllAsleep
  <2>. QED  BY <2>1, <2>2
<1>GetCall. ASSUME NEW g \in Getters, GetCall(g) PROVE NotAllAsleep'
  BY <1>GetCall, <1>Inv, <1>Awake DEF GetCall, TypeOK
<1>GetTry. ASSUME NEW g \in Getters, GetTry(g) PROVE NotAllAsleep'
  BY <1>GetTry, <1>Inv, <1>Awake DEF GetTry, TypeOK
<1>GetReady. ASSUME NEW g \in Getters, GetReady(g) PROVE NotAllAsleep'
  BY <1>GetReady, <1>Inv, <1>Awake DEF GetReady, TypeOK
<1>GetDecide. ASSUME NEW g \in Getters, GetDecide(g) PROVE NotAllAsleep'
  BY <1>GetDecide, <1>Inv, <1>Awake DEF GetDecide, TypeOK
<1>GetSleep. ASSUME NEW g \in Getters, GetSleep(g) PROVE NotAllAsleep'
  <2>1. queue' = <<>>
    BY <1>GetSleep, <1>Inv DEF GetSleep, DecidedInv
  <2>. QED  BY <2>1 DEF NotAllAsleep
<1>GetSpurious. ASSUME NEW g \in Getters, GetSpurious(g) PROVE NotAllAsleep'
  BY <1>GetSpurious, <1>Inv, <1>Awake DEF GetSpurious, TypeOK
<1>StopCall. ASSUME StopCall PROVE NotAllAsleep'
  BY <1>StopCall, <1>Frame DEF StopCall, Call, Waiting
<1>StartCall. ASSUME StartCall PROVE NotAllAsleep'
  BY <1>StartCall, <1>Frame DEF StartCall, Call, Waiting
<1>StartEmpty. ASSUME StartEmpty PROVE NotAllAsleep'
  BY <1>StartEmpty, <1>Frame DEF StartEmpty, Waiting
<1>ClearCall. ASSUME ClearCall PROVE NotAllAsleep'
  BY <1>ClearCall, <1>Frame DEF ClearCall, Call, Waiting
<1>ClearTest. ASSUME ClearTest PROVE NotAllAsleep'
  BY <1>ClearTest, <1>Frame DEF ClearTest, Waiting
<1>DeleteCall. ASSUME DeleteCall PROVE NotAllAsleep'
  BY <1>DeleteCall, <1>Frame DEF DeleteCall, Call, Waiting
<1>Notify. ASSUME NEW from, NEW to \in {"idle", "deleteLock"}, Notify(from, to) PROVE NotAllAsleep'
  <2>1. Waiting' \subseteq Waiting
    BY <1>Notify, <1>Inv, NotifyWakes DEF Notify
  <2>. QED  BY <1>Notify, <1>Frame, <2>1 DEF Notify
<1>ClearPop. ASSUME ClearPop PROVE NotAllAsleep'
  <2>1. queue = <<>> => queue' = <<>>
    BY <1>ClearPop, <1>Inv, PopFacts
  <2>. QED  BY <1>ClearPop, <1>Frame, <2>1 DEF ClearPop, Waiting
<1>DeleteEmpty. ASSUME DeleteEmpty PROVE NotAllAsleep'
  BY <1>DeleteEmpty DEF DeleteEmpty, NotAllAsleep
<1>Stutter. ASSUME UNCHANGED vars PROVE NotAllAsleep'
  BY <1>Stutter, <1>Frame DEF vars, Waiting
<1>. QED
  BY <1>PutCall, <1>PutPush, <1>GetCall, <1>GetTry, <1>GetReady, <1>GetDecide,
     <1>GetSleep, <1>GetSpurious, <1>StopCall, <1>StartCall, <1>StartEmpty,
     <1>ClearCall, <1>ClearTest, <1>DeleteCall, <1>Notify, <1>ClearPop,
     <1>DeleteEmpty, <1>Stutter
  DEF Next, Get, Owner, StopNotify, StartNotify, DeleteNotify

(* The inductive invariant holds in every reachable state. *)
LEMMA Invariance == Spec => []IInv
<1>1. IInv /\ [Next]_vars => IInv'
  BY TypeStep, DecidedStep, AsleepStep DEF IInv
<1>. QED  BY InitInv, <1>1, PTL DEF Spec

(* The type invariant of the queue, its threads and its owner. *)
THEOREM QueueTypeCorrect == Spec => []TypeOK
<1>1. IInv => TypeOK
  BY DEF IInv
<1>. QED  BY Invariance, <1>1, PTL

(* The threads inside Get never all sleep on a queue with an item, with    *)
(* Stop, Start, Clear and the destructor called in any order.              *)
THEOREM NeverAllAsleep == Spec => []NotAllAsleep
<1>1. IInv => NotAllAsleep
  BY DEF IInv
<1>. QED  BY Invariance, <1>1, PTL

-----------------------------------------------------------------------------
(* Until the queue is stopped or deleted enough threads are awake. *)

Running == ~stop /\ opc \in {"idle", "startEmpty", "startNotify", "clear",
                             "clearLock"}

(* Nobody falls asleep, the queue does not grow, those awake stay awake. *)
LEMMA WakeupsFrame ==
  ASSUME TypeOK, EnoughAwake, queue' \in Seq(Item),
         Waiting' \subseteq Waiting, Woken \subseteq Woken',
         Len(queue') <= Len(queue)
  PROVE  EnoughAwake'
<1>1. Woken' \subseteq Getters /\ IsFiniteSet(Getters)
  BY ThreadSafeQueueAssumption DEF Woken
<1>2. /\ IsFiniteSet(Woken')
      /\ Cardinality(Woken') \in Nat
      /\ Cardinality(Woken) \in Nat
      /\ Cardinality(Woken) <= Cardinality(Woken')
  BY <1>1, FS_Subset, FS_CardinalityType
<1>3. Len(queue) \in Nat /\ Len(queue') \in Nat
  BY LenProperties DEF TypeOK
<1>. QED  BY <1>2, <1>3 DEF EnoughAwake

(* With an empty queue there is nobody to wake. *)
LEMMA WakeupsEmpty ==
  ASSUME queue' = <<>>
  PROVE  EnoughAwake'
<1>1. Woken' \subseteq Getters /\ IsFiniteSet(Getters)
  BY ThreadSafeQueueAssumption DEF Woken
<1>2. Cardinality(Woken') \in Nat
  BY <1>1, FS_Subset, FS_CardinalityType
<1>3. Len(<<>>) = 0
  BY EmptySeq
<1>. QED  BY <1>2, <1>3 DEF EnoughAwake

(* The item that comes in wakes a thread of its own. *)
LEMMA WakeupsPush ==
  ASSUME IInv, EnoughAwake, NEW p \in Putters, PutPush(p)
  PROVE  EnoughAwake'
<1>1. TypeOK /\ NotifyOne /\ puts[p] # 0
  BY DEF IInv, PutPush, PutInv
<1>2. Len(queue) \in Nat /\ Len(queue') = Len(queue) + 1
  BY <1>1, PushFacts, LenProperties DEF TypeOK
<1>3. CASE Waiting = {}
  BY <1>1, <1>3, NotifyWakes DEF EnoughAwake
<1>4. CASE Waiting # {}
  <2>1. PICK g \in Waiting : Woken' = Woken \cup {g} /\ g \notin Woken
    BY <1>1, <1>4, NotifyWakes
  <2>2. IsFiniteSet(Woken)
    BY ThreadSafeQueueAssumption, FS_Subset DEF Woken
  <2>3. Cardinality(Woken') = Cardinality(Woken) + 1
        /\ Cardinality(Woken) \in Nat
    BY <2>1, <2>2, FS_AddElement, FS_CardinalityType
  <2>. QED  BY <1>2, <1>4, <2>3 DEF EnoughAwake
<1>. QED  BY <1>3, <1>4

(* The thread that was awake for an item fetches one. *)
LEMMA WakeupsFetch ==
  ASSUME TypeOK, EnoughAwake, ~stop, NEW g \in Getters, GetReady(g)
  PROVE  EnoughAwake'
<1>1. queue \in Seq(Item) /\ queue # <<>> /\ queue' = Tail(queue)
  BY DEF TypeOK, GetReady, Take, Refuse
<1>2. Len(queue) \in Nat /\ Len(queue') = Len(queue) - 1
  BY <1>1, HeadTailProperties, LenProperties
<1>3. Waiting' = Waiting /\ Woken' = Woken \ {g}
  BY DEF TypeOK, GetReady, Waiting, Woken
<1>4. IsFiniteSet(Woken) /\ Cardinality(Woken) \in Nat
  BY ThreadSafeQueueAssumption, FS_Subset, FS_CardinalityType DEF Woken
<1>5. Cardinality(Woken') \in {Cardinality(Woken), Cardinality(Woken) - 1}
  BY <1>3, <1>4, FS_RemoveElement
<1>. QED  BY <1>2, <1>3, <1>4, <1>5 DEF EnoughAwake

(* Every step of a queue that runs keeps the wake-ups. *)
LEMMA WakeupsStep ==
  ASSUME IInv, Running, EnoughAwake, [Next]_vars, ~halted'
  PROVE  Running' /\ EnoughAwake'
<1>Inv. TypeOK /\ DecidedInv
  BY DEF IInv
<1>Type. TypeOK'
  BY TypeStep
<1>Len. Len(queue) \in Nat /\ queue' \in Seq(Item)
  BY <1>Inv, <1>Type, LenProperties DEF TypeOK
<1> USE DEF putter, getter, owner, Running
<1>PutCall. ASSUME NEW p \in Putters, PutCall(p) PROVE Running' /\ EnoughAwake'
  <2>1. Waiting' \subseteq Waiting /\ Woken \subseteq Woken' /\ queue' = queue
    BY <1>PutCall, <1>Inv DEF PutCall, TypeOK, Waiting, Woken
  <2>2. Running'
    BY <1>PutCall DEF PutCall
  <2>. QED  BY <1>Inv, <1>Len, <2>1, <2>2, WakeupsFrame
<1>PutPush. ASSUME NEW p \in Putters, PutPush(p) PROVE Running' /\ EnoughAwake'
  BY <1>PutPush, WakeupsPush DEF PutPush
<1>GetCall. ASSUME NEW g \in Getters, GetCall(g) PROVE Running' /\ EnoughAwake'
  <2>1. Waiting' \subseteq Waiting /\ Woken \subseteq Woken' /\ queue' = queue
    BY <1>GetCall, <1>Inv DEF GetCall, TypeOK, Waiting, Woken
  <2>2. Running'
    BY <1>GetCall DEF GetCall
  <2>. QED  BY <1>Inv, <1>Len, <2>1, <2>2, WakeupsFrame
<1>GetTry. ASSUME NEW g \in Getters, GetTry(g) PROVE Running' /\ EnoughAwake'
  <2>1. Waiting' \subseteq Waiting /\ Woken \subseteq Woken'
    BY <1>GetTry, <1>Inv DEF GetTry, TypeOK, Waiting, Woken
  <2>2. Len(queue') <= Len(queue)
    BY <1>GetTry, <1>Inv, TakeOrRefuse DEF GetTry
  <2>. QED  BY <1>GetTry, <1>Inv, <1>Len, <2>1, <2>2, WakeupsFrame DEF GetTry
<1>GetReady. ASSUME NEW g \in Getters, GetReady(g) PROVE Running' /\ EnoughAwake'
  BY <1>GetReady, <1>Inv, WakeupsFetch DEF GetReady
<1>GetDecide. ASSUME NEW g \in Getters, GetDecide(g) PROVE Running' /\ EnoughAwake'
  BY <1>GetDecide, WakeupsEmpty DEF GetDecide
<1>GetSleep. ASSUME NEW g \in Getters, GetSleep(g) PROVE Running' /\ EnoughAwake'
  <2>1. queue' = <<>>
    BY <1>GetSleep, <1>Inv DEF GetSleep, DecidedInv
  <2>. QED  BY <1>GetSleep, <2>1, WakeupsEmpty DEF GetSleep
<1>GetSpurious. ASSUME NEW g \in Getters, GetSpurious(g) PROVE Running' /\ EnoughAwake'
  <2>1. Waiting' \subseteq Waiting /\ Woken \subseteq Woken' /\ queue' = queue
    BY <1>GetSpurious, <1>Inv DEF GetSpurious, TypeOK, Waiting, Woken
  <2>2. Running'
    BY <1>GetSpurious DEF GetSpurious
  <2>. QED  BY <1>Inv, <1>Len, <2>1, <2>2, WakeupsFrame
<1>StopCall. ASSUME StopCall PROVE Running' /\ EnoughAwake'
  BY <1>StopCall DEF StopCall, Call
<1>StartCall. ASSUME StartCall PROVE Running' /\ EnoughAwake'
  <2>1. Waiting' \subseteq Waiting /\ Woken \subseteq Woken' /\ queue' = queue
    BY <1>StartCall, <1>Inv DEF StartCall, Call, TypeOK, Waiting, Woken
  <2>2. Running'
    BY <1>StartCall DEF StartCall, Call
  <2>. QED  BY <1>Inv, <1>Len, <2>1, <2>2, WakeupsFrame
<1>StartEmpty. ASSUME StartEmpty PROVE Running' /\ EnoughAwake'
  <2>1. Waiting' \subseteq Waiting /\ Woken \subseteq Woken' /\ queue' = queue
    BY <1>StartEmpty, <1>Inv DEF StartEmpty, TypeOK, Waiting, Woken
  <2>2. Running'
    BY <1>StartEmpty DEF StartEmpty
  <2>. QED  BY <1>Inv, <1>Len, <2>1, <2>2, WakeupsFrame
<1>ClearCall. ASSUME ClearCall PROVE Running' /\ EnoughAwake'
  <2>1. Waiting' \subseteq Waiting /\ Woken \subseteq Woken' /\ queue' = queue
    BY <1>ClearCall, <1>Inv DEF ClearCall, Call, TypeOK, Waiting, Woken
  <2>2. Running'
    BY <1>ClearCall DEF ClearCall, Call
  <2>. QED  BY <1>Inv, <1>Len, <2>1, <2>2, WakeupsFrame
<1>ClearTest. ASSUME ClearTest PROVE Running' /\ EnoughAwake'
  <2>1. Waiting' \subseteq Waiting /\ Woken \subseteq Woken' /\ queue' = queue
    BY <1>ClearTest, <1>Inv DEF ClearTest, TypeOK, Waiting, Woken
  <2>2. Running'
    BY <1>ClearTest DEF ClearTest
  <2>. QED  BY <1>Inv, <1>Len, <2>1, <2>2, WakeupsFrame
<1>DeleteCall. ASSUME DeleteCall PROVE Running' /\ EnoughAwake'
  BY <1>DeleteCall DEF DeleteCall, Call
<1>Notify. ASSUME Notify("startNotify", "idle") PROVE Running' /\ EnoughAwake'
  <2>1. Waiting' \subseteq Waiting /\ Woken \subseteq Woken' /\ queue' = queue
    BY <1>Notify, <1>Inv, NotifyWakes DEF Notify
  <2>. QED  BY <1>Notify, <1>Inv, <1>Len, <2>1, WakeupsFrame DEF Notify
<1>ClearPop. ASSUME ClearPop PROVE Running' /\ EnoughAwake'
  <2>1. Waiting' \subseteq Waiting /\ Woken \subseteq Woken'
    BY <1>ClearPop DEF ClearPop, Waiting, Woken
  <2>2. Len(queue') <= Len(queue)
    BY <1>ClearPop, <1>Inv, PopFacts
  <2>3. Running'
    BY <1>ClearPop DEF ClearPop
  <2>. QED  BY <1>Inv, <1>Len, <2>1, <2>2, <2>3, WakeupsFrame
<1>DeleteEmpty. ASSUME DeleteEmpty PROVE Running' /\ EnoughAwake'
  BY <1>DeleteEmpty DEF DeleteEmpty
<1>Stutter. ASSUME UNCHANGED vars PROVE Running' /\ EnoughAwake'
  <2>1. Waiting' \subseteq Waiting /\ Woken \subseteq Woken' /\ queue' = queue
    BY <1>Stutter, <1>Inv DEF vars, TypeOK, Waiting, Woken
  <2>2. Running'
    BY <1>Stutter DEF vars
  <2>. QED  BY <1>Inv, <1>Len, <2>1, <2>2, WakeupsFrame
<1>Stop. ~Notify("stopNotify", "idle") /\ ~Notify("delete", "deleteLock")
  BY DEF Notify
<1>. QED
  BY <1>Stop, <1>PutCall, <1>PutPush, <1>GetCall, <1>GetTry, <1>GetReady, <1>GetDecide,
     <1>GetSleep, <1>GetSpurious, <1>StopCall, <1>StartCall, <1>StartEmpty,
     <1>ClearCall, <1>ClearTest, <1>DeleteCall, <1>Notify, <1>ClearPop,
     <1>DeleteEmpty, <1>Stutter
  DEF Next, Get, Owner, StopNotify, StartNotify, DeleteNotify

(* A stop is remembered. *)
LEMMA HaltedStays == [Next]_vars /\ halted => halted'
  BY DEF Next, vars, owner, PutCall, PutPush, Get, GetCall, GetTry, GetReady,
         GetDecide, GetSleep, GetSpurious, Owner, Call, Notify, StopCall,
         StopNotify, StartCall, StartEmpty, StartNotify, ClearCall, ClearTest,
         ClearPop, DeleteCall, DeleteNotify, DeleteEmpty

(* While somebody sleeps, every item has a thread of its own awake, until  *)
(* somebody calls Stop or deletes the queue.                               *)
THEOREM WakeupsAlwaysSuffice == Spec => []WakeupsSuffice
<1> DEFINE WInv == ~halted => Running /\ EnoughAwake
<1>1. Init => WInv
  BY DEF Init, Running, EnoughAwake, Waiting
<1>2. IInv /\ WInv /\ [Next]_vars => WInv'
  BY WakeupsStep, HaltedStays
<1>3. WInv => WakeupsSuffice
  BY DEF WakeupsSuffice
<1>. QED
  <2> HIDE DEF WInv
  <2>. QED  BY Invariance, <1>1, <1>2, <1>3, PTL DEF Spec
=============================================================================
