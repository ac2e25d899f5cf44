--------------------------- MODULE ThreadSafeQueue ---------------------------
(***************************************************************************)
(* ThreadSafeQueue<T> of src/include/util/threadsafequeue.h: a std::queue  *)
(* with a mutex, a condition variable and an atomic flag stop_ that is set *)
(* and read without the mutex.                                             *)
(*                                                                         *)
(* Put, the two forms of Get and Clear hold the mutex from their test of   *)
(* the queue to the end, so that part is one step.  A Get that finds       *)
(* nothing gives the mutex back only when it falls asleep: between its     *)
(* test and its sleep the flag may change, and the notification of Stop,   *)
(* which needs no mutex, may pass by.                                      *)
(***************************************************************************)
EXTENDS Naturals, Sequences, FiniteSets

CONSTANTS
  Putters,   (* the threads that call Put                                  *)
  Getters,   (* the threads that call Get                                  *)
  Calls,     (* what the owner of the queue calls: see OwnerCalls          *)
  MaxPut,    (* bound: Put calls of one thread                             *)
  MaxCall,   (* bound: calls of the owner                                  *)
  NoItem,    (* the result of a Get that returned false                    *)
  Free       (* the owner of an unlocked mutex                             *)

OwnerCalls == {"start", "stop", "clear", "delete"}

ASSUME ThreadSafeQueueAssumption ==
  /\ IsFiniteSet(Getters)
  /\ Getters # {}
  /\ Calls \subseteq OwnerCalls
  /\ MaxPut \in Nat
  /\ MaxCall \in Nat
  /\ Free \notin Getters

Item == Putters \X (1..MaxPut)

VARIABLES
  queue,   (* queue_: the items, the oldest first                          *)
  stop,    (* stop_                                                        *)
  lock,    (* lock_: the sleeper-to-be that holds it, or Free              *)
  ppc,     (* ppc[p]: where the thread p is in Put                         *)
  puts,    (* puts[p]: the calls of Put, the last one carries <<p, puts>>  *)
  gpc,     (* gpc[g]: where the thread g is in Get                         *)
  dest,    (* dest[g]: what the last Get of g returned                     *)
  opc,     (* where the owner is                                           *)
  calls,   (* the number of calls of the owner                             *)
  halted   (* history: the queue has been stopped or is being deleted      *)

putter == <<ppc, puts>>
getter == <<gpc, dest>>
owner  == <<opc, calls, halted>>
vars   == <<queue, stop, lock, putter, getter, owner>>

Init ==
  /\ queue = <<>>
  /\ stop = FALSE
  /\ lock = Free
  /\ ppc = [p \in Putters |-> "idle"]
  /\ puts = [p \in Putters |-> 0]
  /\ gpc = [g \in Getters |-> "idle"]
  /\ dest = [g \in Getters |-> NoItem]
  /\ opc = "idle"
  /\ calls = 0
  /\ halted = FALSE

Waiting == {g \in Getters : gpc[g] = "waiting"}
Woken   == {g \in Getters : gpc[g] = "woken"}

(* Nobody starts a call of a queue that is being deleted. *)
Alive == opc \notin {"delete", "deleteLock", "deleted"}

(* queue_event_.notify_one(): one of the sleepers, if there is any. *)
NotifyOne ==
  IF Waiting = {}
  THEN UNCHANGED gpc
  ELSE \E g \in Waiting : gpc' = [gpc EXCEPT ![g] = "woken"]

-----------------------------------------------------------------------------
(* Put: the flag is tested without the mutex. *)

PutCall(p) ==
  /\ Alive
  /\ ppc[p] = "idle"
  /\ puts[p] < MaxPut
  /\ puts' = [puts EXCEPT ![p] = @ + 1]
  /\ ppc' = [ppc EXCEPT ![p] = IF stop THEN "idle" ELSE "push"]
  /\ UNCHANGED <<queue, stop, lock, getter, owner>>

(* Fault: the pointer is pushed after its object has been moved away. *)
PutPushEmpty(p) ==
  /\ ppc[p] = "push"
  /\ lock = Free
  /\ queue' = Append(queue, NoItem)
  /\ NotifyOne
  /\ ppc' = [ppc EXCEPT ![p] = "idle"]
  /\ UNCHANGED <<stop, lock, puts, dest, owner>>

(* Fault: the notification is sent for the first item only. *)
PutPushFirst(p) ==
  /\ ppc[p] = "push"
  /\ lock = Free
  /\ queue' = Append(queue, <<p, puts[p]>>)
  /\ IF queue = <<>> THEN NotifyOne ELSE UNCHANGED gpc
  /\ ppc' = [ppc EXCEPT ![p] = "idle"]
  /\ UNCHANGED <<stop, lock, puts, dest, owner>>

PutPush(p) ==
  /\ ppc[p] = "push"
  /\ lock = Free
  /\ queue' = Append(queue, <<p, puts[p]>>)
  /\ NotifyOne
  /\ ppc' = [ppc EXCEPT ![p] = "idle"]
  /\ UNCHANGED <<stop, lock, puts, dest, owner>>

-----------------------------------------------------------------------------
(* Get *)

(* The test before the mutex; block is the argument of the call. *)
GetCall(g) ==
  /\ Alive
  /\ gpc[g] = "idle"
  /\ ~stop
  /\ \E pc \in {"lock", "try"} : gpc' = [gpc EXCEPT ![g] = pc]
  /\ UNCHANGED <<queue, stop, lock, putter, dest, owner>>

(* The queue has an item and is not stopped: fetch the item. *)
Take(g) ==
  /\ queue # <<>>
  /\ ~stop
  /\ dest' = [dest EXCEPT ![g] = Head(queue)]
  /\ queue' = Tail(queue)

Refuse(g) ==
  /\ queue = <<>> \/ stop
  /\ dest' = [dest EXCEPT ![g] = NoItem]
  /\ UNCHANGED queue

GetTry(g) ==
  /\ gpc[g] = "try"
  /\ lock = Free
  /\ Take(g) \/ Refuse(g)
  /\ gpc' = [gpc EXCEPT ![g] = "idle"]
  /\ UNCHANGED <<stop, lock, putter, owner>>

(* The predicate of wait holds, on the way in or after a wake-up. *)
GetReady(g) ==
  /\ gpc[g] \in {"lock", "woken"}
  /\ lock = Free
  /\ queue # <<>> \/ stop
  /\ Take(g) \/ Refuse(g)
  /\ gpc' = [gpc EXCEPT ![g] = "idle"]
  /\ UNCHANGED <<stop, lock, putter, owner>>

(* Fault: the queue is tested without the mutex. *)
GetDecideUnlocked(g) ==
  /\ gpc[g] \in {"lock", "woken"}
  /\ queue = <<>>
  /\ ~stop
  /\ gpc' = [gpc EXCEPT ![g] = "decided"]
  /\ UNCHANGED <<queue, stop, lock, putter, dest, owner>>

(* It does not hold. *)
GetDecide(g) ==
  /\ gpc[g] \in {"lock", "woken"}
  /\ lock = Free
  /\ queue = <<>>
  /\ ~stop
  /\ lock' = g
  /\ gpc' = [gpc EXCEPT ![g] = "decided"]
  /\ UNCHANGED <<queue, stop, putter, dest, owner>>

(* The condition variable unlocks and puts the thread to sleep in one. *)
GetSleep(g) ==
  /\ gpc[g] = "decided"
  /\ lock' = Free
  /\ gpc' = [gpc EXCEPT ![g] = "waiting"]
  /\ UNCHANGED <<queue, stop, putter, dest, owner>>

(* A spurious wake-up. *)
GetSpurious(g) ==
  /\ gpc[g] = "waiting"
  /\ opc # "deleted"
  /\ gpc' = [gpc EXCEPT ![g] = "woken"]
  /\ UNCHANGED <<queue, stop, lock, putter, dest, owner>>

-----------------------------------------------------------------------------
(* The owner: Start, Stop, Clear and the destructor. *)

Call(name) ==
  /\ opc = "idle"
  /\ name \in Calls
  /\ calls < MaxCall
  /\ calls' = calls + 1
  /\ halted' = (halted \/ name \in {"stop", "delete"})

(* A notification sent without the mutex. *)
Notify(from, to) ==
  /\ opc = from
  /\ NotifyOne
  /\ opc' = to
  /\ UNCHANGED <<queue, stop, lock, putter, dest, calls, halted>>

StopCall ==
  /\ Call("stop")
  /\ stop' = TRUE
  /\ opc' = "stopNotify"
  /\ UNCHANGED <<queue, lock, putter, getter>>

StopNotify == Notify("stopNotify", "idle")

StartCall ==
  /\ Call("start")
  /\ stop' = FALSE
  /\ opc' = "startEmpty"
  /\ UNCHANGED <<queue, lock, putter, getter>>

(* if (!Empty()): the mutex is free again before the notification. *)
StartEmpty ==
  /\ opc = "startEmpty"
  /\ lock = Free
  /\ opc' = IF queue = <<>> THEN "idle" ELSE "startNotify"
  /\ UNCHANGED <<queue, stop, lock, putter, getter, calls, halted>>

StartNotify == Notify("startNotify", "idle")

ClearCall ==
  /\ Call("clear")
  /\ opc' = "clear"
  /\ UNCHANGED <<queue, stop, lock, putter, getter>>

(* One turn of the loop is a Get(temp, false) in two steps. *)
ClearTest ==
  /\ opc = "clear"
  /\ opc' = IF stop THEN "idle" ELSE "clearLock"
  /\ UNCHANGED <<queue, stop, lock, putter, getter, calls, halted>>

ClearPop ==
  /\ opc = "clearLock"
  /\ lock = Free
  /\ IF queue = <<>> \/ stop
     THEN opc' = "idle" /\ UNCHANGED queue
     ELSE opc' = "clear" /\ queue' = Tail(queue)
  /\ UNCHANGED <<stop, lock, putter, getter, calls, halted>>

(* The caller keeps a Put and the queue's own calls away from the          *)
(* destructor, not a blocking Get: that one the class takes on itself.     *)
DeleteCall ==
  /\ Call("delete")
  /\ \A p \in Putters : ppc[p] = "idle"
  /\ stop' = TRUE
  /\ opc' = "delete"
  /\ UNCHANGED <<queue, lock, putter, getter>>

DeleteNotify == Notify("delete", "deleteLock")

DeleteEmpty ==
  /\ opc = "deleteLock"
  /\ lock = Free
  /\ queue' = <<>>
  /\ opc' = "deleted"
  /\ UNCHANGED <<stop, lock, putter, getter, calls, halted>>

-----------------------------------------------------------------------------
Get(g) ==
  \/ GetCall(g)
  \/ GetTry(g)
  \/ GetReady(g)
  \/ GetDecide(g)
  \/ GetSleep(g)
  \/ GetSpurious(g)

Owner ==
  \/ StopCall
  \/ StopNotify
  \/ StartCall
  \/ StartEmpty
  \/ StartNotify
  \/ ClearCall
  \/ ClearTest
  \/ ClearPop
  \/ DeleteCall
  \/ DeleteNotify
  \/ DeleteEmpty

Next ==
  \/ \E p \in Putters : PutCall(p) \/ PutPush(p)
  \/ \E g \in Getters : Get(g)
  \/ Owner

Spec == Init /\ [][Next]_vars

(* Each thread inside a call goes on; the mutex is fair; the user calls Get *)
(* in a loop.  A thread asleep is woken by a notification only.            *)
Fairness ==
  /\ \A p \in Putters : SF_vars(PutPush(p))
  /\ \A g \in Getters :
       /\ WF_vars(GetCall(g))
       /\ WF_vars(GetSleep(g))
       /\ SF_vars(GetTry(g) \/ GetReady(g) \/ GetDecide(g))
  /\ SF_vars(StopNotify \/ StartEmpty \/ StartNotify \/ ClearTest \/ ClearPop
               \/ DeleteNotify \/ DeleteEmpty)

FairSpec == Spec /\ Fairness

-----------------------------------------------------------------------------
(* Properties *)

TypeOK ==
  /\ queue \in Seq(Item)
  /\ stop \in BOOLEAN
  /\ lock \in Getters \cup {Free}
  /\ ppc \in [Putters -> {"idle", "push"}]
  /\ puts \in [Putters -> 0..MaxPut]
  /\ gpc \in [Getters -> {"idle", "lock", "try", "decided", "waiting", "woken"}]
  /\ dest \in [Getters -> Item \cup {NoItem}]
  /\ opc \in {"idle", "stopNotify", "startEmpty", "startNotify", "clear",
              "clearLock", "delete", "deleteLock", "deleted"}
  /\ calls \in 0..MaxCall
  /\ halted \in BOOLEAN

(* No thread sleeps on an item meant for it: while somebody sleeps, each    *)
(* item in the queue has a thread of its own awake to fetch it.  Promised  *)
(* until the queue is stopped or deleted: a thread that Stop wakes passes  *)
(* its notification to nobody, and a Start does not make up for it.        *)
EnoughAwake    == Waiting # {} => Len(queue) <= Cardinality(Woken)
WakeupsSuffice == ~halted => EnoughAwake

(* They never all sleep on a queue that has an item, whatever the order of *)
(* Stop, Start, Clear and the destructor.                                  *)
NotAllAsleep == queue # <<>> => Waiting # Getters

(* Every item that is in the queue leaves it, if nobody stops the queue.   *)
Delivered ==
  \A i \in Item :
    (\E j \in 1..Len(queue) : queue[j] = i) ~>
      stop \/ ~\E j \in 1..Len(queue) : queue[j] = i

(* "Stops all blocking Get() calls": each Get that is in progress when the *)
(* queue is stopped returns, unless the queue is started again.            *)
StopEndsGet ==
  \A g \in Getters : stop ~> gpc[g] = "idle" \/ ~stop
=============================================================================
