-------------------------- MODULE ProcessMasterProofs --------------------------
(***************************************************************************)
(* Proofs about ProcessMaster, for any applications, startup modes, limit  *)
(* of restarts and number of calls:                                        *)
(*   MasterTypeCorrect     the type invariant                              *)
(*   MasterOneProcess      OneProcess     } with StopInv: what the two     *)
(*   MasterStopLeaves      StopLeaves     } threads know of a process      *)
(*   MasterWaitPerStart    WaitPerStart, with WaitInv                      *)
(*   MasterLaunchesCounted LaunchesCounted, with LaunchInv and SeenInv     *)
(***************************************************************************)
EXTENDS ProcessMaster, TLAPS

(* The applications are numbered from one. *)
LEMMA FirstApp == 1 \in Apps
BY ApplicationAssumption DEF Apps

LEMMA MasterFacts == NofApps \in Nat \ {0} /\ Apps = 1..NofApps /\ 1 \in Apps
BY ApplicationAssumption DEF Apps

(* What leaves the applications alone leaves their types alone. *)
LEMMA SameApps == AppTypeOK /\ UNCHANGED applications => AppTypeOK'
BY DEF AppTypeOK, applications

(* The end of a poll of one application. *)
LEMMA PollNextType ==
  ASSUME MasterTypeOK, PollNext
  PROVE  /\ papp' \in Apps /\ ppc' \in {"app", "wait"} /\ waits' \in Nat
         /\ seen' = "Stopped" /\ next' = "Stopped" /\ held' = FALSE
BY MasterFacts DEF MasterTypeOK, PollNext

(* The end of a poll that has stopped the process. *)
LEMMA StoppedType == TypeOK /\ PollStopped => AppTypeOK'
<1> SUFFICES ASSUME TypeOK, PollStopped PROVE AppTypeOK'
  OBVIOUS
<1>. USE DEF TypeOK, MasterTypeOK, AppTypeOK
<1>1. process' \in [Apps -> {"none", "running", "exited"}] /\ broken' \in BOOLEAN
  BY DEF PollStopped, StopProcess
<1>2. CASE next # "settle"
  <2>1. Leave(papp, next)
    BY <1>2 DEF PollStopped
  <2>2. state' \in [Apps -> {"Stopped", "Running", "Ready", "Failing"}]
    BY <2>1, <1>2 DEF Leave
  <2>. QED  BY <1>1, <2>1, <2>2 DEF Leave
<1>3. CASE next = "settle"
  <2>1. Settle(papp) /\ papp \in Apps
    BY <1>3 DEF PollStopped
  <2>2. CASE Restart(papp)
    <3>1. restarts[papp] + 1 \in 0..RestartLimit
      BY <2>1, <2>2, ApplicationAssumption DEF Restart, MayRestart
    <3>. QED  BY <1>1, <2>1, <2>2, <3>1 DEF Restart, Settle
  <2>3. CASE GiveUp(papp)
    BY <1>1, <2>1, <2>3 DEF GiveUp, Settle
  <2>4. CASE Retire(papp)
    <3>1. 0 \in 0..RestartLimit /\ \A a \in Apps : 0 <= MaxTaken[a]
      BY ApplicationAssumption
    <3>2. /\ restarts' \in [Apps -> 0..RestartLimit]
          /\ launched' \in [Apps -> Nat] /\ taken' \in [Apps -> Nat]
          /\ \A a \in Apps : taken'[a] <= MaxTaken[a]
      BY <2>1, <2>4, <3>1 DEF Retire
    <3>. QED  BY <1>1, <2>1, <2>4, <3>2 DEF Retire, Settle
  <2>. QED  BY <2>1, <2>2, <2>3, <2>4 DEF Settle
<1>. QED  BY <1>2, <1>3

(* The types, first and from step to step. *)
LEMMA TypeInit == Init => TypeOK
<1> SUFFICES ASSUME Init PROVE TypeOK
  OBVIOUS
<1>1. MasterTypeOK
  <2>1. 0 \in 0..MaxStarts /\ {} \subseteq Apps
    BY MasterAssumption
  <2>. QED  BY <2>1, FirstApp DEF Init, MasterTypeOK
<1>2. startup \in [Apps -> {"Manual", "Once", "Automatic"}]
  BY ApplicationAssumption DEF Init, AppInit
<1>3. /\ restarts \in [Apps -> 0..RestartLimit]
      /\ taken \in [Apps -> Nat]
      /\ \A a \in Apps : taken[a] <= MaxTaken[a]
  BY ApplicationAssumption DEF Init, AppInit
<1>. QED  BY <1>1, <1>2, <1>3 DEF Init, AppInit, TypeOK, AppTypeOK

(* No step leaves the types. *)
LEMMA TypeStep == TypeOK /\ [Next]_vars => TypeOK'
<1> SUFFICES ASSUME TypeOK, [Next]_vars PROVE TypeOK'
  OBVIOUS
<1>. USE DEF TypeOK
<1>1. CASE PollWake
  <2>1. MasterTypeOK'
    BY <1>1 DEF MasterTypeOK, PollWake, owner
  <2>2. AppTypeOK'
    BY <1>1, SameApps DEF PollWake
  <2>. QED  BY <2>1, <2>2
<1>2. CASE RunEnd
  <2>1. MasterTypeOK'
    BY <1>2 DEF MasterTypeOK, RunEnd, owner
  <2>2. AppTypeOK'
    BY <1>2, SameApps DEF RunEnd
  <2>. QED  BY <2>1, <2>2
<1>3. CASE PollWaiting
  <2>1. MasterTypeOK'
    BY <1>3, PollNextType DEF MasterTypeOK, PollWaiting, owner
  <2>2. AppTypeOK'
    BY <1>3, SameApps DEF PollWaiting
  <2>. QED  BY <2>1, <2>2
<1>4. CASE PollState
  <2>1. MasterTypeOK'
    BY <1>4 DEF MasterTypeOK, PollState, owner, AppTypeOK
  <2>2. AppTypeOK'
    BY <1>4, SameApps DEF PollState
  <2>. QED  BY <2>1, <2>2
<1>5. CASE PollGood
  <2>1. MasterTypeOK'
    BY <1>5, PollNextType DEF MasterTypeOK, PollGood, owner
  <2>2. AppTypeOK'
    BY <1>5, ApplicationAssumption DEF AppTypeOK, MasterTypeOK, PollGood
  <2>. QED  BY <2>1, <2>2
<1>6. CASE PollIdle
  <2>1. MasterTypeOK'
    BY <1>6, PollNextType DEF MasterTypeOK, PollIdle, owner
  <2>2. AppTypeOK'
    BY <1>6, ApplicationAssumption DEF AppTypeOK, MasterTypeOK, PollIdle
  <2>. QED  BY <2>1, <2>2
<1>7. CASE PollStart
  <2>1. MasterTypeOK'
    BY <1>7 DEF MasterTypeOK, PollStart, owner
  <2>2. AppTypeOK'
    BY <1>7, SameApps DEF PollStart
  <2>. QED  BY <2>1, <2>2
<1>8. CASE PollLaunch
  <2>1. MasterTypeOK'
    BY <1>8 DEF MasterTypeOK, PollLaunch, owner
  <2>2. AppTypeOK'
    BY <1>8, ApplicationAssumption DEF AppTypeOK, MasterTypeOK, PollLaunch, Launch
  <2>. QED  BY <2>1, <2>2
<1>9. CASE PollLaunchError
  <2>1. MasterTypeOK'
    BY <1>9, PollNextType DEF MasterTypeOK, PollLaunchError, owner
  <2>2. AppTypeOK'
    BY <1>9, ApplicationAssumption DEF AppTypeOK, MasterTypeOK, PollLaunchError, LaunchError
  <2>. QED  BY <2>1, <2>2
<1>10. CASE PollLaunched
  <2>1. MasterTypeOK'
    BY <1>10, PollNextType DEF MasterTypeOK, PollLaunched, owner
  <2>2. AppTypeOK'
    BY <1>10, ApplicationAssumption DEF AppTypeOK, MasterTypeOK, PollLaunched
  <2>. QED  BY <2>1, <2>2
<1>11. CASE PollStop
  <2>1. MasterTypeOK'
    BY <1>11 DEF MasterTypeOK, PollStop, HasProcess, AfterRunning, owner
  <2>2. AppTypeOK'
    BY <1>11, SameApps DEF PollStop
  <2>. QED  BY <2>1, <2>2
<1>12. CASE PollStopped
  <2>1. MasterTypeOK'
    BY <1>12, PollNextType DEF MasterTypeOK, PollStopped, owner
  <2>2. AppTypeOK'
    BY <1>12, StoppedType DEF PollStopped
  <2>. QED  BY <2>1, <2>2
<1>13. CASE StopLook
  <2>1. MasterTypeOK'
    BY <1>13 DEF MasterTypeOK, StopLook, HasProcess, poller
  <2>2. AppTypeOK'
    BY <1>13, SameApps DEF StopLook
  <2>. QED  BY <2>1, <2>2
<1>14. CASE StopEnd
  <2>1. MasterTypeOK'
    BY <1>14 DEF MasterTypeOK, StopEnd, poller
  <2>2. AppTypeOK'
    BY <1>14, ApplicationAssumption DEF AppTypeOK, MasterTypeOK, StopEnd, StopProcess
  <2>. QED  BY <2>1, <2>2
<1>15. CASE StopLeave
  <2>1. MasterTypeOK'
    BY <1>15, MasterFacts DEF MasterTypeOK, StopLeave, poller
  <2>2. AppTypeOK'
    BY <1>15, ApplicationAssumption DEF AppTypeOK, MasterTypeOK, StopLeave
  <2>. QED  BY <2>1, <2>2
<1>16. CASE StopContext
  <2>1. MasterTypeOK'
    BY <1>16, FirstApp DEF MasterTypeOK, StopContext, poller
  <2>2. AppTypeOK'
    BY <1>16, SameApps DEF StopContext
  <2>. QED  BY <2>1, <2>2
<1>17. CASE StopReturn
  <2>1. MasterTypeOK'
    BY <1>17, FirstApp DEF MasterTypeOK, StopReturn, poller
  <2>2. AppTypeOK'
    BY <1>17, SameApps DEF StopReturn
  <2>. QED  BY <2>1, <2>2
<1>18. CASE StartReturn
  <2>1. MasterTypeOK'
    <3>1. waits' \in Nat /\ late' \subseteq Apps
      BY <1>18 DEF MasterTypeOK, StartReturn
    <3>. QED  BY <1>18, <3>1 DEF MasterTypeOK, StartReturn
  <2>2. AppTypeOK'
    BY <1>18, ApplicationAssumption DEF AppTypeOK, MasterTypeOK, StartReturn, AppStart
  <2>. QED  BY <2>1, <2>2
<1>19. CASE DestroyReturn
  <2>1. MasterTypeOK'
    BY <1>19 DEF MasterTypeOK, DestroyReturn, poller
  <2>2. AppTypeOK'
    BY <1>19, ApplicationAssumption DEF AppTypeOK, MasterTypeOK, DestroyReturn
  <2>. QED  BY <2>1, <2>2
<1>20. CASE Call("start") \/ Call("stop") \/ Call("destroy")
  <2>1. MasterTypeOK'
    <3>1. starts' \in 0..MaxStarts /\ uop' \in {"start", "stop", "destroy"}
      BY <1>20, MasterAssumption DEF MasterTypeOK, Call
    <3>. QED  BY <1>20, <3>1, FirstApp DEF MasterTypeOK, Call, poller
  <2>2. AppTypeOK'
    BY <1>20, SameApps DEF Call
  <2>. QED  BY <2>1, <2>2
<1>21. ASSUME NEW a \in Apps,
               \/ Around(Exit(a)) \/ Around(TimerExpires(a))
               \/ Around(InService(a, TRUE)) \/ Around(InService(a, FALSE))
      PROVE  TypeOK'
  <2>1. MasterTypeOK'
    BY <1>21 DEF MasterTypeOK, Around, poller, owner
  <2>2. CASE Around(Exit(a)) \/ Around(TimerExpires(a))
    BY <1>21, <2>1, <2>2 DEF AppTypeOK, Around, Exit, TimerExpires
  <2>3. ASSUME NEW in \in {TRUE, FALSE}, Around(InService(a, in))
        PROVE  AppTypeOK'
    <3>1. taken' = [taken EXCEPT ![a] = IF in THEN @ + 1 ELSE @]
          /\ (in => taken[a] < MaxTaken[a]) /\ MaxTaken[a] \in Nat
      BY <1>21, <2>3, ApplicationAssumption DEF Around, InService
    <3>2. taken' \in [Apps -> Nat] /\ \A b \in Apps : taken'[b] <= MaxTaken[b]
      BY <1>21, <3>1 DEF AppTypeOK
    <3>. QED  BY <1>21, <2>3, <3>2 DEF AppTypeOK, Around, InService
  <2>. QED  BY <1>21, <2>1, <2>2, <2>3 DEF TypeOK
<1>22. CASE UNCHANGED vars
  BY <1>22, SameApps DEF TypeOK, MasterTypeOK, vars, poller, owner
<1>. QED
  BY <1>1, <1>2, <1>3, <1>4, <1>5, <1>6, <1>7, <1>8, <1>9, <1>10, <1>11, <1>12, <1>13, <1>14, <1>15, <1>16, <1>17, <1>18, <1>19, <1>20, <1>21, <1>22 DEF Next, Poll, Calling, TypeOK

(* Every behaviour of the master is of the types that are declared. *)
THEOREM MasterTypeCorrect == Spec => []TypeOK
BY TypeInit, TypeStep, PTL DEF Spec

-----------------------------------------------------------------------------
(* The poll has left a behind, until the timer starts the next round. *)
Passed(a) == ppc \in {"none", "wait"} \/ papp > a

Launching(a) == ppc = "launched" /\ papp = a

(* The Stop under way has not come to the process of a yet. *)
Pending(a) ==
  \/ upc = "app" /\ uapp <= a
  \/ upc = "stopping" /\ (uapp < a \/ (uapp = a /\ uheld))
  \/ upc = "leave" /\ uapp < a

(* What the poll thread knows of the application that it is at. *)
PollerInv ==
  /\ ppc \in {"none", "wait"} => papp = 1
  /\ (ppc = "test" /\ seen = "Stopped") \/ ppc = "launch" =>
       process[papp] = "none"
  /\ ppc = "stopping" /\ ~held => process[papp] = "none"

(* A process behind the state Stopped was launched while Stop was under    *)
(* way, and the poll does not come to it again before the next Start.      *)
StoppedInv ==
  \A a \in Apps :
    state[a] = "Stopped" /\ process[a] # "none" =>
      Launching(a) \/ (stopThread /\ Passed(a))

OwnerInv ==
  /\ upc \notin {"idle", "destroyed"} => stopThread
  /\ stopped => stopThread
  /\ ppc = "wait" /\ waits = 0 => stopThread
  /\ upc = "stopping" /\ ~uheld /\ process[uapp] # "none" =>
       Passed(uapp) \/ Launching(uapp)

LeftInv ==
  /\ ~stopThread /\ ppc = "none" => \A a \in Apps : process[a] = "none"
  /\ stopThread =>
       \A a \in Apps : process[a] # "none" /\ a \notin late => Pending(a)

StopInv == PollerInv /\ StoppedInv /\ OwnerInv /\ LeftInv

(* The numbers can be compared. *)
LEMMA AppsOrdered ==
  /\ NofApps \in Nat
  /\ \A a \in Apps : a \in Nat /\ 1 <= a /\ a <= NofApps
BY ApplicationAssumption DEF Apps

(* PollNext leaves the application behind, and those that were behind. *)
LEMMA PollNextPasses ==
  ASSUME TypeOK, PollNext
  PROVE  /\ ppc' \in {"app", "wait"}
         /\ ppc' = "wait" => papp' = 1 /\ waits' # 0
         /\ \A a \in Apps : a <= papp => Passed(a)'
         /\ ppc \notin {"none", "wait"} =>
              \A a \in Apps : Launching(a) \/ Passed(a) => Passed(a)'
<1>1. /\ ppc' \in {"app", "wait"}
      /\ ppc' = "wait" => papp' = 1 /\ waits' # 0
      /\ \A a \in Apps : a <= papp => Passed(a)'
  BY AppsOrdered DEF TypeOK, MasterTypeOK, PollNext, Passed
<1>2. ASSUME ppc \notin {"none", "wait"}
      PROVE  \A a \in Apps : Launching(a) \/ Passed(a) => a <= papp
  BY <1>2, AppsOrdered DEF TypeOK, MasterTypeOK, Launching, Passed
<1>. QED  BY <1>1, <1>2

(* The invariant of the two threads, first and from step to step. *)
LEMMA StopInit == Init => StopInv
BY DEF Init, AppInit, StopInv, PollerInv, StoppedInv, OwnerInv, LeftInv

(* No step breaks the invariant of the two threads. *)
LEMMA StopStep == TypeOK /\ StopInv /\ [Next]_vars => StopInv'
<1> SUFFICES ASSUME TypeOK, StopInv, [Next]_vars PROVE StopInv'
  OBVIOUS
<1>. USE AppsOrdered DEF TypeOK, MasterTypeOK, AppTypeOK, StopInv
<1>1. CASE PollWake
  <2>1. PollerInv'
    BY <1>1 DEF PollWake, applications, owner, PollerInv
  <2>2. StoppedInv'
    BY <1>1 DEF PollWake, applications, owner, StoppedInv, Passed, Launching
  <2>3. OwnerInv'
    BY <1>1 DEF PollWake, applications, owner, OwnerInv, Passed, Launching
  <2>4. LeftInv'
    BY <1>1 DEF PollWake, applications, owner, LeftInv, Pending, OwnerInv
  <2>. QED  BY <2>1, <2>2, <2>3, <2>4 DEF StopInv
<1>2. CASE RunEnd
  <2>1. PollerInv'
    BY <1>2 DEF RunEnd, applications, owner, PollerInv
  <2>2. StoppedInv'
    BY <1>2 DEF RunEnd, applications, owner, StoppedInv, Passed, Launching
  <2>3. OwnerInv'
    BY <1>2 DEF RunEnd, applications, owner, OwnerInv, Passed, Launching
  <2>4. LeftInv'
    BY <1>2 DEF RunEnd, applications, owner, LeftInv, Pending, OwnerInv
  <2>. QED  BY <2>1, <2>2, <2>3, <2>4 DEF StopInv
<1>3. CASE PollWaiting
  <2>1. PollerInv'
    BY <1>3, PollNextPasses DEF PollWaiting, applications, owner, PollerInv
  <2>2. StoppedInv'
    BY <1>3, PollNextPasses DEF PollWaiting, applications, owner, StoppedInv, Passed, Launching
  <2>3. OwnerInv'
    BY <1>3, PollNextPasses DEF PollWaiting, applications, owner, OwnerInv, Passed, Launching
  <2>4. LeftInv'
    BY <1>3, PollNextPasses DEF PollWaiting, applications, owner, LeftInv, Pending, OwnerInv
  <2>. QED  BY <2>1, <2>2, <2>3, <2>4 DEF StopInv
<1>4. CASE PollState
  <2>1. PollerInv'
    BY <1>4 DEF PollState, applications, owner, PollerInv, StoppedInv, Passed, Launching
  <2>2. StoppedInv'
    BY <1>4 DEF PollState, applications, owner, StoppedInv, Passed, Launching
  <2>3. OwnerInv'
    BY <1>4 DEF PollState, applications, owner, OwnerInv, Passed, Launching
  <2>4. LeftInv'
    BY <1>4 DEF PollState, applications, owner, LeftInv, Pending, OwnerInv
  <2>. QED  BY <2>1, <2>2, <2>3, <2>4 DEF StopInv
<1>5. CASE PollGood
  <2>1. PollerInv'
    BY <1>5, PollNextPasses DEF PollGood, owner, PollerInv
  <2>2. StoppedInv'
    BY <1>5, PollNextPasses DEF PollGood, owner, StoppedInv, Passed, Launching
  <2>3. OwnerInv'
    BY <1>5, PollNextPasses DEF PollGood, owner, OwnerInv, Passed, Launching
  <2>4. LeftInv'
    BY <1>5, PollNextPasses DEF PollGood, owner, LeftInv, Pending, OwnerInv
  <2>. QED  BY <2>1, <2>2, <2>3, <2>4 DEF StopInv
<1>6. CASE PollIdle
  <2>1. PollerInv'
    BY <1>6, PollNextPasses DEF PollIdle, owner, PollerInv
  <2>2. StoppedInv'
    BY <1>6, PollNextPasses DEF PollIdle, owner, StoppedInv, Passed, Launching
  <2>3. OwnerInv'
    BY <1>6, PollNextPasses DEF PollIdle, owner, OwnerInv, Passed, Launching
  <2>4. LeftInv'
    BY <1>6, PollNextPasses DEF PollIdle, owner, LeftInv, Pending, OwnerInv
  <2>. QED  BY <2>1, <2>2, <2>3, <2>4 DEF StopInv
<1>7. CASE PollStart
  <2>1. PollerInv'
    BY <1>7 DEF PollStart, applications, owner, PollerInv
  <2>2. StoppedInv'
    BY <1>7 DEF PollStart, applications, owner, StoppedInv, Passed, Launching
  <2>3. OwnerInv'
    BY <1>7 DEF PollStart, applications, owner, OwnerInv, Passed, Launching
  <2>4. LeftInv'
    BY <1>7 DEF PollStart, applications, owner, LeftInv, Pending, OwnerInv
  <2>. QED  BY <2>1, <2>2, <2>3, <2>4 DEF StopInv
<1>8. CASE PollLaunch
  <2>1. PollerInv'
    BY <1>8 DEF PollLaunch, Launch, owner, PollerInv
  <2>2. StoppedInv'
    BY <1>8 DEF PollLaunch, Launch, owner, StoppedInv, Passed, Launching
  <2>3. OwnerInv'
    BY <1>8 DEF PollLaunch, Launch, owner, OwnerInv, Passed, Launching, LeftInv, Pending
  <2>4. LeftInv'
    BY <1>8 DEF PollLaunch, Launch, owner, LeftInv, Pending, OwnerInv
  <2>. QED  BY <2>1, <2>2, <2>3, <2>4 DEF StopInv
<1>9. CASE PollLaunchError
  <2>1. PollerInv'
    BY <1>9, PollNextPasses DEF PollLaunchError, LaunchError, owner, PollerInv
  <2>2. StoppedInv'
    BY <1>9, PollNextPasses DEF PollLaunchError, LaunchError, owner, StoppedInv, Passed, Launching
  <2>3. OwnerInv'
    BY <1>9, PollNextPasses DEF PollLaunchError, LaunchError, owner, OwnerInv, Passed, Launching, LeftInv, Pending
  <2>4. LeftInv'
    BY <1>9, PollNextPasses DEF PollLaunchError, LaunchError, owner, LeftInv, Pending, OwnerInv
  <2>. QED  BY <2>1, <2>2, <2>3, <2>4 DEF StopInv
<1>10. CASE PollLaunched
  <2>1. PollerInv'
    BY <1>10, PollNextPasses DEF PollLaunched, owner, PollerInv
  <2>2. StoppedInv'
    BY <1>10, PollNextPasses DEF PollLaunched, owner, StoppedInv, Passed, Launching
  <2>3. OwnerInv'
    BY <1>10, PollNextPasses DEF PollLaunched, owner, OwnerInv, Passed, Launching, LeftInv, Pending
  <2>4. LeftInv'
    BY <1>10, PollNextPasses DEF PollLaunched, owner, LeftInv, Pending, OwnerInv
  <2>. QED  BY <2>1, <2>2, <2>3, <2>4 DEF StopInv
<1>11. CASE PollStop
  <2>1. PollerInv'
    BY <1>11 DEF PollStop, HasProcess, applications, owner, PollerInv
  <2>2. StoppedInv'
    BY <1>11 DEF PollStop, HasProcess, applications, owner, StoppedInv, Passed, Launching
  <2>3. OwnerInv'
    BY <1>11 DEF PollStop, HasProcess, applications, owner, OwnerInv, Passed, Launching
  <2>4. LeftInv'
    BY <1>11 DEF PollStop, HasProcess, applications, owner, LeftInv, Pending, OwnerInv
  <2>. QED  BY <2>1, <2>2, <2>3, <2>4 DEF StopInv
<1>12. CASE PollStopped
  <2>1. process'[papp] = "none" /\ \A a \in Apps \ {papp} : process'[a] = process[a]
    BY <1>12 DEF PollStopped, StopProcess, PollerInv
  <2>2. \A a \in Apps \ {papp} : state'[a] = state[a]
    BY <1>12 DEF PollStopped, Leave, Settle, Restart, GiveUp, Retire
  <2>3. PollerInv'
    BY <1>12, PollNextPasses DEF PollStopped, PollerInv
  <2>4. StoppedInv'
    BY <1>12, <2>1, <2>2, PollNextPasses DEF PollStopped, StoppedInv, Passed, Launching
  <2>5. OwnerInv'
    BY <1>12, <2>1, PollNextPasses DEF PollStopped, owner, OwnerInv, Passed, Launching
  <2>6. LeftInv'
    BY <1>12, <2>1, PollNextPasses DEF PollStopped, owner, LeftInv, Pending
  <2>. QED  BY <2>3, <2>4, <2>5, <2>6 DEF StopInv
<1>13. CASE StopLook
  <2>1. PollerInv'
    BY <1>13 DEF StopLook, HasProcess, applications, poller, PollerInv
  <2>2. StoppedInv'
    BY <1>13 DEF StopLook, HasProcess, applications, poller, StoppedInv, Passed, Launching
  <2>3. OwnerInv'
    BY <1>13 DEF StopLook, HasProcess, applications, poller, OwnerInv, Passed, Launching
  <2>4. LeftInv'
    <3>1. process[uapp] # "none" => uheld'
      BY <1>13 DEF StopLook, HasProcess
    <3>2. UNCHANGED <<process, stopThread, ppc, late, uapp>>
      BY <1>13 DEF StopLook, applications, poller
    <3>3. upc = "app" /\ upc' = "stopping"
      BY <1>13 DEF StopLook
    <3>. QED  BY <3>1, <3>2, <3>3 DEF LeftInv, Pending
  <2>. QED  BY <2>1, <2>2, <2>3, <2>4 DEF StopInv
<1>14. CASE StopEnd
  <2>1. PollerInv'
    BY <1>14 DEF StopEnd, StopProcess, poller, PollerInv
  <2>2. StoppedInv'
    BY <1>14 DEF StopEnd, StopProcess, poller, StoppedInv, Passed, Launching, OwnerInv
  <2>3. OwnerInv'
    BY <1>14 DEF StopEnd, StopProcess, poller, OwnerInv, Passed, Launching
  <2>4. LeftInv'
    BY <1>14 DEF StopEnd, StopProcess, poller, LeftInv, Pending, OwnerInv
  <2>. QED  BY <2>1, <2>2, <2>3, <2>4 DEF StopInv
<1>15. CASE StopLeave
  <2>1. PollerInv'
    BY <1>15 DEF StopLeave, poller, PollerInv
  <2>2. StoppedInv'
    BY <1>15 DEF StopLeave, poller, StoppedInv, Passed, Launching
  <2>3. OwnerInv'
    BY <1>15 DEF StopLeave, poller, OwnerInv, Passed, Launching
  <2>4. LeftInv'
    BY <1>15 DEF StopLeave, poller, LeftInv, Pending, OwnerInv
  <2>. QED  BY <2>1, <2>2, <2>3, <2>4 DEF StopInv
<1>16. CASE StopContext
  <2>1. PollerInv'
    BY <1>16 DEF StopContext, applications, poller, PollerInv
  <2>2. StoppedInv'
    BY <1>16 DEF StopContext, applications, poller, StoppedInv, Passed, Launching
  <2>3. OwnerInv'
    BY <1>16 DEF StopContext, applications, poller, OwnerInv, Passed, Launching
  <2>4. LeftInv'
    BY <1>16 DEF StopContext, applications, poller, LeftInv, Pending, OwnerInv
  <2>. QED  BY <2>1, <2>2, <2>3, <2>4 DEF StopInv
<1>17. CASE StopReturn
  <2>1. PollerInv'
    BY <1>17 DEF StopReturn, applications, poller, PollerInv
  <2>2. StoppedInv'
    BY <1>17 DEF StopReturn, applications, poller, StoppedInv, Passed, Launching
  <2>3. OwnerInv'
    BY <1>17 DEF StopReturn, applications, poller, OwnerInv, Passed, Launching
  <2>4. LeftInv'
    BY <1>17 DEF StopReturn, applications, poller, LeftInv, Pending, OwnerInv
  <2>. QED  BY <2>1, <2>2, <2>3, <2>4 DEF StopInv
<1>18. CASE StartReturn
  <2>1. PollerInv'
    BY <1>18 DEF StartReturn, AppStart, PollerInv
  <2>2. StoppedInv'
    BY <1>18 DEF StartReturn, AppStart, StoppedInv, Passed, Launching
  <2>3. OwnerInv'
    BY <1>18 DEF StartReturn, AppStart, OwnerInv, Passed, Launching
  <2>4. LeftInv'
    BY <1>18 DEF StartReturn, AppStart, LeftInv, Pending, OwnerInv
  <2>. QED  BY <2>1, <2>2, <2>3, <2>4 DEF StopInv
<1>19. CASE DestroyReturn
  <2>1. PollerInv'
    BY <1>19 DEF DestroyReturn, poller, PollerInv
  <2>2. StoppedInv'
    BY <1>19 DEF DestroyReturn, poller, StoppedInv, Passed, Launching
  <2>3. OwnerInv'
    BY <1>19 DEF DestroyReturn, poller, OwnerInv, Passed, Launching
  <2>4. LeftInv'
    BY <1>19 DEF DestroyReturn, poller, LeftInv, Pending, OwnerInv
  <2>. QED  BY <2>1, <2>2, <2>3, <2>4 DEF StopInv
<1>20. CASE Call("start") \/ Call("stop") \/ Call("destroy")
  <2>1. PollerInv'
    BY <1>20 DEF Call, applications, poller, PollerInv
  <2>2. StoppedInv'
    BY <1>20 DEF Call, applications, poller, StoppedInv, Passed, Launching
  <2>3. OwnerInv'
    BY <1>20 DEF Call, applications, poller, OwnerInv, Passed, Launching
  <2>4. LeftInv'
    BY <1>20 DEF Call, applications, poller, LeftInv, Pending, OwnerInv
  <2>. QED  BY <2>1, <2>2, <2>3, <2>4 DEF StopInv
<1>21. ASSUME NEW a \in Apps,
               \/ Around(Exit(a)) \/ Around(TimerExpires(a))
               \/ Around(InService(a, TRUE)) \/ Around(InService(a, FALSE))
      PROVE  StopInv'
  <2>1. UNCHANGED <<state, stopThread, stopped, waits, poller, owner, late>>
    BY <1>21 DEF Around, Exit, TimerExpires, InService
  <2>2. \A b \in Apps : process'[b] = "none" <=> process[b] = "none"
    BY <1>21 DEF Around, Exit, TimerExpires, InService
  <2>3. PollerInv'
    BY <2>1, <2>2 DEF poller, PollerInv
  <2>4. StoppedInv'
    BY <2>1, <2>2 DEF poller, StoppedInv, Passed, Launching
  <2>5. OwnerInv'
    BY <2>1, <2>2 DEF poller, owner, OwnerInv, Passed, Launching
  <2>6. LeftInv'
    BY <2>1, <2>2 DEF poller, owner, LeftInv, Pending
  <2>. QED  BY <2>3, <2>4, <2>5, <2>6 DEF StopInv
<1>22. CASE UNCHANGED vars
  <2>1. PollerInv'
    BY <1>22 DEF vars, applications, poller, owner, PollerInv
  <2>2. StoppedInv'
    BY <1>22 DEF vars, applications, poller, owner, StoppedInv, Passed, Launching
  <2>3. OwnerInv'
    BY <1>22 DEF vars, applications, poller, owner, OwnerInv, Passed, Launching
  <2>4. LeftInv'
    BY <1>22 DEF vars, applications, poller, owner, LeftInv, Pending, OwnerInv
  <2>. QED  BY <2>1, <2>2, <2>3, <2>4 DEF StopInv
<1>. QED
  BY <1>1, <1>2, <1>3, <1>4, <1>5, <1>6, <1>7, <1>8, <1>9, <1>10, <1>11, <1>12, <1>13, <1>14, <1>15, <1>16, <1>17, <1>18, <1>19, <1>20, <1>21, <1>22 DEF Next, Poll, Calling


(* It holds throughout. *)
LEMMA MasterStopInv == Spec => []StopInv
BY MasterTypeCorrect, StopInit, StopStep, PTL DEF Spec

(* A poll that launches a process never finds one there: StartProcess has  *)
(* nothing to stop, whatever Stop and the calls of InService do meanwhile. *)
THEOREM MasterOneProcess == Spec => []OneProcess
<1>1. StopInv => OneProcess
  BY DEF StopInv, PollerInv, OneProcess
<1>. QED  BY <1>1, MasterStopInv, PTL

(* When Stop has returned, the processes that are left were launched while *)
(* it was under way.                                                       *)
THEOREM MasterStopLeaves == Spec => []StopLeaves
<1>1. StopInv => StopLeaves
  BY DEF StopInv, LeftInv, Pending, StopLeaves
<1>. QED  BY <1>1, MasterStopInv, PTL

-----------------------------------------------------------------------------
(* The waits, with the one that a Start under way is going to add. *)
Busy  == IF ppc \in {"none", "wait"} THEN 0 ELSE 1
Start == IF upc \notin {"idle", "destroyed"} /\ uop = "start" THEN 1 ELSE 0

WaitInv == waits + Busy + Start <= starts

(* The bound on the waits, first and from step to step. *)
LEMMA WaitInit == Init => WaitInv
BY DEF Init, WaitInv, Busy, Start

(* No step adds a wait that no Start accounts for. *)
LEMMA WaitStep == TypeOK /\ WaitInv /\ [Next]_vars => WaitInv'
<1> SUFFICES ASSUME TypeOK, WaitInv, [Next]_vars PROVE WaitInv'
  OBVIOUS
<1>. USE DEF TypeOK, MasterTypeOK, WaitInv, Busy, Start
<1>1. waits \in Nat /\ starts \in Nat
  BY MasterAssumption
<1>2. ASSUME PollNext, UNCHANGED owner, ppc \notin {"none", "wait"}
      PROVE  WaitInv'
  BY <1>1, <1>2 DEF PollNext, owner
<1>3. ASSUME Poll PROVE WaitInv'
  <2>1. CASE PollWake
    BY <1>1, <2>1 DEF PollWake, owner
  <2>2. CASE RunEnd
    BY <1>1, <2>2 DEF RunEnd, owner
  <2>3. CASE PollWaiting \/ PollGood \/ PollIdle
    BY <1>2, <2>3 DEF PollWaiting, PollGood, PollIdle
  <2>4. CASE PollLaunchError \/ PollLaunched \/ PollStopped
    BY <1>2, <2>4 DEF PollLaunchError, PollLaunched, PollStopped
  <2>5. CASE PollState \/ PollStart \/ PollStop
    BY <1>1, <2>5 DEF PollState, PollStart, PollStop, owner
  <2>6. CASE PollLaunch
    BY <1>1, <2>6 DEF PollLaunch, owner
  <2>. QED  BY <1>3, <2>1, <2>2, <2>3, <2>4, <2>5, <2>6 DEF Poll
<1>4. ASSUME Calling PROVE WaitInv'
  <2>1. CASE StopLook \/ StopContext
    BY <1>1, <2>1 DEF StopLook, StopContext, poller
  <2>2. CASE StopEnd
    BY <1>1, <2>2 DEF StopEnd, poller
  <2>3. CASE StopLeave
    BY <1>1, <2>3 DEF StopLeave, poller
  <2>4. CASE StopReturn
    BY <1>1, <2>4 DEF StopReturn, poller
  <2>5. CASE StartReturn
    BY <1>1, <2>5 DEF StartReturn
  <2>6. CASE DestroyReturn
    BY <1>1, <2>6 DEF DestroyReturn, poller
  <2>. QED  BY <1>4, <2>1, <2>2, <2>3, <2>4, <2>5, <2>6 DEF Calling
<1>5. ASSUME NEW op \in {"start", "stop", "destroy"}, Call(op)
      PROVE  WaitInv'
  BY <1>1, <1>5 DEF Call, poller
<1>6. ASSUME UNCHANGED <<stopThread, stopped, waits, poller, owner, late>>
      PROVE  WaitInv'
  BY <1>6 DEF poller, owner
<1>7. CASE UNCHANGED vars
  BY <1>7 DEF vars, poller, owner
<1>. QED  BY <1>3, <1>4, <1>5, <1>6, <1>7 DEF Next, Around

(* n calls of Start leave at most n waits in circulation. *)
THEOREM MasterWaitPerStart == Spec => []WaitPerStart
<1>1. TypeOK /\ WaitInv => WaitPerStart
  BY MasterAssumption DEF TypeOK, MasterTypeOK, WaitInv, Busy, Start, WaitPerStart
<1>. QED
  BY <1>1, MasterTypeCorrect, WaitInit, WaitStep, PTL DEF Spec

-----------------------------------------------------------------------------
(* The launches that an application may have had. *)
Allowed(a) ==
  restarts[a] + taken[a] + (IF startup[a] = "Manual" THEN 0 ELSE 1)

(* A launch of a is to come, unless a is taken out of service before. *)
Due(a) ==
  \/ ppc = "launch" /\ papp = a
  \/ inService[a] /\ state[a] = "Stopped" /\ ~Launching(a)
  \/ inService[a] /\ ppc = "stopping" /\ papp = a /\ next = "Stopped"

(* A launch that is due is among those allowed; behind the back of Stop    *)
(* there is one more, since the poll thread comes by once.                 *)
LaunchInv ==
  \A a \in Apps :
    /\ launched[a] <= Allowed(a) + (IF a \in late THEN 1 ELSE 0)
    /\ ~stopThread => launched[a] + (IF Due(a) THEN 1 ELSE 0) <= Allowed(a)
    /\ a \in late => stopThread /\ (Launching(a) \/ Passed(a))

(* Until Stop is called, nobody but the poll thread changes a state.       *)
SeenInv ==
  ~stopThread =>
    /\ ppc = "test" => seen = state[papp]
    /\ ppc \in {"launch", "launched"} => state[papp] = "Stopped"

(* A step that launches nothing and makes no launch due. *)
LEMMA NoLaunch ==
  ASSUME TypeOK, LaunchInv, 
         UNCHANGED <<startup, restarts, taken, launched, late>>,
         stopThread => stopThread',
         ~stopThread' => \A a \in Apps : Due(a)' => Due(a),
         stopThread => \A a \in Apps :
           Launching(a) \/ Passed(a) => Launching(a)' \/ Passed(a)'
  PROVE  LaunchInv'
<1>1. \A a \in Apps :
        /\ launched[a] \in Nat /\ restarts[a] \in Nat /\ taken[a] \in Nat
        /\ Allowed(a)' = Allowed(a)
  BY DEF TypeOK, AppTypeOK, Allowed
<1>. SUFFICES ASSUME NEW a \in Apps
     PROVE  /\ launched'[a] <= Allowed(a)' + (IF a \in late' THEN 1 ELSE 0)
            /\ ~stopThread' =>
                 launched'[a] + (IF Due(a)' THEN 1 ELSE 0) <= Allowed(a)'
            /\ a \in late' => stopThread' /\ (Launching(a)' \/ Passed(a)')
  BY DEF LaunchInv
<1>2. launched'[a] <= Allowed(a)' + (IF a \in late' THEN 1 ELSE 0)
  BY <1>1 DEF LaunchInv
<1>3. ASSUME ~stopThread'
      PROVE  launched'[a] + (IF Due(a)' THEN 1 ELSE 0) <= Allowed(a)'
  <2>1. launched[a] + (IF Due(a) THEN 1 ELSE 0) <= Allowed(a)
    BY <1>3 DEF LaunchInv
  <2>2. Allowed(a) \in Nat
    BY <1>1 DEF Allowed
  <2>. QED  BY <1>1, <1>3, <2>1, <2>2
<1>4. a \in late' => stopThread' /\ (Launching(a)' \/ Passed(a)')
  BY DEF LaunchInv
<1>. QED  BY <1>2, <1>3, <1>4

(* The bound on the launches, first and from step to step. *)
LEMMA LaunchInit == Init => LaunchInv /\ SeenInv
<1> SUFFICES ASSUME Init PROVE LaunchInv /\ SeenInv
  OBVIOUS
<1>1. \A a \in Apps : Allowed(a) \in Nat /\ launched[a] = 0 /\ ~Due(a)
  BY DEF Init, AppInit, Allowed, Due
<1>. QED  BY <1>1 DEF Init, AppInit, LaunchInv, SeenInv

(* What the poll thread has seen stays true. *)
LEMMA SeenStep == TypeOK /\ StopInv /\ SeenInv /\ [Next]_vars => SeenInv'
<1> SUFFICES ASSUME TypeOK, StopInv, SeenInv, [Next]_vars, ~stopThread'
    PROVE  /\ ppc' = "test" => seen' = state'[papp']
           /\ ppc' \in {"launch", "launched"} => state'[papp'] = "Stopped"
  BY DEF SeenInv
<1>. USE DEF TypeOK, MasterTypeOK, AppTypeOK, SeenInv
<1>1. ASSUME Poll
      PROVE  /\ ppc' = "test" => seen' = state'[papp']
             /\ ppc' \in {"launch", "launched"} => state'[papp'] = "Stopped"
  <2>1. ASSUME PollNext PROVE ppc' \notin {"test", "launch", "launched"}
    BY <2>1, PollNextPasses
  <2>2. CASE PollWake \/ RunEnd
    BY <2>2 DEF PollWake, RunEnd, applications
  <2>3. CASE PollWaiting \/ PollGood \/ PollIdle \/ PollLaunchError
             \/ PollLaunched \/ PollStopped
    BY <2>1, <2>3
       DEF PollWaiting, PollGood, PollIdle, PollLaunchError, PollLaunched,
           PollStopped
  <2>4. CASE PollState \/ PollStart \/ PollStop
    BY <2>4 DEF PollState, PollStart, PollStop, applications
  <2>5. CASE PollLaunch
    BY <2>5 DEF PollLaunch, Launch
  <2>. QED  BY <1>1, <2>2, <2>3, <2>4, <2>5 DEF Poll
<1>2. CASE Calling
  <2>1. CASE StartReturn
    BY <2>1 DEF StartReturn
  <2>2. CASE ~StartReturn
    <3>1. stopThread
      BY <1>2, <2>2
         DEF Calling, StopLook, StopEnd, StopLeave, StopContext, StopReturn,
             DestroyReturn, StopInv, OwnerInv
    <3>2. UNCHANGED stopThread
      BY <1>2, <2>2
         DEF Calling, StopLook, StopEnd, StopLeave, StopContext, StopReturn,
             DestroyReturn
    <3>. QED  BY <3>1, <3>2
  <2>. QED  BY <2>1, <2>2
<1>3. CASE Call("start") \/ Call("stop") \/ Call("destroy")
  BY <1>3 DEF Call
<1>4. ASSUME NEW a \in Apps,
             \/ Around(Exit(a)) \/ Around(TimerExpires(a))
             \/ Around(InService(a, TRUE)) \/ Around(InService(a, FALSE))
      PROVE  UNCHANGED <<state, stopThread, poller>>
  BY <1>4 DEF Around, Exit, TimerExpires, InService
<1>5. CASE UNCHANGED vars
  BY <1>5 DEF vars, applications, poller
<1>. QED  BY <1>1, <1>2, <1>3, <1>4, <1>5 DEF Next, poller

(* No step launches what is not due. *)
LEMMA LaunchStep ==
  TypeOK /\ StopInv /\ LaunchInv /\ SeenInv /\ [Next]_vars => LaunchInv'
<1> SUFFICES ASSUME TypeOK, StopInv, LaunchInv, SeenInv, [Next]_vars
    PROVE  LaunchInv'
  OBVIOUS
<1>1. \A a \in Apps : launched[a] \in Nat /\ restarts[a] \in Nat
                      /\ taken[a] \in Nat /\ Allowed(a) \in Nat
  BY DEF TypeOK, AppTypeOK, Allowed
<1>2. papp \in Apps /\ ppc # ""
  BY DEF TypeOK, MasterTypeOK
<1>. USE AppsOrdered
(* The polls that launch nothing. *)
<1>3. ASSUME PollNext, ppc \notin {"none", "wait"}
      PROVE  \A a \in Apps :
               Launching(a) \/ Passed(a) => Launching(a)' \/ Passed(a)'
  BY <1>3, PollNextPasses
<1>4. CASE PollWake \/ RunEnd
  <2>1. UNCHANGED <<applications, stopThread, papp, next, late>>
    BY <1>4 DEF PollWake, RunEnd
  <2>2. /\ ppc' \in {"none", "wait", "app"} /\ ppc = "wait"
        /\ stopThread => ppc' \in {"none", "wait"}
    BY <1>4 DEF PollWake, RunEnd
  <2>. QED  BY <2>1, <2>2, NoLaunch DEF applications, Due, Launching, Passed
<1>5. CASE PollWaiting \/ PollGood \/ PollIdle
  <2>1. /\ UNCHANGED <<startup, restarts, taken, launched, late, state,
                       inService, stopThread>>
        /\ ppc \in {"app", "test"} /\ PollNext
    BY <1>5 DEF PollWaiting, PollGood, PollIdle, applications
  <2>2. \A a \in Apps : Due(a)' => Due(a)
    BY <2>1, PollNextPasses DEF Due, Launching
  <2>. QED  BY <1>3, <2>1, <2>2, NoLaunch
<1>6. CASE PollState \/ PollStart \/ PollStop
  <2>1. /\ UNCHANGED <<startup, restarts, taken, launched, late, state,
                       inService, stopThread, papp>>
        /\ ppc \in {"app", "test"} /\ ppc' \in {"test", "launch", "stopping"}
    BY <1>6 DEF PollState, PollStart, PollStop, applications
  <2>2. ASSUME ~stopThread PROVE \A a \in Apps : Due(a)' => Due(a)
    <3>1. CASE PollState
      BY <2>1, <3>1 DEF PollState, Due, Launching
    <3>2. CASE PollStart
      <4>1. inService[papp] /\ state[papp] = "Stopped" /\ ppc' = "launch"
        BY <2>2, <3>2 DEF PollStart, SeenInv
      <4>. QED  BY <2>1, <4>1 DEF Due, Launching
    <3>3. CASE PollStop
      <4>1. next' = "Stopped" => ~inService[papp]
        BY <3>3 DEF PollStop, AfterRunning
      <4>. QED  BY <2>1, <3>3, <4>1 DEF PollStop, Due, Launching
    <3>. QED  BY <1>6, <3>1, <3>2, <3>3
  <2>3. \A a \in Apps :
          Launching(a) \/ Passed(a) => Launching(a)' \/ Passed(a)'
    BY <2>1 DEF Launching, Passed
  <2>. QED  BY <2>1, <2>2, <2>3, NoLaunch
<1>7. CASE PollLaunchError \/ PollLaunched
  <2>1. /\ UNCHANGED <<startup, restarts, taken, launched, late, inService,
                       stopThread>>
        /\ state'[papp] # "Stopped" /\ PollNext
        /\ \A a \in Apps \ {papp} : state'[a] = state[a]
        /\ ppc \in {"launch", "launched"}
    BY <1>2, <1>7
       DEF PollLaunchError, LaunchError, PollLaunched, TypeOK, AppTypeOK
  <2>2. \A a \in Apps : Due(a)' => Due(a)
    BY <2>1, PollNextPasses DEF Due, Launching
  <2>3. \A a \in Apps :
          Launching(a) \/ Passed(a) => Launching(a)' \/ Passed(a)'
    BY <1>3, <2>1
  <2>. QED  BY <2>1, <2>2, <2>3, NoLaunch
(* The polls that count. *)
<1>8. CASE PollLaunch
  <2>1. /\ launched' = [launched EXCEPT ![papp] = @ + 1]
        /\ UNCHANGED <<startup, restarts, taken, state, inService, stopThread,
                       papp>>
        /\ ppc = "launch" /\ ppc' = "launched"
        /\ late' = IF stopThread THEN late \cup {papp} ELSE late
    BY <1>8 DEF PollLaunch, Launch
  <2>2. papp \notin late
    BY <1>2, <2>1 DEF LaunchInv, Launching, Passed
  <2>3. \A a \in Apps : Allowed(a)' = Allowed(a)
    BY <2>1 DEF Allowed
  <2>4. \A a \in {papp} : Due(a) /\ ~Due(a)' /\ Launching(a)'
    BY <2>1 DEF Due, Launching
  <2>5. \A a \in Apps \ {papp} : Due(a)' => Due(a)
    BY <2>1 DEF Due, Launching
  <2>6. \A a \in Apps \ {papp} :
          /\ launched'[a] = launched[a] /\ (a \in late' <=> a \in late)
          /\ Launching(a) \/ Passed(a) => Launching(a)' \/ Passed(a)'
    BY <2>1 DEF Launching, Passed, TypeOK, AppTypeOK
  <2>7. launched'[papp] = launched[papp] + 1
    BY <1>2, <2>1 DEF TypeOK, AppTypeOK
  <2>8. ASSUME NEW a \in Apps \ {papp}
        PROVE  /\ launched'[a] <= Allowed(a)' + (IF a \in late' THEN 1 ELSE 0)
               /\ ~stopThread' =>
                    launched'[a] + (IF Due(a)' THEN 1 ELSE 0) <= Allowed(a)'
               /\ a \in late' => stopThread' /\ (Launching(a)' \/ Passed(a)')
    BY <1>1, <2>1, <2>3, <2>5, <2>6 DEF LaunchInv
  <2>9. ASSUME NEW a \in {papp}
        PROVE  /\ launched'[a] <= Allowed(a)' + (IF a \in late' THEN 1 ELSE 0)
               /\ ~stopThread' =>
                    launched'[a] + (IF Due(a)' THEN 1 ELSE 0) <= Allowed(a)'
               /\ a \in late' => stopThread' /\ (Launching(a)' \/ Passed(a)')
    BY <1>1, <1>2, <2>1, <2>2, <2>3, <2>4, <2>7 DEF LaunchInv
  <2>. QED  BY <1>2, <2>8, <2>9 DEF LaunchInv
<1>9. CASE PollStopped
  <2>1. /\ UNCHANGED <<startup, inService, stopThread, late>>
        /\ PollNext /\ ppc = "stopping"
        /\ \A a \in Apps \ {papp} :
             /\ state'[a] = state[a] /\ launched'[a] = launched[a]
             /\ restarts'[a] = restarts[a] /\ taken'[a] = taken[a]
    BY <1>9
       DEF PollStopped, Leave, Settle, Restart, GiveUp, Retire, TypeOK,
           AppTypeOK
  <2>2. stopThread => \A a \in Apps :
          Launching(a) \/ Passed(a) => Launching(a)' \/ Passed(a)'
    BY <1>3, <2>1
  <2>3. ASSUME NEW a \in Apps \ {papp}
        PROVE  /\ launched'[a] <= Allowed(a)' + (IF a \in late' THEN 1 ELSE 0)
               /\ ~stopThread' =>
                    launched'[a] + (IF Due(a)' THEN 1 ELSE 0) <= Allowed(a)'
    <3>1. Allowed(a)' = Allowed(a) /\ launched'[a] = launched[a]
      BY <2>1 DEF Allowed
    <3>2. Due(a)' => Due(a)
      BY <2>1, PollNextPasses DEF Due, Launching
    <3>. QED  BY <1>1, <2>1, <3>1, <3>2 DEF LaunchInv
  <2>4. ASSUME NEW p \in Apps, p = papp
        PROVE  /\ launched'[p] <= Allowed(p)' + (IF p \in late' THEN 1 ELSE 0)
               /\ ~stopThread' =>
                    launched'[p] + (IF Due(p)' THEN 1 ELSE 0) <= Allowed(p)'
    <3>1. Due(p)' => inService[p] /\ state'[p] = "Stopped"
      BY <2>4, <2>1, PollNextPasses DEF Due
    <3>2. CASE next # "settle"
      <4>1. /\ UNCHANGED <<restarts, launched, taken>>
            /\ state'[p] = next
        BY <2>4, <1>2, <1>9, <3>2 DEF PollStopped, Leave, TypeOK, AppTypeOK
      <4>2. Due(p)' => Due(p)
        BY <2>4, <2>1, <3>1, <4>1 DEF Due
      <4>3. Allowed(p)' = Allowed(p)
        BY <2>4, <2>1, <4>1 DEF Allowed
      <4>. QED  BY <2>4, <1>1, <1>2, <2>1, <4>1, <4>2, <4>3 DEF LaunchInv
    <3>3. CASE next = "settle"
      <4>1. Restart(p) \/ GiveUp(p) \/ Retire(p)
        BY <2>4, <1>9, <3>3 DEF PollStopped, Settle
      <4>2. CASE Restart(p)
        <5>1. launched'[p] = launched[p] /\ Allowed(p)' = Allowed(p) + 1
          BY <2>4, <1>1, <1>2, <2>1, <4>2 DEF Restart, Allowed, TypeOK, AppTypeOK
        <5>. QED  BY <2>4, <1>1, <1>2, <2>1, <5>1 DEF LaunchInv
      <4>3. CASE GiveUp(p)
        <5>1. launched'[p] = launched[p] /\ Allowed(p)' = Allowed(p)
          BY <2>4, <2>1, <4>3 DEF GiveUp, Allowed
        <5>2. Due(p)' => Due(p)
          BY <2>4, <2>1, <3>1, <4>3 DEF GiveUp, Due, Launching
        <5>. QED  BY <2>4, <1>1, <1>2, <2>1, <5>1, <5>2 DEF LaunchInv
      <4>4. CASE Retire(p)
        <5>1. ~Due(p)'
          BY <2>4, <3>1, <4>4 DEF Retire
        <5>2. CASE startup[p] = "Automatic"
          <6>1. launched'[p] = 0 /\ Allowed(p)' = 1
            BY <2>4, <1>2, <2>1, <4>4, <5>2 DEF Retire, Allowed, TypeOK, AppTypeOK
          <6>. QED  BY <2>4, <5>1, <6>1
        <5>3. CASE startup[p] # "Automatic"
          <6>1. launched'[p] = launched[p] /\ Allowed(p)' = Allowed(p)
            BY <2>4, <2>1, <4>4, <5>3 DEF Retire, Allowed
          <6>. QED  BY <2>4, <1>1, <1>2, <2>1, <5>1, <6>1 DEF LaunchInv
        <5>. QED  BY <2>4, <5>2, <5>3
      <4>. QED  BY <2>4, <4>1, <4>2, <4>3, <4>4
    <3>. QED  BY <3>2, <3>3
  <2>5. \A a \in Apps : a \in late' =>
          stopThread' /\ (Launching(a)' \/ Passed(a)')
    BY <2>1, <2>2 DEF LaunchInv
  <2>. QED  BY <1>2, <2>3, <2>4, <2>5 DEF LaunchInv
(* The owner. *)
<1>10. CASE StartReturn
  <2>1. ASSUME NEW a \in Apps
        PROVE  /\ launched'[a] = 0 /\ a \notin late'
               /\ Allowed(a)' \in Nat /\ (Due(a)' => Allowed(a)' = 1)
    <3>1. /\ startup' = startup /\ ppc' = "wait"
          /\ launched'[a] = 0 /\ restarts'[a] = 0 /\ taken'[a] = 0
          /\ inService'[a] <=> startup[a] # "Manual"
          /\ late' = {}
      BY <1>10 DEF StartReturn, AppStart
    <3>. QED  BY <3>1 DEF Allowed, Due
  <2>. QED  BY <2>1 DEF LaunchInv
<1>11. CASE Calling /\ ~StartReturn
  <2>1. stopThread /\ stopThread'
    BY <1>11
       DEF Calling, StopLook, StopEnd, StopLeave, StopContext, StopReturn,
           DestroyReturn, StopInv, OwnerInv
  <2>2. UNCHANGED <<startup, restarts, taken, launched, late, ppc, papp>>
    BY <1>11
       DEF Calling, StopLook, StopEnd, StopLeave, StopContext, StopReturn,
           DestroyReturn, applications, poller
  <2>. QED  BY <2>1, <2>2, NoLaunch DEF Launching, Passed
<1>12. CASE Call("start") \/ Call("stop") \/ Call("destroy")
  <2>1. stopThread' /\ UNCHANGED <<applications, late, ppc, papp>>
    BY <1>12 DEF Call, poller
  <2>. QED  BY <2>1, NoLaunch DEF applications, Launching, Passed
(* The environment. *)
<1>13. ASSUME NEW a \in Apps, Around(Exit(a)) \/ Around(TimerExpires(a))
       PROVE  LaunchInv'
  <2>1. UNCHANGED <<startup, restarts, taken, launched, late, state, inService,
                    stopThread, ppc, papp, next>>
    BY <1>13 DEF Around, Exit, TimerExpires, poller
  <2>. QED  BY <2>1, NoLaunch DEF Due, Launching, Passed
<1>14. ASSUME NEW b \in Apps, NEW in \in {TRUE, FALSE},
              Around(InService(b, in))
       PROVE  LaunchInv'
  <2>1. /\ UNCHANGED <<startup, restarts, launched, late, state, stopThread,
                       ppc, papp, next>>
        /\ inService' = [inService EXCEPT ![b] = in]
        /\ taken' = [taken EXCEPT ![b] = IF in THEN @ + 1 ELSE @]
    BY <1>14 DEF Around, InService, poller
  <2>2. ASSUME NEW a \in Apps
        PROVE  \/ Allowed(a)' = Allowed(a) /\ (Due(a)' => Due(a))
               \/ Allowed(a)' = Allowed(a) + 1
    <3>1. CASE a = b /\ in
      <4>1. taken'[a] = taken[a] + 1
        BY <2>1, <3>1 DEF TypeOK, AppTypeOK
      <4>. QED  BY <1>1, <2>1, <4>1 DEF Allowed
    <3>2. CASE a # b \/ ~in
      <4>1. taken'[a] = taken[a] /\ (inService'[a] => inService[a])
        BY <2>1, <3>2 DEF TypeOK, AppTypeOK
      <4>. QED  BY <2>1, <4>1 DEF Allowed, Due, Launching
    <3>. QED  BY <3>1, <3>2
  <2>3. ASSUME NEW a \in Apps
        PROVE  /\ launched'[a] <= Allowed(a)' + (IF a \in late' THEN 1 ELSE 0)
               /\ ~stopThread' =>
                    launched'[a] + (IF Due(a)' THEN 1 ELSE 0) <= Allowed(a)'
    BY <1>1, <2>1, <2>2 DEF LaunchInv
  <2>4. \A a \in Apps : a \in late' =>
          stopThread' /\ (Launching(a)' \/ Passed(a)')
    BY <2>1 DEF LaunchInv, Launching, Passed
  <2>. QED  BY <2>3, <2>4 DEF LaunchInv
<1>15. CASE UNCHANGED vars
  BY <1>15, NoLaunch DEF vars, applications, poller, Due, Launching, Passed
<1>. QED
  BY <1>4, <1>5, <1>6, <1>7, <1>8, <1>9, <1>10, <1>11, <1>12, <1>13, <1>14,
     <1>15
  DEF Next, Poll

(* An application is launched as often as its restarts, its calls of       *)
(* InService and its startup mode account for, and once more at most       *)
(* behind the back of a Stop.                                              *)
THEOREM MasterLaunchesCounted == Spec => []LaunchesCounted
<1>1. LaunchInv => LaunchesCounted
  BY DEF LaunchInv, Allowed, LaunchesCounted
<1>2. Spec => [](LaunchInv /\ SeenInv)
  BY MasterTypeCorrect, MasterStopInv, LaunchInit, SeenStep, LaunchStep, PTL
     DEF Spec
<1>. QED  BY <1>1, <1>2, PTL
=============================================================================
