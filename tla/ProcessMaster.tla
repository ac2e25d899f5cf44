----------------------------- MODULE ProcessMaster -----------------------------
(***************************************************************************)
(* A ProcessMaster: the thread that owns it starts, stops and destroys it, *)
(* a second thread runs the context and polls the applications twice a     *)
(* second.  A poll is divided where another thread can come in between     *)
(* with effect: after the look at the state, before and after a launch,    *)
(* and while a process is being stopped.                                   *)
(***************************************************************************)
EXTENDS ProcessApplication

CONSTANT MaxStarts   (* bound: calls of Start *)

ASSUME MasterAssumption == MaxStarts \in Nat

VARIABLES
  stopThread,  (* stop_thread_                                             *)
  stopped,     (* io_context_.stopped()                                    *)
  waits,       (* handlers of poll_timer_ that wait or are due             *)
  ppc, papp,   (* where the poll thread is, and at which application       *)
  seen,        (* the state it has read                                    *)
  next,        (* the state that the end of its StopProcess leads to       *)
  held,        (* its StopProcess has found process_ set                   *)
  upc, uapp,   (* where the owner is, and at which application             *)
  uop,         (* the call of the owner: "start", "stop" or "destroy"      *)
  uheld,       (* its StopProcess has found process_ set                   *)
  starts,      (* history: the calls of Start                              *)
  late         (* history: applications launched behind a Stop's back     *)

poller == <<ppc, papp, seen, next, held>>
owner  == <<upc, uapp, uop, uheld, starts>>
vars   == <<applications, stopThread, stopped, waits, poller, owner, late>>

Init ==
  /\ AppInit
  /\ stopThread = FALSE /\ stopped = FALSE /\ waits = 0
  /\ ppc = "none" /\ papp = 1 /\ seen = "Stopped" /\ next = "Stopped"
  /\ held = FALSE
  /\ upc = "idle" /\ uapp = 1 /\ uop = "stop" /\ uheld = FALSE
  /\ starts = 0 /\ late = {}

Sound == ~broken

-----------------------------------------------------------------------------
(* The owner: Start, Stop and the destructor all begin with the same Stop, *)
(* which stops the applications one by one and joins the thread then.      *)
Call(op) ==
  /\ upc = "idle"
  /\ op = "start" => starts < MaxStarts
  /\ uop' = op
  /\ starts' = IF op = "start" THEN starts + 1 ELSE starts
  /\ stopThread' = TRUE
  /\ upc' = "app" /\ uapp' = 1
  /\ UNCHANGED <<applications, stopped, waits, poller, uheld, late>>

(* Stop of one application: it looks at process_, ends it, sets the state, *)
(* and takes the application out of service last of all.                   *)
StopLook ==
  /\ upc = "app"
  /\ uheld' = HasProcess(uapp)
  /\ upc' = "stopping"
  /\ UNCHANGED <<applications, stopThread, stopped, waits, poller, uapp,
                 uop, starts, late>>

StopEnd ==
  /\ upc = "stopping"
  /\ StopProcess(uapp, uheld)
  /\ state' = [state EXCEPT ![uapp] = "Stopped"]
  /\ operable' = [operable EXCEPT ![uapp] = FALSE]
  /\ uheld' = FALSE
  /\ upc' = "leave"
  /\ UNCHANGED <<startup, inService, restarts, waiting, launched, taken,
                 stopThread, stopped, waits, poller, uapp, uop, starts,
                 late>>

StopLeave ==
  /\ upc = "leave"
  /\ inService' = [inService EXCEPT ![uapp] = FALSE]
  /\ IF uapp < NofApps THEN upc' = "app" /\ uapp' = uapp + 1
     ELSE upc' = "context" /\ uapp' = 1
  /\ UNCHANGED <<startup, state, operable, restarts, waiting, process,
                 broken, launched, taken, stopThread, stopped, waits,
                 poller, uop, uheld, starts, late>>

StopContext ==
  /\ upc = "context"
  /\ stopped' = TRUE
  /\ upc' = "join"
  /\ UNCHANGED <<applications, stopThread, waits, poller, uapp, uop, uheld,
                 starts, late>>

StopReturn ==
  /\ upc = "join" /\ ppc = "none" /\ uop = "stop"
  /\ upc' = "idle"
  /\ UNCHANGED <<applications, stopThread, stopped, waits, poller, uapp,
                 uop, uheld, starts, late>>

(* The rest of Start: DoPollTimer adds a wait and cancels one that is left *)
(* from the time before, the handler of which runs at once.                *)
StartReturn ==
  /\ upc = "join" /\ ppc = "none" /\ uop = "start"
  /\ stopThread' = FALSE /\ stopped' = FALSE
  /\ AppStart
  /\ waits' = waits + 1
  /\ ppc' = "wait"
  /\ upc' = "idle"
  /\ late' = {}
  /\ UNCHANGED <<papp, seen, next, held, uapp, uop, uheld, starts>>

(* The rest of the destructor: the context goes before the applications,   *)
(* and a process that is left uses it when it is stopped at last.          *)
DestroyReturn ==
  /\ upc = "join" /\ ppc = "none" /\ uop = "destroy"
  /\ process' = [a \in Apps |-> "none"]
  /\ state' = [a \in Apps |-> "Stopped"]
  /\ operable' = [a \in Apps |-> FALSE]
  /\ inService' = [a \in Apps |-> FALSE]
  /\ broken' \in {broken, broken \/ \E a \in Apps : process[a] # "none"}
  /\ upc' = "destroyed"
  /\ UNCHANGED <<startup, restarts, waiting, launched, taken, stopThread,
                 stopped, waits, poller, uapp, uop, uheld, starts, late>>

-----------------------------------------------------------------------------
(* The poll thread. *)
PollWake ==
  /\ ppc = "wait" /\ ~stopped /\ waits > 0
  /\ waits' = waits - 1
  /\ IF stopThread THEN UNCHANGED ppc ELSE ppc' = "app"
  /\ UNCHANGED <<applications, stopThread, stopped, papp, seen, next, held,
                 owner, late>>

RunEnd ==
  /\ ppc = "wait" /\ (stopped \/ waits = 0)
  /\ stopped' = TRUE
  /\ ppc' = "none"
  /\ UNCHANGED <<applications, stopThread, waits, papp, seen, next, held,
                 owner, late>>

(* Fault: every application starts the timer. *)
PollNextWait ==
  /\ seen' = "Stopped" /\ next' = "Stopped" /\ held' = FALSE
  /\ IF papp < NofApps THEN ppc' = "app" /\ papp' = papp + 1
     ELSE ppc' = "wait" /\ papp' = 1
  /\ waits' = waits + 1

(* On to the next application, or to the timer again.  The locals of the   *)
(* poll are gone.                                                          *)
PollNext ==
  /\ seen' = "Stopped" /\ next' = "Stopped" /\ held' = FALSE
  /\ IF papp < NofApps
     THEN ppc' = "app" /\ papp' = papp + 1 /\ UNCHANGED waits
     ELSE ppc' = "wait" /\ papp' = 1 /\ waits' = waits + 1

(* Fault: a startup delay ends the poll, and nothing starts the timer. *)
PollWaitingEnds ==
  /\ ppc = "app" /\ waiting[papp]
  /\ ppc' = "wait" /\ papp' = 1
  /\ UNCHANGED <<applications, stopThread, stopped, waits, seen, next, held,
                 owner, late>>

PollWaiting ==
  /\ ppc = "app" /\ waiting[papp]
  /\ PollNext
  /\ UNCHANGED <<applications, stopThread, stopped, owner, late>>

PollState ==
  /\ ppc = "app" /\ ~waiting[papp]
  /\ seen' = state[papp]
  /\ ppc' = "test"
  /\ UNCHANGED <<applications, stopThread, stopped, waits, papp, next,
                 held, owner, late>>

PollGood ==
  /\ ppc = "test"
  /\ seen = "Running" /\ inService[papp] /\ IsRunning(papp)
  /\ operable' = [operable EXCEPT ![papp] = TRUE]
  /\ PollNext
  /\ UNCHANGED <<startup, state, inService, restarts, waiting, process,
                 broken, launched, taken, stopThread, stopped, owner,
                 late>>

PollIdle ==
  /\ ppc = "test"
  /\ seen = "Stopped" /\ ~inService[papp]
  /\ operable' = [operable EXCEPT ![papp] = FALSE]
  /\ PollNext
  /\ UNCHANGED <<startup, state, inService, restarts, waiting, process,
                 broken, launched, taken, stopThread, stopped, owner,
                 late>>

PollStart ==
  /\ ppc = "test"
  /\ seen = "Stopped" /\ inService[papp]
  /\ ppc' = "launch"
  /\ UNCHANGED <<applications, stopThread, stopped, waits, papp, seen,
                 next, held, owner, late>>

PollLaunch ==
  /\ ppc = "launch"
  /\ Launch(papp)
  /\ ppc' = "launched"
  /\ late' = IF stopThread THEN late \cup {papp} ELSE late
  /\ UNCHANGED <<stopThread, stopped, waits, papp, seen, next, held,
                 owner>>

PollLaunchError ==
  /\ ppc = "launch"
  /\ LaunchError(papp)
  /\ PollNext
  /\ UNCHANGED <<stopThread, stopped, owner, late>>

(* It has seen the new process run, or waited for two seconds. *)
PollLaunched ==
  /\ ppc = "launched"
  /\ broken' \in {broken, broken \/ process[papp] = "none"}
  /\ state' = [state EXCEPT ![papp] = "Running"]
  /\ PollNext
  /\ UNCHANGED <<startup, inService, operable, restarts, waiting, process,
                 launched, taken, stopThread, stopped, owner, late>>

(* The process is to be stopped: it is not wanted, or gone. *)
PollStop ==
  /\ ppc = "test"
  /\ \/ /\ seen = "Running" /\ ~(inService[papp] /\ IsRunning(papp))
        /\ next' = AfterRunning(papp)
     \/ /\ seen \in {"Ready", "Failing"}
        /\ next' = "settle"
  /\ held' = HasProcess(papp)
  /\ ppc' = "stopping"
  /\ UNCHANGED <<applications, stopThread, stopped, waits, papp, seen,
                 owner, late>>

PollStopped ==
  /\ ppc = "stopping"
  /\ StopProcess(papp, held)
  /\ IF next = "settle" THEN Settle(papp) ELSE Leave(papp, next)
  /\ PollNext
  /\ UNCHANGED <<stopThread, stopped, owner, late>>

-----------------------------------------------------------------------------
Poll ==
  \/ PollWake
  \/ RunEnd
  \/ PollWaiting
  \/ PollState
  \/ PollGood
  \/ PollIdle
  \/ PollStart
  \/ PollLaunch
  \/ PollLaunchError
  \/ PollLaunched
  \/ PollStop
  \/ PollStopped

Calling ==
  \/ StopLook
  \/ StopEnd
  \/ StopLeave
  \/ StopContext
  \/ StopReturn
  \/ StartReturn
  \/ DestroyReturn

(* The environment leaves the threads' variables alone. *)
Around(action) ==
  action /\ UNCHANGED <<stopThread, stopped, waits, poller, owner, late>>

Next ==
  /\ Sound /\ upc # "destroyed"
  /\ \/ Poll
     \/ Calling
     \/ Call("start")
     \/ Call("stop")
     \/ Call("destroy")
     \/ \E a \in Apps : Around(Exit(a))
     \/ \E a \in Apps : Around(TimerExpires(a))
     \/ \E a \in Apps : Around(InService(a, TRUE))
     \/ \E a \in Apps : Around(InService(a, FALSE))

Spec == Init /\ [][Next]_vars

(* The two threads are scheduled, and time passes.  Nothing is assumed of  *)
(* the processes and of those who call.                                    *)
FairSpec ==
  /\ Spec
  /\ WF_vars(Sound /\ Poll)
  /\ WF_vars(Sound /\ Calling)
  /\ \A a \in Apps : WF_vars(Sound /\ Around(TimerExpires(a)))

-----------------------------------------------------------------------------
MasterTypeOK ==
  /\ stopThread \in BOOLEAN /\ stopped \in BOOLEAN
  /\ waits \in Nat
  /\ ppc \in {"none", "wait", "app", "test", "launch", "launched", "stopping"}
  /\ papp \in Apps /\ uapp \in Apps
  /\ seen \in {"Stopped", "Running", "Ready", "Failing"}
  /\ next \in {"Stopped", "Ready", "Failing", "settle"}
  /\ held \in BOOLEAN /\ uheld \in BOOLEAN
  /\ upc \in {"idle", "app", "stopping", "leave", "context", "join",
              "destroyed"}
  /\ uop \in {"start", "stop", "destroy"}
  /\ starts \in 0..MaxStarts
  /\ late \subseteq Apps

TypeOK == AppTypeOK /\ MasterTypeOK

(* Whatever Stop, the polls and the calls of InService do to each other,   *)
(* StartProcess never finds that the "process seems to be running".        *)
OneProcess == ppc = "launch" => process[papp] = "none"

(* An application is launched once when it is taken into service, and once *)
(* more per restart that is counted; a Stop under way lets one slip in.    *)
LaunchesCounted ==
  \A a \in Apps :
    launched[a] <= restarts[a] + taken[a]
                     + (IF startup[a] = "Manual" THEN 0 ELSE 1)
                     + (IF a \in late THEN 1 ELSE 0)

(* "Stops all processes" (processmaster.cpp) does not hold: the poll        *)
(* thread is joined after the applications have been stopped.  What holds  *)
(* is that the processes left when Stop has returned are those that a poll *)
(* launched while Stop was under way.                                      *)
StopLeaves ==
  ppc = "none" /\ upc = "idle" =>
    \A a \in Apps : process[a] # "none" => a \in late

(* Each Start adds a wait to those that circulate: a master that is        *)
(* started once polls on its timer, and n starts leave at most n waits.    *)
WaitPerStart ==
  waits + (IF ppc \in {"none", "wait"} THEN 0 ELSE 1) <= starts

GivenUp(a) ==
  /\ state[a] \in {"Ready", "Failing"}
  /\ startup[a] = "Automatic" => restarts[a] = RestartLimit

(* InService, "If true, starts the executable. False stops the             *)
(* executable": an application in service that does not run is launched,   *)
(* or has used up its starts, and the process of one out of service ends.  *)
Supervised ==
  \A a \in Apps :
    /\ (inService[a] /\ ~IsRunning(a) /\ ppc # "none" /\ ~stopThread) ~>
         \/ IsRunning(a) \/ GivenUp(a)
         \/ ~inService[a] \/ stopThread \/ ~Sound
    /\ (~inService[a] /\ HasProcess(a) /\ ppc # "none" /\ ~stopThread) ~>
         ~HasProcess(a) \/ inService[a] \/ stopThread \/ ~Sound
=============================================================================
