-------------------------- MODULE ProcessApplication --------------------------
(***************************************************************************)
(* The applications that a process master supervises.  Each is polled by   *)
(* the master's thread, started and stopped by the thread that owns the    *)
(* master, and taken in and out of service by anybody.  Stopping a process *)
(* takes up to four seconds and starting one up to two, with the pointer   *)
(* process_ in use: what the other thread does meanwhile is visible here,  *)
(* and a pointer that is gone when it is used again may break the program. *)
(***************************************************************************)
EXTENDS Naturals

CONSTANTS
  NofApps,       (* the applications, in the order of the master's list   *)
  RestartLimit,  (* 10 in the code: restarts of an automatic application  *)
  Startups,      (* the configurations: the startup mode of each          *)
  MaxTaken       (* bound: calls that take each into service              *)

Apps == 1..NofApps

ASSUME ApplicationAssumption ==
  /\ NofApps \in Nat \ {0} /\ RestartLimit \in Nat \ {0}
  /\ MaxTaken \in [Apps -> Nat]
  /\ Startups \subseteq [Apps -> {"Manual", "Once", "Automatic"}]

VARIABLES
  startup,    (* "Manual", "Once" or "Automatic"                           *)
  state,      (* state_: "Stopped", "Running", "Ready" or "Failing"        *)
  inService,  (* in_service_                                               *)
  operable,   (* operable_                                                 *)
  restarts,   (* nof_restarts_                                             *)
  waiting,    (* startup_timer_ lies ahead                                 *)
  process,    (* process_: "none", "running" or "exited"                   *)
  broken,     (* process_ was used after the other thread had reset it     *)
  launched,   (* history: launches since restarts was reset                *)
  taken       (* history: calls of InService(true) since then              *)

applications == <<startup, state, inService, operable, restarts, waiting,
                  process, broken, launched, taken>>

AppInit ==
  /\ startup \in Startups
  /\ state = [a \in Apps |-> "Stopped"]
  /\ inService = [a \in Apps |-> FALSE]
  /\ operable = [a \in Apps |-> FALSE]
  /\ restarts = [a \in Apps |-> 0]
  /\ waiting = [a \in Apps |-> FALSE]
  /\ process = [a \in Apps |-> "none"]
  /\ broken = FALSE
  /\ launched = [a \in Apps |-> 0]
  /\ taken = [a \in Apps |-> 0]

-----------------------------------------------------------------------------
(* The environment: the process ends by itself, the startup timer expires, *)
(* anybody calls InService.                                                *)
Exit(a) ==
  /\ process[a] = "running"
  /\ process' = [process EXCEPT ![a] = "exited"]
  /\ UNCHANGED <<startup, state, inService, operable, restarts, waiting,
                 broken, launched, taken>>

TimerExpires(a) ==
  /\ waiting[a]
  /\ waiting' = [waiting EXCEPT ![a] = FALSE]
  /\ UNCHANGED <<startup, state, inService, operable, restarts, process,
                 broken, launched, taken>>

InService(a, in) ==
  /\ in # inService[a]
  /\ in => taken[a] < MaxTaken[a]
  /\ inService' = [inService EXCEPT ![a] = in]
  /\ taken' = [taken EXCEPT ![a] = IF in THEN @ + 1 ELSE @]
  /\ UNCHANGED <<startup, state, operable, restarts, waiting, process, broken,
                 launched>>

-----------------------------------------------------------------------------
IsRunning(a) == process[a] = "running"

(* Fault: only a process that runs counts. *)
HasRunning(a) == process[a] = "running"

(* Whether process_ is set, which it is from a launch to its reset.        *)
HasProcess(a) == process[a] # "none"

(* Fault: process_ is not reset. *)
StopProcessOnly(a, held) ==
  IF held
  THEN process' = [process EXCEPT ![a] = "exited"] /\ UNCHANGED broken
  ELSE UNCHANGED <<process, broken>>

(* The end of StopProcess, in a thread that has found process_ set if held *)
(* is true.  The process has left or is terminated, and process_ is reset; *)
(* if the other thread has done that in between, the last look at process_ *)
(* came just before it, or follows a null pointer.                         *)
StopProcess(a, held) ==
  IF held
  THEN /\ process' = [process EXCEPT ![a] = "none"]
       /\ broken' \in {broken, broken \/ process[a] = "none"}
  ELSE UNCHANGED <<process, broken>>

(* StartProcess up to the launch: a process that seems to be running is    *)
(* stopped first, then the launch works or throws.                         *)
Launch(a) ==
  /\ process' = [process EXCEPT ![a] = "running"]
  /\ launched' = [launched EXCEPT ![a] = @ + 1]
  /\ UNCHANGED <<startup, state, inService, operable, restarts, waiting,
                 broken, taken>>

LaunchError(a) ==
  /\ process' = [process EXCEPT ![a] = "none"]
  /\ operable' = [operable EXCEPT ![a] = FALSE]
  /\ state' = [state EXCEPT ![a] = "Failing"]
  /\ UNCHANGED <<startup, inService, restarts, waiting, broken, launched,
                 taken>>

(* Start of every application, while no thread polls them: Stop, the       *)
(* counter, FindApplication, InService and the startup delay.              *)
AppStart ==
  /\ process' = [a \in Apps |-> "none"]
  /\ state' = [a \in Apps |-> "Stopped"]
  /\ restarts' = [a \in Apps |-> 0]
  /\ operable' \in [Apps -> BOOLEAN]
  /\ inService' = [a \in Apps |-> startup[a] # "Manual"]
  /\ waiting' \in [Apps -> BOOLEAN]
  /\ launched' = [a \in Apps |-> 0]
  /\ taken' = [a \in Apps |-> 0]
  /\ UNCHANGED <<startup, broken>>

(* The tail of a poll that found the application out of service, or its    *)
(* process gone, and has stopped the process.                              *)
Leave(a, to) ==
  /\ state' = [state EXCEPT ![a] = to]
  /\ operable' = [operable EXCEPT ![a] = FALSE]
  /\ UNCHANGED <<startup, inService, restarts, waiting, launched, taken>>

(* The state after Running, by the startup mode.                           *)
AfterRunning(a) ==
  IF startup[a] = "Manual" THEN "Ready"
  ELSE IF ~inService[a] THEN "Stopped"
  ELSE IF startup[a] = "Once" THEN "Ready"
  ELSE "Failing"

(* Fault: one restart too many. *)
MayRestartAgain(a) == restarts[a] <= RestartLimit

MayRestart(a) == restarts[a] < RestartLimit

(* Fault: the restart is not counted. *)
RestartUncounted(a) ==
  /\ inService[a] /\ startup[a] = "Automatic" /\ MayRestart(a)
  /\ waiting' = [waiting EXCEPT ![a] = TRUE]
  /\ state' = [state EXCEPT ![a] = "Stopped"]
  /\ UNCHANGED <<restarts, launched, taken>>

(* The tail of a poll in the state Ready or Failing: one of three.         *)
Restart(a) ==
  /\ inService[a] /\ startup[a] = "Automatic" /\ MayRestart(a)
  /\ waiting' = [waiting EXCEPT ![a] = TRUE]
  /\ restarts' = [restarts EXCEPT ![a] = @ + 1]
  /\ state' = [state EXCEPT ![a] = "Stopped"]
  /\ UNCHANGED <<launched, taken>>

GiveUp(a) ==
  /\ inService[a]
  /\ startup[a] = "Automatic" => ~MayRestart(a)
  /\ UNCHANGED <<waiting, restarts, state, launched, taken>>

Retire(a) ==
  /\ ~inService[a]
  /\ state' = [state EXCEPT ![a] = "Stopped"]
  /\ IF startup[a] = "Automatic"
     THEN /\ restarts' = [restarts EXCEPT ![a] = 0]
          /\ launched' = [launched EXCEPT ![a] = 0]
          /\ taken' = [taken EXCEPT ![a] = 0]
     ELSE UNCHANGED <<restarts, launched, taken>>
  /\ UNCHANGED waiting

Settle(a) ==
  /\ Restart(a) \/ GiveUp(a) \/ Retire(a)
  /\ operable' = [operable EXCEPT ![a] = FALSE]
  /\ UNCHANGED <<startup, inService>>

AppTypeOK ==
  /\ startup \in [Apps -> {"Manual", "Once", "Automatic"}]
  /\ state \in [Apps -> {"Stopped", "Running", "Ready", "Failing"}]
  /\ inService \in [Apps -> BOOLEAN]
  /\ operable \in [Apps -> BOOLEAN]
  /\ restarts \in [Apps -> 0..RestartLimit]
  /\ waiting \in [Apps -> BOOLEAN]
  /\ process \in [Apps -> {"none", "running", "exited"}]
  /\ broken \in BOOLEAN
  /\ launched \in [Apps -> Nat]
  /\ taken \in [Apps -> Nat]
  /\ \A a \in Apps : taken[a] <= MaxTaken[a]
=============================================================================
