------------------------ MODULE ForgeSupervisor_proofs ------------------------
(***************************************************************************)
(* The safety of the supervisor for any services, pids, restart policies    *)
(* and boot targets: IInv is inductive, and every safety property of        *)
(* ForgeSupervisor follows from it.                                         *)
(***************************************************************************)
EXTENDS ForgeSupervisor, TLAPS

-----------------------------------------------------------------------------
(* Type correctness.                                                       *)

LEMMA Bounds ==
  /\ {RestartBurstMax, BootTries, MaxBacklog, MaxOrphans} \subseteq Nat
  /\ \A T \in Targets : T \subseteq Services
  /\ Devices \subseteq Services
  BY SupervisorAssumption DEF SupervisorAssumption

LEMMA NoServiceIsNone == NoService \notin Services
  BY SupervisorAssumption DEF SupervisorAssumption

LEMMA TaskNames ==
  /\ Idle.task = "idle"
  /\ \A T, n : Boot(T, n).task = "boot"
  BY DEF Idle, Boot

LEMMA IdleType == Idle \in Operation
  BY DEF Idle, Operation, Tasks

LEMMA NoStartType == NoStart \in Start
  BY DEF NoStart, Start

LEMMA BootType ==
  ASSUME NEW T \in SUBSET Services, NEW n \in Nat
  PROVE  Boot(T, n) \in Operation
  BY DEF Boot, Idle, Operation, Tasks

LEMMA InitTypeOK == Init => TypeOK
<1>. SUFFICES ASSUME Init PROVE TypeOK
  OBVIOUS
<1>1. op \in Operation
  BY Bounds DEF Init, Idle, Operation, Tasks
<1>2. restartTimes \in [Services -> 0..RestartBurstMax] /\ orphans \in Nat
  BY Bounds DEF Init
<1>3. pendingRestarts \in Seq(Services)
  BY DEF Init
<1>. QED
  BY <1>1, <1>2, <1>3, NoStartType DEF Init, TypeOK, UnitState

\* Whatever start_service's caller does with the result, the control state stays typed.
LEMMA AfterStartTypeOK ==
  ASSUME TypeOK, NEW ok \in BOOLEAN, AfterStart(ok)
  PROVE  op' \in Operation /\ holder' \in {"none", "reactor", "thread"}
         /\ reactor' \in {"boot", "poll", "chld", "client", "served", "off"}
<1>1. CASE Released
  BY <1>1, IdleType DEF Released, Served, TypeOK
<1>2. ASSUME op' = [op EXCEPT !.task = "fallback", !.svc = NoService] PROVE op' \in Operation
  BY <1>2 DEF TypeOK, Operation, Tasks
<1>3. ASSUME op' = [op EXCEPT !.svc = NoService] PROVE op' \in Operation
  BY <1>3 DEF TypeOK, Operation
<1>. QED
  BY <1>1, <1>2, <1>3 DEF AfterStart, TypeOK

LEMMA FailedStartType == FailedStart \in UnitState
  BY DEF FailedStart, UnitState

LEMMA StartServiceTypeOK ==
  ASSUME TypeOK, StartServiceStep
  PROVE  TypeOK'
<1>1. ASSUME NEW s \in Services, LaunchFails(s) PROVE TypeOK'
  BY <1>1, AfterStartTypeOK, FailedStartType DEF LaunchFails, TypeOK, kernelVars
<1>2. ASSUME NEW s \in Services, NEW p \in Pids, LaunchSimple(s, p) PROVE TypeOK'
  BY <1>2, AfterStartTypeOK DEF LaunchSimple, Spawn, TypeOK, UnitState
<1>3. ASSUME NEW s \in Services, NEW p \in Pids, LaunchWaiting(s, p) PROVE TypeOK'
  BY <1>3 DEF LaunchWaiting, Spawn, TypeOK, UnitState, Start
<1>4. CASE ActivationReady
  BY <1>4, AfterStartTypeOK DEF ActivationReady, TypeOK, UnitState, Start, NoStart, kernelVars
<1>5. CASE ActivationFails
  BY <1>5, AfterStartTypeOK, FailedStartType
  DEF ActivationFails, Collect, TypeOK, UnitState, Start, NoStart
<1>6. CASE OneshotCollected
  BY <1>6, AfterStartTypeOK
  DEF OneshotCollected, OneshotEnds, Waiting, Collect, TypeOK, UnitState, Start, NoStart
<1>7. CASE OneshotStillRuns
  BY <1>7 DEF OneshotStillRuns, TypeOK, unitVars, kernelVars
<1>8. CASE OneshotPollsAgain
  BY <1>8 DEF OneshotPollsAgain, TypeOK, unitVars, kernelVars
<1>9. CASE OneshotTimesOut
  BY <1>9 DEF OneshotTimesOut, TypeOK, Start, unitVars, kernelVars
<1>10. CASE OneshotVanished
  BY <1>10, AfterStartTypeOK, FailedStartType
  DEF OneshotVanished, OneshotEnds, TypeOK, Start, NoStart, kernelVars
<1>11. CASE OneshotKilled
  BY <1>11, AfterStartTypeOK
  DEF OneshotKilled, OneshotEnds, Waiting, Collect, TypeOK, UnitState, Start, NoStart
<1>. QED
  BY <1>1, <1>2, <1>3, <1>4, <1>5, <1>6, <1>7, <1>8, <1>9, <1>10, <1>11 DEF StartServiceStep

LEMMA OperationTypeOK ==
  ASSUME TypeOK, OperationStep
  PROVE  TypeOK'
<1>1. CASE SigchldReaped
  BY <1>1 DEF SigchldReaped, TypeOK, Operation, Tasks, unitVars, kernelVars
<1>2. CASE DrainPop
  <2>1. Head(pendingRestarts) \in Services /\ Tail(pendingRestarts) \in Seq(Services)
    BY <1>2 DEF DrainPop, TypeOK
  <2>2. restartTimes' \in [Services -> 0..RestartBurstMax] /\ op' \in Operation
    <3>1. CASE RestartAllowed(Head(pendingRestarts))
      <4>1. restartTimes[Head(pendingRestarts)] + 1 \in 0..RestartBurstMax
        BY <2>1, <3>1, Bounds DEF RestartAllowed, TypeOK
      <4>2. op' = [op EXCEPT !.svc = Head(pendingRestarts)]
            /\ restartTimes' = [restartTimes EXCEPT ![Head(pendingRestarts)] = @ + 1]
        BY <1>2, <3>1 DEF DrainPop
      <4>3. op' \in Operation
        BY <2>1, <4>2 DEF TypeOK, Operation
      <4>. QED
        BY <2>1, <4>1, <4>2, <4>3 DEF TypeOK
    <3>2. CASE ~RestartAllowed(Head(pendingRestarts))
      BY <1>2, <3>2 DEF DrainPop, TypeOK
    <3>. QED
      BY <3>1, <3>2
  <2>. QED
    BY <1>2, <2>1, <2>2 DEF DrainPop, TypeOK, kernelVars
<1>3. CASE DrainDone
  BY <1>3 DEF DrainDone, Released, Served, TypeOK, Idle, Operation, Tasks, unitVars, kernelVars
<1>4. CASE RestartProceeds
  BY <1>4 DEF RestartProceeds, TypeOK, Operation, Tasks, unitVars, kernelVars
<1>5. CASE Escalate
  <2>1. killed' \subseteq Pids
    BY <1>5 DEF Escalate, Tracked, TypeOK
  <2>. QED
    BY <1>5, <2>1 DEF Escalate, TypeOK, Operation, unitVars
<1>6. CASE ShutdownDone
  BY <1>6 DEF ShutdownDone, Released, Served, TypeOK, Idle, Operation, Tasks, unitVars, kernelVars
<1>7. CASE SwitchBoots
  <2>1. op.todo \in SUBSET Services
    BY DEF TypeOK, Operation
  <2>. QED
    BY <1>7, <2>1, BootType, IdleType DEF SwitchBoots, Released, Served, TypeOK, kernelVars
<1>8. ASSUME NEW s \in Services, BootPick(s) PROVE TypeOK'
  BY <1>8 DEF BootPick, TypeOK, Operation, unitVars, kernelVars
<1>9. CASE BootWaveEnds
  BY <1>9 DEF BootWaveEnds, TypeOK, unitVars, kernelVars
<1>10. CASE BootWaveReaped
  <2>1. [op EXCEPT !.wave = @ + 1] \in Operation
    <3>1. op.wave + 1 \in Nat
      BY DEF TypeOK, Operation
    <3>. QED
      BY <3>1 DEF TypeOK, Operation
  <2>2. \A D \in SUBSET Devices : [op EXCEPT !.task = "devices", !.todo = D] \in Operation
    BY Bounds DEF TypeOK, Operation, Tasks
  <2>3. CASE op.todo # {}
    BY <1>10, <2>1, <2>3 DEF BootWaveReaped, TypeOK, unitVars, kernelVars
  <2>4. CASE op.todo = {}
    BY <1>10, <2>2, <2>4 DEF BootWaveReaped, TypeOK, unitVars, kernelVars
  <2>. QED
    BY <2>3, <2>4
<1>11. CASE BootFallsBack
  <2>1. ASSUME op.tries > 0, NEW T \in Targets
        PROVE  Boot(T, op.tries - 1) \in Operation /\ T \subseteq Services
    <3>1. op.tries - 1 \in Nat
      BY <2>1 DEF TypeOK, Operation
    <3>. QED
      BY <3>1, BootType, Bounds
  <2>2. ASSUME op.tries > 0 PROVE [op EXCEPT !.tries = @ - 1] \in Operation
    <3>1. op.tries - 1 \in Nat
      BY <2>2 DEF TypeOK, Operation
    <3>. QED
      BY <3>1 DEF TypeOK, Operation
  <2>. QED
    BY <1>11, <2>1, <2>2, IdleType DEF BootFallsBack, Released, Served, TypeOK, kernelVars
<1>12. CASE BootAborts
  BY <1>12, AfterStartTypeOK DEF BootAborts, TypeOK, unitVars, kernelVars
<1>13. ASSUME NEW s \in Services, DevicePick(s) PROVE TypeOK'
  <2>1. op' \in Operation
    BY <1>13 DEF DevicePick, TypeOK, Operation
  <2>. QED
    BY <1>13, <2>1 DEF DevicePick, TypeOK, kernelVars
<1>14. CASE DevicesDone
  BY <1>14, IdleType DEF DevicesDone, Released, Served, TypeOK, unitVars, kernelVars
<1>. QED
  BY <1>1, <1>2, <1>3, <1>4, <1>5, <1>6, <1>7, <1>8, <1>9, <1>10, <1>11, <1>12, <1>13, <1>14
  DEF OperationStep

LEMMA ReactorTypeOK ==
  ASSUME TypeOK,
         (\E p \in Pids : ReapOne(p)) \/ ReadSigchld \/ HandleSigchld \/ AcceptClient
           \/ ClientDone \/ ReactorLoopTop
  PROVE  TypeOK'
<1>1. ASSUME NEW p \in Pids, ReapOne(p) PROVE TypeOK'
  <2>1. proc' \in [Pids -> {"free", "live", "clean", "failed"}] /\ killed' \subseteq Pids
        /\ owner' \in [Pids -> Services \cup {NoService}]
    BY <1>1 DEF ReapOne, Collect, TypeOK
  <2>2. state' \in [Services -> UnitState] /\ slot' \in [Services -> Pids \cup {NoPid}]
        /\ pidIndex' \in [Pids -> Services \cup {NoService}]
        /\ pendingRestarts' \in Seq(Services)
    <3>1. CASE pidIndex[p] = NoService
      BY <1>1, <3>1 DEF ReapOne, TypeOK
    <3>2. CASE pidIndex[p] # NoService
      <4>1. pidIndex[p] \in Services
        BY <3>2 DEF TypeOK
      <4>2. OnChildExit(pidIndex[p], p, proc[p] = "failed")
        BY <1>1, <3>2 DEF ReapOne
      <4>3. Append(pendingRestarts, pidIndex[p]) \in Seq(Services)
        BY <4>1 DEF TypeOK
      <4>. QED
        BY <4>1, <4>2, <4>3 DEF OnChildExit, TypeOK, UnitState
    <3>. QED
      BY <3>1, <3>2
  <2>. QED
    BY <1>1, <2>1, <2>2 DEF ReapOne, Collect, TypeOK, controlVars
<1>2. CASE ReadSigchld
  BY <1>2 DEF ReadSigchld, TypeOK, unitVars
<1>3. CASE HandleSigchld
  BY <1>3 DEF HandleSigchld, TypeOK, Idle, Operation, Tasks, unitVars, kernelVars
<1>4. CASE ReactorLoopTop
  BY <1>4 DEF ReactorLoopTop, TypeOK, unitVars, kernelVars
<1>5. CASE AcceptClient \/ ClientDone
  BY <1>5 DEF AcceptClient, ClientDone, TypeOK, unitVars, kernelVars
<1>. QED
  BY <1>1, <1>2, <1>3, <1>4, <1>5

\* The state set of a service that is told to stop.
LEMMA SignalAllType == TypeOK /\ SignalAll => state' \in [Services -> UnitState]
  BY DEF TypeOK, SignalAll, UnitState

LEMMA RequestTypeOK ==
  ASSUME TypeOK, NEW c \in {"reactor", "thread"}
  PROVE  /\ \A s \in Services : StartByName(c, s) => TypeOK'
         /\ \A s \in Services : StopByName(c, s) => TypeOK'
         /\ \A s \in Services : RestartByName(c, s) => TypeOK'
         /\ \A T \in Targets : ActivateTarget(c, T) => TypeOK'
         /\ Shutdown(c) => TypeOK'
<1>1. ASSUME NEW s \in Services, StartByName(c, s) PROVE TypeOK'
  <2>1. [Idle EXCEPT !.task = "start", !.svc = s] \in Operation
    BY DEF Idle, Operation, Tasks
  <2>. QED
    BY <1>1, <2>1 DEF StartByName, Request, TypeOK, kernelVars
<1>2. ASSUME NEW s \in Services, StopByName(c, s) PROVE TypeOK'
  BY <1>2 DEF StopByName, TypeOK, UnitState, kernelVars
<1>3. ASSUME NEW s \in Services, RestartByName(c, s) PROVE TypeOK'
  <2>1. [Idle EXCEPT !.task = "start", !.svc = s] \in Operation
    BY DEF Idle, Operation, Tasks
  <2>2. [Idle EXCEPT !.task = "restart", !.svc = s, !.pid = slot[s]] \in Operation
    BY DEF Idle, Operation, Tasks, TypeOK
  <2>3. op' \in Operation /\ holder' = c /\ state' \in [Services -> UnitState]
        /\ reaping' \in BOOLEAN
    BY <1>3, <2>1, <2>2 DEF RestartByName, Request, TypeOK, UnitState
  <2>. QED
    BY <1>3, <2>3 DEF RestartByName, TypeOK, kernelVars
<1>4. ASSUME NEW T \in Targets, ActivateTarget(c, T) PROVE TypeOK'
  <2>1. [Idle EXCEPT !.task = "switch", !.todo = T] \in Operation
    BY Bounds DEF Idle, Operation, Tasks
  <2>. QED
    BY <1>4, <2>1, SignalAllType DEF ActivateTarget, Request, TypeOK, kernelVars
<1>5. ASSUME Shutdown(c) PROVE TypeOK'
  <2>1. [Idle EXCEPT !.task = "shutdown"] \in Operation
    BY DEF Idle, Operation, Tasks
  <2>. QED
    BY <1>5, <2>1, SignalAllType DEF Shutdown, Request, TypeOK, kernelVars
<1>. QED
  BY <1>1, <1>2, <1>3, <1>4, <1>5

LEMMA EnvironmentTypeOK ==
  ASSUME TypeOK, Environment
  PROVE  TypeOK'
<1>1. ASSUME NEW p \in Pids, ChildExits(p) PROVE TypeOK'
  BY <1>1 DEF ChildExits, TypeOK, unitVars, controlVars
<1>2. ASSUME NEW p \in Pids, AdoptOrphan(p) PROVE TypeOK'
  BY <1>2 DEF AdoptOrphan, TypeOK, unitVars, controlVars
<1>3. ASSUME NEW s \in Services, WindowPasses(s) PROVE TypeOK'
  BY <1>3, Bounds DEF WindowPasses, TypeOK, kernelVars, controlVars
<1>. QED
  BY <1>1, <1>2, <1>3 DEF Environment

LEMMA NextTypeOK == TypeOK /\ [Next]_vars => TypeOK'
<1>. SUFFICES ASSUME TypeOK, [Next]_vars PROVE TypeOK'
  OBVIOUS
<1>1. CASE RequestStep
  BY <1>1, RequestTypeOK DEF RequestStep
<1>2. CASE UNCHANGED vars
  BY <1>2 DEF vars, unitVars, kernelVars, controlVars, TypeOK
<1>. QED
  BY <1>1, <1>2, StartServiceTypeOK, OperationTypeOK, ReactorTypeOK, EnvironmentTypeOK
  DEF Next, Forge

\* Every variable keeps its type, for any services, pids and targets.
THEOREM TypeCorrect == Spec => []TypeOK
  BY InitTypeOK, NextTypeOK, PTL DEF Spec

-----------------------------------------------------------------------------
(* The control state: the mutex, the reactor and the blocked start.         *)

LEMMA ReleasedMutexInv == MutexInv /\ op.task \notin {"idle"} /\ Released => MutexInv'
  BY DEF MutexInv, Released, Served, Idle

\* The end of a start_service call leaves the mutex and the reactor consistent.
LEMMA AfterStartMutexInv ==
  ASSUME TypeOK, MutexInv, NEW ok \in BOOLEAN, AfterStart(ok)
  PROVE  MutexInv'
<1>1. CASE Released
  BY <1>1, ReleasedMutexInv DEF AfterStart
<1>2. CASE op.task = "boot" /\ reactor = "boot" /\ UNCHANGED <<holder, reactor>>
           /\ op' = [op EXCEPT !.task = "fallback", !.svc = NoService]
  BY <1>2 DEF MutexInv, TypeOK, Operation
<1>3. CASE op' = [op EXCEPT !.svc = NoService] /\ UNCHANGED <<holder, reactor>>
  BY <1>3 DEF MutexInv, TypeOK, Operation
<1>. QED
  BY <1>1, <1>2, <1>3 DEF AfterStart

LEMMA NotBlocked == starting = NoStart /\ ~reaping => BlockedInv
  BY DEF BlockedInv, NoStart

\* A thread that takes the mutex finds no start blocked under it.
LEMMA NobodyBlocked ==
  ASSUME TypeOK, MutexInv, BlockedInv, op.task \notin {"start", "drain", "boot", "devices"}
  PROVE  starting = NoStart
  BY DEF BlockedInv, TypeOK, Start, NoStart

LEMMA StartServiceControl ==
  ASSUME TypeOK, MutexInv, BlockedInv, StartServiceStep
  PROVE  MutexInv' /\ BlockedInv'
<1>1. ASSUME NEW s \in Services, LaunchFails(s) PROVE MutexInv' /\ BlockedInv'
  <2>1. starting' = NoStart /\ ~reaping' /\ AfterStart(FALSE)
    BY <1>1 DEF LaunchFails, ReadyToLaunch
  <2>. QED
    BY <2>1, AfterStartMutexInv, NotBlocked DEF BlockedInv, NoStart
<1>2. ASSUME NEW s \in Services, NEW p \in Pids, LaunchSimple(s, p)
      PROVE  MutexInv' /\ BlockedInv'
  <2>1. starting' = NoStart /\ ~reaping' /\ AfterStart(TRUE)
    BY <1>2 DEF LaunchSimple, ReadyToLaunch
  <2>. QED
    BY <2>1, AfterStartMutexInv DEF BlockedInv, NoStart
<1>3. ASSUME NEW s \in Services, NEW p \in Pids, LaunchWaiting(s, p)
      PROVE  MutexInv' /\ BlockedInv'
  <2>1. UNCHANGED <<reactor, holder, op, reaping>> /\ ~reaping
        /\ op.task \in {"start", "drain", "boot", "devices"} /\ op.svc = s
        /\ starting'.svc = s /\ starting'.pid = p /\ starting'.phase \in {"activation", "wait"}
    BY <1>3 DEF LaunchWaiting, ReadyToLaunch
  <2>. QED
    BY <2>1 DEF MutexInv, BlockedInv
<1>4. CASE ActivationReady \/ ActivationFails
  <2>1. starting' = NoStart /\ starting.phase = "activation" /\ reaping' = reaping
    BY <1>4 DEF ActivationReady, ActivationFails
  <2>2. AfterStart(TRUE) \/ AfterStart(FALSE)
    BY <1>4 DEF ActivationReady, ActivationFails
  <2>3. ~reaping'
    BY <2>1 DEF BlockedInv
  <2>. QED
    BY <2>1, <2>2, <2>3, AfterStartMutexInv DEF BlockedInv, NoStart
<1>5. CASE OneshotCollected \/ OneshotVanished \/ OneshotKilled
  <2>1. PICK ok, final : Waiting /\ OneshotEnds(starting.svc, ok, final) /\ ok \in BOOLEAN
    <3>1. CASE OneshotCollected
      BY <3>1 DEF OneshotCollected
    <3>2. CASE OneshotVanished \/ OneshotKilled
      BY <3>2 DEF OneshotVanished, OneshotKilled
    <3>. QED
      BY <1>5, <3>1, <3>2
  <2>2. starting' = NoStart /\ ~reaping' /\ AfterStart(ok)
    BY <2>1 DEF OneshotEnds, Waiting
  <2>. QED
    BY <2>1, <2>2, AfterStartMutexInv DEF BlockedInv, NoStart
<1>6. CASE OneshotStillRuns
  BY <1>6 DEF OneshotStillRuns, Waiting, MutexInv, BlockedInv
<1>7. CASE OneshotPollsAgain
  BY <1>7 DEF OneshotPollsAgain, OneshotReaped, MutexInv, BlockedInv
<1>8. CASE OneshotTimesOut
  BY <1>8 DEF OneshotTimesOut, OneshotReaped, MutexInv, BlockedInv, TypeOK, Start
<1>. QED
  BY <1>1, <1>2, <1>3, <1>4, <1>5, <1>6, <1>7, <1>8 DEF StartServiceStep

LEMMA OperationControl ==
  ASSUME TypeOK, MutexInv, BlockedInv, OperationStep
  PROVE  MutexInv' /\ BlockedInv'
<1>1. CASE SigchldReaped \/ RestartProceeds
  <2>1. starting = NoStart /\ starting' = starting /\ ~reaping'
    BY <1>1, NobodyBlocked DEF SigchldReaped, RestartProceeds
  <2>. QED
    BY <1>1, <2>1
    DEF SigchldReaped, RestartProceeds, MutexInv, BlockedInv, NoStart, TypeOK, Operation
<1>2. CASE DrainPop
  <2>1. starting.phase = "none"
    BY <1>2, NoServiceIsNone DEF DrainPop, BlockedInv
  <2>2. UNCHANGED <<reactor, holder, starting, reaping>> /\ op'.task = op.task /\ ~reaping
    BY <1>2, <2>1 DEF DrainPop, BlockedInv, TypeOK, Operation
  <2>. QED
    BY <2>1, <2>2 DEF MutexInv, BlockedInv, NoStart
<1>3. CASE DrainDone
  <2>1. starting.phase = "none"
    BY <1>3, NoServiceIsNone DEF DrainDone, BlockedInv
  <2>2. starting' = NoStart /\ ~reaping' /\ Released /\ op.task = "drain"
    BY <1>3, <2>1 DEF DrainDone, BlockedInv
  <2>. QED
    BY <2>2, ReleasedMutexInv DEF BlockedInv, NoStart
<1>4. CASE Escalate
  <2>1. op'.task = op.task /\ op'.svc = op.svc /\ UNCHANGED <<reactor, holder, starting, reaping>>
    BY <1>4 DEF Escalate, TypeOK, Operation
  <2>. QED
    BY <2>1 DEF MutexInv, BlockedInv
<1>5. CASE ShutdownDone
  <2>1. starting' = NoStart /\ ~reaping' /\ Released /\ op.task = "shutdown"
    BY <1>5, NobodyBlocked DEF ShutdownDone
  <2>. QED
    BY <2>1, ReleasedMutexInv DEF BlockedInv, NoStart
<1>6. CASE SwitchBoots
  <2>1. starting' = NoStart /\ ~reaping' /\ op.task = "switch"
    BY <1>6, NobodyBlocked DEF SwitchBoots
  <2>2. CASE op' = Boot(op.todo, 0) /\ UNCHANGED <<holder, reactor>>
    BY <2>1, <2>2 DEF MutexInv, BlockedInv, NoStart, Boot, Idle
  <2>3. CASE Released
    BY <2>1, <2>3, ReleasedMutexInv DEF BlockedInv, NoStart
  <2>. QED
    BY <1>6, <2>2, <2>3 DEF SwitchBoots
<1>7. ASSUME NEW s \in Services, BootPick(s) PROVE MutexInv' /\ BlockedInv'
  <2>1. starting' = NoStart /\ ~reaping' /\ op'.task = op.task /\ UNCHANGED <<reactor, holder>>
    BY <1>7 DEF BootPick, BootIdle, TypeOK, Operation
  <2>. QED
    BY <2>1 DEF MutexInv, BlockedInv, NoStart
<1>8. CASE BootWaveEnds
  BY <1>8 DEF BootWaveEnds, BootIdle, MutexInv, BlockedInv, NoStart
<1>9. CASE BootWaveReaped
  <2>1. op.task = "boot" /\ op.svc = NoService
    BY <1>9 DEF BootWaveReaped
  <2>2. starting.phase = "none"
    BY <2>1, NoServiceIsNone DEF BlockedInv
  <2>3. starting' = NoStart /\ ~reaping' /\ UNCHANGED <<holder, reactor>>
    BY <1>9, <2>2 DEF BootWaveReaped, BlockedInv
  <2>4. op'.task \in {"boot", "devices"}
    BY <1>9, <2>1 DEF BootWaveReaped, TypeOK, Operation
  <2>. QED
    BY <2>1, <2>3, <2>4, NotBlocked DEF MutexInv, BlockedInv, NoStart
<1>10. CASE BootFallsBack
  <2>1. starting = NoStart /\ starting' = starting /\ reaping' = reaping /\ op.task = "fallback"
    BY <1>10, NobodyBlocked DEF BootFallsBack
  <2>2. ~reaping
    BY <2>1 DEF BlockedInv, NoStart
  <2>3. CASE Released
    BY <2>1, <2>2, <2>3, ReleasedMutexInv DEF BlockedInv, NoStart
  <2>4. CASE op'.task \in {"boot", "fallback"} /\ UNCHANGED <<holder, reactor>>
    BY <2>1, <2>2, <2>4 DEF MutexInv, BlockedInv, NoStart
  <2>5. \/ Released
        \/ UNCHANGED <<holder, reactor>> /\ op'.task \in {"boot", "fallback"}
    <3>1. Released \/ UNCHANGED <<holder, reactor>>
      BY <1>10 DEF BootFallsBack
    <3>2. \/ Released
          \/ \E T \in Targets : op' = Boot(T, op.tries - 1)
          \/ op' = [op EXCEPT !.tries = @ - 1]
      BY <1>10 DEF BootFallsBack
    <3>3. (\E T \in Targets : op' = Boot(T, op.tries - 1)) => op'.task = "boot"
      BY TaskNames
    <3>4. op' = [op EXCEPT !.tries = @ - 1] => op'.task = "fallback"
      BY <2>1 DEF TypeOK, Operation
    <3>. QED
      BY <3>1, <3>2, <3>3, <3>4
  <2>. QED
    BY <2>3, <2>4, <2>5
<1>11. CASE BootAborts
  <2>1. starting' = NoStart /\ ~reaping' /\ AfterStart(FALSE)
    BY <1>11 DEF BootAborts, BootIdle
  <2>. QED
    BY <2>1, AfterStartMutexInv DEF BlockedInv, NoStart
<1>12. ASSUME NEW s \in Services, DevicePick(s) PROVE MutexInv' /\ BlockedInv'
  <2>1. starting' = NoStart /\ op.task = "devices" /\ op'.task = "devices"
        /\ UNCHANGED <<reactor, holder, starting, reaping>>
    BY <1>12 DEF DevicePick, DevicesIdle, TypeOK, Operation
  <2>. QED
    BY <2>1 DEF MutexInv, BlockedInv, NoStart
<1>13. CASE DevicesDone
  <2>1. starting = NoStart /\ starting' = NoStart /\ reaping' = reaping /\ op.task = "devices"
        /\ Released
    BY <1>13 DEF DevicesDone, DevicesIdle
  <2>2. ~reaping'
    BY <2>1 DEF BlockedInv, NoStart
  <2>. QED
    BY <2>1, <2>2, ReleasedMutexInv DEF BlockedInv, NoStart
<1>. QED
  BY <1>1, <1>2, <1>3, <1>4, <1>5, <1>6, <1>7, <1>8, <1>9, <1>10, <1>11, <1>12, <1>13
  DEF OperationStep

LEMMA ReactorControl ==
  ASSUME TypeOK, MutexInv, BlockedInv,
         (\E p \in Pids : ReapOne(p)) \/ ReadSigchld \/ HandleSigchld \/ AcceptClient
           \/ ClientDone \/ ReactorLoopTop
  PROVE  MutexInv' /\ BlockedInv'
<1>1. ASSUME NEW p \in Pids, ReapOne(p) PROVE MutexInv' /\ BlockedInv'
  BY <1>1 DEF ReapOne, controlVars, MutexInv, BlockedInv
<1>2. CASE ReadSigchld
  BY <1>2 DEF ReadSigchld, MutexInv, BlockedInv
<1>3. CASE HandleSigchld
  <2>1. starting' = NoStart /\ op.task = "idle" /\ op'.task = "sigchld"
    BY <1>3, NobodyBlocked DEF HandleSigchld, MutexInv, Idle
  <2>. QED
    BY <1>3, <2>1 DEF HandleSigchld, MutexInv, BlockedInv, NoStart
<1>4. CASE ReactorLoopTop
  BY <1>4 DEF ReactorLoopTop, MutexInv, BlockedInv
<1>5. CASE AcceptClient \/ ClientDone
  BY <1>5 DEF AcceptClient, ClientDone, MutexInv, BlockedInv
<1>. QED
  BY <1>1, <1>2, <1>3, <1>4, <1>5

LEMMA RequestControl ==
  ASSUME TypeOK, MutexInv, BlockedInv, RequestStep
  PROVE  MutexInv' /\ BlockedInv'
<1>1. PICK c \in {"reactor", "thread"} :
        \/ \E s \in Services : StartByName(c, s) \/ StopByName(c, s) \/ RestartByName(c, s)
        \/ (\E T \in Targets : ActivateTarget(c, T)) \/ Shutdown(c)
  BY DEF RequestStep
<1>2. ASSUME holder = "none" PROVE starting = NoStart /\ ~reaping
  BY <1>2, NobodyBlocked DEF MutexInv, BlockedInv, NoStart
<1>3. ASSUME NEW t \in {"start", "restart", "shutdown", "switch"}, holder = "none",
             c = "reactor" => reactor \in {"poll", "client", "served"}, Up,
             holder' = c, op'.task = t, reactor' = reactor
      PROVE  MutexInv'
  BY <1>3 DEF MutexInv, Up
<1>4. ASSUME NEW s \in Services, StartByName(c, s) PROVE MutexInv' /\ BlockedInv'
  BY <1>2, <1>3, <1>4 DEF StartByName, Request, Idle, BlockedInv, NoStart
<1>5. ASSUME NEW s \in Services, StopByName(c, s) PROVE MutexInv' /\ BlockedInv'
  BY <1>5 DEF StopByName, FromClient, Up, MutexInv, BlockedInv
<1>6. ASSUME NEW s \in Services, RestartByName(c, s) PROVE MutexInv' /\ BlockedInv'
  <2>1. /\ holder = "none" /\ Up /\ holder' = c
        /\ c = "reactor" => reactor \in {"poll", "client", "served"}
        /\ UNCHANGED <<reactor, starting>>
    BY <1>6 DEF RestartByName, Request
  <2>2. \/ op' = [Idle EXCEPT !.task = "start", !.svc = s] /\ reaping' = reaping
        \/ op' = [Idle EXCEPT !.task = "restart", !.svc = s, !.pid = slot[s]]
    BY <1>6 DEF RestartByName, Request
  <2>3. (op'.task = "start" /\ ~reaping') \/ op'.task = "restart"
    BY <1>2, <2>1, <2>2 DEF Idle
  <2>. QED
    BY <1>2, <1>3, <2>1, <2>3 DEF BlockedInv, NoStart
<1>7. ASSUME NEW T \in Targets, ActivateTarget(c, T) PROVE MutexInv' /\ BlockedInv'
  BY <1>2, <1>3, <1>7 DEF ActivateTarget, Request, Idle, BlockedInv, NoStart
<1>8. ASSUME Shutdown(c) PROVE MutexInv' /\ BlockedInv'
  BY <1>2, <1>3, <1>8 DEF Shutdown, Request, Idle, BlockedInv, NoStart
<1>. QED
  BY <1>1, <1>4, <1>5, <1>6, <1>7, <1>8

LEMMA NextControl == TypeOK /\ MutexInv /\ BlockedInv /\ [Next]_vars => MutexInv' /\ BlockedInv'
<1>. SUFFICES ASSUME TypeOK, MutexInv, BlockedInv, [Next]_vars PROVE MutexInv' /\ BlockedInv'
  OBVIOUS
<1>1. CASE UNCHANGED controlVars
  BY <1>1 DEF controlVars, MutexInv, BlockedInv
<1>2. CASE Environment
  BY <1>1, <1>2 DEF Environment, ChildExits, AdoptOrphan, WindowPasses
<1>. QED
  BY <1>1, <1>2, StartServiceControl, OperationControl, ReactorControl, RequestControl
  DEF Next, Forge, vars

-----------------------------------------------------------------------------
(* The process table: who is tracked and indexed, and who only waited for.  *)

LEMMA NoPidIsNone == NoPid \notin Pids
  BY SupervisorAssumption DEF SupervisorAssumption

\* ProcessInv reads nothing but these.
LEMMA ProcessFrame ==
  ProcessInv /\ UNCHANGED <<state, slot, pidIndex, proc, owner, starting>> => ProcessInv'
  BY DEF ProcessInv, IndexNamesOwnProcess

\* A free pid is in no index entry, and so in no slot.
LEMMA FreePid ==
  ASSUME TypeOK, ProcessInv, NEW p \in Pids, proc[p] = "free"
  PROVE  pidIndex[p] = NoService
  BY DEF ProcessInv, IndexNamesOwnProcess

LEMMA LaunchProcessInv ==
  ASSUME TypeOK, ProcessInv, NEW s \in Services,
         \/ LaunchFails(s)
         \/ \E p \in Pids : LaunchSimple(s, p) \/ LaunchWaiting(s, p)
  PROVE  ProcessInv'
<1>0. starting = NoStart
  BY DEF LaunchFails, LaunchSimple, LaunchWaiting, ReadyToLaunch
<1>. starting.phase = "none" /\ \A t \in Services : starting.svc # t
  BY <1>0, NoServiceIsNone DEF NoStart
<1>1. CASE LaunchFails(s)
  <2>1. state' = [state EXCEPT ![s] = FailedStart] /\ FailedStart \in {"Failed", "Starting"}
        /\ UNCHANGED <<slot, pidIndex, proc, owner, starting>>
    BY <1>1 DEF LaunchFails, FailedStart, kernelVars
  <2>. QED
    BY <2>1 DEF ProcessInv, IndexNamesOwnProcess, TypeOK
<1>2. ASSUME NEW p \in Pids, LaunchSimple(s, p) PROVE ProcessInv'
  <2>1. /\ proc[p] = "free" /\ pidIndex[p] = NoService
        /\ proc' = [proc EXCEPT ![p] = "live"] /\ owner' = [owner EXCEPT ![p] = s]
        /\ slot' = [slot EXCEPT ![s] = p] /\ pidIndex' = [pidIndex EXCEPT ![p] = s]
        /\ state' = [state EXCEPT ![s] = "Running"] /\ starting' = starting
    BY <1>2, FreePid DEF LaunchSimple, Spawn
  <2>2. IndexNamesOwnProcess'
    BY <2>1 DEF ProcessInv, IndexNamesOwnProcess, TypeOK
  <2>3. \A t \in Services : slot'[t] # NoPid => pidIndex'[slot'[t]] = t
    BY <2>1, NoServiceIsNone DEF ProcessInv, TypeOK
  <2>4. \A t \in Services : state'[t] \in {"Running", "Stopping"} => slot'[t] # NoPid
    BY <2>1, NoPidIsNone DEF ProcessInv, TypeOK
  <2>. QED
    BY <2>1, <2>2, <2>3, <2>4 DEF ProcessInv
<1>3. ASSUME NEW p \in Pids, LaunchWaiting(s, p) PROVE ProcessInv'
  <2>1. /\ proc[p] = "free" /\ pidIndex[p] = NoService
        /\ proc' = [proc EXCEPT ![p] = "live"] /\ owner' = [owner EXCEPT ![p] = s]
        /\ slot' = [slot EXCEPT ![s] = p] /\ pidIndex' = pidIndex
        /\ state' = [state EXCEPT ![s] = "Starting"]
        /\ starting'.svc = s /\ starting'.pid = p
    BY <1>3, FreePid DEF LaunchWaiting, Spawn
  <2>2. IndexNamesOwnProcess'
    BY <2>1 DEF ProcessInv, IndexNamesOwnProcess, TypeOK
  <2>3. \A t \in Services : t # s => slot'[t] = slot[t] /\ state'[t] = state[t]
    BY <2>1 DEF TypeOK
  <2>4. \A t \in Services : slot'[t] # NoPid /\ starting'.svc # t => pidIndex'[slot'[t]] = t
    BY <2>1, <2>3 DEF ProcessInv
  <2>5. \A t \in Services : state'[t] \in {"Running", "Stopping"} =>
          slot'[t] # NoPid /\ starting'.svc # t
    BY <2>1, <2>3 DEF ProcessInv, TypeOK
  <2>6. pidIndex'[p] = NoService /\ proc'[p] = "live" /\ owner'[p] = s /\ slot'[s] = p
    BY <2>1 DEF TypeOK
  <2>. QED
    BY <2>1, <2>2, <2>4, <2>5, <2>6 DEF ProcessInv
<1>. QED
  BY <1>1, <1>2, <1>3

\* However a blocked start ends, its process is out of the table or was never indexed.
LEMMA StartEndsProcessInv ==
  ASSUME TypeOK, BlockedInv, ProcessInv, starting.phase # "none", starting' = NoStart,
         pidIndex' = pidIndex,
         slot' = [slot EXCEPT ![starting.svc] = NoPid],
         NEW final \in {"Dead", "Failed", "Starting"},
         state' = [state EXCEPT ![starting.svc] = final],
         Collect(starting.pid) \/ UNCHANGED <<proc, owner>>
  PROVE  ProcessInv'
<1>1. starting.svc \in Services /\ starting.pid \in Pids /\ pidIndex[starting.pid] = NoService
  BY DEF BlockedInv, ProcessInv
<1>2. IndexNamesOwnProcess'
  BY <1>1 DEF ProcessInv, IndexNamesOwnProcess, Collect, TypeOK
<1>3. \A s \in Services : slot'[s] # NoPid => slot'[s] = slot[s] /\ s # starting.svc
  BY <1>1 DEF TypeOK
<1>4. \A s \in Services : slot'[s] # NoPid => pidIndex'[slot'[s]] = s
  BY <1>3 DEF ProcessInv
<1>5. \A s \in Services : state'[s] \in {"Running", "Stopping"} => slot'[s] # NoPid
  BY <1>1 DEF ProcessInv, TypeOK
<1>. QED
  BY <1>2, <1>4, <1>5, NoServiceIsNone DEF ProcessInv, NoStart

LEMMA StartServiceProcessInv ==
  ASSUME TypeOK, BlockedInv, ProcessInv, StartServiceStep
  PROVE  ProcessInv'
<1>1. CASE ActivationReady
  <2>. DEFINE s == starting.svc
              p == starting.pid
  <2>1. s \in Services /\ p \in Pids /\ slot[s] = p /\ proc[p] # "free" /\ owner[p] = s
        /\ pidIndex[p] = NoService
    BY <1>1 DEF ActivationReady, BlockedInv, ProcessInv
  <2>2. state' = [state EXCEPT ![s] = "Running"] /\ pidIndex' = [pidIndex EXCEPT ![p] = s]
        /\ starting' = NoStart /\ UNCHANGED <<slot, proc, owner>>
    BY <1>1 DEF ActivationReady, kernelVars
  <2>3. IndexNamesOwnProcess'
    BY <2>1, <2>2 DEF ProcessInv, IndexNamesOwnProcess, TypeOK
  <2>4. \A t \in Services : slot'[t] # NoPid => pidIndex'[slot'[t]] = t
    BY <2>1, <2>2, NoServiceIsNone DEF ProcessInv, TypeOK
  <2>5. \A t \in Services : state'[t] \in {"Running", "Stopping"} => slot'[t] # NoPid
    BY <2>1, <2>2, NoPidIsNone DEF ProcessInv, TypeOK
  <2>. QED
    BY <2>2, <2>3, <2>4, <2>5, NoServiceIsNone DEF ProcessInv, NoStart
<1>2. CASE ActivationFails
  BY <1>2, StartEndsProcessInv DEF ActivationFails, FailedStart
<1>3. CASE OneshotCollected
  BY <1>3, StartEndsProcessInv DEF OneshotCollected, OneshotEnds, Waiting
<1>4. CASE OneshotVanished
  BY <1>4, StartEndsProcessInv DEF OneshotVanished, OneshotEnds, Waiting, FailedStart, kernelVars
<1>5. CASE OneshotKilled
  BY <1>5, StartEndsProcessInv DEF OneshotKilled, OneshotEnds, Waiting
<1>6. CASE OneshotStillRuns \/ OneshotPollsAgain
  BY <1>6, ProcessFrame DEF OneshotStillRuns, OneshotPollsAgain, unitVars, kernelVars
<1>7. CASE OneshotTimesOut
  BY <1>7
  DEF OneshotTimesOut, ProcessInv, IndexNamesOwnProcess, unitVars, kernelVars, TypeOK, Start
<1>. QED
  BY <1>1, <1>2, <1>3, <1>4, <1>5, <1>6, <1>7, LaunchProcessInv DEF StartServiceStep

\* A reap charges an exit to the unit the index names, and to no other.
LEMMA ReapProcessInv ==
  ASSUME TypeOK, BlockedInv, ProcessInv, NEW p \in Pids, ReapOne(p)
  PROVE  ProcessInv'
<1>. DEFINE s == pidIndex[p]
<1>1. /\ proc' = [proc EXCEPT ![p] = "free"] /\ owner' = [owner EXCEPT ![p] = NoService]
      /\ starting' = starting /\ starting.phase # "activation"
  BY DEF ReapOne, Collect, controlVars, BlockedInv
<1>2. CASE s = NoService
  <2>1. UNCHANGED <<pidIndex, slot, state>>
    BY <1>2 DEF ReapOne
  <2>2. IndexNamesOwnProcess'
    BY <1>1, <1>2, <2>1 DEF ProcessInv, IndexNamesOwnProcess, TypeOK
  <2>. QED
    BY <1>1, <2>1, <2>2 DEF ProcessInv
<1>3. CASE s # NoService
  <2>1. /\ s \in Services /\ pidIndex' = [pidIndex EXCEPT ![p] = NoService]
        /\ slot' = [slot EXCEPT ![s] = NoPid]
        /\ state' = [state EXCEPT ![s] = IF proc[p] = "failed" THEN "Failed" ELSE "Dead"]
    BY <1>3 DEF ReapOne, OnChildExit, TypeOK
  <2>2. IndexNamesOwnProcess'
    BY <1>1, <2>1 DEF ProcessInv, IndexNamesOwnProcess, TypeOK
  <2>3. \A t \in Services : slot'[t] # NoPid /\ starting.svc # t => pidIndex'[slot'[t]] = t
    <3>1. SUFFICES ASSUME NEW t \in Services, slot'[t] # NoPid, starting.svc # t
                   PROVE  pidIndex'[slot'[t]] = t
      OBVIOUS
    <3>2. t # s /\ slot'[t] = slot[t]
      BY <2>1, <3>1 DEF TypeOK
    <3>3. pidIndex[slot[t]] = t /\ slot[t] # p
      BY <3>1, <3>2 DEF ProcessInv
    <3>. QED
      BY <2>1, <3>2, <3>3 DEF TypeOK
  <2>4. \A t \in Services : state'[t] \in {"Running", "Stopping"} =>
          slot'[t] # NoPid /\ starting.svc # t
    BY <2>1 DEF ProcessInv, TypeOK
  <2>5. starting.phase # "none" => pidIndex'[starting.pid] = NoService
    BY <2>1 DEF ProcessInv, BlockedInv, TypeOK
  <2>. QED
    BY <1>1, <2>2, <2>3, <2>4, <2>5 DEF ProcessInv
<1>. QED
  BY <1>2, <1>3

\* Only services with a process are told to stop, and none while a start is blocked.
LEMMA RequestProcessInv ==
  ASSUME TypeOK, MutexInv, BlockedInv, ProcessInv, RequestStep
  PROVE  ProcessInv'
<1>. DEFINE Stops(s) == slot[s] # NoPid /\ state'[s] = "Stopping"
<1>1. /\ holder = "none" /\ UNCHANGED <<slot, pidIndex, proc, owner, starting>>
      /\ \A s \in Services : state'[s] = state[s] \/ Stops(s)
  BY DEF RequestStep, Request, StartByName, StopByName, RestartByName, ActivateTarget, Shutdown,
         SignalAll, Tracked, kernelVars, controlVars, TypeOK
<1>2. starting.phase = "none" /\ \A s \in Services : starting.svc # s
  BY <1>1, NobodyBlocked, NoServiceIsNone DEF MutexInv, NoStart
<1>. QED
  BY <1>1, <1>2 DEF ProcessInv, IndexNamesOwnProcess

LEMMA EnvironmentProcessInv ==
  ASSUME TypeOK, BlockedInv, ProcessInv, Environment
  PROVE  ProcessInv'
<1>1. UNCHANGED <<state, slot, pidIndex, owner, starting>>
  BY DEF Environment, ChildExits, AdoptOrphan, WindowPasses, unitVars, kernelVars, controlVars
<1>2. \A p \in Pids : proc[p] # "free" => proc'[p] # "free"
  BY DEF Environment, ChildExits, AdoptOrphan, WindowPasses, kernelVars, TypeOK
<1>. QED
  BY <1>1, <1>2 DEF ProcessInv, IndexNamesOwnProcess, BlockedInv

LEMMA NextProcessInv ==
  TypeOK /\ MutexInv /\ BlockedInv /\ ProcessInv /\ [Next]_vars => ProcessInv'
<1>. SUFFICES ASSUME TypeOK, MutexInv, BlockedInv, ProcessInv, [Next]_vars PROVE ProcessInv'
  OBVIOUS
<1>1. CASE OperationStep
  BY <1>1, ProcessFrame
  DEF OperationStep, SigchldReaped, DrainPop, DrainDone, RestartProceeds, Escalate, ShutdownDone,
      SwitchBoots, BootPick, BootAborts, BootWaveEnds, BootWaveReaped, DevicePick, DevicesDone,
      BootFallsBack, unitVars, kernelVars
<1>2. CASE ReadSigchld \/ HandleSigchld \/ AcceptClient \/ ClientDone \/ ReactorLoopTop
           \/ UNCHANGED vars
  BY <1>2, ProcessFrame
  DEF ReadSigchld, HandleSigchld, AcceptClient, ClientDone, ReactorLoopTop, vars, unitVars,
      kernelVars, controlVars
<1>. QED
  BY <1>1, <1>2, StartServiceProcessInv, ReapProcessInv, RequestProcessInv, EnvironmentProcessInv
  DEF Next, Forge

-----------------------------------------------------------------------------
(* SIGCHLD: no zombie and no queued restart without a reap and drain to come. *)

\* Steps that make no zombie, take no signal and queue no restart keep SignalInv, if the
\* reactor does not leave its handler.
LEMMA SignalFrame ==
  ASSUME SignalInv,
         Zombies' \subseteq Zombies, sigchld => sigchld',
         pendingRestarts' # <<>> => pendingRestarts # <<>>,
         reactor \in {"chld", "off"} => reactor' = reactor,
         op'.task = "drain" => op.task = "drain" \/ Zombies = {}
  PROVE  SignalInv'
  BY DEF SignalInv, NoLostChild, NoStrandedRestart

LEMMA CollectZombies ==
  ASSUME TypeOK, NEW p, Collect(p) PROVE Zombies' \subseteq Zombies
  BY DEF Collect, Zombies, TypeOK

\* The thread that releases the mutex outside the drain is not in the SIGCHLD handler.
LEMMA ReleasedSignal ==
  ASSUME MutexInv, op.task \notin {"idle", "sigchld", "drain"}, Released
  PROVE  (reactor \in {"chld", "off"} => reactor' = reactor) /\ op'.task = "idle"
  BY DEF MutexInv, Released, Served, Idle

LEMMA AfterStartSignal ==
  ASSUME TypeOK, MutexInv, NEW ok \in BOOLEAN, AfterStart(ok)
  PROVE  /\ reactor \in {"chld", "off"} => reactor' = reactor
         /\ op'.task = "drain" => op.task = "drain"
<1>1. CASE Released
  BY <1>1, ReleasedSignal DEF AfterStart
<1>2. CASE ~Released
  BY <1>2 DEF AfterStart, TypeOK, Operation
<1>. QED
  BY <1>1, <1>2

\* A step of start_service ends the call or leaves the reactor and the operation alone.
LEMMA StartServiceOutcome ==
  StartServiceStep => AfterStart(TRUE) \/ AfterStart(FALSE) \/ UNCHANGED <<reactor, op>>
<1>. SUFFICES ASSUME StartServiceStep
              PROVE  AfterStart(TRUE) \/ AfterStart(FALSE) \/ UNCHANGED <<reactor, op>>
  OBVIOUS
<1>1. CASE OneshotCollected
  <2>1. CASE proc[starting.pid] = "clean"
    BY <1>1, <2>1 DEF OneshotCollected, OneshotEnds
  <2>2. CASE proc[starting.pid] # "clean"
    BY <1>1, <2>2 DEF OneshotCollected, OneshotEnds
  <2>. QED
    BY <2>1, <2>2
<1>2. CASE OneshotVanished \/ OneshotKilled
  BY <1>2 DEF OneshotVanished, OneshotKilled, OneshotEnds
<1>3. CASE ActivationReady \/ ActivationFails
  BY <1>3 DEF ActivationReady, ActivationFails
<1>4. CASE OneshotStillRuns \/ OneshotPollsAgain \/ OneshotTimesOut
  BY <1>4 DEF OneshotStillRuns, OneshotPollsAgain, OneshotTimesOut
<1>5. ASSUME NEW s \in Services, LaunchFails(s) PROVE AfterStart(FALSE)
  BY <1>5 DEF LaunchFails
<1>6. ASSUME NEW s \in Services, NEW p \in Pids, LaunchSimple(s, p) PROVE AfterStart(TRUE)
  BY <1>6 DEF LaunchSimple
<1>7. ASSUME NEW s \in Services, NEW p \in Pids, LaunchWaiting(s, p)
      PROVE  UNCHANGED <<reactor, op>>
  BY <1>7 DEF LaunchWaiting
<1>. QED
  BY <1>1, <1>2, <1>3, <1>4, <1>5, <1>6, <1>7 DEF StartServiceStep

LEMMA AfterStartTask ==
  ASSUME TypeOK, NEW ok \in BOOLEAN, AfterStart(ok)
  PROVE  op'.task \in {"idle", "fallback", "drain", "boot", "devices"}
<1>1. CASE Released
  BY <1>1 DEF Released, Served, Idle
<1>2. CASE op' = [op EXCEPT !.task = "fallback", !.svc = NoService]
  BY <1>2 DEF TypeOK, Operation
<1>3. CASE op' = [op EXCEPT !.svc = NoService] /\ op.task \in {"drain", "boot", "devices"}
  BY <1>3 DEF TypeOK, Operation
<1>. QED
  BY <1>1, <1>2, <1>3 DEF AfterStart

LEMMA StartServiceSignalInv ==
  ASSUME TypeOK, MutexInv, SignalInv, StartServiceStep
  PROVE  SignalInv'
<1>1. pendingRestarts' = pendingRestarts
  BY DEF StartServiceStep, LaunchFails, LaunchSimple, LaunchWaiting, ActivationReady,
         ActivationFails, OneshotCollected, OneshotStillRuns, OneshotPollsAgain, OneshotTimesOut,
         OneshotVanished, OneshotKilled, OneshotEnds, unitVars
<1>2. sigchld => sigchld'
  BY DEF StartServiceStep, LaunchFails, LaunchSimple, LaunchWaiting, Spawn, ActivationReady,
         ActivationFails, OneshotCollected, OneshotStillRuns, OneshotPollsAgain, OneshotTimesOut,
         OneshotVanished, OneshotKilled, kernelVars
<1>3. AfterStart(TRUE) \/ AfterStart(FALSE) \/ UNCHANGED <<reactor, op>>
  BY StartServiceOutcome
<1>4. Zombies' \subseteq Zombies
  <2>1. CASE ActivationFails \/ OneshotCollected \/ OneshotKilled
    BY <2>1, CollectZombies DEF ActivationFails, OneshotCollected, OneshotKilled
  <2>2. ASSUME NEW s \in Services, NEW p \in Pids, Spawn(s, p) PROVE Zombies' \subseteq Zombies
    BY <2>2 DEF Spawn, Zombies, TypeOK
  <2>3. CASE proc' = proc
    BY <2>3 DEF Zombies
  <2>. QED
    BY <2>1, <2>2, <2>3
    DEF StartServiceStep, LaunchFails, LaunchSimple, LaunchWaiting, ActivationReady,
        OneshotStillRuns, OneshotPollsAgain, OneshotTimesOut, OneshotVanished, kernelVars
<1>5. /\ reactor \in {"chld", "off"} => reactor' = reactor
      /\ op'.task = "drain" => op.task = "drain"
  BY <1>3, AfterStartSignal
<1>. QED
  BY <1>1, <1>2, <1>4, <1>5, SignalFrame

LEMMA OperationSignalInv ==
  ASSUME TypeOK, MutexInv, SignalInv, OperationStep
  PROVE  SignalInv'
<1>1. Zombies' = Zombies /\ sigchld' = sigchld /\ (~DrainPop => pendingRestarts' = pendingRestarts)
  BY DEF OperationStep, SigchldReaped, DrainPop, DrainDone, RestartProceeds, Escalate, ShutdownDone,
         SwitchBoots, BootPick, BootAborts, BootWaveEnds, BootWaveReaped, DevicePick, DevicesDone,
         BootFallsBack, Zombies, unitVars, kernelVars
<1>2. CASE DrainPop
  BY <1>1, <1>2, SignalFrame DEF DrainPop, TypeOK, Operation
<1>3. CASE DrainDone
  BY <1>1, <1>3 DEF DrainDone, Released, Idle, unitVars, SignalInv, NoLostChild, NoStrandedRestart
<1>4. CASE SigchldReaped
  BY <1>1, <1>4, SignalFrame DEF SigchldReaped, unitVars
<1>5. CASE Released /\ op.task \in {"shutdown", "switch", "boot", "devices", "fallback"}
           /\ pendingRestarts' = pendingRestarts
  BY <1>1, <1>5, ReleasedSignal, SignalFrame
<1>6. CASE reactor' = reactor /\ op'.task # "drain" /\ pendingRestarts' = pendingRestarts
  BY <1>1, <1>6, SignalFrame
<1>7. CASE RestartProceeds \/ Escalate \/ (\E s \in Services : BootPick(s)) \/ BootWaveEnds
  <2>1. reactor' = reactor /\ pendingRestarts' = pendingRestarts
    BY <1>7 DEF RestartProceeds, Escalate, BootPick, BootWaveEnds, unitVars
  <2>2. op'.task # "drain"
    BY <1>7
    DEF RestartProceeds, Escalate, StopWait, BootPick, BootWaveEnds, BootIdle, TypeOK, Operation
  <2>. QED
    BY <1>6, <2>1, <2>2
<1>8. CASE ShutdownDone
  BY <1>5, <1>8 DEF ShutdownDone, unitVars
<1>9. CASE SwitchBoots
  BY <1>5, <1>6, <1>9 DEF SwitchBoots, Boot, Idle
<1>10. CASE BootWaveReaped
  <2>1. op.task = "boot" /\ pendingRestarts' = pendingRestarts /\ reactor' = reactor
    BY <1>10 DEF BootWaveReaped, unitVars
  <2>2. op'.task \in {"boot", "devices"}
    BY <1>10, <2>1 DEF BootWaveReaped, TypeOK, Operation
  <2>. QED
    BY <1>6, <2>1, <2>2
<1>11. CASE BootFallsBack
  <2>1. Released \/ (reactor' = reactor /\ op'.task \in {"boot", "fallback"})
    BY <1>11, TaskNames DEF BootFallsBack, TypeOK, Operation
  <2>. QED
    BY <1>5, <1>6, <1>11, <2>1 DEF BootFallsBack
<1>12. CASE BootAborts
  <2>1. /\ reactor \in {"chld", "off"} => reactor' = reactor
        /\ op'.task = "drain" => op.task = "drain"
    BY <1>12, AfterStartSignal DEF BootAborts
  <2>. QED
    BY <1>1, <1>12, <2>1, SignalFrame DEF BootAborts, unitVars
<1>13. ASSUME NEW s \in Services, DevicePick(s) PROVE SignalInv'
  <2>1. reactor' = reactor /\ op'.task # "drain" /\ pendingRestarts' = pendingRestarts
    BY <1>13 DEF DevicePick, DevicesIdle, TypeOK, Operation
  <2>. QED
    BY <1>6, <2>1
<1>14. CASE DevicesDone
  BY <1>5, <1>14 DEF DevicesDone, DevicesIdle, unitVars
<1>. QED
  BY <1>2, <1>3, <1>4, <1>7, <1>8, <1>9, <1>10, <1>11, <1>12, <1>13, <1>14 DEF OperationStep

LEMMA NextSignalInv == TypeOK /\ MutexInv /\ SignalInv /\ [Next]_vars => SignalInv'
<1>. SUFFICES ASSUME TypeOK, MutexInv, SignalInv, [Next]_vars PROVE SignalInv'
  OBVIOUS
<1>1. ASSUME NEW p \in Pids, ReapOne(p) PROVE SignalInv'
  <2>1. Zombies' \subseteq Zombies /\ Zombies # {} /\ UNCHANGED <<sigchld, reactor, op>>
    BY <1>1, CollectZombies DEF ReapOne, controlVars
  <2>. QED
    BY <2>1 DEF SignalInv, NoLostChild, NoStrandedRestart
<1>2. CASE ReadSigchld
  BY <1>2 DEF ReadSigchld, MutexInv, SignalInv, NoLostChild, NoStrandedRestart
<1>3. CASE HandleSigchld
  <2>1. op'.task # "drain" /\ UNCHANGED <<proc, sigchld, reactor, pendingRestarts>>
    BY <1>3 DEF HandleSigchld, Idle, unitVars, kernelVars
  <2>. QED
    BY <2>1, SignalFrame DEF Zombies
<1>4. CASE ReactorLoopTop
  BY <1>4
  DEF ReactorLoopTop, unitVars, kernelVars, Zombies, MutexInv, SignalInv, NoLostChild,
      NoStrandedRestart
<1>5. CASE RequestStep
  <2>1. /\ UNCHANGED <<proc, sigchld, pendingRestarts>>
        /\ reactor \in {"chld", "off"} => reactor' = reactor
    BY <1>5
    DEF RestartByName, RequestStep, StartByName, StopByName, ActivateTarget, Shutdown, Request,
        FromClient, kernelVars
  <2>2. op'.task # "drain" \/ op' = op
    BY <1>5
    DEF RestartByName, RequestStep, StartByName, StopByName, ActivateTarget, Shutdown, Request,
        Idle
  <2>. QED
    BY <2>1, <2>2 DEF Zombies, SignalInv, NoLostChild, NoStrandedRestart
<1>6. ASSUME NEW p \in Pids, ChildExits(p) PROVE SignalInv'
  BY <1>6 DEF ChildExits, SignalInv, NoLostChild, NoStrandedRestart
<1>7. ASSUME NEW p \in Pids, AdoptOrphan(p) PROVE SignalInv'
  <2>1. Zombies' = Zombies
    BY <1>7 DEF AdoptOrphan, Zombies, TypeOK
  <2>. QED
    BY <1>7, <2>1, SignalFrame DEF AdoptOrphan, unitVars, controlVars
<1>8. ASSUME NEW s \in Services, WindowPasses(s) PROVE SignalInv'
  BY <1>8, SignalFrame DEF WindowPasses, Zombies, kernelVars, controlVars
<1>9. CASE UNCHANGED vars
  BY <1>9, SignalFrame DEF vars, unitVars, kernelVars, controlVars, Zombies
<1>10. CASE AcceptClient \/ ClientDone
  BY <1>10
  DEF AcceptClient, ClientDone, unitVars, kernelVars, Zombies, SignalInv, NoLostChild,
      NoStrandedRestart
<1>. QED
  BY <1>1, <1>2, <1>3, <1>4, <1>5, <1>6, <1>7, <1>8, <1>9, <1>10, StartServiceSignalInv,
     OperationSignalInv
  DEF Next, Forge, Environment

-----------------------------------------------------------------------------
(* The escalation of a shutdown.                                           *)

\* A step that is no part of a shutdown leaves EscalationInv without a premise.
LEMMA EscalationFrame ==
  ASSUME \/ op'.task # "shutdown"
         \/ EscalationInv /\ UNCHANGED <<op, active, slot, killed>>
         \/ op'.task = "shutdown" /\ ~op'.escalated
  PROVE  EscalationInv'
  BY DEF EscalationInv

LEMMA ReapEscalationInv ==
  ASSUME TypeOK, MutexInv, BlockedInv, ProcessInv, EscalationInv, NEW p \in Pids, ReapOne(p)
  PROVE  EscalationInv'
<1>. SUFFICES ASSUME op'.task = "shutdown", op'.escalated, NEW s \in active'
              PROVE  slot'[s] = NoPid \/ slot'[s] \in killed'
  BY DEF EscalationInv
<1>1. /\ op.task = "shutdown" /\ op.escalated /\ s \in active /\ s \in Services
      /\ killed' = killed \ {p}
  BY DEF ReapOne, Collect, controlVars, TypeOK
<1>2. slot[s] = NoPid \/ (slot[s] \in killed /\ pidIndex[slot[s]] = s)
  <2>1. starting.svc # s
    BY <1>1, NobodyBlocked, NoServiceIsNone DEF NoStart
  <2>. QED
    BY <1>1, <2>1 DEF EscalationInv, ProcessInv
<1>3. CASE pidIndex[p] = NoService
  BY <1>1, <1>2, <1>3, NoServiceIsNone DEF ReapOne
<1>4. CASE pidIndex[p] # NoService
  <2>1. pidIndex[p] \in Services /\ slot' = [slot EXCEPT ![pidIndex[p]] = NoPid]
    BY <1>4 DEF ReapOne, OnChildExit, TypeOK
  <2>. QED
    BY <1>1, <1>2, <2>1 DEF TypeOK
<1>. QED
  BY <1>3, <1>4

LEMMA NextEscalationInv ==
  TypeOK /\ MutexInv /\ BlockedInv /\ ProcessInv /\ EscalationInv /\ [Next]_vars => EscalationInv'
<1>. SUFFICES ASSUME TypeOK, MutexInv, BlockedInv, ProcessInv, EscalationInv, [Next]_vars
              PROVE  EscalationInv'
  OBVIOUS
<1>1. CASE StartServiceStep
  <2>1. op.task # "shutdown"
    BY <1>1
    DEF StartServiceStep, LaunchFails, LaunchSimple, LaunchWaiting, ReadyToLaunch, ActivationReady,
        ActivationFails, OneshotCollected, OneshotStillRuns, OneshotPollsAgain, OneshotTimesOut,
        OneshotVanished, OneshotKilled, OneshotReaped, Waiting, BlockedInv
  <2>2. AfterStart(TRUE) \/ AfterStart(FALSE) => op'.task # "shutdown"
    BY AfterStartTask
  <2>3. AfterStart(TRUE) \/ AfterStart(FALSE) \/ UNCHANGED op
    BY <1>1, StartServiceOutcome
  <2>. QED
    BY <2>1, <2>2, <2>3, EscalationFrame
<1>2. CASE Escalate
  <2>1. op.task \in {"shutdown", "switch"} /\ UNCHANGED <<slot, active>>
        /\ killed' = killed \cup {slot[s] : s \in Tracked}
    BY <1>2 DEF Escalate, StopWait, unitVars
  <2>. QED
    BY <2>1 DEF EscalationInv, Tracked
<1>3. CASE OperationStep /\ ~Escalate
  <2>1. op'.task # "shutdown"
    <3>1. CASE SigchldReaped \/ RestartProceeds
      BY <3>1 DEF SigchldReaped, RestartProceeds, TypeOK, Operation
    <3>2. CASE DrainDone \/ ShutdownDone \/ BootWaveEnds
      BY <3>2, TaskNames DEF DrainDone, ShutdownDone, BootWaveEnds, BootIdle, Released
    <3>3. CASE BootWaveReaped
      <4>1. op.task = "boot"
        BY <3>3 DEF BootWaveReaped
      <4>. QED
        BY <3>3, <4>1 DEF BootWaveReaped, TypeOK, Operation
    <3>4. CASE DrainPop
      <4>1. op.task = "drain"
        BY <3>4 DEF DrainPop
      <4>2. op' = op \/ op' = [op EXCEPT !.svc = Head(pendingRestarts)]
        BY <3>4 DEF DrainPop
      <4>. QED
        BY <4>1, <4>2 DEF TypeOK, Operation
    <3>5. CASE SwitchBoots
      BY <3>5, TaskNames DEF SwitchBoots, Released
    <3>6. CASE BootFallsBack
      <4>1. \/ \E T \in Targets : op' = Boot(T, op.tries - 1)
            \/ op.task = "fallback" /\ op' = [op EXCEPT !.tries = @ - 1]
            \/ op' = Idle
        BY <3>6 DEF BootFallsBack, Released
      <4>. QED
        BY <4>1, TaskNames DEF TypeOK, Operation
    <3>7. ASSUME NEW s \in Services, BootPick(s) PROVE op'.task # "shutdown"
      BY <3>7 DEF BootPick, BootIdle, TypeOK, Operation
    <3>8. CASE BootAborts
      BY <3>8, AfterStartTask DEF BootAborts
    <3>9. ASSUME NEW s \in Services, DevicePick(s) PROVE op'.task # "shutdown"
      BY <3>9 DEF DevicePick, DevicesIdle, TypeOK, Operation
    <3>10. CASE DevicesDone
      BY <3>10, TaskNames DEF DevicesDone, Released
    <3>. QED
      BY <1>3, <3>1, <3>2, <3>3, <3>4, <3>5, <3>6, <3>7, <3>8, <3>9, <3>10 DEF OperationStep
  <2>. QED
    BY <2>1, EscalationFrame
<1>4. CASE RequestStep
  <2>1. op'.task # "shutdown" \/ ~op'.escalated \/ UNCHANGED <<op, active, slot, killed>>
    BY <1>4
    DEF RequestStep, StartByName, StopByName, RestartByName, ActivateTarget, Shutdown, Request,
        Idle, kernelVars, controlVars
  <2>. QED
    BY <2>1, EscalationFrame
<1>5. CASE ReadSigchld \/ AcceptClient \/ ClientDone \/ ReactorLoopTop \/ Environment
           \/ UNCHANGED vars
  BY <1>5, EscalationFrame
  DEF ReadSigchld, AcceptClient, ClientDone, ReactorLoopTop, Environment, ChildExits, AdoptOrphan,
      WindowPasses, vars, unitVars, kernelVars, controlVars
<1>6. CASE HandleSigchld
  BY <1>6, EscalationFrame DEF HandleSigchld, Idle
<1>. QED
  BY <1>1, <1>2, <1>3, <1>4, <1>5, <1>6, ReapEscalationInv DEF Next, Forge

-----------------------------------------------------------------------------
(* The theorems.                                                           *)

LEMMA InitIInv == Init => IInv
<1>. SUFFICES ASSUME Init PROVE IInv
  OBVIOUS
<1>1. op.task = "fallback" /\ op.escalated = FALSE
  BY DEF Init, Idle
<1>2. MutexInv
  BY <1>1 DEF Init, MutexInv
<1>3. BlockedInv
  BY NotBlocked DEF Init
<1>4. ProcessInv
  BY DEF Init, ProcessInv, IndexNamesOwnProcess, NoStart
<1>5. SignalInv
  BY DEF Init, SignalInv, NoLostChild, NoStrandedRestart, Zombies
<1>6. EscalationInv
  BY <1>1 DEF EscalationInv
<1>. QED
  BY <1>2, <1>3, <1>4, <1>5, <1>6, InitTypeOK DEF IInv

LEMMA NextIInv == IInv /\ [Next]_vars => IInv'
  BY NextTypeOK, NextControl, NextProcessInv, NextSignalInv, NextEscalationInv DEF IInv

\* The inductive invariant: the mutex, the blocked start, the process table, the signal
\* and the escalation agree at every step of every interleaving.
THEOREM Inductive == Spec => []IInv
  BY InitIInv, NextIInv, PTL DEF Spec

\* on_child_exit never charges a unit with the exit of a stranger, recycled pids included.
THEOREM IndexIsOwn == Spec => []IndexNamesOwnProcess
<1>1. IInv => IndexNamesOwnProcess
  BY DEF IInv, ProcessInv
<1>. QED
  BY <1>1, Inductive, PTL

LEMMA TrackedIsOwn == IInv => SignalsReachOwnProcess
  BY NoServiceIsNone
  DEF IInv, TypeOK, ProcessInv, IndexNamesOwnProcess, SignalsReachOwnProcess

\* stop, restart and escalation signal processes of the named unit only.
THEOREM SignalsAreOwn == Spec => []SignalsReachOwnProcess
  BY TrackedIsOwn, Inductive, PTL

\* No zombie is ever without a SIGCHLD pending or a handler on its way.
THEOREM NoChildLost == Spec => []NoLostChild
<1>1. IInv => NoLostChild
  BY DEF IInv, SignalInv
<1>. QED
  BY <1>1, Inductive, PTL

\* No restart is ever in the queue without a drain to come.
THEOREM NoRestartStranded == Spec => []NoStrandedRestart
<1>1. IInv => NoStrandedRestart
  BY DEF IInv, SignalInv
<1>. QED
  BY <1>1, Inductive, PTL

\* A service shown as running or stopping has a process of its own in the table.
THEOREM StatusIsTrue == Spec => []StatusHasProcess
<1>1. IInv => StatusHasProcess
  <2>. SUFFICES ASSUME IInv, NEW s \in Services, state[s] \in {"Running", "Stopping"}
                PROVE  slot[s] # NoPid /\ proc[slot[s]] # "free" /\ owner[slot[s]] = s
    BY DEF StatusHasProcess
  <2>1. slot[s] # NoPid /\ slot[s] \in Pids /\ pidIndex[slot[s]] = s
    BY DEF IInv, ProcessInv, TypeOK
  <2>. QED
    BY <2>1, NoServiceIsNone DEF IInv, ProcessInv, IndexNamesOwnProcess
<1>. QED
  BY <1>1, Inductive, PTL

\* When the stop wait of a shutdown ends, every process of an active service is about to
\* die, unless the service has more processes than its table entry names.
THEOREM ShutdownIsComplete == Spec => ShutdownLeavesNobody
<1>. DEFINE Step == op.task = "shutdown" /\ op'.task # "shutdown" =>
                      \A s \in active :
                        Known(s)' => \A p \in Pids : owner'[p] = s => p \in killed'
<1>1. IInv /\ [Next]_vars => [Step]_vars
  <2>. SUFFICES ASSUME IInv, Next, op.task = "shutdown", op'.task # "shutdown"
                PROVE  \A s \in active :
                         Known(s)' => \A p \in Pids : owner'[p] = s => p \in killed'
    BY DEF vars
  <2>1. ShutdownDone
    <3>1. holder # "none" /\ starting.phase = "none"
      BY DEF IInv, MutexInv, BlockedInv
    <3>2. ~StartServiceStep
      BY <3>1
      DEF StartServiceStep, LaunchFails, LaunchSimple, LaunchWaiting, ReadyToLaunch,
          ActivationReady, ActivationFails, OneshotCollected, OneshotStillRuns, OneshotPollsAgain,
          OneshotTimesOut, OneshotVanished, OneshotKilled, OneshotReaped, Waiting
    <3>3. ~RequestStep /\ ~HandleSigchld
      BY <3>1
      DEF RequestStep, StartByName, StopByName, RestartByName, ActivateTarget, Shutdown, Request,
          HandleSigchld
    <3>4. /\ ~ReadSigchld /\ ~AcceptClient /\ ~ClientDone /\ ~ReactorLoopTop /\ ~Environment
          /\ ~(\E p \in Pids : ReapOne(p)) /\ ~UNCHANGED vars
      BY DEF ReadSigchld, AcceptClient, ClientDone, ReactorLoopTop, Environment, ChildExits,
             AdoptOrphan, WindowPasses, ReapOne, vars, controlVars
    <3>5. ~Escalate
      BY DEF Escalate, IInv, TypeOK, Operation
    <3>. QED
      BY <3>2, <3>3, <3>4, <3>5
      DEF Next, Forge, OperationStep, SigchldReaped, DrainPop, DrainDone, RestartProceeds,
          SwitchBoots, BootPick, BootAborts, BootIdle, BootWaveEnds, BootWaveReaped, DevicePick,
          DevicesDone, DevicesIdle, BootFallsBack
  <2>2. \A s \in active : slot[s] = NoPid \/ slot[s] \in killed
    BY <2>1 DEF ShutdownDone, StopWaitOver, Tracked, IInv, EscalationInv
  <2>3. slot' = slot /\ killed' = killed
    BY <2>1 DEF ShutdownDone, unitVars, kernelVars
  <2>. QED
    BY <2>2, <2>3, NoPidIsNone DEF Known
<1>. QED
  BY <1>1, Inductive, PTL DEF Spec, ShutdownLeavesNobody

-----------------------------------------------------------------------------
(* KinInv: every process of a unit is accounted for.                       *)

LEMMA NoStartIsNone ==
  NoStart.phase = "none" /\ NoStart.pid \notin Pids /\ NoStart.svc \notin Services
  BY NoPidIsNone, NoServiceIsNone DEF NoStart

LEMMA KinFrame ==
  KinInv /\ UNCHANGED <<state, slot, pidIndex, proc, owner, starting>> => KinInv'
  BY DEF KinInv

LEMMA LaunchKinInv ==
  ASSUME IInv, KinInv, NEW s \in Services,
         \/ LaunchFails(s)
         \/ \E p \in Pids : LaunchSimple(s, p) \/ LaunchWaiting(s, p)
  PROVE  KinInv'
<1>0. starting = NoStart
  BY DEF LaunchFails, LaunchSimple, LaunchWaiting, ReadyToLaunch
<1>1. CASE LaunchFails(s)
  BY <1>0, <1>1, NoStartIsNone DEF LaunchFails, kernelVars, KinInv
<1>2. ASSUME NEW p \in Pids, LaunchSimple(s, p) PROVE KinInv'
  <2>1. /\ proc' = [proc EXCEPT ![p] = "live"] /\ owner' = [owner EXCEPT ![p] = s]
        /\ pidIndex' = [pidIndex EXCEPT ![p] = s] /\ starting' = starting
        /\ TypeOf[s] = "simple"
    BY <1>2 DEF LaunchSimple, Spawn
  <2>. QED
    BY <1>0, <2>1, NoStartIsNone DEF KinInv, IInv, TypeOK
<1>3. ASSUME NEW p \in Pids, LaunchWaiting(s, p) PROVE KinInv'
  <2>1. /\ proc' = [proc EXCEPT ![p] = "live"] /\ owner' = [owner EXCEPT ![p] = s]
        /\ pidIndex' = pidIndex
        /\ slot' = [slot EXCEPT ![s] = p] /\ state' = [state EXCEPT ![s] = "Starting"]
        /\ starting'.svc = s /\ starting'.pid = p
        /\ TypeOf[s] = "oneshot" <=> starting'.phase # "activation"
    BY <1>3 DEF LaunchWaiting, Spawn
  <2>. QED
    BY <1>0, <2>1, NoStartIsNone DEF KinInv, IInv, TypeOK
<1>. QED
  BY <1>1, <1>2, <1>3

\* The process a start waited for is gone when the wait ends.
LEMMA StartEndsKinInv ==
  ASSUME IInv, KinInv, starting.phase # "none", starting' = NoStart, pidIndex' = pidIndex,
         \/ Collect(starting.pid)
         \/ proc[starting.pid] = "free" /\ UNCHANGED <<proc, owner>>
  PROVE  KinInv'
<1>1. starting.pid \in Pids
  BY DEF IInv, BlockedInv
<1>2. ASSUME NEW p \in Pids, owner'[p] # NoService
      PROVE  proc'[p] # "free" /\ pidIndex'[p] = owner'[p]
  <2>1. owner[p] # NoService /\ p # starting.pid /\ owner'[p] = owner[p] /\ proc'[p] = proc[p]
    BY <1>1, <1>2 DEF KinInv, Collect, IInv, TypeOK
  <2>. QED
    BY <2>1 DEF KinInv
<1>. QED
  BY <1>2, NoStartIsNone DEF KinInv

LEMMA StartServiceKinInv ==
  ASSUME IInv, KinInv, StartServiceStep
  PROVE  KinInv'
<1>1. CASE ActivationReady
  <2>. DEFINE s == starting.svc
              p == starting.pid
  <2>1. /\ s \in Services /\ p \in Pids /\ owner[p] = s /\ TypeOf[s] # "oneshot"
    BY <1>1 DEF ActivationReady, IInv, BlockedInv, ProcessInv, KinInv
  <2>2. /\ pidIndex' = [pidIndex EXCEPT ![p] = s]
        /\ starting' = NoStart /\ UNCHANGED <<slot, proc, owner>>
    BY <1>1 DEF ActivationReady, kernelVars
  <2>. QED
    BY <2>1, <2>2, NoStartIsNone DEF KinInv, IInv, TypeOK
<1>2. CASE ActivationFails
  BY <1>2, StartEndsKinInv DEF ActivationFails
<1>3. CASE OneshotCollected \/ OneshotKilled
  BY <1>3, StartEndsKinInv DEF OneshotCollected, OneshotKilled, OneshotEnds, Waiting
<1>4. CASE OneshotVanished
  BY <1>4, StartEndsKinInv DEF OneshotVanished, OneshotEnds, Waiting, kernelVars
<1>5. CASE OneshotStillRuns \/ OneshotPollsAgain
  BY <1>5, KinFrame DEF OneshotStillRuns, OneshotPollsAgain, unitVars, kernelVars
<1>6. CASE OneshotTimesOut
  BY <1>6 DEF OneshotTimesOut, KinInv, unitVars, kernelVars, IInv, TypeOK, Start
<1>. QED
  BY <1>1, <1>2, <1>3, <1>4, <1>5, <1>6, LaunchKinInv DEF StartServiceStep

\* A reap that runs beside a start is that of a oneshot, and no index entry names a oneshot.
LEMMA ReapKinInv ==
  ASSUME IInv, KinInv, NEW p \in Pids, ReapOne(p)
  PROVE  KinInv'
<1>. DEFINE s == pidIndex[p]
<1>1. /\ proc' = [proc EXCEPT ![p] = "free"] /\ owner' = [owner EXCEPT ![p] = NoService]
      /\ starting' = starting /\ starting.phase # "activation"
  BY DEF ReapOne, Collect, controlVars, IInv, BlockedInv
<1>2. CASE s = NoService
  BY <1>1, <1>2 DEF ReapOne, KinInv, IInv, TypeOK
<1>3. CASE s # NoService
  <2>1. /\ s \in Services /\ pidIndex' = [pidIndex EXCEPT ![p] = NoService]
        /\ slot' = [slot EXCEPT ![s] = NoPid]
        /\ state' = [state EXCEPT ![s] = IF proc[p] = "failed" THEN "Failed" ELSE "Dead"]
    BY <1>3 DEF ReapOne, OnChildExit, IInv, TypeOK
  <2>2. starting.phase # "none" => starting.svc # s /\ starting.svc \in Services
    BY <1>1, <1>3 DEF KinInv, IInv, BlockedInv
  <2>. QED
    BY <1>1, <2>1, <2>2 DEF KinInv, IInv, TypeOK
<1>. QED
  BY <1>2, <1>3

\* A request, and the environment, find every process where it was.
LEMMA OthersKinInv ==
  ASSUME IInv, KinInv, RequestStep \/ Environment
  PROVE  KinInv'
<1>1. CASE RequestStep
  <2>1. holder = "none" /\ UNCHANGED <<slot, pidIndex, proc, owner, starting>>
    BY <1>1
    DEF RequestStep, Request, StartByName, StopByName, RestartByName, ActivateTarget, Shutdown,
        kernelVars, controlVars
  <2>2. starting = NoStart
    BY <2>1, NobodyBlocked DEF IInv, MutexInv
  <2>. QED
    BY <2>1, <2>2, NoStartIsNone DEF KinInv
<1>2. ASSUME NEW p \in Pids, ChildExits(p) \/ AdoptOrphan(p) PROVE KinInv'
  <2>1. UNCHANGED <<state, slot, pidIndex, owner, starting>>
    BY <1>2 DEF ChildExits, AdoptOrphan, unitVars, controlVars
  <2>2. \A q \in Pids : proc[q] # "free" => proc'[q] # "free"
    BY <1>2 DEF ChildExits, AdoptOrphan, IInv, TypeOK
  <2>. QED
    BY <2>1, <2>2 DEF KinInv
<1>3. ASSUME NEW s \in Services, WindowPasses(s) PROVE KinInv'
  BY <1>3, KinFrame DEF WindowPasses, kernelVars, controlVars
<1>. QED
  BY <1>1, <1>2, <1>3 DEF Environment

LEMMA NextKinInv == IInv /\ KinInv /\ [Next]_vars => KinInv'
<1>. SUFFICES ASSUME IInv, KinInv, [Next]_vars PROVE KinInv'
  OBVIOUS
<1>1. CASE OperationStep
  BY <1>1, KinFrame
  DEF OperationStep, SigchldReaped, DrainPop, DrainDone, RestartProceeds, Escalate, ShutdownDone,
      SwitchBoots, BootPick, BootAborts, BootWaveEnds, BootWaveReaped, DevicePick, DevicesDone,
      BootFallsBack, unitVars, kernelVars
<1>2. CASE ReadSigchld \/ HandleSigchld \/ AcceptClient \/ ClientDone \/ ReactorLoopTop
           \/ UNCHANGED vars
  BY <1>2, KinFrame
  DEF ReadSigchld, HandleSigchld, AcceptClient, ClientDone, ReactorLoopTop, vars, unitVars,
      kernelVars, controlVars
<1>. QED
  BY <1>1, <1>2, StartServiceKinInv, ReapKinInv, OthersKinInv DEF Next, Forge

LEMMA InitKinInv == Init => KinInv
  BY NoStartIsNone DEF Init, KinInv

\* No process of a unit is ever out of the index and out of a start's sight.
THEOREM Kinship == Spec => []KinInv
  BY InitKinInv, NextKinInv, Inductive, PTL DEF Spec

-----------------------------------------------------------------------------
(* The refinement: ForgeSupervisor implements ServiceLifecycle.            *)

LEMMA FateOf ==
  \A p \in Pids : /\ Fate[p] = IF owner[p] = NoService THEN "free" ELSE proc[p]
                  /\ Fate'[p] = IF owner'[p] = NoService THEN "free" ELSE proc'[p]
  BY DEF Fate

LEMMA LifecycleFrame ==
  UNCHANGED <<state, slot, proc, owner>> => UNCHANGED Lifecycle!vars
  BY DEF Fate, Lifecycle!vars

\* The process is forgotten, whoever's it was.
LEMMA CollectGone ==
  ASSUME TypeOK, NEW p \in Pids, Collect(p)
  PROVE  /\ owner[p] # NoService => Lifecycle!Gone(p)
         /\ owner[p] = NoService => UNCHANGED <<owner, Fate>>
<1>1. owner' = [owner EXCEPT ![p] = NoService] /\ proc' = [proc EXCEPT ![p] = "free"]
  BY DEF Collect
<1>2. \A q \in Pids : Fate'[q] = IF q = p THEN "free" ELSE Fate[q]
  BY <1>1, FateOf DEF TypeOK
<1>3. Fate' = [Fate EXCEPT ![p] = "free"]
  BY <1>2 DEF Fate
<1>4. owner[p] = NoService => UNCHANGED <<owner, Fate>>
  <2>. SUFFICES ASSUME owner[p] = NoService PROVE UNCHANGED <<owner, Fate>>
    OBVIOUS
  <2>1. owner' = owner
    BY <1>1 DEF TypeOK
  <2>2. \A q \in Pids : Fate'[q] = Fate[q]
    BY <1>2, FateOf
  <2>. QED
    BY <2>1, <2>2 DEF Fate
<1>. QED
  BY <1>1, <1>3, <1>4 DEF Lifecycle!Gone

LEMMA SpawnLifecycle ==
  ASSUME IInv, KinInv, NEW s \in Services, NEW p \in Pids, Spawn(s, p),
         NEW now \in {"Starting", "Running"}, state' = [state EXCEPT ![s] = now]
  PROVE  Lifecycle!Spawn(s, p)
<1>1. /\ owner[p] = NoService /\ slot' = [slot EXCEPT ![s] = p]
      /\ owner' = [owner EXCEPT ![p] = s] /\ proc' = [proc EXCEPT ![p] = "live"]
  BY DEF Spawn, KinInv
<1>2. \A q \in Pids : Fate'[q] = IF q = p THEN "live" ELSE Fate[q]
  BY <1>1, FateOf, NoServiceIsNone DEF IInv, TypeOK
<1>3. Fate' = [Fate EXCEPT ![p] = "live"]
  BY <1>2 DEF Fate
<1>. QED
  BY <1>1, <1>3 DEF Lifecycle!Spawn

\* A blocked start that ends without a running service: its process was collected and is
\* not ready, or had vanished and somebody else may have answered.
LEMMA StartEndsLifecycle ==
  ASSUME IInv, KinInv, starting.phase # "none",
         slot' = [slot EXCEPT ![starting.svc] = NoPid],
         NEW final, state' = [state EXCEPT ![starting.svc] = final],
         \/ /\ Collect(starting.pid)
            /\ \/ final \in {"Starting", "Failed"}
               \/ /\ proc[starting.pid] \in {"clean", "failed"}
                  /\ final = IF proc[starting.pid] = "failed" THEN "Failed" ELSE "Dead"
         \/ /\ proc[starting.pid] = "free" /\ UNCHANGED <<proc, owner>>
            /\ final \in {"Starting", "Failed"}
  PROVE  Lifecycle!Next
<1>. DEFINE s == starting.svc
            p == starting.pid
<1>1. s \in Services /\ p \in Pids /\ slot[s] = p /\ state[s] = "Starting" /\ p # NoPid
      /\ pidIndex[p] = NoService
  BY NoPidIsNone DEF IInv, BlockedInv, ProcessInv, KinInv
<1>2. owner[p] \in {s, NoService}
  BY <1>1 DEF KinInv
<1>3. CASE owner[p] = NoService
  <2>1. UNCHANGED <<owner, Fate>>
    BY <1>1, <1>3, CollectGone, LifecycleFrame DEF IInv, Fate
  <2>2. final \in {"Starting", "Failed", "Dead"}
    OBVIOUS
  <2>3. Lifecycle!Vanish(s)
    BY <1>1, <1>3, <2>1, <2>2 DEF Lifecycle!Vanish
  <2>. QED
    BY <1>1, <2>3 DEF Lifecycle!Next
<1>4. CASE owner[p] = s
  <2>1. owner[p] # NoService /\ proc[p] # "free" /\ Collect(p)
    BY <1>1, <1>4, NoServiceIsNone DEF KinInv
  <2>2. Lifecycle!Gone(p) /\ Lifecycle!OwnProcess(s)
    BY <1>1, <1>4, <2>1, CollectGone DEF IInv, Lifecycle!OwnProcess
  <2>3. Fate[p] = proc[p]
    BY <1>1, <2>1, FateOf
  <2>4. Lifecycle!GiveUp(s) \/ Lifecycle!Collect(s, p)
    BY <1>1, <1>4, <2>1, <2>2, <2>3 DEF Lifecycle!GiveUp, Lifecycle!Collect
  <2>. QED
    BY <1>1, <2>4 DEF Lifecycle!Next
<1>. QED
  BY <1>2, <1>3, <1>4

LEMMA StartServiceLifecycle ==
  ASSUME IInv, KinInv, StartServiceStep
  PROVE  [Lifecycle!Next]_(Lifecycle!vars)
<1>1. ASSUME NEW s \in Services, LaunchFails(s) PROVE Lifecycle!Next
  <2>1. Lifecycle!Refuse(s)
    BY <1>1 DEF LaunchFails, FailedStart, kernelVars, Fate, Lifecycle!Refuse
  <2>. QED
    BY <2>1 DEF Lifecycle!Next
<1>2. ASSUME NEW s \in Services, NEW p \in Pids, LaunchSimple(s, p) \/ LaunchWaiting(s, p)
      PROVE  Lifecycle!Next
  <2>1. Lifecycle!Spawn(s, p)
    BY <1>2, SpawnLifecycle DEF LaunchSimple, LaunchWaiting
  <2>. QED
    BY <2>1 DEF Lifecycle!Next
<1>3. CASE ActivationReady
  <2>. DEFINE s == starting.svc
  <2>1. /\ s \in Services /\ state[s] = "Starting" /\ slot[s] # NoPid /\ owner[slot[s]] = s
    BY <1>3, NoPidIsNone DEF ActivationReady, IInv, BlockedInv, ProcessInv, KinInv
  <2>2. state' = [state EXCEPT ![s] = "Running"] /\ UNCHANGED <<slot, proc, owner>>
    BY <1>3 DEF ActivationReady, kernelVars
  <2>3. Lifecycle!Ready(s)
    BY <2>1, <2>2 DEF Fate, Lifecycle!Ready, Lifecycle!OwnProcess
  <2>. QED
    BY <2>1, <2>3 DEF Lifecycle!Next
<1>4. CASE ActivationFails
  BY <1>4, StartEndsLifecycle DEF ActivationFails, FailedStart
<1>5. CASE OneshotCollected
  <2>1. proc[starting.pid] \in {"clean", "failed"}
    BY <1>5 DEF OneshotCollected, Zombies
  <2>. QED
    BY <1>5, <2>1, StartEndsLifecycle DEF OneshotCollected, OneshotEnds, Waiting
<1>6. CASE OneshotVanished
  BY <1>6, StartEndsLifecycle DEF OneshotVanished, OneshotEnds, Waiting, FailedStart, kernelVars
<1>7. CASE OneshotKilled
  BY <1>7, StartEndsLifecycle DEF OneshotKilled, OneshotEnds, Waiting
<1>8. CASE OneshotStillRuns \/ OneshotPollsAgain \/ OneshotTimesOut
  BY <1>8, LifecycleFrame
  DEF OneshotStillRuns, OneshotPollsAgain, OneshotTimesOut, unitVars, kernelVars
<1>. QED
  BY <1>1, <1>2, <1>3, <1>4, <1>5, <1>6, <1>7, <1>8 DEF StartServiceStep

\* A reap collects a process of the unit the index names, an orphan, or the oneshot that the
\* start waits for.
LEMMA ReapLifecycle ==
  ASSUME IInv, KinInv, NEW p \in Pids, ReapOne(p)
  PROVE  [Lifecycle!Next]_(Lifecycle!vars)
<1>. DEFINE s == owner[p]
<1>1. Collect(p) /\ proc[p] \in {"clean", "failed"}
  BY DEF ReapOne, Zombies
<1>2. /\ s # NoService => s \in Services /\ Fate[p] = proc[p] /\ Lifecycle!Gone(p)
      /\ s = NoService => UNCHANGED <<owner, Fate>>
  BY <1>1, CollectGone, FateOf DEF IInv, TypeOK
<1>3. CASE pidIndex[p] # NoService
  <2>1. pidIndex[p] = s /\ s # NoService
    BY <1>3 DEF IInv, ProcessInv, IndexNamesOwnProcess
  <2>2. /\ slot' = [slot EXCEPT ![s] = NoPid]
        /\ state' = [state EXCEPT ![s] = IF proc[p] = "failed" THEN "Failed" ELSE "Dead"]
    BY <1>3, <2>1 DEF ReapOne, OnChildExit
  <2>3. Lifecycle!Collect(s, p)
    BY <1>1, <1>2, <2>1, <2>2 DEF Lifecycle!Collect
  <2>. QED
    BY <1>2, <2>1, <2>3 DEF Lifecycle!Next
<1>4. CASE pidIndex[p] = NoService /\ s = NoService
  BY <1>2, <1>4 DEF ReapOne, Lifecycle!vars
<1>5. CASE pidIndex[p] = NoService /\ s # NoService
  <2>1. starting.pid = p /\ starting.svc = s
    BY <1>5 DEF KinInv
  <2>2. starting.phase # "none"
    BY <2>1, NoStartIsNone DEF IInv, BlockedInv
  <2>3. slot[s] = p /\ state[s] = "Starting" /\ p # NoPid
    BY <2>1, <2>2, NoPidIsNone DEF KinInv
  <2>4. Lifecycle!Miss(s)
    BY <1>1, <1>2, <1>5, <2>3 DEF ReapOne, Lifecycle!Miss, Lifecycle!OwnProcess
  <2>. QED
    BY <1>2, <1>5, <2>4 DEF Lifecycle!Next
<1>. QED
  BY <1>3, <1>4, <1>5

\* A request signals own processes only.
LEMMA RequestLifecycle ==
  ASSUME IInv, KinInv, RequestStep
  PROVE  [Lifecycle!Next]_(Lifecycle!vars)
<1>1. holder = "none" /\ UNCHANGED <<slot, proc, owner>>
  BY DEF RequestStep, Request, StartByName, StopByName, RestartByName, ActivateTarget, Shutdown,
         kernelVars
<1>2. starting = NoStart
  BY <1>1, NobodyBlocked DEF IInv, MutexInv
<1>3. \A s \in Services : slot[s] # NoPid => Lifecycle!OwnProcess(s)
  BY <1>2, TrackedIsOwn, NoStartIsNone DEF SignalsReachOwnProcess, Lifecycle!OwnProcess
<1>4. Fate' = Fate
  BY <1>1 DEF Fate
<1>5. CASE SignalAll
  <2>1. Tracked \in SUBSET Services /\ \A s \in Tracked : Lifecycle!OwnProcess(s)
    BY <1>3 DEF Tracked, IInv, TypeOK
  <2>2. Lifecycle!Signal(Tracked)
    BY <1>1, <1>4, <1>5, <2>1 DEF SignalAll, Lifecycle!Signal
  <2>. QED
    BY <2>1, <2>2 DEF Lifecycle!Next
<1>6. ASSUME NEW s \in Services, slot[s] # NoPid, state' = [state EXCEPT ![s] = "Stopping"]
      PROVE  Lifecycle!Next
  <2>1. state' = [t \in Services |-> IF t \in {s} THEN "Stopping" ELSE state[t]]
    BY <1>6 DEF IInv, TypeOK
  <2>2. Lifecycle!Signal({s})
    BY <1>1, <1>3, <1>4, <1>6, <2>1 DEF Lifecycle!Signal
  <2>. QED
    BY <2>2 DEF Lifecycle!Next
<1>7. CASE state' = state
  BY <1>1, <1>7, LifecycleFrame
<1>. QED
  BY <1>5, <1>6, <1>7
  DEF RequestStep, StartByName, StopByName, RestartByName, ActivateTarget, Shutdown

LEMMA EnvironmentLifecycle ==
  ASSUME IInv, KinInv, Environment
  PROVE  [Lifecycle!Next]_(Lifecycle!vars)
<1>1. ASSUME NEW p \in Pids, ChildExits(p) PROVE [Lifecycle!Next]_(Lifecycle!vars)
  <2>1. PICK how \in {"clean", "failed"} : proc' = [proc EXCEPT ![p] = how]
    BY <1>1 DEF ChildExits
  <2>2. proc[p] = "live" /\ UNCHANGED <<state, slot, owner>>
    BY <1>1 DEF ChildExits, unitVars
  <2>3. \A q \in Pids : q # p => Fate'[q] = Fate[q]
    BY <2>1, <2>2, FateOf DEF IInv, TypeOK
  <2>4. CASE owner[p] = NoService
    <3>1. \A q \in Pids : Fate'[q] = Fate[q]
      BY <2>2, <2>3, <2>4, FateOf
    <3>. QED
      BY <2>2, <3>1 DEF Fate, Lifecycle!vars
  <2>5. CASE owner[p] # NoService
    <3>1. Fate[p] = "live" /\ Fate'[p] = how
      BY <2>1, <2>2, <2>5, FateOf DEF IInv, TypeOK
    <3>2. Fate' = [Fate EXCEPT ![p] = how]
      BY <2>3, <3>1 DEF Fate
    <3>3. Lifecycle!Exit(p)
      BY <2>2, <3>1, <3>2 DEF Lifecycle!Exit
    <3>. QED
      BY <3>3 DEF Lifecycle!Next
  <2>. QED
    BY <2>4, <2>5
<1>2. ASSUME NEW p \in Pids, AdoptOrphan(p) PROVE UNCHANGED Lifecycle!vars
  <2>1. proc' = [proc EXCEPT ![p] = "live"] /\ UNCHANGED <<state, slot, owner>>
    BY <1>2 DEF AdoptOrphan, unitVars
  <2>2. owner[p] = NoService
    BY <1>2 DEF AdoptOrphan, KinInv
  <2>3. \A q \in Pids : Fate'[q] = Fate[q]
    BY <2>1, <2>2, FateOf DEF IInv, TypeOK
  <2>. QED
    BY <2>1, <2>3 DEF Fate, Lifecycle!vars
<1>3. ASSUME NEW s \in Services, WindowPasses(s) PROVE UNCHANGED Lifecycle!vars
  BY <1>3, LifecycleFrame DEF WindowPasses, kernelVars
<1>. QED
  BY <1>1, <1>2, <1>3 DEF Environment

LEMMA NextLifecycle == IInv /\ KinInv /\ [Next]_vars => [Lifecycle!Next]_(Lifecycle!vars)
<1>. SUFFICES ASSUME IInv, KinInv, [Next]_vars PROVE [Lifecycle!Next]_(Lifecycle!vars)
  OBVIOUS
<1>1. CASE OperationStep
  BY <1>1, LifecycleFrame
  DEF OperationStep, SigchldReaped, DrainPop, DrainDone, RestartProceeds, Escalate, ShutdownDone,
      SwitchBoots, BootPick, BootAborts, BootWaveEnds, BootWaveReaped, DevicePick, DevicesDone,
      BootFallsBack, unitVars, kernelVars
<1>2. CASE ReadSigchld \/ HandleSigchld \/ AcceptClient \/ ClientDone \/ ReactorLoopTop
           \/ UNCHANGED vars
  BY <1>2, LifecycleFrame
  DEF ReadSigchld, HandleSigchld, AcceptClient, ClientDone, ReactorLoopTop, vars, unitVars,
      kernelVars
<1>. QED
  BY <1>1, <1>2, StartServiceLifecycle, ReapLifecycle, RequestLifecycle, EnvironmentLifecycle
  DEF Next, Forge

LEMMA InitLifecycle == Init => Lifecycle!Init
  BY DEF Init, Fate, Lifecycle!Init

\* Each unit lives its own life: threads, signals, reaps by any operation and recycled pids
\* never change the status of a unit but by what its own processes and starts do.
THEOREM Implementation == Spec => ImplementsLifecycle
<1>1. Spec => Lifecycle!Spec
  BY InitLifecycle, NextLifecycle, Inductive, Kinship, PTL DEF Spec, Lifecycle!Spec
<1>. QED
  BY <1>1 DEF ImplementsLifecycle

LEMMA LifecycleKeepsTrack ==
  ASSUME [Lifecycle!Next]_(Lifecycle!vars), TypeOK, NEW s \in Services, Known(s), ~Known(s)'
  PROVE  \E p, q \in Pids : /\ owner[p] = s /\ owner'[p] = s
                            /\ owner[q] # s /\ owner'[q] = s
<1>1. PICK r \in Pids : owner'[r] = s /\ slot'[s] # r
  BY DEF Known
<1>2. owner[r] = s => slot[s] = r
  BY DEF Known
<1>3. CASE \E t \in Services, p \in Pids : Lifecycle!Spawn(t, p)
  <2>1. PICK t \in Services, p \in Pids : Lifecycle!Spawn(t, p)
    BY <1>3
  <2>2. /\ owner[p] = NoService /\ owner' = [owner EXCEPT ![p] = t]
        /\ slot' = [slot EXCEPT ![t] = p]
    BY <2>1 DEF Lifecycle!Spawn
  <2>3. t = s /\ r # p /\ owner[r] = s
    BY <1>1, <1>2, <2>2 DEF TypeOK
  <2>. QED
    BY <1>1, <2>2, <2>3, NoServiceIsNone DEF TypeOK
<1>4. CASE owner' = owner /\ slot' = slot
  BY <1>1, <1>2, <1>4
<1>5. CASE \E t \in Services, p \in Pids : Lifecycle!Collect(t, p)
  <2>1. PICK t \in Services, p \in Pids : Lifecycle!Collect(t, p)
    BY <1>5
  <2>2. /\ owner[p] = t /\ owner' = [owner EXCEPT ![p] = NoService]
        /\ slot' = [slot EXCEPT ![t] = NoPid]
    BY <2>1 DEF Lifecycle!Collect, Lifecycle!Gone
  <2>. QED
    BY <1>1, <1>2, <2>2, NoServiceIsNone DEF TypeOK, Known
<1>6. CASE \E t \in Services : Lifecycle!Miss(t) \/ Lifecycle!GiveUp(t)
  <2>1. PICK t \in Services : Lifecycle!Miss(t) \/ Lifecycle!GiveUp(t)
    BY <1>6
  <2>2. /\ owner[slot[t]] = t /\ owner' = [owner EXCEPT ![slot[t]] = NoService]
        /\ slot' = slot \/ slot' = [slot EXCEPT ![t] = NoPid]
    BY <2>1 DEF Lifecycle!Miss, Lifecycle!GiveUp, Lifecycle!OwnProcess, Lifecycle!Gone
  <2>. QED
    BY <1>1, <1>2, <2>2, NoServiceIsNone DEF TypeOK
<1>7. CASE \E t \in Services : Lifecycle!Vanish(t)
  <2>1. PICK t \in Services : Lifecycle!Vanish(t)
    BY <1>7
  <2>2. owner[slot[t]] = NoService /\ owner' = owner /\ slot' = [slot EXCEPT ![t] = NoPid]
    BY <2>1 DEF Lifecycle!Vanish
  <2>. QED
    BY <1>1, <1>2, <2>2, NoServiceIsNone DEF TypeOK
<1>. QED
  BY <1>3, <1>4, <1>5, <1>6, <1>7
  DEF Lifecycle!Next, Lifecycle!vars, Lifecycle!Refuse, Lifecycle!Ready, Lifecycle!Signal,
      Lifecycle!Exit

\* A service loses track of a living process only to a start on top of it: with
\* ShutdownIsComplete, all a shutdown can leave without SIGKILL are such displaced processes.
THEOREM TrackIsKept == Spec => TrackLostByOverlapOnly
<1>. DEFINE Step == \A s \in Services : Known(s) /\ ~Known(s)' =>
                      \E p, q \in Pids : /\ owner[p] = s /\ owner'[p] = s
                                         /\ owner[q] # s /\ owner'[q] = s
<1>1. IInv /\ KinInv /\ [Next]_vars => [Step]_vars
  BY NextLifecycle, LifecycleKeepsTrack DEF IInv
<1>. QED
  BY <1>1, Inductive, Kinship, PTL DEF Spec, TrackLostByOverlapOnly

=============================================================================
