-------------------------- MODULE ForgeSupervisor --------------------------
(***************************************************************************)
(* The process supervisor of The Forge, a PID-1 init: one ForgeState behind *)
(* one mutex, the reactor thread that reads SIGCHLD from a signalfd, the    *)
(* bridge / D-Bus / timer / device threads that start and stop services,    *)
(* and the kernel's process table.  Whoever holds the mutex runs one        *)
(* operation; a blocking wait inside the operation (for READY=1, for a      *)
(* oneshot, for services to stop) keeps the mutex while children exit.      *)
(*                                                                         *)
(* check_watchdogs, called by every reap, never acts: last_watchdog is only *)
(* written by update_watchdog, which has no caller.  SIGTERM has no effect  *)
(* here beyond what every live child may do at any time: exit.              *)
(***************************************************************************)
EXTENDS Naturals, Sequences, FiniteSets

CONSTANTS
  Services,         (* the service units of the arena                        *)
  Pids,             (* the process ids the kernel hands out and recycles     *)
  NoService,        (* "no unit", and the owner of an adopted orphan         *)
  NoPid,            (* the pid slot of a unit without a process (None)       *)
  TypeOf,           (* service_type of each service                          *)
  Policy,           (* restart policy of each service                        *)
  Level,            (* index of each service's boot wave                     *)
  Targets,          (* the sets of services the boot targets activate        *)
  Devices,          (* the services that device units activate               *)
  RestartBurstMax,  (* RESTART_BURST_MAX                                     *)
  BootTries,        (* how many targets PID 1 tries to boot, one after other *)
  MaxBacklog,       (* bound: no new request beyond this restart backlog     *)
  MaxOrphans        (* bound: orphans adopted in one behaviour               *)

ASSUME SupervisorAssumption ==
  /\ NoService \notin Services
  /\ NoPid \notin Pids
  /\ TypeOf \in [Services -> {"simple", "notify", "oneshot"}]
  /\ Policy \in [Services -> {"no", "on-failure", "always"}]
  /\ Level \in [Services -> Nat]
  /\ Targets # {} /\ Targets \subseteq SUBSET Services
  /\ Devices \subseteq Services
  /\ {RestartBurstMax, BootTries, MaxBacklog, MaxOrphans} \subseteq Nat

VARIABLES
  state,            (* Unit.state                                            *)
  slot,             (* UnitKind::Service.pid                                 *)
  pidIndex,         (* ForgeState.pid_index, NoService where it has no entry *)
  active,           (* ForgeState.active_units                               *)
  pendingRestarts,  (* ForgeState.pending_restarts                           *)
  restartTimes,     (* how many restart_times are inside the burst window    *)
  shuttingDown,     (* ForgeState.shutting_down                              *)
  proc,             (* process table: free, live, or a zombie's exit status  *)
  owner,            (* the service a process was spawned for                 *)
  killed,           (* processes with SIGKILL pending                        *)
  sigchld,          (* SIGCHLD pending in the signalfd (it coalesces)        *)
  orphans,          (* orphans adopted so far                                *)
  reactor,          (* where the reactor thread is                           *)
  holder,           (* the thread that holds the mutex                       *)
  op,               (* the operation running under the mutex                 *)
  starting,         (* the start_service call that is blocked, if any        *)
  reaping           (* inside reap_all_pending                               *)

unitVars == <<state, slot, pidIndex, active, pendingRestarts, restartTimes, shuttingDown>>
kernelVars == <<proc, owner, killed, sigchld, orphans>>
controlVars == <<reactor, holder, op, starting, reaping>>
vars == <<unitVars, kernelVars, controlVars>>

UnitState == {"Dead", "Starting", "Running", "Failed", "Stopping"}
Tasks == {"idle", "start", "restart", "sigchld", "drain", "shutdown", "switch", "boot", "devices",
          "fallback"}
Operation ==
  [task: Tasks, svc: Services \cup {NoService}, pid: Pids \cup {NoPid}, todo: SUBSET Services,
   wave: Nat, escalated: BOOLEAN, tries: Nat]
Start == [svc: Services \cup {NoService}, pid: Pids \cup {NoPid},
          phase: {"none", "activation", "wait", "term"}]

Idle == [task |-> "idle", svc |-> NoService, pid |-> NoPid, todo |-> {}, wave |-> 0,
         escalated |-> FALSE, tries |-> 0]
NoStart == [svc |-> NoService, pid |-> NoPid, phase |-> "none"]
Boot(T, n) == [Idle EXCEPT !.task = "boot", !.todo = T, !.tries = n]

\* The machine has not rebooted.
Up == reactor # "off"
Zombies == {p \in Pids : proc[p] \in {"clean", "failed"}}
Tracked == {s \in active : slot[s] # NoPid}

-----------------------------------------------------------------------------
(* The mutex and the operation under it.                                   *)

\* Back to the event batch: there is at most one control client in a batch.
Served == IF reactor \in {"client", "served"} THEN "served" ELSE "poll"

\* The thread releases the mutex; the reactor goes back to its event batch.
Released ==
  /\ op' = Idle
  /\ holder' = "none"
  /\ reactor' = IF holder = "reactor" THEN Served ELSE reactor

\* A request of a control client (c = "reactor", which is in handle_client), or of the
\* bridge, D-Bus, timer or device threads (c = "thread").
FromClient(c) == c = "reactor" => reactor = "client"

\* The reactor may also have read SIGTERM from the signalfd.
Request(c, o) ==
  /\ Up /\ holder = "none"
  /\ c = "reactor" => reactor \in {"poll", "client", "served"}
  /\ Len(pendingRestarts) <= MaxBacklog
  /\ holder' = c
  /\ op' = o

\* What the caller of start_service does with its result.  As PID 1 strict_boot is set
\* and required_units holds every active unit: any failed start aborts boot_parallel.
AfterStart(ok) ==
  \/ /\ \/ op.task = "start"
        \/ op.task = "boot" /\ ~ok /\ reactor # "boot"
        \/ op.task = "devices" /\ ~ok
     /\ Released
  \/ /\ op.task = "boot" /\ ~ok /\ reactor = "boot"
     /\ op' = [op EXCEPT !.task = "fallback", !.svc = NoService]
     /\ UNCHANGED <<holder, reactor>>
  \/ /\ op.task = "drain" \/ (op.task \in {"boot", "devices"} /\ ok)
     /\ op' = [op EXCEPT !.svc = NoService]
     /\ UNCHANGED <<holder, reactor>>

\* boot_parallel marks a unit whose start failed; the other callers leave it Starting.
FailedStart == IF op.task = "boot" THEN "Failed" ELSE "Starting"

-----------------------------------------------------------------------------
(* start_service.                                                          *)

ReadyToLaunch(s) ==
  /\ op.task \in {"start", "drain", "boot", "devices"} /\ op.svc = s
  /\ starting = NoStart /\ ~reaping

\* ExecStartPre, the socket descriptors, the log file, the launcher or spawn() fails.
LaunchFails(s) ==
  /\ ReadyToLaunch(s)
  /\ state' = [state EXCEPT ![s] = FailedStart]
  /\ AfterStart(FALSE)
  /\ UNCHANGED <<slot, pidIndex, active, pendingRestarts, restartTimes, shuttingDown,
                 kernelVars, starting, reaping>>

Spawn(s, p) ==
  /\ proc[p] = "free"
  /\ proc' = [proc EXCEPT ![p] = "live"]
  /\ owner' = [owner EXCEPT ![p] = s]
  /\ slot' = [slot EXCEPT ![s] = p]
  /\ UNCHANGED <<killed, sigchld, orphans>>

\* A simple service is Running and indexed at once.  Nothing asks whether the unit
\* already has a process: the slot of the previous one is overwritten.
LaunchSimple(s, p) ==
  /\ ReadyToLaunch(s) /\ TypeOf[s] = "simple"
  /\ Spawn(s, p)
  /\ state' = [state EXCEPT ![s] = "Running"]
  /\ pidIndex' = [pidIndex EXCEPT ![p] = s]
  /\ AfterStart(TRUE)
  /\ UNCHANGED <<active, pendingRestarts, restartTimes, shuttingDown, starting, reaping>>

\* The slot is set before the wait, the index only after it.
LaunchWaiting(s, p) ==
  /\ ReadyToLaunch(s) /\ TypeOf[s] # "simple"
  /\ Spawn(s, p)
  /\ state' = [state EXCEPT ![s] = "Starting"]
  /\ starting' = [svc |-> s, pid |-> p,
                  phase |-> IF TypeOf[s] = "oneshot" THEN "wait" ELSE "activation"]
  /\ UNCHANGED <<pidIndex, active, pendingRestarts, restartTimes, shuttingDown,
                 reactor, holder, op, reaping>>

\* READY=1 was received, or the bus name has an owner.
ActivationReady ==
  LET s == starting.svc  p == starting.pid IN
  /\ starting.phase = "activation"
  /\ state' = [state EXCEPT ![s] = "Running"]
  /\ pidIndex' = [pidIndex EXCEPT ![p] = s]
  /\ starting' = NoStart
  /\ AfterStart(TRUE)
  /\ UNCHANGED <<slot, active, pendingRestarts, restartTimes, shuttingDown, kernelVars, reaping>>

\* The process is gone from the table: its pid may be handed out again.
Collect(p) ==
  /\ proc' = [proc EXCEPT ![p] = "free"]
  /\ owner' = [owner EXCEPT ![p] = NoService]
  /\ killed' = killed \ {p}
  /\ UNCHANGED orphans

\* Mutant: the slot keeps the pid of the failed start.
ActivationFailsKeepsSlot ==
  LET s == starting.svc IN
  /\ starting.phase = "activation"
  /\ Collect(starting.pid)
  /\ sigchld' = TRUE
  /\ state' = [state EXCEPT ![s] = FailedStart]
  /\ starting' = NoStart
  /\ AfterStart(FALSE)
  /\ UNCHANGED <<slot, pidIndex, active, pendingRestarts, restartTimes, shuttingDown, reaping>>

\* Timeout or early exit: SIGKILL, clear the slot, then a blocking waitpid.
ActivationFails ==
  LET s == starting.svc IN
  /\ starting.phase = "activation"
  /\ Collect(starting.pid)
  /\ sigchld' = TRUE
  /\ state' = [state EXCEPT ![s] = FailedStart]
  /\ slot' = [slot EXCEPT ![s] = NoPid]
  /\ starting' = NoStart
  /\ AfterStart(FALSE)
  /\ UNCHANGED <<pidIndex, active, pendingRestarts, restartTimes, shuttingDown, reaping>>

(* wait_for_service_exit: waitpid(pid), then reap_all_pending, then sleep.  *)

Waiting == starting.phase \in {"wait", "term"} /\ ~reaping

OneshotEnds(s, ok, final) ==
  /\ slot' = [slot EXCEPT ![s] = NoPid]
  /\ state' = [state EXCEPT ![s] = final]
  /\ starting' = NoStart
  /\ AfterStart(ok)
  /\ UNCHANGED <<pidIndex, active, pendingRestarts, restartTimes, shuttingDown, reaping>>

\* waitpid(pid) returned the child's status.
OneshotCollected ==
  LET p == starting.pid  ok == proc[p] = "clean" IN
  /\ Waiting /\ p \in Zombies
  /\ Collect(p)
  /\ OneshotEnds(starting.svc, ok, IF ok THEN "Dead" ELSE "Failed")
  /\ UNCHANGED sigchld

\* waitpid(pid) returned 0: reap everything else -- and, if it has exited by now, this one.
OneshotStillRuns ==
  /\ Waiting /\ proc[starting.pid] = "live"
  /\ reaping' = TRUE
  /\ UNCHANGED <<unitVars, kernelVars, reactor, holder, op, starting>>

OneshotReaped == starting.phase \in {"wait", "term"} /\ reaping /\ Zombies = {}

\* The reap is over: sleep, then the next round.
OneshotPollsAgain ==
  /\ OneshotReaped
  /\ reaping' = FALSE
  /\ UNCHANGED <<unitVars, kernelVars, reactor, holder, op, starting>>

\* Mutant: the deadline is not remembered.
OneshotNeverTimesOut ==
  /\ OneshotReaped /\ starting.phase = "wait"
  /\ reaping' = FALSE
  /\ UNCHANGED <<unitVars, kernelVars, reactor, holder, op, starting>>

\* The reap is over and so is the time: SIGTERM, and up to 20 more rounds.
OneshotTimesOut ==
  /\ OneshotReaped /\ starting.phase = "wait"
  /\ reaping' = FALSE
  /\ starting' = [starting EXCEPT !.phase = "term"]
  /\ UNCHANGED <<unitVars, kernelVars, reactor, holder, op>>

\* ECHILD: reap_all_pending took the status this wait was for.
OneshotVanished ==
  /\ Waiting /\ proc[starting.pid] = "free"
  /\ OneshotEnds(starting.svc, FALSE, FailedStart)
  /\ UNCHANGED kernelVars

\* Mutant: the start gives up after SIGTERM, and the process is left behind.
OneshotLeftBehind ==
  /\ Waiting /\ starting.phase = "term" /\ proc[starting.pid] = "live"
  /\ OneshotEnds(starting.svc, FALSE, "Failed")
  /\ UNCHANGED kernelVars

\* SIGTERM was ignored: SIGKILL and a blocking waitpid.
OneshotKilled ==
  LET p == starting.pid IN
  /\ Waiting /\ starting.phase = "term" /\ proc[p] = "live"
  /\ Collect(p)
  /\ sigchld' = TRUE
  /\ OneshotEnds(starting.svc, FALSE, "Failed")

-----------------------------------------------------------------------------
(* reap_all_pending and on_child_exit.                                     *)

ShouldRestart(s, failed) ==
  /\ ~shuttingDown
  /\ Policy[s] = "always" \/ (Policy[s] = "on-failure" /\ failed)

\* Mutant: the pid is not taken out of the index.
OnChildExitKeepsIndex(s, p, failed) ==
  /\ slot' = [slot EXCEPT ![s] = NoPid]
  /\ state' = [state EXCEPT ![s] = IF failed THEN "Failed" ELSE "Dead"]
  /\ pendingRestarts' = IF ShouldRestart(s, failed) THEN Append(pendingRestarts, s)
                        ELSE pendingRestarts
  /\ UNCHANGED pidIndex

\* Mutant: the unit keeps the pid of the process that exited.
OnChildExitKeepsSlot(s, p, failed) ==
  /\ pidIndex' = [pidIndex EXCEPT ![p] = NoService]
  /\ state' = [state EXCEPT ![s] = IF failed THEN "Failed" ELSE "Dead"]
  /\ pendingRestarts' = IF ShouldRestart(s, failed) THEN Append(pendingRestarts, s)
                        ELSE pendingRestarts
  /\ UNCHANGED slot

\* Mutant: the state of a unit that will be restarted is left as it is.
OnChildExitKeepsState(s, p, failed) ==
  /\ pidIndex' = [pidIndex EXCEPT ![p] = NoService]
  /\ slot' = [slot EXCEPT ![s] = NoPid]
  /\ IF ShouldRestart(s, failed)
     THEN pendingRestarts' = Append(pendingRestarts, s) /\ UNCHANGED state
     ELSE /\ state' = [state EXCEPT ![s] = IF failed THEN "Failed" ELSE "Dead"]
          /\ UNCHANGED pendingRestarts

OnChildExit(s, p, failed) ==
  /\ pidIndex' = [pidIndex EXCEPT ![p] = NoService]
  /\ slot' = [slot EXCEPT ![s] = NoPid]
  /\ state' = [state EXCEPT ![s] = IF failed THEN "Failed" ELSE "Dead"]
  /\ pendingRestarts' = IF ShouldRestart(s, failed) THEN Append(pendingRestarts, s)
                        ELSE pendingRestarts

\* One round of the waitpid(-1) loop; a pid without an index entry is an orphan.
ReapOne(p) ==
  /\ reaping /\ p \in Zombies
  /\ Collect(p)
  /\ IF pidIndex[p] = NoService
     THEN UNCHANGED <<pidIndex, slot, state, pendingRestarts>>
     ELSE OnChildExit(pidIndex[p], p, proc[p] = "failed")
  /\ UNCHANGED <<active, restartTimes, shuttingDown, sigchld, controlVars>>

-----------------------------------------------------------------------------
(* The reactor.                                                            *)

\* handle_signals reads SIGCHLD, and then has to get the mutex.
ReadSigchld ==
  /\ reactor \in {"poll", "served"} /\ holder # "reactor" /\ sigchld
  /\ sigchld' = FALSE
  /\ reactor' = "chld"
  /\ UNCHANGED <<unitVars, proc, owner, killed, orphans, holder, op, starting, reaping>>

HandleSigchld ==
  /\ reactor = "chld" /\ holder = "none"
  /\ holder' = "reactor"
  /\ op' = [Idle EXCEPT !.task = "sigchld"]
  /\ reaping' = TRUE
  /\ UNCHANGED <<unitVars, kernelVars, reactor, starting>>

\* Mutant: one waitpid per SIGCHLD.
SigchldReapsOnce ==
  /\ op.task = "sigchld" /\ reaping
  /\ op' = [op EXCEPT !.task = "drain"]
  /\ reaping' = FALSE
  /\ UNCHANGED <<unitVars, kernelVars, reactor, holder, starting>>

\* Mutant: the reap is not followed by process_pending_restarts.
SigchldSkipsDrain ==
  /\ op.task = "sigchld" /\ reaping /\ Zombies = {}
  /\ Released
  /\ reaping' = FALSE
  /\ UNCHANGED <<unitVars, kernelVars, starting>>

SigchldReaped ==
  /\ op.task = "sigchld" /\ reaping /\ Zombies = {}
  /\ op' = [op EXCEPT !.task = "drain"]
  /\ reaping' = FALSE
  /\ UNCHANGED <<unitVars, kernelVars, reactor, holder, starting>>

\* restart_allowed: a restart over the burst limit is dropped, not postponed.
RestartAllowed(s) == restartTimes[s] < RestartBurstMax

\* Mutant: a restart over the limit goes back into the queue.
DrainPopRequeues ==
  LET s == Head(pendingRestarts) IN
  /\ op.task = "drain" /\ op.svc = NoService /\ pendingRestarts # <<>>
  /\ IF RestartAllowed(s)
     THEN /\ pendingRestarts' = Tail(pendingRestarts)
          /\ restartTimes' = [restartTimes EXCEPT ![s] = @ + 1]
          /\ op' = [op EXCEPT !.svc = s]
     ELSE /\ pendingRestarts' = Append(Tail(pendingRestarts), s)
          /\ UNCHANGED <<restartTimes, op>>
  /\ UNCHANGED <<state, slot, pidIndex, active, shuttingDown, kernelVars,
                 reactor, holder, starting, reaping>>

DrainPop ==
  LET s == Head(pendingRestarts) IN
  /\ op.task = "drain" /\ op.svc = NoService /\ pendingRestarts # <<>>
  /\ pendingRestarts' = Tail(pendingRestarts)
  /\ IF RestartAllowed(s)
     THEN /\ restartTimes' = [restartTimes EXCEPT ![s] = @ + 1]
          /\ op' = [op EXCEPT !.svc = s]
     ELSE UNCHANGED <<restartTimes, op>>
  /\ UNCHANGED <<state, slot, pidIndex, active, shuttingDown, kernelVars,
                 reactor, holder, starting, reaping>>

DrainDone ==
  /\ op.task = "drain" /\ op.svc = NoService /\ pendingRestarts = <<>>
  /\ Released
  /\ UNCHANGED <<unitVars, kernelVars, starting, reaping>>

\* handle_client: a connection is accepted and read_line waits for its request, on the
\* reactor thread, without the mutex and without a timeout.
AcceptClient ==
  /\ reactor = "poll" /\ holder # "reactor"
  /\ reactor' = "client"
  /\ UNCHANGED <<unitVars, kernelVars, holder, op, starting, reaping>>

\* The client has hung up, or its request was refused or changes nothing here.
ClientDone ==
  /\ reactor = "client" /\ holder # "reactor"
  /\ reactor' = "served"
  /\ UNCHANGED <<unitVars, kernelVars, holder, op, starting, reaping>>

\* The shutdown test at the top of the event loop, between two batches: in "off"
\* finish_system_shutdown has rebooted the machine.
ReactorLoopTop ==
  /\ reactor \in {"poll", "served"} /\ holder = "none"
  /\ \/ shuttingDown /\ reactor' = "off"
     \/ ~shuttingDown /\ reactor = "served" /\ reactor' = "poll"
  /\ UNCHANGED <<unitVars, kernelVars, holder, op, starting, reaping>>

-----------------------------------------------------------------------------
(* Requests.                                                               *)

StartByName(c, s) ==
  /\ FromClient(c)
  /\ Request(c, [Idle EXCEPT !.task = "start", !.svc = s])
  /\ active' = active \cup {s}
  /\ UNCHANGED <<state, slot, pidIndex, pendingRestarts, restartTimes, shuttingDown,
                 kernelVars, reactor, starting, reaping>>

\* stop_service only signals: the mutex is released at once.
StopByName(c, s) ==
  /\ Up /\ holder = "none" /\ FromClient(c)
  /\ slot[s] # NoPid
  /\ state' = [state EXCEPT ![s] = "Stopping"]
  /\ reactor' = IF c = "reactor" THEN "served" ELSE reactor
  /\ UNCHANGED <<slot, pidIndex, active, pendingRestarts, restartTimes, shuttingDown,
                 kernelVars, holder, op, starting, reaping>>

\* Stop, poll the index for up to 20 rounds, start -- whether or not the process is gone.
RestartByName(c, s) ==
  /\ FromClient(c)
  /\ IF slot[s] = NoPid
     THEN /\ Request(c, [Idle EXCEPT !.task = "start", !.svc = s])
          /\ UNCHANGED <<state, reaping>>
     ELSE /\ Request(c, [Idle EXCEPT !.task = "restart", !.svc = s, !.pid = slot[s]])
          /\ state' = [state EXCEPT ![s] = "Stopping"]
          /\ reaping' = TRUE
  /\ UNCHANGED <<slot, pidIndex, active, pendingRestarts, restartTimes, shuttingDown,
                 kernelVars, reactor, starting>>

RestartProceeds ==
  /\ op.task = "restart" /\ reaping /\ Zombies = {}
  /\ op' = [op EXCEPT !.task = "start", !.pid = NoPid]
  /\ reaping' = FALSE
  /\ UNCHANGED <<unitVars, kernelVars, reactor, holder, starting>>

\* stop_service on every bootable service that has a process; no wait in between.
SignalAll ==
  state' = [s \in Services |-> IF s \in Tracked THEN "Stopping" ELSE state[s]]

Shutdown(c) ==
  /\ ~shuttingDown
  /\ Request(c, [Idle EXCEPT !.task = "shutdown"])
  /\ shuttingDown' = TRUE
  /\ SignalAll
  /\ reaping' = TRUE
  /\ UNCHANGED <<slot, pidIndex, active, pendingRestarts, restartTimes, kernelVars,
                 reactor, starting>>

\* activate_target skips the stop signals when stop_order reports a cycle.
ActivateTarget(c, T) ==
  /\ FromClient(c)
  /\ Request(c, [Idle EXCEPT !.task = "switch", !.todo = T])
  /\ SignalAll \/ UNCHANGED state
  /\ reaping' = TRUE
  /\ UNCHANGED <<slot, pidIndex, active, pendingRestarts, restartTimes, shuttingDown,
                 kernelVars, reactor, starting>>

(* wait_for_services_stopped.                                              *)

StopWait == op.task \in {"shutdown", "switch"} /\ reaping /\ Zombies = {}

\* Mutant: the check for services that are still up is inverted.
EscalateInverted ==
  /\ StopWait /\ ~op.escalated /\ Tracked = {}
  /\ killed' = killed \cup {slot[s] : s \in Tracked}
  /\ op' = [op EXCEPT !.escalated = TRUE]
  /\ UNCHANGED <<unitVars, proc, owner, sigchld, orphans, reactor, holder, starting, reaping>>

\* The deadline passed: SIGKILL the services that still have a pid, then reap once more.
Escalate ==
  /\ StopWait /\ ~op.escalated /\ Tracked # {}
  /\ killed' = killed \cup {slot[s] : s \in Tracked}
  /\ op' = [op EXCEPT !.escalated = TRUE]
  /\ UNCHANGED <<unitVars, proc, owner, sigchld, orphans, reactor, holder, starting, reaping>>

\* Mutant: nobody waits for the signalled services.
StopWaitOverAtOnce == StopWait

StopWaitOver == StopWait /\ (op.escalated \/ Tracked = {})

ShutdownDone ==
  /\ StopWaitOver /\ op.task = "shutdown"
  /\ Released
  /\ reaping' = FALSE
  /\ UNCHANGED <<unitVars, kernelVars, starting>>

\* boot_parallel of the new target, unless its closure or its ordering is in error.
SwitchBoots ==
  /\ StopWaitOver /\ op.task = "switch"
  /\ reaping' = FALSE
  /\ \/ /\ active' = op.todo
        /\ op' = Boot(op.todo, 0)
        /\ UNCHANGED <<holder, reactor>>
     \/ Released /\ UNCHANGED active
  /\ UNCHANGED <<state, slot, pidIndex, pendingRestarts, restartTimes, shuttingDown,
                 kernelVars, starting>>

(* boot_parallel: the services of a wave one by one, then a reap; devices last. *)

BootIdle == op.task = "boot" /\ op.svc = NoService /\ starting = NoStart /\ ~reaping
InWave == {s \in op.todo : Level[s] = op.wave}

BootPick(s) ==
  /\ BootIdle /\ s \in InWave
  /\ op' = [op EXCEPT !.svc = s, !.todo = @ \ {s}]
  /\ UNCHANGED <<unitVars, kernelVars, reactor, holder, starting, reaping>>

\* Before the first service of a wave: a socket or a mount of it fails, or, before the
\* first wave, a dependency is missing or in a cycle.
BootAborts ==
  /\ BootIdle /\ InWave = {s \in active : Level[s] = op.wave}
  /\ AfterStart(FALSE)
  /\ UNCHANGED <<unitVars, kernelVars, starting, reaping>>

BootWaveEnds ==
  /\ BootIdle /\ InWave = {}
  /\ reaping' = TRUE
  /\ UNCHANGED <<unitVars, kernelVars, reactor, holder, op, starting>>

\* After the last wave, activate_ready_devices starts the services of the devices that
\* are present (which of them were activated before is left open).
BootWaveReaped ==
  /\ op.task = "boot" /\ op.svc = NoService /\ reaping /\ Zombies = {}
  /\ reaping' = FALSE
  /\ IF op.todo # {} THEN op' = [op EXCEPT !.wave = @ + 1]
     ELSE \E D \in SUBSET Devices : op' = [op EXCEPT !.task = "devices", !.todo = D]
  /\ UNCHANGED <<unitVars, kernelVars, holder, reactor, starting>>

DevicesIdle == op.task = "devices" /\ op.svc = NoService /\ starting = NoStart

DevicePick(s) ==
  /\ DevicesIdle /\ s \in op.todo
  /\ op' = [op EXCEPT !.svc = s, !.todo = @ \ {s}]
  /\ active' = active \cup {s}
  /\ UNCHANGED <<state, slot, pidIndex, pendingRestarts, restartTimes, shuttingDown, kernelVars,
                 reactor, holder, starting, reaping>>

DevicesDone ==
  /\ DevicesIdle /\ op.todo = {}
  /\ Released
  /\ UNCHANGED <<unitVars, kernelVars, starting, reaping>>

\* boot_with_fallback, and main's last attempt at rescue, try the next target (whose
\* closure may be in error); what a failed one has started keeps running.
BootFallsBack ==
  /\ op.task = "fallback"
  /\ \/ /\ op.tries > 0
        /\ \E T \in Targets : active' = T /\ op' = Boot(T, op.tries - 1)
        /\ UNCHANGED <<holder, reactor>>
     \/ /\ op.tries > 0
        /\ op' = [op EXCEPT !.tries = @ - 1]
        /\ UNCHANGED <<active, holder, reactor>>
     \/ op.tries = 0 /\ Released /\ UNCHANGED active
  /\ UNCHANGED <<state, slot, pidIndex, pendingRestarts, restartTimes, shuttingDown,
                 kernelVars, starting, reaping>>

-----------------------------------------------------------------------------
(* The environment: children, orphans and the clock.                       *)

ChildExits(p) ==
  /\ Up /\ proc[p] = "live"
  /\ \E status \in (IF p \in killed THEN {"failed"} ELSE {"clean", "failed"}) :
       proc' = [proc EXCEPT ![p] = status]
  /\ sigchld' = TRUE
  /\ UNCHANGED <<unitVars, owner, killed, orphans, controlVars>>

AdoptOrphan(p) ==
  /\ Up /\ proc[p] = "free" /\ orphans < MaxOrphans
  /\ proc' = [proc EXCEPT ![p] = "live"]
  /\ orphans' = orphans + 1
  /\ UNCHANGED <<unitVars, owner, killed, sigchld, controlVars>>

\* The oldest restart of s is RESTART_BURST_WINDOW old.
WindowPasses(s) ==
  /\ Up /\ restartTimes[s] > 0
  /\ restartTimes' = [restartTimes EXCEPT ![s] = @ - 1]
  /\ UNCHANGED <<state, slot, pidIndex, active, pendingRestarts, shuttingDown,
                 kernelVars, controlVars>>

-----------------------------------------------------------------------------
\* PID 1 enters boot_with_fallback, holding the mutex, SIGCHLD already blocked.
Init ==
  /\ state = [s \in Services |-> "Dead"]
  /\ slot = [s \in Services |-> NoPid]
  /\ pidIndex = [p \in Pids |-> NoService]
  /\ active = {}
  /\ pendingRestarts = <<>>
  /\ restartTimes = [s \in Services |-> 0]
  /\ shuttingDown = FALSE
  /\ proc = [p \in Pids |-> "free"]
  /\ owner = [p \in Pids |-> NoService]
  /\ killed = {}
  /\ sigchld = FALSE
  /\ orphans = 0
  /\ reactor = "boot" /\ holder = "reactor"
  /\ op = [Idle EXCEPT !.task = "fallback", !.tries = BootTries]
  /\ starting = NoStart
  /\ reaping = FALSE

StartServiceStep ==
  \/ \E s \in Services : LaunchFails(s)
  \/ \E s \in Services, p \in Pids : LaunchSimple(s, p)
  \/ \E s \in Services, p \in Pids : LaunchWaiting(s, p)
  \/ ActivationReady
  \/ ActivationFails
  \/ OneshotCollected
  \/ OneshotStillRuns
  \/ OneshotPollsAgain
  \/ OneshotTimesOut
  \/ OneshotVanished
  \/ OneshotKilled

OperationStep ==
  \/ SigchldReaped
  \/ DrainPop
  \/ DrainDone
  \/ RestartProceeds
  \/ Escalate
  \/ ShutdownDone
  \/ SwitchBoots
  \/ \E s \in Services : BootPick(s)
  \/ BootAborts
  \/ BootWaveEnds
  \/ BootWaveReaped
  \/ \E s \in Services : DevicePick(s)
  \/ DevicesDone
  \/ BootFallsBack

RequestStep ==
  \E c \in {"reactor", "thread"} :
    \/ \E s \in Services : StartByName(c, s)
    \/ \E s \in Services : StopByName(c, s)
    \/ \E s \in Services : RestartByName(c, s)
    \/ \E T \in Targets : ActivateTarget(c, T)
    \/ Shutdown(c)

Environment ==
  \/ \E p \in Pids : ChildExits(p)
  \/ \E p \in Pids : AdoptOrphan(p)
  \/ \E s \in Services : WindowPasses(s)

Forge ==
  \/ StartServiceStep
  \/ OperationStep
  \/ \E p \in Pids : ReapOne(p)
  \/ ReadSigchld
  \/ HandleSigchld
  \/ AcceptClient
  \/ ClientDone
  \/ ReactorLoopTop
  \/ RequestStep

\* Once the machine has rebooted nothing happens any more.
Next ==
  \/ Forge
  \/ Environment
  \/ ~Up /\ UNCHANGED vars

Spec == Init /\ [][Next]_vars

(***************************************************************************)
(* Fairness.  The thread that holds the mutex keeps running, and so does    *)
(* the kernel: waitpid(-1) gets to every zombie and SIGKILL takes effect.   *)
(* The waits of the code are bounded by clocks, so the deadline disjuncts   *)
(* are taken if the wait goes round for ever (strong fairness).  parking_lot *)
(* hands the mutex over fairly in the end, and every epoll batch serves the *)
(* signalfd, so the reactor's own steps are strongly fair.  Nothing is      *)
(* assumed of services and orphans.  FairSpec assumes one thing of control  *)
(* clients that the code does not enforce: a client that is connected sends *)
(* a line, or hangs up, in the end.                                         *)
(***************************************************************************)
Fairness ==
  /\ WF_vars(StartServiceStep)
  /\ SF_vars(OneshotTimesOut)
  /\ SF_vars(OneshotKilled)
  /\ WF_vars(OperationStep)
  /\ \A p \in Pids : WF_vars(ReapOne(p))
  /\ \A p \in Pids : WF_vars(p \in killed /\ ChildExits(p))
  /\ SF_vars(ReadSigchld)
  /\ SF_vars(HandleSigchld)
  /\ SF_vars(ReactorLoopTop)

PatientSpec == Spec /\ Fairness
FairSpec == PatientSpec /\ WF_vars(ClientDone)

-----------------------------------------------------------------------------
TypeOK ==
  /\ state \in [Services -> UnitState]
  /\ slot \in [Services -> Pids \cup {NoPid}]
  /\ pidIndex \in [Pids -> Services \cup {NoService}]
  /\ active \subseteq Services
  /\ pendingRestarts \in Seq(Services)
  /\ restartTimes \in [Services -> 0..RestartBurstMax]
  /\ shuttingDown \in BOOLEAN
  /\ proc \in [Pids -> {"free", "live", "clean", "failed"}]
  /\ owner \in [Pids -> Services \cup {NoService}]
  /\ killed \subseteq Pids
  /\ sigchld \in BOOLEAN
  /\ orphans \in Nat
  /\ reactor \in {"boot", "poll", "chld", "client", "served", "off"}
  /\ holder \in {"none", "reactor", "thread"}
  /\ op \in Operation
  /\ starting \in Start
  /\ reaping \in BOOLEAN

-----------------------------------------------------------------------------
(* Safety.                                                                 *)

\* The index never names a process that has been reaped, nor one spawned for another
\* unit or adopted: on_child_exit never charges a unit with a stranger's exit, although
\* pids are recycled.
IndexNamesOwnProcess ==
  \A p \in Pids : pidIndex[p] # NoService =>
    proc[p] # "free" /\ owner[p] = pidIndex[p]

\* The pid a stop, a restart or an escalation signals is a process of that very unit,
\* alive or a zombie -- whatever was reaped, restarted or recycled before.
SignalsReachOwnProcess ==
  \A s \in Services : slot[s] # NoPid /\ starting.svc # s =>
    proc[slot[s]] # "free" /\ owner[slot[s]] = s

\* SIGCHLD coalesces in the signalfd and every operation reaps on its own account; still
\* no zombie is ever left without a signal pending or the handler already on its way.
NoLostChild == Zombies # {} => sigchld \/ reactor \in {"chld", "off"}

\* A restart queued by any thread's reap waits for the reactor only: it is never in the
\* queue without a SIGCHLD that will make the reactor drain it.
NoStrandedRestart == pendingRestarts # <<>> => sigchld \/ reactor \in {"chld", "off"}

\* A service that status shows as running or stopping has a process of its own, alive or
\* not yet reaped: no exit, failed start or restart leaves the old state standing.
StatusHasProcess ==
  \A s \in Services : state[s] \in {"Running", "Stopping"} =>
    slot[s] # NoPid /\ proc[slot[s]] # "free" /\ owner[slot[s]] = s

\* Every process of the unit is the one its table entry names.
Known(s) == \A p \in Pids : owner[p] = s => slot[s] = p

\* When the stop wait of a shutdown is over, every process of an active service has SIGKILL
\* pending, whatever exited or was reaped in the meantime -- provided the service is Known.
\* The code gives no more: a service started while it had a process has two and one slot.  The
\* older one is not signalled, and the exit of either clears the slot, after which the other
\* one is not even waited for.
ShutdownLeavesNobody ==
  [][op.task = "shutdown" /\ op'.task # "shutdown" =>
       \A s \in active : Known(s)' => \A p \in Pids : owner'[p] = s => p \in killed']_vars

\* That is the only way to escape: no exit, reap, failed start, timed-out oneshot or recycled
\* pid makes a service lose track of a process that has not been collected; only a start
\* does that gives the service a process while it still has one.
TrackLostByOverlapOnly ==
  [][\A s \in Services : Known(s) /\ ~Known(s)' =>
       \E p, q \in Pids : /\ owner[p] = s /\ owner'[p] = s
                          /\ owner[q] # s /\ owner'[q] = s]_vars

\* Seen from one unit there are only its own processes: the mutex, the index, the reap loops
\* of all operations and the waits of start_service implement ServiceLifecycle.  The pid of
\* an orphan is free there.
Fate == [p \in Pids |-> IF owner[p] = NoService THEN "free" ELSE proc[p]]

Lifecycle == INSTANCE ServiceLifecycle WITH status <- state, process <- slot, fate <- Fate

ImplementsLifecycle == Lifecycle!Spec

-----------------------------------------------------------------------------
(* The inductive invariant: what the mutex, the blocked start_service call, *)
(* the reap loop and the process table know of each other at every step.    *)

\* The task tells who holds the mutex and where the reactor is.
MutexInv ==
  /\ holder = "none" <=> op.task = "idle"
  /\ op.task \in {"sigchld", "drain"} <=> holder = "reactor" /\ reactor = "chld"
  /\ op.task = "fallback" => reactor = "boot"
  /\ reactor = "boot" => op.task \in {"boot", "devices", "fallback"} /\ holder = "reactor"
  /\ reactor = "off" => holder = "none"

\* Only a start, the drain, a boot and its devices call start_service, and only in some
\* places does an operation reap; never while it waits for readiness.
BlockedInv ==
  /\ starting.phase = "none" => starting = NoStart
  /\ starting.phase # "none" =>
       /\ op.task \in {"start", "drain", "boot", "devices"}
       /\ starting.svc \in Services /\ starting.pid \in Pids /\ op.svc = starting.svc
  /\ starting.phase = "activation" => ~reaping
  /\ reaping => \/ op.task \in {"restart", "sigchld", "shutdown", "switch"}
                \/ op.task = "boot" /\ op.svc = NoService
                \/ starting.phase \in {"wait", "term"}

\* The process a start waits for is not indexed yet, and waiting for readiness nobody
\* else can reap it; every other tracked process is indexed under its unit.
ProcessInv ==
  /\ starting.phase # "none" => pidIndex[starting.pid] = NoService
  /\ starting.phase = "activation" =>
       /\ proc[starting.pid] # "free" /\ owner[starting.pid] = starting.svc
       /\ slot[starting.svc] = starting.pid
  /\ \A s \in Services : slot[s] # NoPid /\ starting.svc # s => pidIndex[slot[s]] = s
  /\ \A s \in Services : state[s] \in {"Running", "Stopping"} =>
       slot[s] # NoPid /\ starting.svc # s
  /\ IndexNamesOwnProcess

\* A child that exits after the handler's reap has raised the signal again.
SignalInv ==
  /\ op.task = "drain" /\ Zombies # {} => sigchld
  /\ NoLostChild
  /\ NoStrandedRestart

\* What the escalation of a shutdown has killed stays killed until it is reaped.
EscalationInv ==
  op.task = "shutdown" /\ op.escalated =>
    \A s \in active : slot[s] = NoPid \/ slot[s] \in killed

\* Every process of a unit is indexed under it, except the one that a start waits for; that
\* one, or none, is the process that its unit is known by.  A oneshot is never indexed.
KinInv ==
  /\ \A p \in Pids : owner[p] # NoService =>
       /\ proc[p] # "free"
       /\ pidIndex[p] = owner[p] \/ (starting.pid = p /\ starting.svc = owner[p])
  /\ \A p \in Pids : pidIndex[p] # NoService => TypeOf[pidIndex[p]] # "oneshot"
  /\ starting.phase # "none" =>
       /\ slot[starting.svc] = starting.pid /\ state[starting.svc] = "Starting"
       /\ TypeOf[starting.svc] = "oneshot" <=> starting.phase # "activation"

\* Everything the safety theorems are drawn from; ImplementsLifecycle needs KinInv as well.
IInv == TypeOK /\ MutexInv /\ BlockedInv /\ ProcessInv /\ SignalInv /\ EscalationInv

-----------------------------------------------------------------------------
(* Liveness, under FairSpec.                                               *)

\* README: "zero defunct zombies".  Every dead child, managed or orphan, is reaped,
\* unless the machine reboots first.  Under PatientSpec it fails: a control client that
\* connects and stays silent stops the reactor in read_line for ever.
EveryZombieReaped ==
  \A p \in Pids : p \in Zombies ~> p \notin Zombies \/ reactor = "off"

\* Every queued restart is attempted, or dropped by the burst limit; none stays queued.
EveryRestartServed ==
  pendingRestarts # <<>> ~> pendingRestarts = <<>> \/ reactor = "off"

\* No wait wedges PID 1: whoever takes the mutex gives it back.
EveryOperationEnds == holder # "none" ~> holder = "none"

\* A shutdown, whoever asked for it and whatever else is going on, ends in the reboot.
ShutdownReboots == shuttingDown ~> reactor = "off"

=============================================================================
