# The Forge, specified

The Forge (`src/the-forge`) is the PID 1 of Sisyphus-Linux: it mounts the early file systems,
loads unit files, boots a target in dependency order, supervises the processes of its
services, answers `forgectl` and D-Bus, and reboots the machine.  This directory holds TLA+
models of its parts, the TLC configurations that check them on small instances, and theorems
about them that TLAPS proves for every instance.

`tlc -config X.cfg M` checks a model, `tlapm M_proofs.tla` a proof module; `PROJECT.json` lists
the runs, maps every definition to the lines it stands for, and lists the hazards of the code
with the properties that cover them.  Paths below are relative to `src/the-forge/forge-core/src`.

## 1. The system

### Components

| component | state it keeps | operations | talks to |
|---|---|---|---|
| **Process supervisor** `service/forge.rs` | `ForgeState`, behind one mutex: per unit `state`, `pid`, `last_exit`; `pid_index`, `active_units`, `pending_restarts`, `restart_times`, `shutting_down` | `start_service`, `stop_service`, `restart_service_by_name`, `reap_all_pending`, `on_child_exit`, `process_pending_restarts`, `activate_target`, `shutdown` | the kernel (spawn, kill, waitpid); called by everything below |
| **Reactor** `reactor.rs` | an epoll set: signalfd and control socket | `handle_signals`, `handle_ipc`, shutdown test | supervisor, control clients |
| **Boot dependency graph** `service/forge.rs` | `active_units`, `required_units`, `Unit.dependencies`, `reverse_dependencies` | `resolve_target_closure`, `resolve_dependencies`, `boot_waves`, `boot_parallel`, `stop_order` | unit loaders (input), runlevel database, supervisor |
| **Boot sequence** `main.rs`, `boot.rs` | none of its own | load units, run the boot script, `boot_with_fallback`, last rescue, spawn threads, run the reactor | everything |
| **Front ends** `ipc/`, `dbus_srv.rs`, `system_bus/` | connections | decode a request, lock, call one operation, answer | supervisor |
| **Job queue** `jobs.rs` | active jobs, last 256 finished ones | enqueue, finish | `systemd1.rs` |
| **Timers, devices** `timer.rs`, `device.rs`, `udev.rs` | fired / activated flags; the threads' lists | threads that start services by name | supervisor, boot |
| **Boot recovery** `recovery.rs` | attempts counter on disk, `boot-ok`, handoff flag | count attempts, judge the boot, delayed handoff | boot sequence |
| **Runlevel database** `rc_update.rs` | marker files | enable, disable, is_enabled | boot graph, front ends |
| **Readiness** `notify.rs`, `dbus_wait.rs` | notify sockets | wait for READY=1 or a bus name | `start_service` |
| **Unit loaders** `service/{unit,native,systemd,dropin,manifest}.rs` | `name_index`, `provides_index`, the arena of units | list, parse, register, apply `before` lists | boot graph |
| **Socket activation** `service/socket.rs` | listening descriptors, socket files | bind, copy, renumber in the child | boot graph, `start_service` |
| **Early boot** `vfs.rs`, `selinux.rs`, `early_boot.rs` | mounts, machine ids, the SELinux domain | mount, load policy, execute itself again, prepare the layout | boot sequence, boot recovery |
| **Launch** `launch.rs`, `sandbox.rs`, `privdrop.rs`, `cgroup.rs` | none | system calls before exec | `start_service` |
| Journal, network, login shim, command line | | | |

### What is hard in it

* **One mutex, long critical sections.**  A start may wait two minutes for a oneshot or for
  `READY=1` while it holds the mutex; children exit meanwhile, signals coalesce, the loops
  inside the wait reap other units' children and even the one the wait is for.
* **Four places reap** -- the SIGCHLD handler, oneshot waits, restart polls and stop waits -- but
  only the handler drains the restart queue.
* **Pids are recycled**, and the code keeps them in two places: the unit's slot (set at the
  spawn) and `pid_index` (set when the service is ready).  Every error path has to put both right.
* **The reactor is also the control server**; its shutdown test sits between event batches.
* **Boot state outlives the boot.**  A failed resolution, the next fallback target, starts by
  name and the stop order all work on what an earlier boot left in the dependency vectors.
* **Strict and lenient boots** differ in every error path of resolution, scheduling and start.
* **Crashes**: the attempts counter and a machine id are rewritten in place; a boot may be cut at any
  step, and what it leaves decides whether the next one hands the machine to systemd.
* **PID 1 executes itself again** for SELinux: its mounts stay, its memory goes, and a second mount of
  `/run` hides what the first execution prepared.
* **Descriptors**: sockets are bound again by every boot, copied for every start, and renumbered in the
  child while their copies may already have the numbers that are wanted.
* **Requests that take no lock**: `rc-update` changes marker files while a boot asks about them level by
  level; a D-Bus job takes the lock three times; the device watcher tests a path before it locks.
* **Lenient loading**: PID 1 boots with what it could load, so skipped, duplicate and overridden files decide
  which definition, provider and ordering counts.

What makes each part correct is stated as properties in sections 4 to 6; the hazards that no
property covers yet are in `PROJECT.json` with the reason.

## 2. The modules

| module | what it is | instances | theorems |
|---|---|---|---|
| `ForgeSupervisor` | processes, reaping, restarts, requests, boot, target switch, shutdown, reactor | `MCForgeSupervisor` | `ForgeSupervisor_proofs` |
| `ServiceLifecycle` | the abstract life of a unit that `ForgeSupervisor` implements | | |
| `ForgeDag` | target closure, dependency resolution, boot waves, starts wave by wave | `MCForgeDag` (208 sets of unit files, the stop order) | `ForgeDag_proofs` |
| `BootOrder` | the abstract boot, one partial order of starts, that `ForgeDag` implements | | |
| `ForgeRecovery` | early file systems, SELinux, attempts counter, fallback chain, verdict, handoff, panic hook, over any number of power cycles | `MCForgeRecovery` | `ForgeRecovery_proofs` |
| `ForgeRunlevels` | marker files, concurrent requests, a boot's runlevel filter | `MCForgeRunlevels` | `ForgeRunlevels_proofs` |
| `RunlevelDatabase` | the abstract database that `ForgeRunlevels` implements | | |
| `ForgeTriggers` | D-Bus jobs, timer thread, device watcher, beside boots | `MCForgeTriggers` | `ForgeTriggers_proofs` |
| `ForgeLoader` | how unit files become units, names, providers and orderings | `MCForgeLoader` | `ForgeLoader_proofs` |
| `ForgeSockets` | sockets bound, kept, copied and handed to processes | `MCForgeSockets` | `ForgeSockets_proofs` |

How they meet.  `ForgeLoader` ends with the units, providers and orderings that `ForgeDag` takes as a set of
manifests.  `ForgeDag` decides which service is started when, and treats a start as something that
succeeds or fails; the runlevel filter of `ForgeRunlevels` is its `Exclusions`.  `ForgeSupervisor` models what a
start does to processes, and takes the waves as the constant `Level` and the closures of the targets as
`Targets`; `ForgeSockets` models what a start does to descriptors.  In `ForgeRecovery` a boot
is a chain of targets, each of which is reached or fails.  `ForgeTriggers` starts services, and looks at who
asks and how often, not at what becomes of the process.

### ForgeSupervisor and the code

*State.*  `state`, `slot`, `pidIndex`, `active`, `pendingRestarts`, `restartTimes`, `shuttingDown`
are the fields of `ForgeState` and `Unit`.  `restart_times` is only ever counted inside its window,
so `restartTimes` is the count and `WindowPasses` lets one entry grow old.  `proc`, `owner`,
`killed`, `sigchld` are the kernel's: the status of each pid, the unit it was spawned for (which
the code does not know), pending SIGKILLs, and the coalesced SIGCHLD of the signalfd.

*Control.*  `holder` is the thread inside the mutex and `op` the operation it runs, with its local
variables; `starting` is a `start_service` call that is blocked in a wait, `reaping` says that the
`waitpid(-1)` loop is running.  `reactor` is where the reactor thread is: in the boot, in an event
batch (`poll`, or `served` once the batch's control client is done with), reading a client's line
(`client`), on its way to handle SIGCHLD (`chld`), or past the reboot (`off`).

*Actions.*  A step is what happens between two points where another thread, the kernel or a child
may act.  A spawn, an exit's bookkeeping or a stop is one step; each round of the `waitpid(-1)`
loop, each `waitpid(pid)`, each pop of the restart queue and each service of a wave is its own.
Sleeps and polls are not counted: a wait may end by its deadline whenever the code's loop could
have gone round, which covers every number of rounds.

*Abstractions.*  `Type=notify` stands for D-Bus services too: both wait without reaping, and end
ready or failed.  A stop is a signal, and a live child may exit at any time with any status, so the
effect of SIGTERM, of a stop command that returns, and of ignoring either is covered.  A launch
may fail for any of its reasons (a pre-start command, the socket descriptors, the log, spawn).
`check_watchdogs`, which every reap calls, never acts: `last_watchdog` is only written by
`update_watchdog`, which has no caller.

*Refinement.*  `Lifecycle` maps `state` and `slot` to the status and the process of a unit in `ServiceLifecycle`, and the
kernel's table to what is the units' own in it (`Fate`): there is no mutex, index, signal or queue.  The pid of an
orphan is free there, so that `Vanish`, a wait that collects or kills whoever has the pid by now, is the one
step that another process can have a part in.

### ForgeDag and the code

`manifest` holds the unit files, chosen once from `Manifests`; `strict` is `strict_boot`
(`main.rs` sets lenient to its negation).  `active`, `required`, `deps`, `rdeps` are the fields of the same
meaning; `pc`, `todo`, `level`, `wave`, `started`, `failed`, `reached` are the locals of
`boot_parallel` and the functions it calls.  A boot runs under the mutex, so the steps of a boot are
interleaved with nothing; they are steps because resolution may leave in the middle, in the order
of a hash set, and because a start may fail.  Between boots any service may be started by name.

`Reach` is defined as the smallest closed set and stands for the breadth-first loops.  `Ready`
counts reverse edges as Kahn's algorithm does, over whatever `deps` and `rdeps` hold; a name that
resolves twice to one unit is counted on both sides in the code and on neither in the model.  For
counts below zero the model follows the release build; a debug build would panic there.  The boot
properties show that a boot never counts below zero; the stop order may (section 7).
The runlevel database may exclude any set in `Exclusions`.

*Refinement.*  `Order` maps `pc` to the phases of a boot (`BootPhase`), `active` and its subset of bootable units to the
tasks, and the manifests to what each task awaits (`BootAwaits`): vectors, reverse map, levels and waves are gone.  What is left is a set
of tasks with an order that is fixed when the closure is known; a lenient boot that met a cycle has no order.

### ForgeRecovery and the code

*State.*  `attempts`, `grub`, `etcId` and `dbusId` are on disk and survive `PowerLoss`, which may come between any
two steps; everything else is memory or tmpfs.  A file that is rewritten in place is two steps: `attempts`
is `Torn` between truncation and write (and then reads as 0), `dbusId` is `empty`.  `host` is what is installed:
whether the handoff is enabled, `forge-boot-disable`, systemd, an SELinux policy, the tools for
labels and ids, the default target.  `pc` is where PID 1 is: `mount`, `policy`, `domain`, `reexec`, `layout`,
`copyId`, `fillId`, `devices` in `mount_essential_filesystems`; `count`, `write`, `limit` in
`init_pid1_recovery`; `boot` in `boot_with_fallback`; `judge`, `mark` in `post_boot_recovery`; then `running`, and
`handoff`, `systemd`, `emergency` or `off`.  `failed` and `counted` are history: the boots in a row
that were recorded and did not succeed.

*Abstractions.*  The counter saturates at `CounterMax` as `u32` does.  An installed policy may fail
to be mounted, fetched or loaded (`LoadPolicy`).  A target is reached or fails; while it boots, the bus
comes and goes, and `forge-early` may run.  A panic may happen in any step after the hook is
installed.  `EnableForge` is the administrator's `forge-boot-enable`.

### ForgeRunlevels and the code

`marker` is the set of files `<level>/<service>`; a request is one step when it writes (`Enable`), two when it
looks before it removes (`Disable`, `Remove`); the two threads are the reactor and the socket bridge, which both
run `dispatch` without the supervisor's lock.  `level`, `unseen`, `current`, `depth` and `kept` are the loop of
`filter_active_by_runlevel` and of `is_enabled` inside it; each look at a marker is a step.  `always` and `ever`
are history.  `Database` is the refinement mapping: the markers are the database, and what a
service still `waits` for is computed from where the two loops are.

### ForgeTriggers and the code

Every critical section is one step.  `main` is the main thread in its boot, before `spawn_scheduler`, before
`spawn_watchers`, and in the reactor.  `counter`, `active`, `history` are the job queue and `call` is the call that
the one executor thread of the bus connection serves: `Enqueue`, `Run`, `Finish` are its three acquisitions.
`schedule`, `firing`, `timerAt` are the timer thread's list, the due timers of its last scan and what it does;
`todo`, `found`, `watchAt` the watcher's, with the test of the path outside the lock.  `fired` and `activated` are the flags
of the arena; `timerStarts` and `deviceStarts` count, as history, the starts that each caused.

### ForgeLoader and the code

`content` is what the files say, `native` and `lenient` how they are loaded.  `dir` is the directory that is read next
(the Forge's own, the systemd units beside them, `usr` and `etc` of the installed system; then the `before` edges of a
native load), `listed` and `left` the files of `list_unit_paths` that are done and to come, `index`, `virtual` and
`after` the indexes and the `after` lists of `ForgeState`, `edges` the `before_edges` of a native load.  Each file is
one step: it is parsed, its registration succeeds, fails, or meets a name that is taken.  The files are
abstract: a name, a kind, what it provides, `before`, `after`, its drop-in, and whether it is good.

### ForgeSockets and the code

`table` is the descriptor table of PID 1, `address` the socket behind each path, `activation` the descriptors each unit
keeps; a socket lives while a process has a descriptor of it, and a client in the backlog of one that dies is
reset.  `op` is the wave or the start under the mutex with its local vectors: `bind` opens the paths of a unit one by
one, `collect` goes through the units of a service, `copy` dups their descriptors, and in `wait` the process was spawned
while its command still owns the copies, until `start_service` returns.  A line in `Netlink` has a socket and no path.
`Loaded` are the names that are socket units: a service that names another one fails to collect (`CollectFails`).  `Moved` and `Placed` are the two loops
of `pre_exec` on the child's table, `Pass` what they make of it.  At the descriptor limit `MaxFd` a bind and the
first loop fail; a `dup` is not looked at, so that PID 1 panics (`CopyPanics`), after which the start holds the mutex for ever: what
the panic hook does is `ForgeRecovery`'s.  `OtherOpens` and `OtherCloses` are descriptors of other threads, which may
take any number in between.

## 3. The runs

| run | module, cfg | asks | states |
|---|---|---|---|
| `supervisor_core` | `MCForgeSupervisor` | every safety property and the lifecycle of each unit, a simple and a oneshot service | 0.9 M |
| `supervisor_readiness` | `ForgeSupervisorNotify` | no stale pid is signalled, with a notify service, the fallback chain and devices | 1.8 M |
| `supervisor_liveness` | `ForgeSupervisorLive` | zombies are reaped, the mutex is released; a oneshot and an orphan | 17 k |
| `shutdown_liveness` | `ForgeShutdownLive` | a shutdown ends in the reboot, queued restarts are served; a simple service | 66 k |
| `dag` | `MCForgeDag` | waves, refusals, order of starts, completeness, and that a boot is a `BootOrder`; 208 manifests, strict and lenient | 93 k |
| `recovery` | `MCForgeRecovery` | the limit is exact, the layout is there, the ids agree, every boot settles; six machines | 456 k |
| `runlevels` | `MCForgeRunlevels` | the database is implemented, verdicts are justified; two threads and a boot | 713 k |
| `triggers` | `MCForgeTriggers` | jobs, timers and devices: nothing lost, nothing twice, everything due in the end | 186 k |
| `loader` | `MCForgeLoader` | which definition, provider and ordering counts; what Ok means; what a bad file costs | 1.4 M |
| `sockets` | `MCForgeSockets` | reachability, leaks, order of the sockets handed over, clients that wait, the descriptor limit | 728 k |
| `silent_client` | `ForgeSilentClient` | finding 1: a violation | |
| `stop_order` | `ForgeDagStop` | finding 2: a violation | |

`TypeOK` is a conjunct of each inductive invariant.  Those invariants, and `KinInv`, are proved, which says of every instance what a
run says of one; `runlevels` runs its own beside the proof.

*Bounds of the supervisor.*  Two services are the fewest for which one operation reaps, restarts or
starts a unit while another is concerned; they have different types and waves.  Three pids let both
be up while one is recycled or a unit has an old and a new process.  `RestartBurstMax = 1` makes the
limit bite at the second exit (the code's 5 only repeats it).  `BootTries` is 1 or 2 (the code tries
up to four targets); a try may also fail at once.  `MaxBacklog = 0` admits no new request while a
restart is queued -- the reactor, exits and the operation in progress go on --, so the queue holds at most
what one operation reaps.  `MaxOrphans` adopted orphans are only needed where orphans matter.
The safety runs have one target, `supervisor_liveness` also one that leaves the service out; the theorems
hold for any targets.
Processes are symmetric in the safety runs; the liveness runs use no symmetry.

*Bounds of the graph.*  Two targets, so that one boot leaves state to another, and three units, the
fewest with a cycle that some units only wait for, an alternative provider, and a unit that is wanted by one and
needed by another.  One unit is in turn a service, a socket, a mount, a timer, a device; edges
of each kind are varied, one virtual name has a provider and one name has none.  A run has any
number of boots, failures and starts by name: nothing is bounded but the unit files.

*Bounds of the other runs.*  `recovery`: six machines, one for each way to differ from a plain one; the limit of 2 that the
code has, so that counting, exceeding and saturating the counter at 4 all happen; two
ids, so that two generators can disagree; power cycles are not bounded.  `runlevels`: four levels, one that inherits two,
one that inherits one, `single`, and `rescue`, which a boot maps to `single`; one service, since no step relates
two, and two threads for the race on one marker; requests are not bounded.  `triggers`: two timers of one service and two devices, one with
a missing service; a history of one, so that the second job drops the first.  `loader`: three Forge files in path
order, a systemd file and one in each installed directory, with eight and three contents: duplicates, shared virtual names,
bad files of both kinds, `before` and drop-in edges to units read earlier, later or never.
Its deadlock check is off because a load ends.  `sockets`: a unit with a path and a netlink line and one with a path, named by
`broker` in the other order than they boot in; `udevd` names one, `lost` both and one that is no socket unit.
Three waves or starts, so that a unit is bound, bound again while a service runs, and used; one foreign descriptor makes
the holes.  With `MaxFd = 9` the three listeners and three copies leave one number of 3 to 9, so that copies that lie at 3 to 5 are
moved away and launch (one of three, both of two), or find no free number when the foreign descriptor has it (`child.ok` is false);
`lost` copies a unit twice, which fills the table, and the `dup` after that panics.  No bind meets the limit here; any bind may fail.  Nine
sockets are never exhausted.

*Fairness* (`Fairness`, `PatientSpec`, `FairSpec` in `ForgeSupervisor`).  The thread in the mutex keeps
running (weak fairness of its steps), the loop that reaps gets to every zombie, SIGKILL takes effect.
The deadlines of a oneshot's wait are strongly fair: if the loop goes round for ever, the clock has
passed them.  The reactor's steps are strongly fair: parking_lot hands a contended mutex over in
the end, every epoll batch serves the signalfd, and every batch ends in the shutdown test.  Nothing is assumed
of services, orphans, or which requests come.  `FairSpec` adds one assumption that the code does
not enforce: a control client does not stay silent for ever.  Without it (`PatientSpec`)
the liveness properties fail, which is finding 1.  Stop, pre-start and reload commands are
assumed to return; the code sets them no limit (see the hazards).
`ForgeRecovery`: PID 1 keeps running, the boot ends (every wait in it has a deadline), the handoff thread wakes up;
nothing is assumed of power, panics or the bus.  `BootSettles` also asks for a domain transition where there
is a policy: without one PID 1 executes itself again for ever (section 7).  `ForgeTriggers`: the threads run, the mutex
is fair, time passes; nothing is assumed of requests, devices or jobs.

## 4. What the supervisor promises

| property | checked | proved |
|---|---|---|
| `TypeOK` | implied | `TypeCorrect` |
| `IndexNamesOwnProcess`: an exit is never charged to a unit whose process it was not | yes | `IndexIsOwn` |
| `SignalsReachOwnProcess`: the pid a stop, restart or escalation signals is the unit's own | yes | `SignalsAreOwn` |
| `NoLostChild`: a zombie always has a SIGCHLD or the handler on its way | yes | `NoChildLost` |
| `NoStrandedRestart`: so has a queued restart, whoever reaped | yes | `NoRestartStranded` |
| `StatusHasProcess`: Running or Stopping means a process of one's own | yes | `StatusIsTrue` |
| `ShutdownLeavesNobody`: after the stop wait every process of an active service has a SIGKILL pending, unless the service lost track of it (`Known` fails) | yes | `ShutdownIsComplete` |
| `TrackLostByOverlapOnly`: a service loses track of a process only to a start on top of it | yes | `TrackIsKept` |
| `ImplementsLifecycle`: each unit lives the life of `ServiceLifecycle`, whoever reaps and whatever the kernel does with pids | yes | `Implementation` |
| `EveryZombieReaped`, `EveryOperationEnds`, `EveryRestartServed`, `ShutdownReboots` | yes | TLC only |

`EveryRestartServed` is checked with a simple service: a oneshot is never entered in `pid_index`, so
its exit never queues a restart and the property would hold for no reason.  (This also means that a
restart policy on a oneshot has no effect.)

*The argument.*  None of the safety properties is inductive alone.  `SignalsReachOwnProcess` needs to
know that the pid in a slot is in the index under the same unit, for then every reap that frees the
pid also clears the slot; that fails exactly for the service whose start is blocked -- its slot is set,
its index entry is not -- so the invariant has to describe the blocked call: for an activation nobody
else can reap it, for a oneshot the loop may.  `IInv` is the conjunction of `MutexInv` (which
operation belongs to which thread), `BlockedInv` (who may be blocked where, and reap), `ProcessInv`
(slots, index, owners, and the blocked start), `SignalInv` (the drain after the handler's reap has SIGCHLD
raised again if a child exited in between) and `EscalationInv` (SIGKILL stays pending until reaped).
`Inductive` proves it preserved by every action; the theorems above follow, the two action
properties with one more case split over `Next`.  The only assumption is `SupervisorAssumption`:
the types of the constants, and that "none" is neither a unit nor a pid.

*The refinement* matches each step with one of the abstract steps or a stutter.  That needs the converse of
`IndexNamesOwnProcess`, `KinInv` (`Kinship`): every process of a unit is indexed under it, or is the one that the blocked
start waits for.  From it a reap by any operation is one of three things: the exit of an indexed process, which the
unit collects; the exit of the process that is waited for, which nobody notices (`Miss`) until the wait finds that
the child has vanished; or the exit of an orphan, which no unit is told of.  That a oneshot is never indexed is part
of it, and so is that the unit of a blocked start is "Starting" and known by the process that is waited for.
`ServiceLifecycle` does not promise one process per unit: a start of a unit that is up gives it a second
one, the slot names the newer, and the exit of either clears the slot (`service/forge.rs:2511`), after which no stop
signals the other.

*What a shutdown leaves.*  `Known(s)` says that every process of `s` is the one in its slot.  `ShutdownLeavesNobody` is about known
services, and needs that hypothesis: without it TLC finds a shutdown that leaves a live process without SIGKILL (section 7).
`TrackLostByOverlapOnly` says how a service ceases to be known: not by an exit, a reap of whatever operation, a failed
activation, a timed-out oneshot or a recycled pid, but only when it is given a process while it has one.  It is
proved from the refinement: a step of `ServiceLifecycle` that empties the slot of a known service also frees the process it
names, so that only `Spawn` can leave one behind.

## 5. What the boot promises

| property | checked | proved |
|---|---|---|
| `TypeOK` | implied | `TypeCorrect` |
| `GraphMirrors`: in the starts, vectors and reverse map are those of this boot, whatever was left behind | yes | `GraphIsFresh` |
| `WavesRespectOrder`: the waves hold every bootable unit, each after what it waits for | yes | `WavesAreOrdered` |
| `RefusalIsACycle`: a strict boot reports a cycle only if units really wait for each other (or for a timer) | yes | `RefusalsAreCycles` |
| `DependenciesFirst`: units are attempted after what they wait for; in a strict boot after its success | yes | `DependenciesComeFirst` |
| `ReachedIsComplete`: "Target reached" means nothing is left and, if strict, nothing failed | yes | `ReachedMeansComplete` |
| `ImplementsBootOrder`: a boot is one partial order of starts, fixed at once and followed | yes | `Implementation` |

*The argument.*  `GraphInv` is the loop invariant of `resolve_dependencies`: a unit that has still to
be visited is nowhere in the reverse map, a visited one is in it for exactly its vector; it holds although
the vectors of unvisited units are stale.  `WaveInv` is Kahn's: what has a wave has all it waits for
in earlier ones.  From both, when nothing is ready but something is unscheduled, each unscheduled
unit waits for another one or for an active unit that is not bootable: that is `Stuck`, the
definition of a cycle in the manifests that `RefusalIsACycle` and `WavesRespectOrder` refer to.
The counting step -- as many predecessors scheduled as dependencies -- is the one use of finite
cardinalities.  `StartInv` says that the waves before the current one are over, and that a strict boot has
no failure: every active unit is in `required_units`, so each failure ends it.
`DagAssumption` is the only assumption: finitely many units, and the types of the constants.

*The refinement* maps the starts of all waves to one order.  In the starts, the level of a unit decides when its turn is; the
abstract boot only asks that all it awaits was attempted, and in a strict boot succeeded (`TurnWaitsForNothing`).  The starts
are unordered exactly when the unit files are `Stuck`, and that waves in order exclude: in a set of units that would all wait for each
other, the unit of the lowest level waits for nothing (`OrderedIsNotStuck`; there is a lowest level because the numbers are
well-founded).  Hence only a lenient boot drops its order (`StuckIsLenient`).  `BootOrder` lets a boot give up for any reason; that a
strict one does so for a cycle only is `RefusalIsACycle`.  A failed start ends a strict boot always, since every active unit is required.

## 6. What the other parts promise

### Boot recovery

| property | checked | proved |
|---|---|---|
| `LimitIsExact`: PID 1 gives up its target exactly when that many recorded boots in a row did not succeed | yes | `LimitHolds` |
| `ServicesFindTheirLayout`: when services start, what they rely on was prepared after the last mount that hides it | yes | `LayoutIsFound` |
| `MachineIdsAgree`: the two machine-id files never hold different ids | yes | `OneMachineId` |
| `BootSettles`: every power-on ends in a successful boot, a login that stays, systemd, or a power loss | yes | TLC only |

*The argument.*  `CounterInv` says that the number on disk is the history: `failed`, plus one if this boot is recorded;
a torn counter counts as a fresh start on both sides, which is what makes the limit exact and
not an upper bound on the boots.  It needs to know in which stages a torn file can be met at all.  `LayoutInv` says where the
directories and the console must already be there, given that a re-execution goes back before the mounts; `IdInv`
that once the copy was made on a writable root, D-Bus has an id whenever `/etc` has one, so the second
generator has nothing to generate.  On a root that is read-only nothing is recorded and the limit never bites.

### Runlevel database

| property | checked | proved |
|---|---|---|
| `ImplementsDatabase`: files, threads and loops implement `RunlevelDatabase` | yes | `Implementation` |
| `VerdictsAreJustified`: a kept service was enabled at some time of the boot, an excluded one not all the time | yes | `Justification` |

*The argument.*  `FilterInv` says what the boot's loop has seen: the ancestors before `depth` were not marked all the time.
Each step is then matched with one of the abstract steps; a removal whose marker is gone already is a `Disable`
that changes nothing.  `AncestorAssumption` -- what is inherited from is a level -- is the assumption on the constants beside
their types.  What the database does not promise is a snapshot: a service that is moved from
one level to another during the boot may be missed (`ever` and `always` are different sets for that reason).

### Jobs, timers, devices

| property | checked | proved |
|---|---|---|
| `QueueInv`: a job is active exactly while it is served, history is the latest ones in order | yes | `QueueIsTrue` |
| `DevicesStartOnce`: a device's service is started when its flag is set, and never again | yes | `DevicesAreStartedOnce` |
| `TimersFireOnce`: at most once, and not before its time | yes | `TimersAreFiredOnce` |
| `ScheduledTimersFire`, `PresentDevicesStart` | yes | TLC only |

`QueueInv` rests on the one executor thread of the connection: with two, jobs would finish in another order than
they came.  `PresentDevicesStart` has the exception the code has: without inotify the watcher thread ends.

### Unit loaders

| property | checked | proved |
|---|---|---|
| `FirstDefinitionWins`: the first good file that defines a name is the unit | yes | `FirstFileCounts` |
| `ProviderIsFirst`: a virtual name belongs to the unit of the first good service file that lists it | yes | `ProvidersAreFirst` |
| `CleanLoadIsComplete`: Ok hides no skipped file and no directory given up half-way | yes | `OkIsComplete` |
| `GoodFilesSurvive`: a bad file never costs PID 1 a good one of the same directory | yes | `GoodSurvives` |
| `OrderingInForce`: a unit waits for what its file and its drop-ins ask for and for nothing else but `before` lists; those of every file read hold after a native load that is lenient or returns Ok | yes | `OrderingHolds` |

*The argument.*  `OrderInv` says that the files read are those before the files left, in path order over the
directories; `SkipInv` that what was read is registered or known as skipped, and that the knowledge lasts until the
directory's verdict; `EdgeInv` that a native load still has the `before` lists of every file it read, of those it
skipped too, and no others.
`LoaderAssumption` orders the files by directory, as the code lists them.

### Socket activation

| property | checked | proved |
|---|---|---|
| `TypeOK` | implied | `TypeCorrect` |
| `ListeningIsReachable`: a listening unit holds a socket for each of its lines, and its paths lead there | yes | `AlwaysReachable` |
| `NoDescriptorLeak`: between operations PID 1 holds the sockets of its units and no other | yes | `NothingLeaks` |
| `HandedInOrder`: a process gets the sockets of its units, in order, those that clients reach | yes | `AlwaysInOrder` |
| `ConnectionsSurvive`: a client that waits at a listening unit is not reset by exits, failures or restarts | yes | `ClientsSurvive` |

*The argument.*  `OwnerInv` says that every descriptor of a socket is in exactly one vector -- a unit's, that of the bind, that of
the copies -- and in it once; so whatever is dropped closes nothing of another's.  `BindInv` says how far a bind
is: the first lines of a unit that is "starting" have new sockets.  That no listening unit loses its path to it needs a
condition which the code does not check: that no other line names the path (`Sole`; of two lines that do, the one bound
last is reached).  `CollectInv` says how far a start is: the copies are those of the lines of the units that are done, in
order, and of the first lines of the next one.  At a launch this makes the copies the list that `HandedInOrder` speaks
of, and `PassInOrder` says that the child finds them at 3, 4, ...: the first loop of `pre_exec` keeps every wanted
socket at a number of its own and leaves none below 3 + n, so the second one overwrites nothing that is still wanted.
Both loops, and the list of lines, are recursive functions; the induction over them is `SetInduction`, which follows from the
well-foundedness of the numbers and speaks of a set of numbers where a predicate would not do for the provers;
`RecursionExists` and `RecursionValues` give from it that a recursively defined function is what its definition says.
`SocketAssumption` types the constants; any number of sockets, descriptors, units and lines is covered.

`ConnectionsSurvive` is about units that stay listening.  A boot binds its sockets again: the unit is then starting,
and the clients in the old backlog are reset.

## 7. Findings

Two have a run, with the line they contradict in `PROJECT.json`:

1. **A silent control client stops PID 1** (`EveryZombieReaped`, `ipc/mod.rs:32`).  The reactor reads the client's line
   itself and without a timeout.  Until the client speaks, nothing is reaped by the reactor, no
   restart is served and a shutdown does not reboot.  The README promises "zero defunct zombies".
2. **The stop order is not the reverse dependency order** (`StopsInReverseOrder`, `service/forge.rs:1458`) once a service was
   started by name: its vector is that of an earlier boot, or empty.

Others were met while modelling and can be read off the models, which follow the code; no run is spent on them:

* Stopping a supervised service restarts it: `on_child_exit` (`service/forge.rs:2517`) looks at the policy only;
  `native.rs:122` calls supervise "restart on crash".
* A service that is started while it has a process (`start_service_by_name` does not look; boots and restarts do it too)
  overwrites its slot (`service/forge.rs:1942`).  No stop or escalation signals the older process.  The exit of either clears
  the slot (`service/forge.rs:2511`): the other one lives, the unit is shown as dead, and a shutdown neither waits for it nor
  kills it (`service/forge.rs:2384`).  TLC shows both: with `Known` dropped from `ShutdownLeavesNobody`, two starts by name and
  a shutdown whose SIGKILL goes to the newer process only; "a dead unit has no live process", two starts and an exit.
* The reboot may find live services: requests and restarts are still served between `shutdown()` and the next test of
  `shutting_down` (`reactor.rs:67`); `recovery.rs:45` says "after services are stopped".
* A needed service may be missing: the runlevel filter (`service/forge.rs:920`) runs after the closure; `native.rs:43`
  says a hard dependency "must start before this service".
* A wanted unit aborts a strict boot: `required_units` (`service/forge.rs:941`) holds every active unit; the comment at
  `service/forge.rs:405` limits this to `need`/`requires`.
* PID 1 logs that it is in `init_t` although `setcon` moved its own process, or the kernel took the label for the
  next program only (`selinux.rs:108`).
* PID 1 executes itself again without a limit when the policy has no transition (`vfs.rs:356`), before any attempt
  is counted.
* Services enabled in level `rescue` are consulted by no boot: the target `rescue` is level `single` (`rc_update.rs:19`).
* A skipped native service keeps its `before` edges (`native.rs:357`): PID 1, which loads leniently and boots strictly, then
  fails to boot with `MissingUnit` (`service/forge.rs:1030`).
* A strict resolution that fails half-way has added reverse edges of the unit it was at, whose own vector is still the old one
  (`service/forge.rs:1030`); a stop order computed then may count below zero (`service/forge.rs:1207`).
* One bad TOML file makes `load_all_units` return before the systemd directory (`service/unit.rs:182`).
* Listening sockets are created without close-on-exec, so every child inherits those of all units (`service/socket.rs:73`; `leaked`
  in `ForgeSockets`), and a service that survives a boot goes on serving a socket whose file was unlinked
  (`service/forge.rs:1286`).
* A timer that only a later target activates never gets a thread (`timer.rs:8`).
* `mark_timer_fired` marks the first timer of a service, so a second one keeps its flag (`timer.rs:39`).
* A failed device start is never tried again (`service/forge.rs:1158`).
* Out of descriptors, the copy of a listening socket panics PID 1 where every other step of a start fails: the
  result of `dup` goes into an `OwnedFd` unseen (`service/forge.rs:2310`).

## 8. Not modelled

* `Type=forking` (`find_forking_daemon` asks `pgrep`), reload, `spawn_adhoc`, adoption of host
  processes outside PID 1.
* Processes that are not children of PID 1: a pid that is recycled by one of them (the hazard at
  `service/forge.rs:2119`) is not represented; a pid recycled by an adopted orphan is.
* The watchdog: dead code in this commit.
* The grammar of unit files, and their fields other than names, kinds and ordering; the unseeded runlevel database
  and the listings of `rc-update`; the text of udev rules.
* The Rhai boot script, hostname, labels, splash, network: they fail or succeed, and no later step asks.
* Journal, sandbox, cgroups, login shim, command line: sequential code between system calls,
  whose outcome enters the models as a choice, or separate processes.
* The path from a device's or timer's start to the process: `ForgeTriggers` counts attempts.
* Out of the prover's reach and left to TLC: liveness under fairness (`EveryZombieReaped`, `EveryOperationEnds`,
  `EveryRestartServed`, `ShutdownReboots`, `BootSettles`, `ScheduledTimersFire`, `PresentDevicesStart`), and the stop order,
  which is a recursive operator.  Recursive functions are not: see socket activation.

Hazards that no property covers (a hanging stop command, forking daemons, foreign pids, the watchdog, what the runlevel
filter takes out of a closure) are in `PROJECT.json` with the reason.

## 9. Plan

Done: the supervisor and the boot graph with their refinements, boot recovery with power loss, runlevels with their
refinement, jobs, timers, devices, the loaders, socket activation; a theorem for every invariant, action property and
refinement that a run checks.  Next, in this order:

1. An abstract specification for `ForgeSockets` -- a service gets the list of its units' sockets, in order, or fails --
   and one for `ForgeTriggers`, as for the other components.
2. `stop_order` as a recursive function, so that what it promises after a resolution that succeeded can be proved.
3. `ForgeSupervisor`: `Type=forking` and stop commands that may hang, as further ways for a blocked
   operation to end or not.
