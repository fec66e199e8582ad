---------------------------- MODULE ForgeTriggers ----------------------------
(***************************************************************************)
(* What starts services besides a boot: the D-Bus jobs, the timer thread    *)
(* and the device watcher.  Every critical section under the mutex of       *)
(* ForgeState is one step; what happens between two of them is up to the    *)
(* other threads.                                                           *)
(***************************************************************************)
EXTENDS Naturals, Sequences

CONSTANTS
  Names,         \* names of services that timers and devices start
  Registered,    \* those that are services in the name index
  NumTimers,     \* timers, by their position in the arena
  TimerUnit,     \* the service of each timer
  NumDevices,    \* devices, by their position in the arena
  DeviceService, \* the service of each device
  MaxHistory,    \* max_history of the job queue, 256 in the code
  MaxJobs        \* bound of the model: jobs that clients submit

Timers == 1..NumTimers
Devices == 1..NumDevices

ASSUME TriggerAssumption ==
  /\ Registered \subseteq Names
  /\ NumTimers \in Nat /\ TimerUnit \in [Timers -> Names]
  /\ NumDevices \in Nat /\ DeviceService \in [Devices -> Names]
  /\ MaxHistory \in Nat \ {0} /\ MaxJobs \in Nat

VARIABLES
  main,         \* how far the main thread has come
  counter,      \* JOB_COUNTER
  active,       \* active jobs, oldest first
  history,      \* finished jobs, oldest first
  call,         \* the call that the executor thread of the bus serves
  fired,        \* timers with the flag set
  due,          \* timers whose delay after the boot has passed
  schedule,     \* timers in the list of the timer thread
  firing,       \* timers that its last scan found due
  timerAt,      \* what the timer thread does
  present,      \* devices whose path exists
  activated,    \* devices with the flag set
  todo,         \* devices that the watcher's loop has still to look at
  found,        \* devices whose path the watcher has just seen
  watchAt,      \* what the watcher does
  timerStarts, deviceStarts  \* history: starts that each timer and each device caused

jobVars == <<counter, active, history, call>>
timerVars == <<fired, due, schedule, firing, timerAt, timerStarts>>
watchVars == <<todo, found, watchAt>>
deviceVars == <<present, activated, watchVars, deviceStarts>>
vars == <<main, jobVars, timerVars, deviceVars>>

Results == {"done", "failed"}
Idle == [at |-> "idle"]
Calls == [at : {"run", "finish"}, id : 1..MaxJobs, result : Results]

TypeOK ==
  /\ main \in {"boot", "timers", "devices", "reactor"}
  /\ counter \in 1..(MaxJobs + 1) /\ active \in Seq(1..MaxJobs)
  /\ history \in Seq([id : 1..MaxJobs, result : Results])
  /\ call \in Calls \cup {Idle}
  /\ fired \subseteq Timers /\ due \subseteq Timers
  /\ schedule \subseteq Timers /\ firing \subseteq Timers
  /\ timerAt \in {"off", "scan", "fire", "done"} /\ timerStarts \in [Timers -> Nat]
  /\ present \subseteq Devices /\ activated \subseteq Devices
  /\ todo \subseteq Devices /\ found \subseteq Devices
  /\ watchAt \in {"off", "init", "look", "pending", "done", "dead"}
  /\ deviceStarts \in [Devices -> Nat]

\* PID 1 before its boot, which holds the mutex until it is over.
Init ==
  /\ main = "boot"
  /\ counter = 1 /\ active = <<>> /\ history = <<>> /\ call = Idle
  /\ fired = {} /\ due = {}
  /\ schedule = {} /\ firing = {} /\ timerAt = "off" /\ timerStarts = [t \in Timers |-> 0]
  /\ present \in SUBSET Devices /\ activated = {}
  /\ todo = {} /\ found = {} /\ watchAt = "off" /\ deviceStarts = [d \in Devices |-> 0]

-----------------------------------------------------------------------------
(***************************************************************************)
(* Devices under the mutex.                                                 *)
(***************************************************************************)
\* pending_device_units
PendingDevices == Devices \ activated

\* Mutant: the flag is not looked at.
ActivateAll(D) ==
  /\ activated' = activated \cup D
  /\ deviceStarts' = [d \in Devices |-> deviceStarts[d] + IF d \in D THEN 1 ELSE 0]

\* activate_device_by_key: the flag is tested and set before the service is started, whether the
\* start succeeds or not.
Activate(D) ==
  LET new == D \ activated IN
  /\ activated' = activated \cup new
  /\ deviceStarts' = [d \in Devices |-> deviceStarts[d] + IF d \in new THEN 1 ELSE 0]

\* activate_ready_devices goes through the arena and ends with the first start that fails.
ActivateReady ==
  LET ready == PendingDevices \cap present IN
  \E D \in SUBSET ready :
    /\ \A d \in D, e \in ready : e < d => e \in D /\ DeviceService[e] \in Registered
    /\ ready # {} => D # {}
    /\ Activate(D)

-----------------------------------------------------------------------------
(***************************************************************************)
(* The main thread: boot, spawn_scheduler, spawn_watchers.                  *)
(***************************************************************************)
\* A boot that failed activates no devices.
Boot ==
  /\ main = "boot" /\ main' = "timers"
  /\ ActivateReady \/ UNCHANGED <<activated, deviceStarts>>
  /\ UNCHANGED <<jobVars, fired, due, schedule, firing, timerAt, timerStarts,
                 present, watchVars>>

\* spawn_scheduler: the timers that are active by now; those of a later target never get a thread.
SpawnScheduler ==
  /\ main = "timers" /\ main' = "devices"
  /\ schedule' \in SUBSET (Timers \ fired)
  /\ timerAt' = IF schedule' = {} THEN "off" ELSE "scan"
  /\ UNCHANGED <<jobVars, fired, due, firing, timerStarts, deviceVars>>

\* spawn_watchers
SpawnWatchers ==
  /\ main = "devices" /\ main' = "reactor"
  /\ todo' = PendingDevices
  /\ watchAt' = IF PendingDevices = {} THEN "off" ELSE "init"
  /\ UNCHANGED <<jobVars, timerVars, present, activated, found, deviceStarts>>

Main == Boot \/ SpawnScheduler \/ SpawnWatchers

-----------------------------------------------------------------------------
(***************************************************************************)
(* The world: activate_target requests, and devices that come and go.       *)
(***************************************************************************)
Serving == main \in {"timers", "devices", "reactor"}

\* activate_target boots again with the units of another target.
ActivateTarget ==
  /\ Serving
  /\ ActivateReady \/ UNCHANGED <<activated, deviceStarts>>
  /\ UNCHANGED <<main, jobVars, fired, due, schedule, firing, timerAt, timerStarts,
                 present, watchVars>>

Appear(d) ==
  /\ d \notin present
  /\ present' = present \cup {d}
  /\ UNCHANGED <<main, jobVars, timerVars, activated, watchVars, deviceStarts>>

Vanish(d) ==
  /\ d \in present
  /\ present' = present \ {d}
  /\ UNCHANGED <<main, jobVars, timerVars, activated, watchVars, deviceStarts>>

-----------------------------------------------------------------------------
(***************************************************************************)
(* D-Bus jobs.  The handlers of one connection run on one thread.           *)
(***************************************************************************)
\* start_unit, stop_unit, start_transient_unit: the job is enqueued; a session scope is attached
\* and has nothing else to do.
Enqueue(op) ==
  /\ main # "boot" /\ call = Idle /\ counter <= MaxJobs
  /\ counter' = counter + 1
  /\ active' = Append(active, counter)
  /\ call' = [at |-> IF op = "scope" THEN "finish" ELSE "run", id |-> counter, result |-> "done"]
  /\ UNCHANGED <<main, history, timerVars, deviceVars>>

\* Mutant: a stop that fails returns its error before the job is finished.
RunOrReturn ==
  /\ call # Idle /\ call.at = "run"
  /\ \E r \in Results :
       call' = IF r = "failed" THEN Idle ELSE [call EXCEPT !.at = "finish", !.result = r]
  /\ UNCHANGED <<main, counter, active, history, timerVars, deviceVars>>

\* start_service_by_name or stop_service_by_name, under the mutex again: the unit may be unknown,
\* and the start or the stop may fail.
Run ==
  /\ call # Idle /\ call.at = "run"
  /\ \E r \in Results : call' = [call EXCEPT !.at = "finish", !.result = r]
  /\ UNCHANGED <<main, counter, active, history, timerVars, deviceVars>>

\* finish removes the job wherever it is in the queue and drops the oldest of a full history.
Latest(h) == IF Len(h) > MaxHistory THEN Tail(h) ELSE h

Finish ==
  /\ call # Idle /\ call.at = "finish"
  /\ IF \E i \in DOMAIN active : active[i] = call.id
     THEN /\ \E i \in DOMAIN active :
               /\ active[i] = call.id /\ \A j \in 1..(i - 1) : active[j] # call.id
               /\ active' = SubSeq(active, 1, i - 1) \o SubSeq(active, i + 1, Len(active))
          /\ history' = Latest(Append(history, [id |-> call.id, result |-> call.result]))
     ELSE UNCHANGED <<active, history>>
  /\ call' = Idle
  /\ UNCHANGED <<main, counter, timerVars, deviceVars>>

-----------------------------------------------------------------------------
(***************************************************************************)
(* The timer thread: timer_loop.                                            *)
(***************************************************************************)
TimePasses(t) ==
  /\ t \notin due
  /\ due' = due \cup {t}
  /\ UNCHANGED <<main, jobVars, fired, schedule, firing, timerAt, timerStarts,
                 deviceVars>>

\* Mutant: a timer stays in the list when it fires.
ScanAgain ==
  /\ timerAt = "scan" /\ timerAt' = "fire"
  /\ firing' = schedule \cap due
  /\ UNCHANGED <<main, jobVars, fired, due, schedule, timerStarts, deviceVars>>

\* The due timers leave the list before any of them is fired.
Scan ==
  /\ timerAt = "scan" /\ timerAt' = "fire"
  /\ firing' = schedule \cap due
  /\ schedule' = schedule \ due
  /\ UNCHANGED <<main, jobVars, fired, due, timerStarts, deviceVars>>

\* timer_for_service: the first timer of the arena for this service, not always the one that fires.
TimerForService(name) ==
  {t \in Timers : TimerUnit[t] = name /\ \A u \in Timers : TimerUnit[u] = name => t <= u}

\* mark_timer_fired and start_service_by_name; a failed start is logged.
Fire(t) ==
  /\ timerAt = "fire" /\ t \in firing
  /\ firing' = firing \ {t}
  /\ fired' = fired \cup TimerForService(TimerUnit[t])
  /\ timerStarts' = [timerStarts EXCEPT ![t] = @ + 1]
  /\ UNCHANGED <<main, jobVars, due, schedule, timerAt, deviceVars>>

\* Mutant: the thread ends after its first scan.
ScanEndsAtOnce ==
  /\ timerAt = "fire" /\ firing = {}
  /\ timerAt' = "done"
  /\ UNCHANGED <<main, jobVars, fired, due, schedule, firing, timerStarts, deviceVars>>

\* Sleep 200 ms and scan again, or end with an empty list.
ScanEnds ==
  /\ timerAt = "fire" /\ firing = {}
  /\ timerAt' = IF schedule = {} THEN "done" ELSE "scan"
  /\ UNCHANGED <<main, jobVars, fired, due, schedule, firing, timerStarts,
                 deviceVars>>

TimerThread == Scan \/ (\E t \in Timers : Fire(t)) \/ ScanEnds

-----------------------------------------------------------------------------
(***************************************************************************)
(* The device watcher: device_watch_loop.                                   *)
(***************************************************************************)
\* Without inotify the thread ends before it has looked at any device.
WatcherStarts ==
  /\ watchAt = "init" /\ watchAt' \in {"look", "dead"}
  /\ UNCHANGED <<main, jobVars, timerVars, present, activated, todo, found, deviceStarts>>

\* The path is tested without the mutex ...
Look(d) ==
  /\ watchAt = "look" /\ found = {} /\ d \in todo
  /\ todo' = todo \ {d}
  /\ found' = IF d \in present THEN {d} ELSE {}
  /\ UNCHANGED <<main, jobVars, timerVars, present, activated, watchAt, deviceStarts>>

\* ... and then the device is activated under it; a failed start is forgotten.
ActivateFound ==
  /\ watchAt = "look" /\ found # {}
  /\ Activate(found)
  /\ found' = {}
  /\ UNCHANGED <<main, jobVars, timerVars, present, todo, watchAt>>

\* Every 200 ms the pending devices are read again; without any the thread ends.
LoopAgain ==
  /\ watchAt = "look" /\ found = {} /\ todo = {}
  /\ watchAt' = "pending"
  /\ UNCHANGED <<main, jobVars, timerVars, present, activated, todo, found, deviceStarts>>

\* Mutant: the thread looks at its first list only.
TakePendingOnce ==
  /\ watchAt = "pending" /\ watchAt' = "done"
  /\ UNCHANGED <<main, jobVars, timerVars, present, activated, todo, found, deviceStarts>>

TakePending ==
  /\ watchAt = "pending"
  /\ todo' = PendingDevices
  /\ watchAt' = IF PendingDevices = {} THEN "done" ELSE "look"
  /\ UNCHANGED <<main, jobVars, timerVars, present, activated, found, deviceStarts>>

Watcher ==
  WatcherStarts \/ (\E d \in Devices : Look(d)) \/ ActivateFound \/ LoopAgain \/ TakePending

-----------------------------------------------------------------------------
Next ==
  \/ Main
  \/ ActivateTarget
  \/ \E d \in Devices : Appear(d) \/ Vanish(d)
  \/ \E op \in {"start", "stop", "scope"} : Enqueue(op)
  \/ Run \/ Finish
  \/ \E t \in Timers : TimePasses(t)
  \/ TimerThread
  \/ Watcher

Spec == Init /\ [][Next]_vars

\* The threads run, the mutex is fair, and time passes.
Fairness ==
  /\ WF_vars(Main) /\ WF_vars(TimerThread) /\ WF_vars(Watcher)
  /\ \A t \in Timers : WF_vars(TimePasses(t))

FairSpec == Spec /\ Fairness

-----------------------------------------------------------------------------
(***************************************************************************)
(* What the triggers promise.                                               *)
(***************************************************************************)
Finished == (counter - 1) - Len(active)

\* A job is active exactly while its call is being served, and the history is the latest
\* MaxHistory jobs in the order of their ids (enqueue, finish, from three critical sections).
QueueInv ==
  /\ active = IF call = Idle THEN <<>> ELSE <<call.id>>
  /\ call # Idle => call.id = counter - 1
  /\ Len(history) = IF Finished < MaxHistory THEN Finished ELSE MaxHistory
  /\ \A i \in DOMAIN history : history[i].id = Finished - Len(history) + i

\* However the boot, activate_target and the watcher's two steps interleave, a device's service is
\* started by them exactly once from the time its flag is set, and never without the flag
\* (activate_device_by_key).
DevicesStartOnce == \A d \in Devices : deviceStarts[d] = IF d \in activated THEN 1 ELSE 0

\* A timer fires at most once, and not before its time (timer_loop).
TimersFireOnce ==
  \A t \in Timers :
    /\ timerStarts[t] <= 1
    /\ timerStarts[t] = 1 => t \in due
    /\ t \in schedule \cup firing => timerStarts[t] = 0

\* The inductive invariant of the proofs.
IInv ==
  /\ TypeOK
  /\ QueueInv
  /\ DevicesStartOnce
  /\ TimersFireOnce
  /\ firing \subseteq due /\ schedule \cap firing = {}
  /\ main \in {"boot", "timers"} =>
       timerAt = "off" /\ schedule = {} /\ firing = {} /\ \A t \in Timers : timerStarts[t] = 0
  /\ timerAt = "scan" => firing = {}
  /\ timerAt \in {"off", "done"} => schedule = {} /\ firing = {}

\* A timer in the list of the thread fires, even when another timer of its service was marked
\* in its place, and whatever holds the mutex meanwhile (timer_loop, timer_for_service).
ScheduledTimersFire == \A t \in Timers : t \in schedule ~> timerStarts[t] = 1

\* A device that exists from some time on has its service started, unless the watcher could not
\* get an inotify instance (device_watch_loop).
PresentDevicesStart ==
  \A d \in Devices : <>[](d \in present) => <>(deviceStarts[d] = 1 \/ watchAt = "dead")
=============================================================================
