------------------------- MODULE ForgeTriggers_proofs -------------------------
(***************************************************************************)
(* Proofs about ForgeTriggers: its inductive invariant, for any timers,     *)
(* devices and length of the history.                                       *)
(***************************************************************************)
EXTENDS ForgeTriggers, TLAPS

JobStep == (\E op \in {"start", "stop", "scope"} : Enqueue(op)) \/ Run \/ Finish

TimerInv ==
  /\ TimersFireOnce
  /\ firing \subseteq due /\ schedule \cap firing = {}
  /\ main \in {"boot", "timers"} =>
       timerAt = "off" /\ schedule = {} /\ firing = {} /\ \A t \in Timers : timerStarts[t] = 0
  /\ timerAt = "scan" => firing = {}
  /\ timerAt \in {"off", "done"} => schedule = {} /\ firing = {}

LEMMA Parts == IInv <=> TypeOK /\ QueueInv /\ DevicesStartOnce /\ TimerInv
BY DEF IInv, TimerInv

-----------------------------------------------------------------------------
\* Each part depends on its own variables only.
LEMMA QueueFrame == ASSUME QueueInv, UNCHANGED jobVars PROVE QueueInv'
BY DEF QueueInv, jobVars, Finished

LEMMA DeviceFrame ==
  ASSUME DevicesStartOnce, UNCHANGED <<activated, deviceStarts>> PROVE DevicesStartOnce'
BY DEF DevicesStartOnce

LEMMA TimerFrame ==
  ASSUME TimerInv, UNCHANGED timerVars, main' = main \/ main = "boot" \/ main' = "reactor"
  PROVE TimerInv'
BY DEF TimerInv, TimersFireOnce, timerVars

LEMMA InitInv == Init => IInv
<1>1. ASSUME Init PROVE TypeOK
  BY <1>1, TriggerAssumption DEF Init, TypeOK
<1>2. ASSUME Init PROVE QueueInv
  <2>1. counter = 1 /\ active = <<>> /\ history = <<>> /\ call = Idle
    BY <1>2 DEF Init
  <2>2. Len(<<>>) = 0 /\ DOMAIN <<>> = {}
    OBVIOUS
  <2>3. Finished = 0
    <3>1. Len(active) = 0
      BY <2>1, <2>2
    <3>2. counter = 1
      BY <2>1
    <3> QED
      BY <3>1, <3>2 DEF Finished
  <2> QED
    BY <2>1, <2>2, <2>3, TriggerAssumption DEF QueueInv
<1>3. ASSUME Init PROVE DevicesStartOnce /\ TimerInv
  BY <1>3 DEF Init, DevicesStartOnce, TimerInv, TimersFireOnce
<1> QED
  BY <1>1, <1>2, <1>3, Parts

-----------------------------------------------------------------------------
(***************************************************************************)
(* Devices.                                                                 *)
(***************************************************************************)
\* Setting the flag and starting the service under one hold of the mutex keeps them together.
LEMMA ActivateOnce ==
  ASSUME TypeOK, DevicesStartOnce, NEW D \in SUBSET Devices, Activate(D)
  PROVE /\ activated' \subseteq Devices /\ deviceStarts' \in [Devices -> Nat]
        /\ DevicesStartOnce'
BY DEF TypeOK, DevicesStartOnce, Activate

LEMMA ActivateReadyOnce ==
  ASSUME TypeOK, DevicesStartOnce, ActivateReady \/ UNCHANGED <<activated, deviceStarts>>
  PROVE /\ activated' \subseteq Devices /\ deviceStarts' \in [Devices -> Nat]
        /\ DevicesStartOnce'
<1>1. CASE UNCHANGED <<activated, deviceStarts>>
  BY <1>1, DeviceFrame DEF TypeOK
<1>2. CASE ActivateReady
  <2>1. PICK D \in SUBSET Devices : Activate(D)
    BY <1>2 DEF ActivateReady, PendingDevices
  <2> QED
    BY <2>1, ActivateOnce
<1> QED
  BY <1>1, <1>2

-----------------------------------------------------------------------------
(***************************************************************************)
(* The main thread and the world.                                           *)
(***************************************************************************)
LEMMA BootInv == ASSUME IInv, Boot PROVE IInv'
<1>1. TypeOK'
  BY ActivateReadyOnce DEF IInv, TypeOK, Boot, jobVars, watchVars
<1>2. QueueInv' /\ DevicesStartOnce' /\ TimerInv'
  BY QueueFrame, TimerFrame, ActivateReadyOnce, Parts DEF Boot, timerVars
<1> QED
  BY <1>1, <1>2, Parts DEF TimerInv, IInv

LEMMA SpawnSchedulerInv == ASSUME IInv, SpawnScheduler PROVE IInv'
<1>1. TypeOK'
  BY DEF IInv, TypeOK, SpawnScheduler, jobVars, watchVars, deviceVars
<1>2. QueueInv' /\ DevicesStartOnce'
  BY QueueFrame, DeviceFrame DEF IInv, SpawnScheduler, deviceVars
<1>3. TimerInv'
  BY Parts DEF TimerInv, TimersFireOnce, SpawnScheduler, TypeOK
<1> QED
  BY <1>1, <1>2, <1>3 DEF TimerInv, IInv

LEMMA SpawnWatchersInv == ASSUME IInv, SpawnWatchers PROVE IInv'
<1>1. TypeOK'
  BY DEF IInv, TypeOK, SpawnWatchers, jobVars, timerVars, PendingDevices
<1>2. QueueInv' /\ DevicesStartOnce' /\ TimerInv'
  BY QueueFrame, DeviceFrame, TimerFrame, Parts DEF SpawnWatchers
<1> QED
  BY <1>1, <1>2 DEF TimerInv, IInv

LEMMA ActivateTargetInv == ASSUME IInv, ActivateTarget PROVE IInv'
<1>1. TypeOK'
  BY ActivateReadyOnce DEF IInv, TypeOK, ActivateTarget, jobVars, watchVars
<1>2. QueueInv' /\ DevicesStartOnce' /\ TimerInv'
  BY QueueFrame, TimerFrame, ActivateReadyOnce, Parts DEF ActivateTarget, timerVars
<1> QED
  BY <1>1, <1>2 DEF TimerInv, IInv

LEMMA WorldInv ==
  ASSUME IInv, NEW d \in Devices, Appear(d) \/ Vanish(d) PROVE IInv'
<1>1. TypeOK'
  BY DEF IInv, TypeOK, Appear, Vanish, jobVars, timerVars, watchVars
<1>2. QueueInv' /\ DevicesStartOnce' /\ TimerInv'
  BY QueueFrame, DeviceFrame, TimerFrame, Parts DEF Appear, Vanish
<1> QED
  BY <1>1, <1>2 DEF TimerInv, IInv

-----------------------------------------------------------------------------
(***************************************************************************)
(* Jobs.                                                                    *)
(***************************************************************************)
LEMMA EnqueueInv ==
  ASSUME IInv, NEW op \in {"start", "stop", "scope"}, Enqueue(op) PROVE IInv'
<1>1. active = <<>> /\ active' = <<counter>> /\ counter \in 1..MaxJobs
  BY TriggerAssumption DEF IInv, TypeOK, QueueInv, Enqueue
<1>2. TypeOK'
  BY <1>1, TriggerAssumption
  DEF IInv, TypeOK, Enqueue, Calls, Results, timerVars, deviceVars, watchVars
<1>3. Finished' = Finished
  BY <1>1 DEF Finished, Enqueue
<1>4. call' # Idle /\ call'.id = counter
  BY DEF Enqueue, Idle
<1>5. QueueInv'
  BY <1>1, <1>3, <1>4 DEF IInv, QueueInv, Enqueue
<1>6. DevicesStartOnce' /\ TimerInv'
  BY DeviceFrame, TimerFrame, Parts DEF Enqueue, deviceVars
<1> QED
  BY <1>2, <1>5, <1>6 DEF TimerInv, IInv

LEMMA RunInv == ASSUME IInv, Run PROVE IInv'
<1>1. call \in Calls
  BY DEF IInv, TypeOK, Run
<1>2. call' \in Calls /\ call'.id = call.id /\ call' # Idle
  BY <1>1 DEF Run, Calls, Results, Idle
<1>3. TypeOK'
  BY <1>2 DEF IInv, TypeOK, Run, timerVars, deviceVars, watchVars
<1>4. QueueInv'
  BY <1>2 DEF IInv, QueueInv, Run, Finished
<1>5. DevicesStartOnce' /\ TimerInv'
  BY DeviceFrame, TimerFrame, Parts DEF Run, deviceVars
<1> QED
  BY <1>3, <1>4, <1>5 DEF TimerInv, IInv

\* Dropping the oldest of a history that is one too long.
LEMMA LatestHistory ==
  ASSUME NEW S, NEW h \in Seq(S), NEW e \in S, Len(h) <= MaxHistory
  PROVE /\ Latest(Append(h, e)) \in Seq(S)
        /\ Len(Latest(Append(h, e))) = IF Len(h) < MaxHistory THEN Len(h) + 1 ELSE MaxHistory
        /\ \A i \in 1..Len(Latest(Append(h, e))) :
             Latest(Append(h, e))[i] =
               IF Len(h) < MaxHistory THEN (IF i = Len(h) + 1 THEN e ELSE h[i])
               ELSE (IF i = MaxHistory THEN e ELSE h[i + 1])
<1> DEFINE a == Append(h, e)
<1>1. a \in Seq(S) /\ Len(a) = Len(h) + 1 /\ a[Len(h) + 1] = e /\ \A i \in 1..Len(h) : a[i] = h[i]
  OBVIOUS
<1>2. Len(h) \in Nat /\ MaxHistory \in Nat
  BY TriggerAssumption
<1>3. CASE Len(h) < MaxHistory
  <2>1. Latest(a) = a
    BY <1>1, <1>2, <1>3 DEF Latest
  <2> QED
    BY <1>1, <1>2, <1>3, <2>1
<1>4. CASE Len(h) = MaxHistory
  <2>1. Latest(a) = Tail(a)
    BY <1>1, <1>2, <1>4 DEF Latest
  <2>2. Tail(a) \in Seq(S) /\ Len(Tail(a)) = Len(h) /\ \A i \in 1..Len(h) : Tail(a)[i] = a[i + 1]
    BY <1>1, <1>2
  <2> QED
    BY <1>1, <1>2, <1>4, <2>1, <2>2
<1> QED
  BY <1>2, <1>3, <1>4

LEMMA FinishInv == ASSUME IInv, Finish PROVE IInv'
<1> DEFINE e == [id |-> call.id, result |-> call.result]
           Entries == [id : 1..MaxJobs, result : Results]
<1>1. call \in Calls /\ call # Idle /\ call' = Idle
  BY DEF IInv, TypeOK, Finish
<1>2. active = <<call.id>> /\ call.id = counter - 1 /\ counter \in Nat
  BY <1>1, TriggerAssumption DEF IInv, TypeOK, QueueInv
<1>3. active' = <<>> /\ history' = Latest(Append(history, e))
  <2>1. DOMAIN active = {1} /\ active[1] = call.id
    BY <1>2
  <2>2. history' = Latest(Append(history, e)) /\ active' = SubSeq(active, 1, 0) \o SubSeq(active, 2, 1)
    BY <1>2, <2>1 DEF Finish
  <2> QED
    BY <1>2, <2>2
<1>4. e \in Entries /\ history \in Seq(Entries)
  BY <1>1 DEF IInv, TypeOK, Calls
<1>5. Finished \in Nat /\ Finished' = Finished + 1 /\ Finished = counter - 2
  BY <1>2, <1>3, TriggerAssumption DEF Finished, Finish, IInv, TypeOK
<1>6. Len(history) <= MaxHistory /\ Len(history) \in Nat /\ MaxHistory \in Nat \ {0}
  BY <1>4, <1>5, TriggerAssumption DEF IInv, QueueInv
<1>7. /\ history' \in Seq(Entries)
      /\ Len(history') = IF Len(history) < MaxHistory THEN Len(history) + 1 ELSE MaxHistory
      /\ \A i \in 1..Len(history') :
           history'[i] = IF Len(history) < MaxHistory
                         THEN (IF i = Len(history) + 1 THEN e ELSE history[i])
                         ELSE (IF i = MaxHistory THEN e ELSE history[i + 1])
  <2> HIDE DEF e, Entries
  <2>1. /\ Latest(Append(history, e)) \in Seq(Entries)
        /\ Len(Latest(Append(history, e)))
             = IF Len(history) < MaxHistory THEN Len(history) + 1 ELSE MaxHistory
        /\ \A i \in 1..Len(Latest(Append(history, e))) :
             Latest(Append(history, e))[i] =
               IF Len(history) < MaxHistory THEN (IF i = Len(history) + 1 THEN e ELSE history[i])
               ELSE (IF i = MaxHistory THEN e ELSE history[i + 1])
    BY <1>4, <1>6, LatestHistory
  <2> QED
    BY <1>3, <2>1
<1>8. Len(history') = IF Finished' < MaxHistory THEN Finished' ELSE MaxHistory
  BY <1>5, <1>6, <1>7 DEF IInv, QueueInv
<1>9. ASSUME NEW i \in DOMAIN history' PROVE history'[i].id = Finished' - Len(history') + i
  <2>1. i \in 1..Len(history') /\ Len(history') \in Nat /\ DOMAIN history = 1..Len(history)
    BY <1>4, <1>7
  <2>2. \A j \in 1..Len(history) : history[j].id = Finished - Len(history) + j
    BY <2>1 DEF IInv, QueueInv
  <2>3. Len(history) = IF Finished < MaxHistory THEN Finished ELSE MaxHistory
    BY DEF IInv, QueueInv
  <2>4. e.id = Finished'
    BY <1>2, <1>5
  <2>5. CASE Len(history) < MaxHistory
    <3>1. Len(history) = Finished /\ Len(history') = Finished'
      BY <1>5, <1>7, <2>3, <2>5
    <3>2. CASE i = Len(history) + 1
      <4>1. history'[i] = e
        BY <1>6, <1>7, <2>1, <2>5, <3>2
      <4>2. Finished' - Len(history') + i = Finished'
        BY <1>5, <3>1, <3>2
      <4> QED
        BY <2>4, <4>1, <4>2
    <3>3. CASE i # Len(history) + 1
      <4>1. i \in 1..Len(history) /\ history'[i] = history[i]
        BY <1>6, <1>7, <2>1, <2>5, <3>3
      <4>2. Finished' - Len(history') + i = i /\ Finished - Len(history) + i = i
        BY <1>5, <2>1, <3>1
      <4> QED
        BY <2>2, <4>1, <4>2
    <3> QED
      BY <3>2, <3>3
  <2>6. CASE Len(history) = MaxHistory
    <3>1. Len(history') = MaxHistory
      BY <1>6, <1>7, <2>6
    <3>2. CASE i = MaxHistory
      BY <1>5, <1>6, <1>7, <2>1, <2>4, <2>6, <3>1, <3>2
    <3>3. CASE i # MaxHistory
      <4>1. i + 1 \in 1..Len(history) /\ history'[i] = history[i + 1]
        BY <1>6, <1>7, <2>1, <2>6, <3>1, <3>3
      <4>2. history[i + 1].id = Finished - Len(history) + (i + 1)
        BY <2>2, <4>1
      <4> QED
        BY <1>5, <1>6, <2>1, <2>6, <3>1, <4>1, <4>2
    <3> QED
      BY <3>2, <3>3
  <2> QED
    BY <1>6, <2>5, <2>6
<1>10. QueueInv'
  BY <1>1, <1>3, <1>8, <1>9 DEF QueueInv
<1>11. TypeOK'
  BY <1>1, <1>3, <1>7 DEF IInv, TypeOK, Finish, timerVars, deviceVars, watchVars
<1>12. DevicesStartOnce' /\ TimerInv'
  BY DeviceFrame, TimerFrame, Parts DEF Finish, deviceVars
<1> QED
  BY <1>10, <1>11, <1>12 DEF TimerInv, IInv

-----------------------------------------------------------------------------
(***************************************************************************)
(* The timer thread.                                                        *)
(***************************************************************************)
TimerStep == (\E t \in Timers : TimePasses(t)) \/ TimerThread

LEMMA TimerStepInv == ASSUME IInv, TimerStep PROVE IInv'
<1>1. QueueInv' /\ DevicesStartOnce'
  BY QueueFrame, DeviceFrame
  DEF IInv, TimerStep, TimerThread, TimePasses, Scan, Fire, ScanEnds, deviceVars
<1>2. ASSUME NEW t \in Timers, TimePasses(t) PROVE TypeOK' /\ TimerInv'
  BY <1>2, Parts DEF TypeOK, TimerInv, TimersFireOnce, TimePasses, jobVars, deviceVars, watchVars
<1>3. CASE Scan
  <2>1. TypeOK'
    BY <1>3 DEF IInv, TypeOK, Scan, jobVars, deviceVars, watchVars
  <2>2. main \notin {"boot", "timers"}
    BY <1>3, Parts DEF TimerInv, Scan
  <2>3. TimerInv'
    BY <1>3, <2>2, Parts DEF TimerInv, TimersFireOnce, Scan
  <2> QED
    BY <1>1, <2>1, <2>3, Parts DEF TimerInv, IInv
<1>4. ASSUME NEW t \in Timers, Fire(t) PROVE TypeOK' /\ TimerInv'
  <2>1. TypeOK'
    BY <1>4 DEF IInv, TypeOK, Fire, TimerForService, jobVars, deviceVars, watchVars
  <2>2. timerStarts[t] = 0 /\ t \in due /\ t \notin schedule /\ t \notin firing'
    BY <1>4, Parts DEF TypeOK, TimerInv, TimersFireOnce, Fire
  <2>3. timerStarts' = [timerStarts EXCEPT ![t] = 1] /\ timerStarts \in [Timers -> Nat]
    BY <1>4, <2>2 DEF IInv, TypeOK, Fire
  <2>4. main \notin {"boot", "timers"}
    BY <1>4, Parts DEF TimerInv, Fire
  <2>5. TimerInv'
    BY <1>4, <2>2, <2>3, <2>4, Parts DEF TimerInv, TimersFireOnce, Fire
  <2> QED
    BY <2>1, <2>5
<1>5. CASE ScanEnds
  <2>1. TypeOK'
    BY <1>5 DEF IInv, TypeOK, ScanEnds, jobVars, deviceVars, watchVars
  <2>2. main \notin {"boot", "timers"}
    BY <1>5, Parts DEF TimerInv, ScanEnds
  <2>3. TimerInv'
    BY <1>5, <2>2, Parts DEF TimerInv, TimersFireOnce, ScanEnds
  <2> QED
    BY <1>1, <2>1, <2>3, Parts DEF TimerInv, IInv
<1> QED
  BY <1>1, <1>2, <1>3, <1>4, <1>5, Parts DEF TimerInv, IInv, TimerStep, TimerThread

-----------------------------------------------------------------------------
(***************************************************************************)
(* The watcher.                                                             *)
(***************************************************************************)
LEMMA WatcherInv == ASSUME IInv, Watcher PROVE IInv'
<1>1. QueueInv' /\ TimerInv'
  BY QueueFrame, TimerFrame, Parts
  DEF Watcher, WatcherStarts, Look, ActivateFound, LoopAgain, TakePending
<1>2. CASE ActivateFound
  <2>1. found \in SUBSET Devices
    BY DEF IInv, TypeOK
  <2>2. activated' \subseteq Devices /\ deviceStarts' \in [Devices -> Nat] /\ DevicesStartOnce'
    BY <1>2, <2>1, ActivateOnce DEF IInv, ActivateFound
  <2>3. TypeOK'
    BY <1>2, <2>2 DEF IInv, TypeOK, ActivateFound, jobVars, timerVars
  <2> QED
    BY <1>1, <2>2, <2>3 DEF TimerInv, IInv
<1>3. CASE WatcherStarts \/ (\E d \in Devices : Look(d)) \/ LoopAgain \/ TakePending
  <2>1. DevicesStartOnce'
    BY <1>3, DeviceFrame DEF IInv, WatcherStarts, Look, LoopAgain, TakePending
  <2>2. TypeOK'
    BY <1>3
    DEF IInv, TypeOK, WatcherStarts, Look, LoopAgain, TakePending, PendingDevices, jobVars, timerVars
  <2> QED
    BY <1>1, <2>1, <2>2 DEF TimerInv, IInv
<1> QED
  BY <1>2, <1>3 DEF Watcher

-----------------------------------------------------------------------------
LEMMA StepInv == IInv /\ [Next]_vars => IInv'
<1> SUFFICES ASSUME IInv, [Next]_vars PROVE IInv'
  OBVIOUS
<1>1. CASE UNCHANGED vars
  BY <1>1 DEF IInv, TypeOK, QueueInv, DevicesStartOnce, TimersFireOnce, Finished, vars,
              jobVars, timerVars, deviceVars, watchVars
<1>2. CASE Next
  BY <1>2, BootInv, SpawnSchedulerInv, SpawnWatchersInv, ActivateTargetInv, WorldInv, EnqueueInv,
     RunInv, FinishInv, TimerStepInv, WatcherInv
  DEF Next, Main, TimerStep
<1> QED
  BY <1>1, <1>2

\* The invariant holds for any timers, devices, jobs and length of the history.
THEOREM Inductive == Spec => []IInv
BY InitInv, StepInv, PTL DEF Spec

\* Job, call and history agree at every step.
THEOREM QueueIsTrue == Spec => []QueueInv
BY Inductive, PTL DEF IInv

\* No interleaving of boot, activate_target and watcher starts a device's service twice.
THEOREM DevicesAreStartedOnce == Spec => []DevicesStartOnce
BY Inductive, PTL DEF IInv

\* No timer fires twice or early.
THEOREM TimersAreFiredOnce == Spec => []TimersFireOnce
BY Inductive, PTL DEF IInv
=============================================================================
