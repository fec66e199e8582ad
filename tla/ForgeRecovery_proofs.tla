------------------------ MODULE ForgeRecovery_proofs ------------------------
(***************************************************************************)
(* Proofs about ForgeRecovery: for every machine, limit, counter width and  *)
(* set of machine ids, over any number of power cycles.                     *)
(***************************************************************************)
EXTENDS ForgeRecovery, TLAPS

USE DEF vars, disk, early, late, history, Unhooked, Hooked, Facilities, Targets, Torn

\* The chains of targets are sequences of targets, and so is what is left of one.
LEMMA ChainTypes ==
  /\ <<>> \in Seq(Targets)
  /\ \A t \in Targets : Chain(t) \in Seq(Targets)
  /\ \A c \in Seq(Targets) : c # <<>> => Tail(c) \in Seq(Targets)
BY DEF Chain

\* The variables that are not flags keep their types.
LEMMA DataStep ==
  ASSUME DataTypes, IdInv, [Next]_vars
  PROVE  DataTypes'
<1>1. CASE PowerLoss
  BY <1>1, ChainTypes, RecoveryAssumption DEF DataTypes, PowerLoss, Succ
<1>2. CASE FillId
  BY <1>2 DEF DataTypes, FillId, IdInv
<1>3. CASE SetUpLayout
  BY <1>3 DEF DataTypes, SetUpLayout, FreshIds
<1>4. CASE CountAttempt
  BY <1>4, RecoveryAssumption DEF DataTypes, CountAttempt, Succ
<1>5. CASE OverLimit
  BY <1>5, ChainTypes DEF DataTypes, OverLimit, DisableForge
<1>6. CASE UnderLimit
  BY <1>6, ChainTypes, RecoveryAssumption DEF DataTypes, UnderLimit, Host
<1>7. CASE TargetFails
  BY <1>7, ChainTypes DEF DataTypes, TargetFails
<1>8. CASE BootStep
  BY <1>8 DEF DataTypes, BootStep, EarlyBoot, StartBus, FreshIds
<1>9. CASE MountFilesystems
  BY <1>9 DEF DataTypes, MountFilesystems
<1>10. CASE MarkSuccess
  BY <1>10, RecoveryAssumption DEF DataTypes, MarkSuccess
<1>11. CASE PowerOn
  BY <1>11 DEF DataTypes, PowerOn
<1>12. CASE EnableForge
  BY <1>12 DEF DataTypes, EnableForge
<1>13. CASE LoadPolicy
  BY <1>13 DEF DataTypes, LoadPolicy
<1>14. CASE NoTransition
  BY <1>14 DEF DataTypes, NoTransition
<1>15. CASE Transition
  BY <1>15 DEF DataTypes, Transition
<1>16. CASE TransitionFails
  BY <1>16 DEF DataTypes, TransitionFails
<1>17. CASE ReExec
  BY <1>17 DEF DataTypes, ReExec
<1>18. CASE ReExecFails
  BY <1>18 DEF DataTypes, ReExecFails
<1>19. CASE CopyId
  BY <1>19 DEF DataTypes, CopyId
<1>20. CASE SetUpDevices
  BY <1>20 DEF DataTypes, SetUpDevices
<1>21. CASE WriteAttempt
  BY <1>21 DEF DataTypes, WriteAttempt
<1>22. CASE BootEnds
  BY <1>22 DEF DataTypes, BootEnds
<1>23. CASE BootSucceeds
  BY <1>23 DEF DataTypes, BootSucceeds
<1>24. CASE BootFails
  BY <1>24 DEF DataTypes, BootFails
<1>25. CASE BusChanges
  BY <1>25 DEF DataTypes, BusChanges, StartBus
<1>26. CASE DelayPasses
  BY <1>26 DEF DataTypes, DelayPasses
<1>27. CASE HandOff
  BY <1>27 DEF DataTypes, HandOff, DisableForge
<1>28. CASE Panic
  BY <1>28 DEF DataTypes, Panic, DisableForge
<1>29. CASE UNCHANGED vars
  BY <1>29 DEF DataTypes
<1> QED BY <1>1, <1>2, <1>3, <1>4, <1>5, <1>6, <1>7, <1>8, <1>9, <1>10, <1>11, <1>12, <1>13,
    <1>14, <1>15, <1>16, <1>17, <1>18, <1>19, <1>20, <1>21, <1>22, <1>23, <1>24, <1>25, <1>26,
    <1>27, <1>28, <1>29
    DEF Next, EarlySteps, ReExecution, CountSteps, VerdictSteps, HandoffSteps

\* The flags keep their types.
LEMMA FlagStep ==
  ASSUME DataTypes, FlagTypes, [Next]_vars
  PROVE  FlagTypes'
<1>1. CASE BootFails
  <2>1. host.handoff \in BOOLEAN
    BY RecoveryAssumption DEF DataTypes, Host
  <2> QED BY <1>1, <2>1 DEF FlagTypes, BootFails
<1>2. CASE MountFilesystems
  BY <1>2 DEF FlagTypes, MountFilesystems
<1>3. CASE PowerOn \/ PowerLoss \/ EnableForge \/ LoadPolicy \/ NoTransition \/ Transition \/
          TransitionFails
  BY <1>3 DEF FlagTypes, PowerOn, PowerLoss, EnableForge, LoadPolicy, NoTransition, Transition,
     TransitionFails
<1>4. CASE ReExec \/ ReExecFails \/ SetUpLayout \/ CopyId \/ FillId \/ SetUpDevices \/
          CountAttempt
  BY <1>4 DEF FlagTypes, ReExec, ReExecFails, SetUpLayout, CopyId, FillId, SetUpDevices,
     CountAttempt
<1>5. CASE WriteAttempt \/ OverLimit \/ UnderLimit \/ BootStep \/ BootEnds \/ TargetFails \/
          BootSucceeds
  BY <1>5 DEF FlagTypes, WriteAttempt, OverLimit, UnderLimit, BootStep, BootEnds, TargetFails,
     BootSucceeds, EarlyBoot, StartBus
<1>6. CASE MarkSuccess \/ BusChanges \/ DelayPasses \/ HandOff \/ Panic
  BY <1>6 DEF FlagTypes, MarkSuccess, BusChanges, DelayPasses, HandOff, Panic, EarlyBoot, StartBus
<1>7. CASE UNCHANGED vars
  BY <1>7 DEF FlagTypes
<1> QED BY <1>1, <1>2, <1>3, <1>4, <1>5, <1>6, <1>7
    DEF Next, EarlySteps, ReExecution, CountSteps, VerdictSteps, HandoffSteps

\* The counter on disk stays the history of the boots.
LEMMA CounterStep ==
  ASSUME TypeOK, CounterInv, [Next]_vars
  PROVE  CounterInv'
<1>1. CASE PowerLoss
  BY <1>1, RecoveryAssumption DEF CounterInv, PowerLoss, Succ
<1>2. CASE MountFilesystems
  BY <1>2 DEF CounterInv, MountFilesystems, TypeOK, FlagTypes
<1>3. CASE CountAttempt
  BY <1>3 DEF CounterInv, CountAttempt, TypeOK, DataTypes, Succ
<1>4. CASE WriteAttempt
  BY <1>4 DEF CounterInv, WriteAttempt, TypeOK, DataTypes
<1>5. CASE MarkSuccess
  BY <1>5 DEF CounterInv, MarkSuccess, TypeOK, DataTypes, FlagTypes
<1>6. CASE BootSucceeds
  BY <1>6 DEF CounterInv, BootSucceeds
<1>7. CASE PowerOn \/ EnableForge \/ LoadPolicy \/ NoTransition \/ Transition \/ TransitionFails
          \/ ReExec
  BY <1>7 DEF CounterInv, PowerOn, EnableForge, LoadPolicy, NoTransition, Transition,
     TransitionFails, ReExec
<1>8. CASE ReExecFails \/ SetUpLayout \/ CopyId \/ FillId \/ SetUpDevices \/ OverLimit \/
          UnderLimit
  BY <1>8 DEF CounterInv, ReExecFails, SetUpLayout, CopyId, FillId, SetUpDevices, OverLimit,
     UnderLimit, DisableForge
<1>9. CASE BootStep \/ BootEnds \/ TargetFails \/ BootFails \/ BusChanges \/ DelayPasses \/
          HandOff
  BY <1>9 DEF CounterInv, BootStep, BootEnds, TargetFails, BootFails, BusChanges, DelayPasses,
     HandOff, StartBus, EarlyBoot, DisableForge
<1>10. CASE Panic
  BY <1>10 DEF CounterInv, Panic, DisableForge
<1>11. CASE UNCHANGED vars
  BY <1>11 DEF CounterInv
<1> QED BY <1>1, <1>2, <1>3, <1>4, <1>5, <1>6, <1>7, <1>8, <1>9, <1>10, <1>11
    DEF Next, EarlySteps, ReExecution, CountSteps, VerdictSteps, HandoffSteps

\* The layout for services stays complete.
LEMMA LayoutStep ==
  ASSUME TypeOK, LayoutInv, [Next]_vars
  PROVE  LayoutInv'
<1>1. CASE SetUpLayout
  BY <1>1 DEF LayoutInv, Writable, SetUpLayout
<1>2. CASE SetUpDevices
  BY <1>2 DEF LayoutInv, Writable, SetUpDevices
<1>3. CASE BootStep
  BY <1>3 DEF LayoutInv, Writable, BootStep, EarlyBoot, StartBus
<1>4. CASE MountFilesystems
  BY <1>4 DEF LayoutInv, Writable, MountFilesystems
<1>5. CASE PowerOn \/ PowerLoss \/ EnableForge \/ LoadPolicy \/ NoTransition \/ Transition \/
          TransitionFails
  BY <1>5 DEF LayoutInv, Writable, PowerOn, PowerLoss, EnableForge, LoadPolicy, NoTransition,
     Transition, TransitionFails
<1>6. CASE ReExec \/ ReExecFails \/ CopyId \/ FillId \/ CountAttempt \/ WriteAttempt \/ OverLimit
  BY <1>6 DEF LayoutInv, Writable, ReExec, ReExecFails, CopyId, FillId, CountAttempt,
     WriteAttempt, OverLimit, DisableForge
<1>7. CASE UnderLimit \/ BootEnds \/ TargetFails \/ BootSucceeds \/ MarkSuccess \/ BootFails \/
          BusChanges
  BY <1>7 DEF LayoutInv, Writable, UnderLimit, BootEnds, TargetFails, BootSucceeds, MarkSuccess,
     BootFails, BusChanges, StartBus
<1>8. CASE DelayPasses \/ HandOff \/ Panic
  BY <1>8 DEF LayoutInv, Writable, DelayPasses, HandOff, Panic, DisableForge
<1>9. CASE UNCHANGED vars
  BY <1>9 DEF LayoutInv, Writable
<1> QED BY <1>1, <1>2, <1>3, <1>4, <1>5, <1>6, <1>7, <1>8, <1>9
    DEF Next, EarlySteps, ReExecution, CountSteps, VerdictSteps, HandoffSteps

\* Machine ids stay in agreement.
LEMMA IdStep ==
  ASSUME TypeOK, IdInv, [Next]_vars
  PROVE  IdInv'
<1>1. CASE SetUpLayout
  BY <1>1, RecoveryAssumption DEF IdInv, MachineIdsAgree, SetUpLayout, FreshIds, DbusIdExists,
     EtcIdExists, TypeOK, DataTypes
<1>2. CASE CopyId
  BY <1>2, RecoveryAssumption DEF IdInv, MachineIdsAgree, CopyId, EtcIdExists, DbusIdExists,
     TypeOK, DataTypes
<1>3. CASE FillId
  BY <1>3, RecoveryAssumption DEF IdInv, MachineIdsAgree, FillId
<1>4. CASE BootStep
  BY <1>4, RecoveryAssumption DEF IdInv, MachineIdsAgree, BootStep, EarlyBoot, StartBus, FreshIds
<1>5. CASE PowerLoss
  BY <1>5 DEF IdInv, MachineIdsAgree, PowerLoss
<1>6. CASE PowerOn \/ EnableForge \/ MountFilesystems \/ LoadPolicy \/ NoTransition \/ Transition
          \/ TransitionFails
  BY <1>6 DEF IdInv, MachineIdsAgree, PowerOn, EnableForge, MountFilesystems, LoadPolicy,
     NoTransition, Transition, TransitionFails
<1>7. CASE ReExec \/ ReExecFails \/ SetUpDevices \/ CountAttempt \/ WriteAttempt \/ OverLimit \/
          UnderLimit
  BY <1>7 DEF IdInv, MachineIdsAgree, ReExec, ReExecFails, SetUpDevices, CountAttempt,
     WriteAttempt, OverLimit, UnderLimit, DisableForge
<1>8. CASE BootEnds \/ TargetFails \/ BootSucceeds \/ MarkSuccess \/ BootFails \/ BusChanges \/
          DelayPasses
  BY <1>8 DEF IdInv, MachineIdsAgree, BootEnds, TargetFails, BootSucceeds, MarkSuccess, BootFails,
     BusChanges, DelayPasses, StartBus
<1>9. CASE HandOff \/ Panic
  BY <1>9 DEF IdInv, MachineIdsAgree, HandOff, Panic, DisableForge
<1>10. CASE UNCHANGED vars
  BY <1>10 DEF IdInv, MachineIdsAgree
<1> QED BY <1>1, <1>2, <1>3, <1>4, <1>5, <1>6, <1>7, <1>8, <1>9, <1>10
    DEF Next, EarlySteps, ReExecution, CountSteps, VerdictSteps, HandoffSteps

-----------------------------------------------------------------------------
(* Theorems.                                                               *)

\* The inductive invariant: types, the counter against the history of the boots, the layout
\* and the machine ids.
THEOREM Inductive == Spec => []IInv
<1>1. Init => IInv
  <2>1. ASSUME Init PROVE TypeOK
    <3>1. DataTypes
      BY <2>1, ChainTypes, RecoveryAssumption DEF Init, DataTypes
    <3>2. FlagTypes
      BY <2>1 DEF Init, FlagTypes
    <3> QED BY <3>1, <3>2 DEF TypeOK
  <2>2. ASSUME Init PROVE CounterInv /\ LayoutInv /\ IdInv
    BY <2>2, RecoveryAssumption DEF Init, CounterInv, LayoutInv, IdInv, MachineIdsAgree
  <2> QED BY <2>1, <2>2 DEF IInv
<1>2. IInv /\ [Next]_vars => IInv'
  BY DataStep, FlagStep, CounterStep, LayoutStep, IdStep DEF IInv, TypeOK
<1> QED BY <1>1, <1>2, PTL DEF Spec

\* Every variable keeps its type, the saturating counter included.
THEOREM TypeCorrect == Spec => []TypeOK
<1>1. IInv => TypeOK
  BY DEF IInv
<1> QED BY <1>1, Inductive, PTL

\* Services are never started on a layout that a mount hid, or beside a daemon of the initramfs.
THEOREM LayoutIsFound == Spec => []ServicesFindTheirLayout
<1>1. IInv => ServicesFindTheirLayout
  BY DEF IInv, LayoutInv, ServicesFindTheirLayout
<1> QED BY <1>1, Inductive, PTL

\* Two generators and a copy that may be cut short never leave two machine ids.
THEOREM OneMachineId == Spec => []MachineIdsAgree
<1>1. IInv => MachineIdsAgree
  BY DEF IInv, IdInv
<1> QED BY <1>1, Inductive, PTL

\* The Forge gives up its target at exactly MaxBootAttempts recorded failures in a row, for any
\* limit and any width of the counter, wherever power was lost.
THEOREM LimitHolds == Spec => LimitIsExact
<1> DEFINE Exact ==
      pc = "limit" =>
        /\ pc' = "boot" /\ failed >= MaxBootAttempts => ~host.handoff /\ chain' = Chain("rescue")
        /\ pc' = "boot" /\ failed < MaxBootAttempts => chain' = Chain(host.target)
        /\ pc' = "handoff" /\ gaveUp' = "limit" => failed >= MaxBootAttempts
<1>1. ASSUME IInv, Next PROVE Exact
  <2> SUFFICES ASSUME pc = "limit" PROVE Exact
    OBVIOUS
  <2>1. TooMany <=> failed >= MaxBootAttempts
    BY <1>1, RecoveryAssumption DEF IInv, TypeOK, DataTypes, CounterInv, TooMany, Succ
  <2>2. CASE OverLimit
    BY <2>1, <2>2, RecoveryAssumption, <1>1 DEF OverLimit, IInv, TypeOK, DataTypes
  <2>3. CASE UnderLimit
    BY <2>1, <2>3, <1>1, RecoveryAssumption DEF UnderLimit, IInv, TypeOK, DataTypes
  <2>4. CASE PowerLoss \/ Panic
    BY <2>4, <1>1 DEF PowerLoss, Panic, IInv, TypeOK, DataTypes
  <2>5. CASE ~(OverLimit \/ UnderLimit \/ PowerLoss \/ Panic)
    BY <2>5, <1>1 DEF Next, PowerOn, EnableForge, EarlySteps, MountFilesystems, LoadPolicy,
       NoTransition, Transition, TransitionFails, ReExecution, ReExec, ReExecFails, SetUpLayout,
       CopyId, FillId, SetUpDevices, CountSteps, CountAttempt, WriteAttempt, BootStep,
       VerdictSteps, TargetFails, BootEnds, BootSucceeds, MarkSuccess, BootFails, BusChanges,
       HandoffSteps, DelayPasses, HandOff
  <2> QED BY <2>2, <2>3, <2>4, <2>5
<1>2. IInv /\ [Next]_vars => [Exact]_vars
  BY <1>1
<1> QED BY <1>2, Inductive, PTL DEF Spec, LimitIsExact
=============================================================================
