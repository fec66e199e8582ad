--------------------------- MODULE ForgeDag_proofs ---------------------------
(***************************************************************************)
(* Proofs about ForgeDag: for every set of units and unit files, whatever   *)
(* boots, failed resolutions and starts by name came before, the waves of a *)
(* boot respect the manifests and its starts respect the waves.             *)
(***************************************************************************)
EXTENDS ForgeDag, FiniteSetTheorems, WellFoundedInduction, TLAPS

-----------------------------------------------------------------------------
(* Edges.                                                                  *)

\* Reach returns units, and all the units it starts from.
LEMMA ReachContains ==
  ASSUME NEW S \in SUBSET Units, NEW edges
  PROVE  S \subseteq Reach(S, edges) /\ Reach(S, edges) \subseteq Units
BY DEF Reach

\* The units a unit waits for are active units.
LEMMA BeforeActive ==
  ASSUME NEW u \in Units, active \subseteq Units
  PROVE  Before(u) \subseteq active /\ Before(u) \subseteq Units
BY DEF Before

\* Kahn's count: a resolved unit that is ready has every unit it waits for in a wave.
LEMMA ReadyWaitsForNothing ==
  ASSUME IInv, Scheduling, NEW u \in Bootable
  PROVE  /\ u \in Ready => \A d \in Before(u) : d \in Bootable /\ level[d] > 0
         /\ u \in Unscheduled \ Ready =>
              \E d \in Before(u) : d \in Unscheduled \cup (active \ Bootable)
<1> DEFINE P == {d \in Bootable \ Unscheduled : u \in rdeps[d]}
<1>1. u \in Units /\ Bootable \subseteq active /\ active \subseteq Units
  BY DEF IInv, TypeOK, Bootable, OfKind
<1>2. deps[u] = Before(u) /\ \A d \in Units : u \in rdeps[d] <=> d \in deps[u]
  BY DEF IInv, GraphInv, Scheduling
<1>3. P = Before(u) \cap (Bootable \ Unscheduled)
  BY <1>1, <1>2, BeforeActive
<1>4. IsFiniteSet(Before(u)) /\ P \subseteq Before(u)
  BY <1>1, <1>3, BeforeActive, FS_Subset, DagAssumption
<1>5. IsFiniteSet(P) /\ Cardinality(P) \in Nat /\ Cardinality(Before(u)) \in Nat
      /\ Cardinality(P) <= Cardinality(Before(u))
  BY <1>4, FS_Subset, FS_CardinalityType
<1>6. CASE Before(u) \subseteq P
  <2>1. \A d \in Before(u) : d \in Bootable /\ level[d] > 0
    BY <1>1, <1>3, <1>6 DEF Unscheduled, IInv, TypeOK
  <2>2. P = Before(u)
    BY <1>4, <1>6
  <2>3. u \in Unscheduled => u \in Ready
    BY <1>2, <1>5, <2>2 DEF Ready
  <2> QED BY <2>1, <2>3
<1>7. CASE ~(Before(u) \subseteq P)
  <2>1. PICK d \in Before(u) : d \notin P
    BY <1>7
  <2>2. d \in Unscheduled \cup (active \ Bootable)
    BY <1>1, <1>3, <2>1, BeforeActive
  <2>3. Cardinality(P) # Cardinality(Before(u))
    BY <1>4, <2>1, FS_Subset
  <2>4. u \notin Ready
    BY <1>2, <1>5, <2>3 DEF Ready
  <2> QED BY <2>1, <2>2, <2>4
<1> QED BY <1>6, <1>7

-----------------------------------------------------------------------------
(* The invariant of a step.                                                *)

LEMMA InitIInv == Init => IInv
<1> SUFFICES ASSUME Init PROVE IInv
  OBVIOUS
<1>1. TypeOK
  BY DagAssumption DEF Init, TypeOK
<1>2. GraphInv /\ WaveInv /\ StartInv
  BY DEF Init, GraphInv, WaveInv, StartInv
<1> QED BY <1>1, <1>2 DEF IInv

\* What Boot establishes: an empty graph over active units that are all required.
LEMMA BootIInv ==
  ASSUME IInv, NEW t \in Units, NEW excluded \in Exclusions, Boot(t, excluded)
  PROVE  IInv'
<1>1. Closure(t) \subseteq Units
  BY ReachContains DEF Closure
<1>2. active' \subseteq Units /\ required' \subseteq Units /\ active' \subseteq required'
  BY <1>1, ReachContains DEF Boot
<1>3. TypeOK'
  BY <1>2 DEF Boot, IInv, TypeOK
<1>4. GraphInv'
  BY <1>2 DEF Boot, GraphInv, Bootable
<1>5. WaveInv'
  <2>1. level' = [u \in Units |-> 0] /\ wave' = 0 /\ pc' = "resolve"
    BY DEF Boot
  <2>2. Bootable' \subseteq Units
    BY DEF Bootable, OfKind
  <2> QED BY <2>1, <2>2 DEF WaveInv, Ordered
<1>6. StartInv'
  BY <1>2 DEF Boot, StartInv
<1> QED BY <1>3, <1>4, <1>5, <1>6 DEF IInv

LEMMA ResolveUnitIInv ==
  ASSUME IInv, NEW u \in Units, ResolveUnit(u)
  PROVE  IInv'
<1>1. TypeOK'
  <2>1. Before(u) \subseteq Units
    BY BeforeActive DEF IInv, TypeOK
  <2> QED BY <2>1 DEF ResolveUnit, IInv, TypeOK
<1>2. /\ Bootable' = Bootable /\ Startable' = Startable
      /\ \A v \in Units : Before(v)' = Before(v)
  BY DEF ResolveUnit, Bootable, Startable, OfKind, Is, Before, Ordering
<1>3. GraphInv'
  <2> SUFFICES ASSUME NEW v \in Bootable
               PROVE  IF v \in todo' THEN \A d \in Units : v \notin rdeps'[d]
                      ELSE /\ deps'[v] = Before(v)
                           /\ \A d \in Units : v \in rdeps'[d] <=> d \in deps'[v]
    BY <1>2 DEF ResolveUnit, GraphInv, Bootable, OfKind
  <2>1. v \in Units
    BY DEF Bootable, OfKind
  <2>2. IF v \in todo THEN \A d \in Units : v \notin rdeps[d]
        ELSE deps[v] = Before(v) /\ \A d \in Units : v \in rdeps[d] <=> d \in deps[v]
    BY DEF IInv, GraphInv, ResolveUnit
  <2>3. CASE v = u
    <3>1. v \notin todo' /\ v \in todo /\ deps'[v] = Before(v)
      BY <2>1, <2>3 DEF ResolveUnit, IInv, TypeOK
    <3>2. \A d \in Units : v \in rdeps'[d] <=> d \in Before(v)
      BY <2>2, <2>3, <3>1 DEF ResolveUnit
    <3> QED BY <3>1, <3>2
  <2>4. CASE v # u
    <3>1. (v \in todo' <=> v \in todo) /\ deps'[v] = deps[v]
      BY <2>1, <2>4 DEF ResolveUnit, IInv, TypeOK
    <3>2. \A d \in Units : v \in rdeps'[d] <=> v \in rdeps[d]
      BY <2>4 DEF ResolveUnit
    <3> QED BY <2>2, <3>1, <3>2
  <2> QED BY <2>3, <2>4
<1>4. WaveInv'
  BY <1>2 DEF ResolveUnit, IInv, WaveInv, Ordered, Bootable, OfKind
<1>5. StartInv'
  BY DEF ResolveUnit, IInv, StartInv
<1> QED BY <1>1, <1>3, <1>4, <1>5 DEF IInv

\* A target leaves the list of units to visit and nothing else happens: it is not bootable.
LEMMA SkipTargetIInv ==
  ASSUME IInv, NEW u \in Units, SkipTarget(u)
  PROVE  IInv'
<1>1. TypeOK'
  BY DEF SkipTarget, graphVars, IInv, TypeOK
<1>2. /\ Bootable' = Bootable /\ u \notin Bootable
      /\ \A v \in Units : Before(v)' = Before(v)
  BY DEF SkipTarget, graphVars, Bootable, OfKind, Is, Before, Ordering
<1>3. GraphInv'
  BY <1>2 DEF SkipTarget, graphVars, IInv, GraphInv, Bootable, OfKind
<1>4. WaveInv'
  BY <1>2 DEF SkipTarget, graphVars, IInv, WaveInv, Ordered, Bootable, OfKind
<1>5. StartInv'
  BY DEF SkipTarget, graphVars, IInv, StartInv
<1> QED BY <1>1, <1>3, <1>4, <1>5 DEF IInv

\* A boot that ends leaves what it likes: only the types matter at rest.
LEMMA IdleIInv ==
  ASSUME TypeOK', pc' = "idle", todo' = {}
  PROVE  IInv'
BY DEF IInv, GraphInv, WaveInv, StartInv

LEMMA BootEndsIInv ==
  ASSUME IInv
  PROVE  /\ \A t \in Units : BootRefused(t) => IInv'
         /\ \A u \in Units : ResolveFails(u) => IInv'
         /\ ScheduleFails => IInv'
         /\ TargetReached => IInv'
         /\ \A n \in Names : StartByName(n) => IInv'
<1>1. ASSUME NEW t \in Units, BootRefused(t) PROVE IInv'
  BY <1>1, IdleIInv DEF BootRefused, graphVars, IInv, TypeOK, GraphInv
<1>2. ASSUME NEW u \in Units, ResolveFails(u) PROVE IInv'
  <2>1. PICK P \in SUBSET Before(u) :
          rdeps' = [d \in Units |-> IF d \in P THEN rdeps[d] \cup {u} ELSE rdeps[d]]
    BY <1>2 DEF ResolveFails
  <2>2. TypeOK'
    BY <1>2, <2>1 DEF ResolveFails, IInv, TypeOK
  <2> QED BY <1>2, <2>2, IdleIInv DEF ResolveFails
<1>3. ASSUME ScheduleFails PROVE IInv'
  BY <1>3, IdleIInv DEF ScheduleFails, Scheduling, graphVars, IInv, TypeOK
<1>4. ASSUME TargetReached PROVE IInv'
  BY <1>4, IdleIInv DEF TargetReached, graphVars, IInv, TypeOK, GraphInv
<1>5. ASSUME NEW n \in Names, StartByName(n) PROVE IInv'
  <2>1. Lookup(n) \in Units
    BY <1>5 DEF StartByName, OfKind
  <2>2. TypeOK'
    BY <1>5, <2>1 DEF StartByName, bootVars, IInv, TypeOK
  <2> QED BY <1>5, <2>2, IdleIInv DEF StartByName, bootVars, IInv, GraphInv
<1> QED BY <1>1, <1>2, <1>3, <1>4, <1>5

-----------------------------------------------------------------------------
(* The waves.                                                              *)

LEMMA ScheduleWaveIInv ==
  ASSUME IInv, ScheduleWave
  PROVE  IInv'
<1>1. /\ pc = "resolve" /\ todo = {} /\ wave' = wave + 1
      /\ level' = [u \in Units |-> IF u \in Ready THEN wave + 1 ELSE level[u]]
      /\ UNCHANGED <<graphVars, pc, todo, started, failed, reached>>
  BY DEF ScheduleWave, Scheduling
<1>2. TypeOK'
  BY <1>1 DEF graphVars, IInv, TypeOK
<1>3. /\ Bootable' = Bootable /\ Bootable \subseteq Units /\ Ready \subseteq Bootable
      /\ \A u \in Units : Before(u)' = Before(u)
  BY <1>1 DEF graphVars, Bootable, OfKind, Is, Before, Ordering, Ready, Unscheduled
<1>4. GraphInv'
  BY <1>1, <1>3 DEF graphVars, IInv, GraphInv
<1>5. /\ wave \in Nat /\ level \in [Units -> Nat] /\ active \subseteq Units
      /\ \A u \in Units : level[u] <= wave
      /\ \A u \in Units : level[u] > 0 => u \in Bootable
      /\ Ordered
  BY <1>1 DEF IInv, TypeOK, WaveInv
<1>6. WaveInv'
  <2>1. \A u \in Units : level'[u] <= wave' /\ (level'[u] > 0 => u \in Bootable')
    BY <1>1, <1>3, <1>5
  <2>2. Ordered'
    <3> SUFFICES ASSUME NEW u \in Bootable, level'[u] > 0, NEW d \in Before(u)
                 PROVE  0 < level'[d] /\ level'[d] < level'[u]
      BY <1>3 DEF Ordered
    <3>1. u \in Units /\ d \in Units
      BY <1>3, <1>5, BeforeActive
    <3>2. CASE u \in Ready
      <4>1. level[d] > 0 /\ d \notin Ready
        BY <1>5, <3>2, ReadyWaitsForNothing DEF ScheduleWave, Ready, Unscheduled
      <4> QED BY <1>1, <1>5, <3>1, <3>2, <4>1
    <3>3. CASE u \notin Ready
      <4>1. level'[u] = level[u]
        BY <1>1, <3>1, <3>3
      <4>2. 0 < level[d] /\ level[d] < level[u]
        BY <1>5, <4>1 DEF Ordered
      <4>3. level'[d] = level[d]
        BY <1>1, <1>5, <3>1, <4>2 DEF Ready, Unscheduled
      <4> QED BY <4>1, <4>2, <4>3
    <3> QED BY <3>2, <3>3
  <2> QED BY <1>1, <2>1, <2>2 DEF WaveInv
<1>7. StartInv'
  BY <1>1 DEF graphVars, IInv, StartInv
<1> QED BY <1>2, <1>4, <1>6, <1>7 DEF IInv

\* When nothing is ready any more, what has no wave is stuck.
LEMMA UnscheduledIsStuck ==
  ASSUME IInv, Scheduling, Ready = {}, Unscheduled # {}
  PROVE  Stuck
<1>1. Unscheduled \in SUBSET Bootable
  BY DEF Unscheduled
<1>2. \A u \in Unscheduled : \E d \in Before(u) : d \in Unscheduled \cup (active \ Bootable)
  BY <1>1, ReadyWaitsForNothing
<1> QED BY <1>1, <1>2 DEF Stuck

LEMMA ScheduleDoneIInv ==
  ASSUME IInv, ScheduleDone
  PROVE  IInv'
<1>1. /\ pc = "resolve" /\ todo = {} /\ wave' = 1 /\ pc' = "start" /\ Scheduling
      /\ UNCHANGED <<graphVars, todo, started, failed, reached>>
  BY DEF ScheduleDone, Scheduling
<1>2. /\ level \in [Units -> Nat] /\ Ordered
      /\ \A u \in Units : level[u] > 0 => u \in Bootable
  BY <1>1 DEF IInv, TypeOK, WaveInv
<1>3. level' \in [Units -> Nat]
  BY <1>2 DEF ScheduleDone
<1>4. TypeOK'
  BY <1>1, <1>3 DEF graphVars, IInv, TypeOK
<1>5. /\ Bootable' = Bootable /\ Startable' = Startable /\ Bootable \subseteq Units
      /\ Startable \subseteq Bootable
      /\ \A u \in Units : Before(u)' = Before(u)
  BY <1>1 DEF graphVars, Bootable, Startable, OfKind, Is, Before, Ordering
<1>6. GraphInv'
  BY <1>1, <1>5 DEF graphVars, IInv, GraphInv
<1>7. /\ \A u \in Units : level'[u] > 0 <=> u \in Bootable
      /\ Ordered' \/ (~strict' /\ Stuck')
  <2>1. CASE Unscheduled = {} /\ UNCHANGED level
    <3>1. \A u \in Bootable : level[u] > 0
      BY <1>2, <1>5, <2>1 DEF Unscheduled
    <3>2. Ordered'
      BY <1>2, <1>5, <2>1 DEF Ordered
    <3> QED BY <1>2, <2>1, <3>1, <3>2
  <2>2. CASE /\ Unscheduled # {} /\ ~strict
             /\ level' = [u \in Units |-> IF u \in Bootable THEN 1 ELSE 0]
    <3>1. Stuck
      BY <1>1, <2>2, UnscheduledIsStuck DEF ScheduleDone
    <3>2. active' = active
      BY <1>1 DEF graphVars
    <3>3. Stuck'
      BY <1>5, <3>1, <3>2 DEF Stuck
    <3>4. ~strict'
      BY <1>1, <2>2 DEF graphVars
    <3> QED BY <1>5, <2>2, <3>3, <3>4
  <2> QED BY <2>1, <2>2 DEF ScheduleDone
<1>8. WaveInv'
  BY <1>1, <1>5, <1>7 DEF WaveInv
<1>9. StartInv'
  <2>1. \A u \in Startable' : ~(level'[u] < wave')
    BY <1>1, <1>3, <1>5, <1>7
  <2>2. failed' = {} /\ active' \subseteq required'
    BY <1>1 DEF graphVars, IInv, StartInv
  <2> QED BY <1>1, <2>1, <2>2 DEF StartInv
<1> QED BY <1>4, <1>6, <1>8, <1>9 DEF IInv

-----------------------------------------------------------------------------
(* The starts.                                                             *)

\* Nothing a start changes is in the graph or the waves.
LEMMA StartsKeepWaves ==
  ASSUME IInv, pc = "start", pc' = "start", UNCHANGED <<graphVars, todo, level>>
  PROVE  /\ Bootable' = Bootable /\ Startable' = Startable
         /\ GraphInv' /\ WaveInv'
<1>1. /\ Bootable' = Bootable /\ Startable' = Startable /\ Bootable \subseteq Units
      /\ \A u \in Units : Before(u)' = Before(u)
  BY DEF graphVars, Bootable, Startable, OfKind, Is, Before, Ordering
<1>2. GraphInv'
  BY <1>1 DEF graphVars, IInv, GraphInv
<1>3. (Stuck => Stuck') /\ (Ordered => Ordered')
  <2>1. active' = active
    BY DEF graphVars
  <2>2. Stuck => Stuck'
    BY <1>1, <2>1 DEF Stuck
  <2>3. Ordered => Ordered'
    BY <1>1 DEF Ordered
  <2> QED BY <2>2, <2>3
<1>4. WaveInv'
  BY <1>1, <1>3 DEF graphVars, IInv, WaveInv
<1> QED BY <1>1, <1>2, <1>4

\* It is the turn of an active unit of the current wave that was not attempted yet.
LEMMA TurnIsPending ==
  ASSUME IInv, pc = "start", NEW u \in Turn
  PROVE  /\ u \in Startable /\ level[u] = wave
         /\ u \notin started \cup failed
<1>1. u \in OfKind({"socket", "mount", "service"}) /\ level[u] = wave
      /\ u \notin started \cup failed
  BY DEF Turn, InWave, OfKind, Is
<1>2. u \in active
  <2> SUFFICES wave > 0
    BY <1>1 DEF IInv, WaveInv, Bootable, OfKind
  <2> QED BY DEF IInv, StartInv
<1> QED BY <1>1, <1>2 DEF Startable, OfKind, Is

LEMMA StartUnitIInv ==
  ASSUME IInv, NEW u \in Units, StartSucceeds(u) \/ StartFails(u)
  PROVE  IInv'
<1>1. /\ pc = "start" /\ u \in Turn
      /\ UNCHANGED <<graphVars, todo, level, wave, reached>>
      /\ started \subseteq started' /\ failed \subseteq failed'
      /\ started' \subseteq Units /\ failed' \subseteq Units
      /\ pc' \in {"start", "idle"}
  BY DEF StartSucceeds, StartFails, IInv, TypeOK
<1>2. TypeOK'
  BY <1>1 DEF graphVars, IInv, TypeOK
<1>3. CASE pc' = "idle"
  <2>1. todo' = {}
    BY <1>1 DEF IInv, GraphInv
  <2> QED BY <1>2, <1>3, <2>1, IdleIInv
<1>4. CASE pc' = "start"
  <2>1. Startable' = Startable /\ GraphInv' /\ WaveInv'
    BY <1>1, <1>4, StartsKeepWaves
  <2>2. u \in Startable
    BY <1>1, TurnIsPending
  <2>3. strict => failed' = {}
    <3>1. u \in required
      BY <1>1, <2>2 DEF IInv, StartInv, Startable
    <3>2. strict => failed = {}
      BY <1>1 DEF IInv, StartInv
    <3> QED BY <1>4, <3>1, <3>2 DEF StartSucceeds, StartFails
  <2>4. StartInv'
    BY <1>1, <1>4, <2>1, <2>3 DEF graphVars, IInv, StartInv
  <2> QED BY <1>2, <2>1, <2>4 DEF IInv
<1> QED BY <1>1, <1>3, <1>4

LEMMA NextWaveIInv ==
  ASSUME IInv, NextWave
  PROVE  IInv'
<1>1. /\ pc = "start" /\ pc' = "start" /\ Turn = {} /\ wave' = wave + 1
      /\ UNCHANGED <<graphVars, todo, level, started, failed, reached>>
  BY DEF NextWave
<1>2. TypeOK'
  BY <1>1 DEF graphVars, IInv, TypeOK
<1>3. Startable' = Startable /\ GraphInv' /\ WaveInv'
  BY <1>1, StartsKeepWaves
<1>4. \A u \in Startable : level[u] = wave => u \in started \cup failed
  BY <1>1 DEF Turn, InWave, Startable, OfKind, Is
<1>5. wave \in Nat /\ level \in [Units -> Nat] /\ Startable \subseteq Units
  BY DEF IInv, TypeOK, Startable, OfKind
<1>6. \A u \in Startable : level[u] < wave' => u \in started \cup failed
  <2>1. \A u \in Startable : level[u] < wave => u \in started \cup failed
    BY <1>1 DEF IInv, StartInv
  <2> QED BY <1>1, <1>4, <1>5, <2>1
<1>7. StartInv'
  BY <1>1, <1>3, <1>5, <1>6 DEF graphVars, IInv, StartInv
<1> QED BY <1>2, <1>3, <1>7 DEF IInv

LEMMA StutterIInv ==
  ASSUME IInv, UNCHANGED vars
  PROVE  IInv'
<1>1. TypeOK'
  BY DEF vars, graphVars, bootVars, IInv, TypeOK
<1>2. /\ Bootable' = Bootable /\ Startable' = Startable /\ Bootable \subseteq Units
      /\ \A u \in Units : Before(u)' = Before(u)
  BY DEF vars, graphVars, bootVars, Bootable, Startable, OfKind, Is, Before, Ordering
<1>3. UNCHANGED <<pc, todo, deps, rdeps, level, wave, active, strict, required, started, failed>>
  BY DEF vars, graphVars, bootVars
<1>4. GraphInv'
  BY <1>2, <1>3 DEF IInv, GraphInv
<1>5. WaveInv'
  <2>1. (Stuck => Stuck') /\ (Ordered => Ordered')
    BY <1>2, <1>3 DEF Stuck, Ordered
  <2> QED BY <1>2, <1>3, <2>1 DEF IInv, WaveInv
<1>6. StartInv'
  BY <1>2, <1>3 DEF IInv, StartInv
<1> QED BY <1>1, <1>4, <1>5, <1>6 DEF IInv

LEMMA StepIInv == IInv /\ [Next]_vars => IInv'
<1> SUFFICES ASSUME IInv, [Next]_vars PROVE IInv'
  OBVIOUS
<1>1. ASSUME Resolve PROVE IInv'
  BY <1>1, BootEndsIInv, BootIInv, ResolveUnitIInv, SkipTargetIInv DEF Resolve
<1>2. ASSUME Starts PROVE IInv'
  BY <1>2, BootEndsIInv, ScheduleWaveIInv, ScheduleDoneIInv, StartUnitIInv, NextWaveIInv
  DEF Starts
<1> QED BY <1>1, <1>2, StutterIInv DEF Next

-----------------------------------------------------------------------------
(* The theorems.                                                           *)

\* IInv holds in every reachable state: the loops of resolve_dependencies, boot_waves and
\* boot_parallel keep it, whatever earlier boots have left behind.
THEOREM Inductive == Spec => []IInv
  BY InitIInv, StepIInv, PTL DEF Spec

\* Every variable keeps its type.
THEOREM TypeCorrect == Spec => []TypeOK
<1>1. IInv => TypeOK
  BY DEF IInv
<1> QED BY <1>1, Inductive, PTL

\* During the starts the dependency vectors and the reverse map are those of the manifests.
THEOREM GraphIsFresh == Spec => []GraphMirrors
<1>1. IInv => GraphMirrors
  BY DEF IInv, GraphInv, GraphMirrors
<1> QED BY <1>1, Inductive, PTL

\* The waves of boot_waves hold every bootable unit, after all it waits for.
THEOREM WavesAreOrdered == Spec => []WavesRespectOrder
<1>1. IInv => WavesRespectOrder
  <2> SUFFICES ASSUME IInv, pc = "start"
               PROVE  /\ \A u \in Units : level[u] > 0 <=> u \in Bootable
                      /\ ~Stuck => \A u \in Bootable : \A d \in Before(u) : level[d] < level[u]
    BY DEF WavesRespectOrder
  <2> QED BY DEF IInv, WaveInv, Ordered
<1> QED BY <1>1, Inductive, PTL

\* CycleDetected is reported for a cycle, or a unit after a timer, of the manifests only.
THEOREM RefusalsAreCycles == Spec => RefusalIsACycle
<1>1. IInv /\ [Next]_vars => [pc = "resolve" /\ pc' = "idle" /\ todo = {} => Stuck]_vars
  <2> SUFFICES ASSUME IInv, Next, pc = "resolve", pc' = "idle", todo = {}
               PROVE  Stuck
    BY DEF vars
  <2>1. ScheduleFails
    BY DEF Next, Resolve, Starts, BootRefused, Boot, ResolveUnit, SkipTarget, ResolveFails,
           ScheduleWave, ScheduleDone, StartSucceeds, StartFails, NextWave, TargetReached,
           StartByName
  <2> QED BY <2>1, UnscheduledIsStuck DEF ScheduleFails
<1> QED BY <1>1, Inductive, PTL DEF Spec, RefusalIsACycle

\* Whoever is attempted now is a unit whose turn it is.
LEMMA AttemptedInTurn ==
  ASSUME IInv, Next, NEW u \in (started' \cup failed') \ (started \cup failed)
  PROVE  pc = "start" /\ u \in Turn
BY DEF Next, Resolve, Starts, BootRefused, Boot, ResolveUnit, SkipTarget, ResolveFails,
       ScheduleWave, ScheduleDone, ScheduleFails, StartSucceeds, StartFails, NextWave,
       TargetReached, StartByName, graphVars, bootVars

\* What a unit waits for was attempted before its turn, in a strict boot with success.
LEMMA TurnWaitsForNothing ==
  ASSUME IInv, pc = "start", NEW u \in Turn
  PROVE  IF strict THEN Before(u) \cap Startable \subseteq started
         ELSE Stuck \/ Before(u) \cap Startable \subseteq started \cup failed
<1>1. u \in Startable /\ level[u] = wave /\ u \in Bootable
  BY TurnIsPending DEF Startable, Bootable, OfKind, Is
<1>2. wave > 0 /\ (Ordered \/ (~strict /\ Stuck))
  BY DEF IInv, StartInv, WaveInv
<1>3. Ordered => Before(u) \cap Startable \subseteq started \cup failed
  BY <1>1, <1>2 DEF Ordered, IInv, StartInv
<1>4. strict => failed = {}
  BY DEF IInv, StartInv
<1> QED BY <1>2, <1>3, <1>4

\* A boot attempts a unit only after the units it waits for, in a strict boot only after
\* their success.
THEOREM DependenciesComeFirst == Spec => DependenciesFirst
<1>1. IInv /\ [Next]_vars =>
        [\A u \in (started' \cup failed') \ (started \cup failed) :
           LET awaited == Before(u) \cap Startable IN
           IF strict THEN awaited \subseteq started
                     ELSE Stuck \/ awaited \subseteq started \cup failed]_vars
  BY AttemptedInTurn, TurnWaitsForNothing
<1> QED BY <1>1, Inductive, PTL DEF Spec, DependenciesFirst

\* After the turns of the last wave every startable unit was attempted.
LEMMA NothingLeftToStart ==
  ASSUME IInv, TargetReached
  PROVE  Startable \subseteq started \cup failed
<1>1. pc = "start" /\ Turn = {} /\ \A u \in Units : level[u] <= wave
  BY DEF TargetReached
<1>2. \A u \in Startable : level[u] = wave => u \in started \cup failed
  BY <1>1 DEF Turn, InWave, Startable, OfKind, Is
<1>3. \A u \in Startable : level[u] < wave => u \in started \cup failed
  BY <1>1 DEF IInv, StartInv
<1>4. wave \in Nat /\ level \in [Units -> Nat] /\ Startable \subseteq Units
  BY DEF IInv, TypeOK, Startable, OfKind
<1> QED BY <1>1, <1>2, <1>3, <1>4

\* "Target reached" means that every startable unit was attempted, and in a strict boot
\* that none has failed.
THEOREM ReachedMeansComplete == Spec => ReachedIsComplete
<1>1. ASSUME IInv, Next, pc = "start", reached' # reached
      PROVE  Complete
  <2>1. TargetReached
    BY <1>1 DEF Next, Resolve, Starts, BootRefused, Boot, ResolveUnit, SkipTarget, ResolveFails,
                ScheduleWave, ScheduleDone, ScheduleFails, StartSucceeds, StartFails, NextWave,
                StartByName, bootVars
  <2> QED BY <1>1, <2>1, NothingLeftToStart DEF IInv, StartInv, Complete
<1>2. IInv /\ [Next]_vars => [pc = "start" /\ reached' # reached => Complete]_vars
  BY <1>1
<1> QED BY <1>2, Inductive, PTL DEF Spec, ReachedIsComplete

-----------------------------------------------------------------------------
(* A boot as an order of starts: ForgeDag implements BootOrder.            *)

\* A boot whose waves are in order is stuck nowhere: of any units one is in the lowest wave.
LEMMA OrderedIsNotStuck ==
  ASSUME TypeOK, Ordered, \A u \in Units : level[u] > 0 <=> u \in Bootable
  PROVE  ~Stuck
<1> SUFFICES ASSUME NEW S \in SUBSET Bootable, S # {},
                    \A u \in S : \E d \in Before(u) : d \in S \cup (active \ Bootable)
             PROVE  FALSE
  BY DEF Stuck
<1> DEFINE R == OpToRel(<, Nat)
           L == {level[u] : u \in S}
<1>1. Bootable \subseteq Units /\ active \subseteq Units /\ level \in [Units -> Nat]
  BY DEF TypeOK, Bootable, OfKind
<1>2. L \subseteq Nat /\ L # {}
  BY <1>1
<1>3. IsWellFoundedOn(R, Nat)
  BY NatLessThanWellFounded
<1>4. \A i, j \in Nat : <<i, j>> \in R <=> i < j
  BY DEF OpToRel
<1>5. PICK n \in L : \A m \in L : ~(<<m, n>> \in R)
  <2> HIDE DEF R, L
  <2> QED BY <1>2, <1>3, WFMin
<1>6. PICK u \in S : level[u] = n
  BY <1>5
<1>7. PICK d \in Before(u) : d \in S \cup (active \ Bootable)
  OBVIOUS
<1>8. 0 < level[d] /\ level[d] < level[u]
  BY <1>1, <1>6, <1>7 DEF Ordered
<1>9. d \in S
  BY <1>1, <1>7, <1>8
<1>10. level[d] \in L /\ level[d] \in Nat /\ n \in Nat
  BY <1>1, <1>2, <1>5, <1>9
<1> QED BY <1>4, <1>5, <1>6, <1>8, <1>10

\* During the starts a boot is stuck exactly when its waves are out of order, and then it
\* is lenient.
LEMMA StuckIsLenient ==
  ASSUME IInv, pc = "start"
  PROVE  (Stuck <=> ~Ordered) /\ (Stuck => ~strict)
<1>1. \A u \in Units : level[u] > 0 <=> u \in Bootable
  BY DEF IInv, WaveInv
<1>2. Ordered => ~Stuck
  BY <1>1, OrderedIsNotStuck DEF IInv
<1> QED BY <1>2 DEF IInv, WaveInv

\* The same unit files and active units ask for the same order.
LEMMA SameGraph ==
  ASSUME UNCHANGED <<manifest, active>>
  PROVE  /\ Stuck' <=> Stuck
         /\ Startable' = Startable
         /\ \A u \in Units : Before(u)' = Before(u)
<1>1. /\ Bootable' = Bootable /\ Startable' = Startable /\ Bootable \subseteq Units
      /\ \A u \in Units : Before(u)' = Before(u)
  BY DEF Bootable, Startable, OfKind, Is, Before, Ordering
<1>2. Stuck' <=> Stuck
  BY <1>1 DEF Stuck
<1> QED BY <1>1, <1>2

\* What BootOrder sees of a boot that starts nothing, before and after a step.
LEMMA NothingToSee ==
  /\ pc # "start" => BootTasks = {} /\ BootAwaits = Order!Nothing
  /\ pc' # "start" => BootTasks' = {} /\ BootAwaits' = Order!Nothing
BY DEF BootTasks, BootAwaits, Order!Nothing

\* A step within the resolution, the starts or the rest that keeps the graph is not seen.
LEMMA SamePhase ==
  ASSUME TypeOK, pc' = pc, pc = "start" => UNCHANGED <<manifest, active>>
  PROVE  UNCHANGED <<BootPhase, BootTasks, BootAwaits>>
<1>1. CASE pc = "start"
  BY <1>1, SameGraph DEF BootPhase, BootTasks, BootAwaits
<1>2. CASE pc # "start"
  BY <1>2, NothingToSee DEF BootPhase, TypeOK
<1> QED BY <1>1, <1>2

LEMMA InitOrder == Init => Order!Init
BY NothingToSee DEF Init, BootPhase, Order!Init

\* Refused and resolved: a boot is planned, or given up.
LEMMA ResolveOrder == IInv /\ Resolve => [Order!Next]_(Order!vars)
<1> SUFFICES ASSUME IInv, Resolve PROVE [Order!Next]_(Order!vars)
  OBVIOUS
<1>1. ASSUME NEW t \in Units, BootRefused(t) PROVE Order!Refuse
  BY <1>1, SamePhase DEF BootRefused, graphVars, BootPhase, Order!Refuse, IInv
<1>2. ASSUME NEW t \in Units, NEW excluded \in Exclusions, Boot(t, excluded) PROVE Order!Plan
  BY <1>2, NothingToSee DEF Boot, BootPhase, Order!Plan
<1>3. ASSUME NEW u \in Units, ResolveUnit(u) \/ SkipTarget(u) PROVE UNCHANGED Order!vars
  BY <1>3, SamePhase DEF ResolveUnit, SkipTarget, graphVars, Order!vars, IInv
<1>4. ASSUME NEW u \in Units, ResolveFails(u) PROVE Order!GiveUp
  BY <1>4, NothingToSee DEF ResolveFails, BootPhase, Order!GiveUp, Order!Rest, Order!outcome
<1> QED BY <1>1, <1>2, <1>3, <1>4 DEF Resolve, Order!Next

\* The end of the resolution fixes the order: without a cycle some unit of any is first.
LEMMA BeginOrder ==
  ASSUME IInv, ScheduleDone
  PROVE  Order!Begin
<1>1. /\ pc = "resolve" /\ pc' = "start"
      /\ UNCHANGED <<manifest, active, strict, started, failed, reached>>
  BY DEF ScheduleDone, Scheduling, graphVars
<1>2. /\ Stuck' <=> Stuck
      /\ Startable' = Startable
      /\ \A u \in Units : Before(u)' = Before(u)
  BY <1>1, SameGraph
<1>3. BootPhase = "planning" /\ BootPhase' = IF Stuck THEN "unordered" ELSE "ordered"
  BY <1>1, <1>2 DEF BootPhase
<1>4. BootTasks' = Startable /\ BootAwaits' = [u \in Units |-> Before(u) \cap Startable]
  BY <1>1, <1>2 DEF BootTasks, BootAwaits
<1>5. Startable \subseteq Units /\ Startable \subseteq Bootable
  BY DEF Startable, Bootable, OfKind, Is
<1>6. ~Stuck => Order!Orderable(BootTasks', BootAwaits')
  <2> SUFFICES ASSUME NEW S \in SUBSET Startable, S # {},
                      \A u \in S : Before(u) \cap Startable \cap S # {}
               PROVE  Stuck
    BY <1>4, <1>5 DEF Order!Orderable
  <2> QED BY <1>5 DEF Stuck
<1>7. Stuck => ~strict
  <2>1. Unscheduled = {} => ~Stuck
    <3>1. Ordered /\ \A u \in Units : level[u] > 0 => u \in Bootable
      BY <1>1 DEF IInv, WaveInv
    <3>2. Unscheduled = {} => \A u \in Bootable : level[u] > 0
      BY <1>5 DEF Unscheduled, IInv, TypeOK, Bootable, OfKind
    <3> QED BY <3>1, <3>2, OrderedIsNotStuck DEF IInv
  <2> QED BY <2>1 DEF ScheduleDone
<1> QED BY <1>1, <1>3, <1>4, <1>5, <1>6, <1>7 DEF Order!Begin, Order!outcome

LEMMA AttemptOrder ==
  ASSUME IInv, NEW u \in Units, StartSucceeds(u) \/ StartFails(u)
  PROVE  Order!Succeed(u) \/ Order!Fail(u)
<1>1. /\ pc = "start" /\ u \in Turn /\ u \in Startable /\ u \notin started \cup failed
      /\ UNCHANGED <<manifest, active, strict, reached>>
  BY TurnIsPending DEF StartSucceeds, StartFails, graphVars
<1>2. Order!Due(u)
  <2>1. u \in BootTasks \ (started \cup failed)
    BY <1>1 DEF BootTasks
  <2>2. BootPhase = IF Stuck THEN "unordered" ELSE "ordered"
    BY <1>1 DEF BootPhase
  <2>3. BootAwaits[u] = Before(u) \cap Startable
    BY <1>1 DEF BootAwaits
  <2>4. IF strict THEN Before(u) \cap Startable \subseteq started
        ELSE Stuck \/ Before(u) \cap Startable \subseteq started \cup failed
    BY <1>1, TurnWaitsForNothing
  <2>5. Stuck => ~strict
    BY <1>1, StuckIsLenient
  <2> QED BY <2>1, <2>2, <2>3, <2>4, <2>5 DEF Order!Due
<1>3. CASE StartSucceeds(u)
  <2>1. UNCHANGED <<BootPhase, BootTasks, BootAwaits>>
    BY <1>1, <1>3, SamePhase DEF StartSucceeds, IInv
  <2> QED BY <1>1, <1>2, <1>3, <2>1 DEF StartSucceeds, Order!Succeed
<1>4. CASE StartFails(u)
  <2>1. u \in required
    BY <1>1 DEF IInv, StartInv, Startable
  <2>2. strict => Order!Rest
    BY <1>4, <2>1, NothingToSee DEF StartFails, BootPhase, Order!Rest
  <2>3. ~strict => UNCHANGED <<BootPhase, BootTasks, BootAwaits>>
    BY <1>1, <1>4, SamePhase DEF StartFails, IInv
  <2> QED BY <1>1, <1>2, <1>4, <2>2, <2>3 DEF StartFails, Order!Fail
<1> QED BY <1>3, <1>4

LEMMA ReachOrder ==
  ASSUME IInv, TargetReached
  PROVE  Order!Reach
<1>1. pc = "start" /\ pc' = "idle" /\ reached' = TRUE /\ UNCHANGED <<strict, started, failed>>
  BY DEF TargetReached, graphVars
<1>2. BootPhase \in {"ordered", "unordered"} /\ BootTasks = Startable
  BY <1>1 DEF BootPhase, BootTasks
<1>3. Startable \subseteq started \cup failed
  BY NothingLeftToStart
<1>4. Order!Rest
  BY <1>1, NothingToSee DEF BootPhase, Order!Rest
<1> QED BY <1>1, <1>2, <1>3, <1>4 DEF Order!Reach

LEMMA StartsOrder == IInv /\ Starts => [Order!Next]_(Order!vars)
<1> SUFFICES ASSUME IInv, Starts PROVE [Order!Next]_(Order!vars)
  OBVIOUS
<1>1. ASSUME ScheduleWave \/ NextWave PROVE UNCHANGED Order!vars
  BY <1>1, SamePhase DEF ScheduleWave, Scheduling, NextWave, graphVars, Order!vars, IInv
<1>2. ASSUME NEW n \in Names, StartByName(n) PROVE UNCHANGED Order!vars
  BY <1>2, SamePhase DEF StartByName, bootVars, Order!vars, IInv
<1>3. ASSUME ScheduleFails PROVE Order!GiveUp
  BY <1>3, NothingToSee
  DEF ScheduleFails, Scheduling, graphVars, BootPhase, Order!GiveUp, Order!Rest, Order!outcome
<1> QED BY <1>1, <1>2, <1>3, BeginOrder, AttemptOrder, ReachOrder DEF Starts, Order!Next

LEMMA StutterOrder == IInv /\ UNCHANGED vars => UNCHANGED Order!vars
BY SamePhase DEF vars, graphVars, bootVars, Order!vars, IInv

\* A boot is a partial order of starts: every step of the closure, the vectors, the waves and
\* the turns is a step of BootOrder or is not seen there.
THEOREM Implementation == Spec => ImplementsBootOrder
<1>1. IInv /\ [Next]_vars => [Order!Next]_(Order!vars)
  BY ResolveOrder, StartsOrder, StutterOrder DEF Next
<1>2. Spec => Order!Spec
  BY <1>1, InitOrder, Inductive, PTL DEF Spec, Order!Spec
<1> QED
  BY <1>2 DEF ImplementsBootOrder

=============================================================================
