------------------------------ MODULE ForgeDag ------------------------------
(***************************************************************************)
(* How The Forge boots a target: the closure of the target over the unit    *)
(* manifests, the runlevel filter, the dependency vectors and their reverse *)
(* map, the boot waves, and the starts wave by wave.  All of it runs under  *)
(* the mutex, so a boot is interleaved with nothing; but active_units,      *)
(* Unit.dependencies and reverse_dependencies outlive it -- a failed boot,  *)
(* the next target, start_service_by_name and the stop order of a shutdown  *)
(* all work on what an earlier boot has left in them.                       *)
(*                                                                         *)
(* What a start does to processes is ForgeSupervisor's business: here it    *)
(* succeeds or fails.  Devices have nothing to start in a wave; the service *)
(* of a device that is present is one more start by name, after the boot.   *)
(***************************************************************************)
EXTENDS Naturals, FiniteSets

CONSTANTS
  Units,       (* the units of the arena                                          *)
  Names,       (* the names manifests mention: unit names, virtual names, others  *)
  NoUnit,      (* "no such unit"                                                  *)
  Provider,    (* provides_index: the unit that provides a name, or NoUnit        *)
  Manifests,   (* the unit files there may be: one record of functions over Units *)
  Exclusions   (* the sets of services the runlevel database may exclude          *)

Kinds == {"service", "socket", "mount", "device", "timer", "target"}
UnitFiles ==
  [kind: [Units -> Kinds], after: [Units -> SUBSET Names], requires: [Units -> SUBSET Names],
   wants: [Units -> SUBSET Names], sockets: [Units -> SUBSET Names]]

ASSUME DagAssumption ==
  /\ IsFiniteSet(Units) /\ Units \subseteq Names /\ NoUnit \notin Units
  /\ Provider \in [Names -> Units \cup {NoUnit}]
  /\ Manifests \subseteq UnitFiles
  /\ Exclusions \subseteq SUBSET Units

VARIABLES
  manifest,    (* the unit files that were loaded                        *)
  strict,      (* strict_boot, as PID 1; main sets boot_lenient otherwise *)
  active,      (* active_units                                           *)
  required,    (* required_units                                         *)
  deps,        (* Unit.dependencies                                      *)
  rdeps,       (* reverse_dependencies                                   *)
  pc,          (* where boot_parallel is: idle, resolve or start         *)
  todo,        (* the units resolve_dependencies has still to visit      *)
  level,       (* the boot wave of each unit, 0 for none                 *)
  wave,        (* the last wave scheduled, then the wave being started   *)
  started,     (* the units this boot has started                        *)
  failed,      (* the units of this boot whose start failed              *)
  reached      (* the last boot_parallel returned Ok: "Target reached"   *)

graphVars == <<manifest, strict, active, required, deps, rdeps>>
bootVars == <<pc, todo, level, wave, started, failed, reached>>
vars == <<graphVars, bootVars>>

Is(u, K) == manifest.kind[u] \in K
OfKind(K) == {u \in Units : Is(u, K)}
Bootable == active \cap OfKind({"service", "socket", "device", "mount"})
Startable == active \cap OfKind({"service", "socket", "mount"})

-----------------------------------------------------------------------------
(* Names and edges.                                                        *)

\* name_index first, then provides_index.
Lookup(n) == IF n \in Units THEN n ELSE Provider[n]
Found(L) == {Lookup(n) : n \in L} \ {NoUnit}

\* What resolve_target_closure requires and wants of a unit: a socket's service is in
\* its requires, a device's in its wants; timers and mounts pull in nothing.
Requires(u) == IF Is(u, {"target", "service", "socket"}) THEN manifest.requires[u] ELSE {}
Wants(u) == IF Is(u, {"target", "service", "device"}) THEN manifest.wants[u] ELSE {}

\* The names a unit is ordered after; a socket is not ordered after its service.
Ordering(u) ==
  manifest.after[u] \cup (IF Is(u, {"service"}) THEN manifest.requires[u] ELSE {})

\* The active units u waits for.  Targets order nothing.
Before(u) == (Found(Ordering(u)) \cap active) \ OfKind({"target"})

\* Everything the edges lead to from S: the smallest set of units that has S and is closed.
Closed(T, edges) == \A u \in T : edges[u] \subseteq T
Reach(S, edges) ==
  LET C == {T \in SUBSET Units : S \subseteq T /\ Closed(T, edges)} IN
  {u \in Units : \A T \in C : u \in T}

Pulls == [u \in Units |-> Found(Requires(u) \cup Wants(u))]

\* Only the names of the name index here and in HardEdges: no provider is looked up.
SocketsOf == [u \in Units |-> IF Is(u, {"service"}) THEN manifest.sockets[u] \cap Units ELSE {}]
HardEdges == [u \in Units |-> Requires(u) \cap Units]

Closure(t) == Reach({t}, Pulls)

-----------------------------------------------------------------------------
(* resolve_target_closure.                                                 *)

\* A required unit is missing somewhere in the closure; only a lenient boot goes on.
MissingRequirement(t) == \E u \in Closure(t) : \E n \in Requires(u) : Lookup(n) = NoUnit

BootRefused(t) ==
  /\ pc = "idle" /\ Is(t, {"target"})
  /\ strict /\ MissingRequirement(t)
  /\ reached' = FALSE
  /\ UNCHANGED <<graphVars, pc, todo, level, wave, started, failed>>

\* Mutant: the reverse map is not cleared.
BootKeepsEdges(t, excluded) ==
  /\ pc = "idle" /\ Is(t, {"target"})
  /\ ~(strict /\ MissingRequirement(t))
  /\ active' = Reach(Closure(t), SocketsOf) \ (excluded \cap OfKind({"service"}))
  /\ required' = Reach(active', HardEdges)
  /\ pc' = "resolve"
  /\ todo' = active'
  /\ started' = {} /\ failed' = {} /\ reached' = FALSE
  /\ level' = [u \in Units |-> 0] /\ wave' = 0
  /\ UNCHANGED <<manifest, strict, deps, rdeps>>

\* The closure, plus the sockets of its services, minus the services that the runlevel
\* database excludes.  required_units starts from every active unit, wanted or not.
Boot(t, excluded) ==
  /\ pc = "idle" /\ Is(t, {"target"})
  /\ ~(strict /\ MissingRequirement(t))
  /\ active' = Reach(Closure(t), SocketsOf) \ (excluded \cap OfKind({"service"}))
  /\ required' = Reach(active', HardEdges)
  /\ rdeps' = [u \in Units |-> {}]
  /\ pc' = "resolve"
  /\ todo' = active'
  /\ started' = {} /\ failed' = {} /\ reached' = FALSE
  /\ level' = [u \in Units |-> 0] /\ wave' = 0
  /\ UNCHANGED <<manifest, strict, deps>>

-----------------------------------------------------------------------------
(* resolve_dependencies: the active units in the order of a hash set.      *)

Missing(u) == \E n \in Ordering(u) : Lookup(n) = NoUnit

\* Mutant: the reverse edge is pushed the wrong way round.
ResolveUnitTurned(u) ==
  /\ pc = "resolve" /\ u \in todo
  /\ ~Is(u, {"target"})
  /\ ~(strict /\ Missing(u))
  /\ deps' = [deps EXCEPT ![u] = Before(u)]
  /\ rdeps' = [rdeps EXCEPT ![u] = @ \cup Before(u)]
  /\ todo' = todo \ {u}
  /\ UNCHANGED <<manifest, strict, active, required, pc, level, wave, started, failed, reached>>

ResolveUnit(u) ==
  /\ pc = "resolve" /\ u \in todo
  /\ ~Is(u, {"target"})
  /\ ~(strict /\ Missing(u))
  /\ deps' = [deps EXCEPT ![u] = Before(u)]
  /\ rdeps' = [d \in Units |-> IF d \in Before(u) THEN rdeps[d] \cup {u} ELSE rdeps[d]]
  /\ todo' = todo \ {u}
  /\ UNCHANGED <<manifest, strict, active, required, pc, level, wave, started, failed, reached>>

SkipTarget(u) ==
  /\ pc = "resolve" /\ u \in todo /\ Is(u, {"target"})
  /\ todo' = todo \ {u}
  /\ UNCHANGED <<graphVars, pc, level, wave, started, failed, reached>>

\* boot_parallel is left in the middle of the resolution: the unit is already in the
\* reverse map of what it names before the missing name, its own vector is the old one.
ResolveFails(u) ==
  /\ pc = "resolve" /\ u \in todo
  /\ ~Is(u, {"target"})
  /\ strict /\ Missing(u)
  /\ \E P \in SUBSET Before(u) :
       rdeps' = [d \in Units |-> IF d \in P THEN rdeps[d] \cup {u} ELSE rdeps[d]]
  /\ pc' = "idle"
  /\ todo' = {}
  /\ UNCHANGED <<manifest, strict, active, required, deps, level, wave, started, failed, reached>>

-----------------------------------------------------------------------------
(* boot_waves: Kahn's algorithm over whatever dependencies and their        *)
(* reverse map hold.  A unit is ready once as many units that have it in    *)
(* their reverse map are in a wave as it has dependencies.                  *)

Scheduling == pc = "resolve" /\ todo = {}
Unscheduled == {u \in Bootable : level[u] = 0}

\* Mutant: a unit is scheduled one dependency too early.
ReadyEarly ==
  {u \in Unscheduled :
     Cardinality({d \in Bootable \ Unscheduled : u \in rdeps[d]}) + 1 >= Cardinality(deps[u])}

Ready ==
  {u \in Unscheduled :
     Cardinality({d \in Bootable \ Unscheduled : u \in rdeps[d]}) >= Cardinality(deps[u])}

ScheduleWave ==
  /\ Scheduling /\ Ready # {}
  /\ wave' = wave + 1
  /\ level' = [u \in Units |-> IF u \in Ready THEN wave + 1 ELSE level[u]]
  /\ UNCHANGED <<graphVars, pc, todo, started, failed, reached>>

\* A lenient boot that has found a cycle starts everything in one wave.
ScheduleDone ==
  /\ Scheduling /\ Ready = {}
  /\ \/ Unscheduled = {} /\ UNCHANGED level
     \/ /\ Unscheduled # {} /\ ~strict
        /\ level' = [u \in Units |-> IF u \in Bootable THEN 1 ELSE 0]
  /\ wave' = 1
  /\ pc' = "start"
  /\ UNCHANGED <<graphVars, todo, started, failed, reached>>

\* CycleDetected.
ScheduleFails ==
  /\ Scheduling /\ Ready = {} /\ Unscheduled # {} /\ strict
  /\ pc' = "idle"
  /\ UNCHANGED <<graphVars, todo, level, wave, started, failed, reached>>

-----------------------------------------------------------------------------
(* The starts of boot_parallel.                                            *)

\* What there is to start in the wave, a kind at a time.
InWave(K) == {u \in OfKind(K) : level[u] = wave} \ (started \cup failed)
Turn ==
  IF InWave({"socket"}) # {} THEN InWave({"socket"})
  ELSE IF InWave({"mount"}) # {} THEN InWave({"mount"})
  ELSE InWave({"service"})

StartSucceeds(u) ==
  /\ pc = "start" /\ u \in Turn
  /\ started' = started \cup {u}
  /\ UNCHANGED <<graphVars, pc, todo, level, wave, failed, reached>>

\* Mutant: a strict boot goes on after a failure.
StartFailsOnly(u) ==
  /\ pc = "start" /\ u \in Turn
  /\ failed' = failed \cup {u}
  /\ pc' = "start"
  /\ UNCHANGED <<graphVars, todo, level, wave, started, reached>>

\* In a strict boot the failure of a required unit ends the boot.
StartFails(u) ==
  /\ pc = "start" /\ u \in Turn
  /\ failed' = failed \cup {u}
  /\ pc' = IF strict /\ u \in required THEN "idle" ELSE "start"
  /\ UNCHANGED <<graphVars, todo, level, wave, started, reached>>

\* Mutant: the next wave does not wait for the end of this one.
NextWaveEarly ==
  /\ pc = "start"
  /\ \E u \in Units : level[u] > wave
  /\ wave' = wave + 1
  /\ UNCHANGED <<graphVars, pc, todo, level, started, failed, reached>>

NextWave ==
  /\ pc = "start" /\ Turn = {}
  /\ \E u \in Units : level[u] > wave
  /\ wave' = wave + 1
  /\ UNCHANGED <<graphVars, pc, todo, level, started, failed, reached>>

\* Mutant: the last wave is left out.
ReachedEarly ==
  /\ pc = "start" /\ Turn = {}
  /\ \A u \in Units : level[u] <= wave + 1
  /\ pc' = "idle"
  /\ reached' = TRUE
  /\ UNCHANGED <<graphVars, todo, level, wave, started, failed>>

TargetReached ==
  /\ pc = "start" /\ Turn = {}
  /\ \A u \in Units : level[u] <= wave
  /\ pc' = "idle"
  /\ reached' = TRUE
  /\ UNCHANGED <<graphVars, todo, level, wave, started, failed>>

\* start_service_by_name, from a socket, a timer or a device: the unit becomes active,
\* its dependencies are neither resolved nor started.
StartByName(n) ==
  /\ pc = "idle" /\ Lookup(n) \in OfKind({"service"})
  /\ active' = active \cup {Lookup(n)}
  /\ UNCHANGED <<manifest, strict, required, deps, rdeps, bootVars>>

-----------------------------------------------------------------------------
Init ==
  /\ manifest \in Manifests /\ strict \in BOOLEAN
  /\ active = {} /\ required = {}
  /\ deps = [u \in Units |-> {}]
  /\ rdeps = [u \in Units |-> {}]
  /\ pc = "idle" /\ todo = {}
  /\ level = [u \in Units |-> 0]
  /\ wave = 0
  /\ started = {} /\ failed = {} /\ reached = FALSE

\* Each boot of boot_with_fallback, and that of activate_target, is one of these.
Resolve ==
  \/ \E t \in Units : BootRefused(t)
  \/ \E t \in Units, excluded \in Exclusions : Boot(t, excluded)
  \/ \E u \in Units : ResolveUnit(u)
  \/ \E u \in Units : SkipTarget(u)
  \/ \E u \in Units : ResolveFails(u)

Starts ==
  \/ ScheduleWave
  \/ ScheduleDone
  \/ ScheduleFails
  \/ \E u \in Units : StartSucceeds(u)
  \/ \E u \in Units : StartFails(u)
  \/ NextWave
  \/ TargetReached
  \/ \E n \in Names : StartByName(n)

Next == Resolve \/ Starts

Spec == Init /\ [][Next]_vars

-----------------------------------------------------------------------------
TypeOK ==
  /\ manifest \in UnitFiles /\ strict \in BOOLEAN
  /\ active \subseteq Units /\ required \subseteq Units
  /\ deps \in [Units -> SUBSET Units]
  /\ rdeps \in [Units -> SUBSET Units]
  /\ pc \in {"idle", "resolve", "start"}
  /\ todo \subseteq active
  /\ level \in [Units -> Nat]
  /\ wave \in Nat
  /\ started \subseteq Units /\ failed \subseteq Units
  /\ reached \in BOOLEAN

-----------------------------------------------------------------------------
(* Safety.                                                                 *)

\* Some bootable units can never be ready: each waits for another of them, or for a unit
\* no wave contains.
Stuck ==
  \E S \in SUBSET Bootable :
    S # {} /\ \A u \in S : \E d \in Before(u) : d \in S \cup (active \ Bootable)

\* While the waves are started, the dependency vectors are those of this boot's manifests
\* and active units and the reverse map mirrors them, whatever earlier boots, failed
\* resolutions and starts by name have left behind.
GraphMirrors ==
  pc = "start" => \A u \in Bootable :
    /\ deps[u] = Before(u)
    /\ \A d \in Units : u \in rdeps[d] <=> d \in deps[u]

\* The waves hold every bootable unit and nothing else, and unless a lenient boot has
\* given up on a cycle every unit is in a later wave than all it waits for.
WavesRespectOrder ==
  pc = "start" =>
    /\ \A u \in Units : level[u] > 0 <=> u \in Bootable
    /\ ~Stuck => \A u \in Bootable : \A d \in Before(u) : level[d] < level[u]

\* boot_waves reports a cycle only when the manifests of the active units have one, or
\* make a unit wait for a timer; never because of an edge of an earlier boot.
RefusalIsACycle ==
  [][pc = "resolve" /\ pc' = "idle" /\ todo = {} => Stuck]_vars

\* A unit is started by a boot after all it waits for: after their success in a strict boot,
\* after an attempt in a lenient boot without a cycle.
DependenciesFirst ==
  [][\A u \in (started' \cup failed') \ (started \cup failed) :
       LET awaited == Before(u) \cap Startable IN
       IF strict THEN awaited \subseteq started
                 ELSE Stuck \/ awaited \subseteq started \cup failed]_vars

Complete == Startable \subseteq started \cup failed /\ (strict => failed = {})

\* A boot says "Target reached" only when nothing of the target is left to start and, in a
\* strict boot, nothing has failed.
ReachedIsComplete == [][pc = "start" /\ reached' # reached => Complete]_vars

\* The closure, the vectors and their reverse map, the waves and the turns of the kinds
\* implement a boot that fixes its units and their order at once: at most one attempt of
\* each, after all it waits for.  The order is dropped for a cycle only.
BootPhase ==
  CASE pc = "idle" -> "rest" [] pc = "resolve" -> "planning"
    [] pc = "start" -> IF Stuck THEN "unordered" ELSE "ordered"
BootTasks == IF pc = "start" THEN Startable ELSE {}
BootAwaits == [u \in Units |-> IF pc = "start" THEN Before(u) \cap Startable ELSE {}]

Order ==
  INSTANCE BootOrder WITH
    phase <- BootPhase, tasks <- BootTasks, awaits <- BootAwaits, succeeded <- started

ImplementsBootOrder == Order!Spec

-----------------------------------------------------------------------------
(* The inductive invariant: what the loops of resolve_dependencies,         *)
(* boot_waves and boot_parallel keep true between two rounds.               *)

\* A resolved unit is in the reverse map of exactly what its dependency vector names; one
\* that has still to be visited is nowhere in the reverse map.
GraphInv ==
  /\ pc # "resolve" => todo = {}
  /\ pc # "idle" => \A u \in Bootable :
       IF u \in todo THEN \A d \in Units : u \notin rdeps[d]
       ELSE deps[u] = Before(u) /\ \A d \in Units : u \in rdeps[d] <=> d \in deps[u]

\* What has a wave has all it waits for in earlier waves.
Ordered ==
  \A u \in Bootable : level[u] > 0 => \A d \in Before(u) : 0 < level[d] /\ level[d] < level[u]

WaveInv ==
  /\ pc # "idle" => \A u \in Units : level[u] > 0 => u \in Bootable
  /\ pc = "resolve" /\ todo # {} => wave = 0
  /\ pc = "resolve" => Ordered /\ \A u \in Units : level[u] <= wave
  /\ pc = "start" => Ordered \/ (~strict /\ Stuck)
  /\ pc = "start" => \A u \in Bootable : level[u] > 0

\* The waves before the current one are over; nothing has failed in a strict boot.
StartInv ==
  /\ pc # "idle" => active \subseteq required
  /\ pc = "resolve" => started = {} /\ failed = {}
  /\ pc = "start" =>
       /\ wave > 0
       /\ \A u \in Startable : level[u] < wave => u \in started \cup failed
       /\ strict => failed = {}

IInv == TypeOK /\ GraphInv /\ WaveInv /\ StartInv

=============================================================================
