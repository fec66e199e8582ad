------------------------- MODULE MCForgeSupervisor -------------------------
EXTENDS ForgeSupervisor, TLC
CONSTANTS a, b

MCTypeOf == a :> "simple" @@ b :> "oneshot"
MCPolicy == a :> "always" @@ b :> "always"
MCLevel == a :> 0 @@ b :> 1
MCTargets == {{a, b}}

\* A service that signals readiness, beside one that is restarted on failure only.
NotifyTypeOf == a :> "notify" @@ b :> "simple"
NotifyPolicy == a :> "on-failure" @@ b :> "on-failure"

\* For the liveness runs: one service, and a target that leaves it out.
OneType == a :> "oneshot"
OneSimple == a :> "simple"
OnePolicy == a :> "always"
OneLevel == a :> 0
OneTarget == {{a}}
TwoTargets == {{a}, {}}

PidSymmetry == Permutations(Pids)

=============================================================================
