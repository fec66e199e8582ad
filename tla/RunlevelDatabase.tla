--------------------------- MODULE RunlevelDatabase ---------------------------
(***************************************************************************)
(* What the runlevel database of the Forge promises: services are enabled   *)
(* and disabled per level in one step each, and a boot consults each level  *)
(* its runlevel inherits from exactly once per service, in any order, until *)
(* it finds the service enabled.  It does not look at all levels at once.   *)
(***************************************************************************)
CONSTANTS
  Services, Levels,
  InheritedBy  \* for each runlevel the levels it inherits from, itself included

VARIABLES
  runlevels,   \* the runlevels each service is limited to, none if it is not limited
  enabled,     \* pairs of a level and a service
  booting,     \* the runlevel that a boot is sorting services out for, or "none"
  waiting,     \* for each service the levels the boot has still to consult
  kept         \* services it found enabled

vars == <<runlevels, enabled, booting, waiting, kept>>

Eligible(s, r) == runlevels[s] = {} \/ runlevels[s] \cap InheritedBy[r] # {}

Init ==
  /\ runlevels \in [Services -> SUBSET Levels]
  /\ enabled \in SUBSET (Levels \X Services)
  /\ booting = "none" /\ waiting = [s \in Services |-> {}] /\ kept = {}

Enable(l, s) ==
  /\ enabled' = enabled \cup {<<l, s>>}
  /\ UNCHANGED <<runlevels, booting, waiting, kept>>

Disable(l, s) ==
  /\ enabled' = enabled \ {<<l, s>>}
  /\ UNCHANGED <<runlevels, booting, waiting, kept>>

Begin(r) ==
  /\ booting = "none"
  /\ booting' = r
  /\ waiting' = [s \in Services |-> IF Eligible(s, r) THEN InheritedBy[r] ELSE {}]
  /\ kept' = {}
  /\ UNCHANGED <<runlevels, enabled>>

Consult(l, s) ==
  /\ booting # "none" /\ l \in waiting[s]
  /\ IF <<l, s>> \in enabled
     THEN kept' = kept \cup {s} /\ waiting' = [waiting EXCEPT ![s] = {}]
     ELSE kept' = kept /\ waiting' = [waiting EXCEPT ![s] = waiting[s] \ {l}]
  /\ UNCHANGED <<runlevels, enabled, booting>>

End ==
  /\ booting # "none" /\ \A s \in Services : waiting[s] = {}
  /\ booting' = "none"
  /\ UNCHANGED <<runlevels, enabled, waiting, kept>>

Next ==
  \/ \E l \in Levels, s \in Services : Enable(l, s) \/ Disable(l, s) \/ Consult(l, s)
  \/ \E r \in Levels : Begin(r)
  \/ End

Spec == Init /\ [][Next]_vars
=============================================================================
