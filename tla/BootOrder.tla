------------------------------- MODULE BootOrder -------------------------------
(***************************************************************************)
(* What a boot of the Forge promises, whatever its units are: it settles on *)
(* a set of units and on who waits for whom, all at once, and then attempts *)
(* each unit once, after all that the unit waits for.  Only a lenient boot  *)
(* may drop the order, as a whole; only a lenient boot goes on after a      *)
(* failure.  There are no waves, no reverse map and no traces of earlier    *)
(* boots.                                                                   *)
(***************************************************************************)
CONSTANT Units

VARIABLES
  strict,      \* the first failure ends the boot
  phase,       \* rest, planning, and then ordered or unordered starts
  tasks,       \* the units to attempt
  awaits,      \* for each unit the tasks it waits for
  succeeded, failed,
  reached      \* the last boot reached its target

vars == <<strict, phase, tasks, awaits, succeeded, failed, reached>>
outcome == <<succeeded, failed, reached>>

Nothing == [u \in Units |-> {}]

\* Whatever tasks are left, one of them waits for none of them.
Orderable(T, order) == \A S \in SUBSET T : S # {} => \E u \in S : order[u] \cap S = {}

Init ==
  /\ strict \in BOOLEAN
  /\ phase = "rest" /\ tasks = {} /\ awaits = Nothing
  /\ succeeded = {} /\ failed = {} /\ reached = FALSE

Rest == phase' = "rest" /\ tasks' = {} /\ awaits' = Nothing

Refuse ==
  /\ phase = "rest" /\ reached' = FALSE
  /\ UNCHANGED <<strict, phase, tasks, awaits, succeeded, failed>>

Plan ==
  /\ phase = "rest" /\ phase' = "planning"
  /\ succeeded' = {} /\ failed' = {} /\ reached' = FALSE
  /\ UNCHANGED <<strict, tasks, awaits>>

GiveUp == phase = "planning" /\ Rest /\ UNCHANGED <<strict, outcome>>

Begin ==
  /\ phase = "planning"
  /\ tasks' \subseteq Units /\ awaits' \in [Units -> SUBSET tasks']
  /\ \/ phase' = "ordered" /\ Orderable(tasks', awaits')
     \/ phase' = "unordered" /\ ~strict
  /\ UNCHANGED <<strict, outcome>>

\* In a strict boot the tasks that a unit waits for have succeeded, else they were tried.
Due(u) ==
  /\ u \in tasks \ (succeeded \cup failed)
  /\ \/ phase = "ordered" /\ awaits[u] \subseteq IF strict THEN succeeded ELSE succeeded \cup failed
     \/ phase = "unordered"

Succeed(u) ==
  /\ Due(u)
  /\ succeeded' = succeeded \cup {u}
  /\ UNCHANGED <<strict, phase, tasks, awaits, failed, reached>>

Fail(u) ==
  /\ Due(u)
  /\ failed' = failed \cup {u}
  /\ IF strict THEN Rest ELSE UNCHANGED <<phase, tasks, awaits>>
  /\ UNCHANGED <<strict, succeeded, reached>>

Reach ==
  /\ phase \in {"ordered", "unordered"}
  /\ tasks \subseteq succeeded \cup failed
  /\ Rest /\ reached' = TRUE
  /\ UNCHANGED <<strict, succeeded, failed>>

Next ==
  \/ Refuse \/ Plan \/ GiveUp \/ Begin \/ Reach
  \/ \E u \in Units : Succeed(u) \/ Fail(u)

Spec == Init /\ [][Next]_vars
=============================================================================
