------------------------ MODULE ForgeRunlevels_proofs ------------------------
(***************************************************************************)
(* Proofs about ForgeRunlevels: its inductive invariant, that a verdict is  *)
(* justified whatever the other threads do, and that it implements          *)
(* RunlevelDatabase.                                                        *)
(***************************************************************************)
EXTENDS ForgeRunlevels, TLAPS

ControlStep ==
  \E t \in Threads :
    \/ \E op \in {"enable", "disable"}, l \in Levels, s \in Services : Submit(t, op, l, s)
    \/ Enable(t) \/ Disable(t) \/ Remove(t)

-----------------------------------------------------------------------------
\* No ancestor chain has more than four levels.
LEMMA AncestorLength ==
  \A l : Len(Ancestors(l)) \in 0..4 /\ DOMAIN Ancestors(l) = 1..Len(Ancestors(l))
<1> SUFFICES ASSUME NEW l
             PROVE Len(Ancestors(l)) \in 0..4 /\ DOMAIN Ancestors(l) = 1..Len(Ancestors(l))
  OBVIOUS
<1>1. CASE l \in {"single", "rescue", "emergency"}
  BY <1>1 DEF Ancestors
<1>2. CASE l = "sysinit"
  BY <1>2 DEF Ancestors
<1>6. CASE l = "boot"
  BY <1>6 DEF Ancestors
<1>3. CASE l = "multi-user"
  BY <1>3 DEF Ancestors
<1>4. CASE l = "graphical"
  BY <1>4 DEF Ancestors
<1>5. CASE l \notin {"single", "rescue", "emergency", "sysinit", "boot", "multi-user", "graphical"}
  <2>1. Ancestors(l) = <<>>
    BY <1>5 DEF Ancestors
  <2> QED
    BY <2>1
<1> QED
  BY <1>1, <1>2, <1>3, <1>4, <1>5, <1>6

\* No ancestor chain names a level twice.
LEMMA AncestorsDiffer ==
  \A l : \A i, j \in 1..Len(Ancestors(l)) : Ancestors(l)[i] = Ancestors(l)[j] => i = j
BY DEF Ancestors

\* The chains are the inheritance that the header of rc_update.rs draws.
LEMMA AncestorsAreInherited == \A l : AncestorSet(l) = Inherited(l)
<1> SUFFICES ASSUME NEW l PROVE AncestorSet(l) = Inherited(l)
  OBVIOUS
<1>1. CASE l \in {"single", "rescue", "emergency"}
  BY <1>1 DEF AncestorSet, Ancestors, Inherited
<1>2. CASE l = "sysinit"
  BY <1>2 DEF AncestorSet, Ancestors, Inherited, Row
<1>3. CASE l = "boot"
  BY <1>3 DEF AncestorSet, Ancestors, Inherited, Row
<1>4. CASE l = "multi-user"
  BY <1>4 DEF AncestorSet, Ancestors, Inherited, Row
<1>5. CASE l = "graphical"
  BY <1>5 DEF AncestorSet, Ancestors, Inherited, Row
<1>6. CASE l \notin {"single", "rescue", "emergency", "sysinit", "boot", "multi-user", "graphical"}
  BY <1>6 DEF AncestorSet, Ancestors, Inherited, Row
<1> QED
  BY <1>1, <1>2, <1>3, <1>4, <1>5, <1>6

-----------------------------------------------------------------------------
(***************************************************************************)
(* The invariant.                                                           *)
(***************************************************************************)
LEMMA InitInv == Init => IInv
BY RunlevelAssumption DEF Init, IInv, TypeOK, FilterInv, Idle

LEMMA SubmitInv ==
  ASSUME IInv, NEW t \in Threads, NEW op \in {"enable", "disable"},
         NEW l \in Levels, NEW s \in Services, Submit(t, op, l, s)
  PROVE IInv'
BY DEF IInv, TypeOK, FilterInv, Submit, bootVars, Requests, UnitEligible

LEMMA EnableInv == ASSUME IInv, NEW t \in Threads, Enable(t) PROVE IInv'
<1>1. request[t] \in Requests
  BY DEF IInv, TypeOK, Enable, Idle
<1>2. TypeOK'
  BY <1>1 DEF IInv, TypeOK, Enable, Reply, Requests, Remember, bootVars
<1>3. FilterInv'
  BY DEF IInv, FilterInv, Enable, Remember, bootVars, UnitEligible
<1> QED
  BY <1>2, <1>3 DEF IInv

LEMMA DisableInv == ASSUME IInv, NEW t \in Threads, Disable(t) PROVE IInv'
<1>1. request[t] \in Requests
  BY DEF IInv, TypeOK, Disable, Idle
<1>2. TypeOK'
  BY <1>1 DEF IInv, TypeOK, Disable, Reply, Requests, bootVars
<1>3. FilterInv'
  BY DEF IInv, FilterInv, Disable, bootVars, UnitEligible
<1> QED
  BY <1>2, <1>3 DEF IInv

LEMMA RemoveInv == ASSUME IInv, NEW t \in Threads, Remove(t) PROVE IInv'
<1>1. TypeOK'
  BY DEF IInv, TypeOK, Remove, Reply, Remember, bootVars
<1>2. FilterInv'
  BY DEF IInv, FilterInv, Remove, Remember, bootVars, UnitEligible
<1> QED
  BY <1>1, <1>2 DEF IInv

LEMMA BeginInv == ASSUME IInv, NEW target \in Levels, BeginFilter(target) PROVE IInv'
BY RunlevelAssumption DEF IInv, TypeOK, FilterInv, BeginFilter, TargetToRunlevel

LEMMA NextServiceInv == ASSUME IInv, NEW s \in Services, NextService(s) PROVE IInv'
BY AncestorLength DEF IInv, TypeOK, FilterInv, NextService, UnitEligible

LEMMA LookAtLevelInv == ASSUME IInv, LookAtLevel PROVE IInv'
<1>1. depth \in 1..4 /\ depth <= Len(Ancestors(level)) /\ Len(Ancestors(level)) \in 0..4
  BY AncestorLength DEF IInv, TypeOK, LookAtLevel
<1>2. level # "none"
  BY DEF IInv, FilterInv, LookAtLevel
<1>3. CASE <<Ancestors(level)[depth], current>> \in marker
  <2>1. TypeOK'
    BY <1>3 DEF IInv, TypeOK, LookAtLevel
  <2>2. current' = "none" /\ unseen' = unseen /\ kept' = kept \cup {current} /\ "none" \notin Services
    BY <1>3, RunlevelAssumption DEF LookAtLevel
  <2>3. kept' \cap (unseen' \cup {current'}) = {}
    BY <2>2 DEF IInv, TypeOK, FilterInv, LookAtLevel
  <2>4. FilterInv'
    BY <1>2, <2>2, <2>3 DEF IInv, FilterInv, LookAtLevel
  <2> QED
    BY <2>1, <2>4 DEF IInv
<1>4. CASE <<Ancestors(level)[depth], current>> \notin marker
  <2>1. TypeOK'
    BY <1>1, <1>4 DEF IInv, TypeOK, LookAtLevel
  <2>2. \A i \in 1..depth : <<Ancestors(level)[i], current>> \notin always
    BY <1>1, <1>2, <1>4 DEF IInv, FilterInv, LookAtLevel
  <2>3. FilterInv'
    BY <1>1, <1>2, <1>4, <2>2 DEF IInv, FilterInv, LookAtLevel, UnitEligible
  <2> QED
    BY <2>1, <2>3 DEF IInv
<1> QED
  BY <1>3, <1>4

LEMMA NotEnabledInv == ASSUME IInv, NotEnabled PROVE IInv'
BY RunlevelAssumption DEF IInv, TypeOK, FilterInv, NotEnabled, UnitEligible

LEMMA EndInv == ASSUME IInv, EndFilter PROVE IInv'
BY RunlevelAssumption DEF IInv, TypeOK, FilterInv, EndFilter

LEMMA StepInv == IInv /\ [Next]_vars => IInv'
<1> SUFFICES ASSUME IInv, [Next]_vars PROVE IInv'
  OBVIOUS
<1>1. CASE UNCHANGED vars
  BY <1>1 DEF IInv, TypeOK, FilterInv, vars, UnitEligible
<1>2. CASE ControlStep
  BY <1>2, SubmitInv, EnableInv, DisableInv, RemoveInv DEF ControlStep
<1>3. CASE \E target \in Levels : BeginFilter(target)
  BY <1>3, BeginInv
<1>4. CASE \E s \in Services : NextService(s)
  BY <1>4, NextServiceInv
<1>5. CASE LookAtLevel \/ NotEnabled \/ EndFilter
  BY <1>5, LookAtLevelInv, NotEnabledInv, EndInv
<1> QED
  BY <1>1, <1>2, <1>3, <1>4, <1>5 DEF Next, ControlStep

\* Where the loop of filter_active_by_runlevel is, and what it cannot have overlooked.
THEOREM Inductive == Spec => []IInv
BY InitInv, StepInv, PTL DEF Spec

-----------------------------------------------------------------------------
(***************************************************************************)
(* Verdicts.                                                                *)
(***************************************************************************)
Justified ==
  \A s \in Services :
    current = s /\ current' = "none" =>
      IF s \in kept' THEN \E l \in Inherited(level) : <<l, s>> \in ever
      ELSE \A l \in Inherited(level) : <<l, s>> \notin always

\* In every step the code's inheritance and its caution about changed markers give the verdict.
LEMMA StepJustified == IInv /\ [Next]_vars => [Justified]_vars
<1> SUFFICES ASSUME IInv, Next, NEW s \in Services, current = s, current' = "none"
             PROVE IF s \in kept' THEN \E l \in Inherited(level) : <<l, s>> \in ever
                   ELSE \A l \in Inherited(level) : <<l, s>> \notin always
  BY DEF Justified
<1>1. s # "none" /\ level # "none"
  BY RunlevelAssumption DEF IInv, FilterInv
<1>2. CASE LookAtLevel
  <2>1. depth \in 1..Len(Ancestors(level)) /\ depth \in Nat
    BY <1>1, <1>2, AncestorLength DEF IInv, TypeOK, LookAtLevel
  <2>2. <<Ancestors(level)[depth], s>> \in marker /\ s \in kept'
    BY <1>1, <1>2 DEF LookAtLevel
  <2>3. Ancestors(level)[depth] \in Inherited(level)
    BY <2>1, AncestorLength, AncestorsAreInherited DEF AncestorSet
  <2>4. <<Ancestors(level)[depth], s>> \in ever
    BY <1>1, <2>2 DEF IInv, FilterInv
  <2> QED
    BY <2>2, <2>3, <2>4
<1>3. CASE NotEnabled
  <2>1. \A i \in 1..Len(Ancestors(level)) : <<Ancestors(level)[i], s>> \notin always
    BY <1>1, <1>3, AncestorLength DEF IInv, TypeOK, FilterInv, NotEnabled
  <2>2. \A l \in Inherited(level) : <<l, s>> \notin always
    BY <2>1, AncestorLength, AncestorsAreInherited DEF AncestorSet
  <2>3. s \notin kept
    BY <1>1 DEF IInv, FilterInv
  <2> QED
    BY <1>3, <2>2, <2>3 DEF NotEnabled
<1>4. CASE ControlStep
  BY <1>1, <1>4 DEF ControlStep, Submit, Enable, Disable, Remove, bootVars
<1>5. CASE (\E target \in Levels : BeginFilter(target)) \/ (\E u \in Services : NextService(u)) \/ EndFilter
  BY <1>1, <1>5 DEF BeginFilter, NextService, EndFilter
<1> QED
  BY <1>2, <1>3, <1>4, <1>5 DEF Next, ControlStep

\* A boot keeps only services that were enabled in an inherited level, and excludes none that was
\* enabled in one all the time.
THEOREM Justification == Spec => VerdictsAreJustified
<1>1. IInv /\ [Next]_vars => [Justified]_vars
  BY StepJustified
<1> QED
  BY <1>1, Inductive, PTL DEF Spec, VerdictsAreJustified, Justified

-----------------------------------------------------------------------------
(***************************************************************************)
(* The refinement.                                                          *)
(***************************************************************************)
LEMMA InitRefines == Init => Database!Init
BY RunlevelAssumption DEF Init, Database!Init, Waiting

LEMMA ControlRefines == IInv /\ ControlStep => [Database!Next]_(Database!vars)
<1> SUFFICES ASSUME IInv, NEW t \in Threads,
                    \/ \E op \in {"enable", "disable"}, l \in Levels, s \in Services :
                         Submit(t, op, l, s)
                    \/ Enable(t) \/ Disable(t) \/ Remove(t)
             PROVE [Database!Next]_(Database!vars)
  BY DEF ControlStep
<1>1. UNCHANGED bootVars /\ runlevels' = runlevels
  BY DEF Submit, Enable, Disable, Remove, bootVars
<1>2. \A s : Waiting(s)' = Waiting(s)
  BY <1>1 DEF Waiting, EligibleAt, bootVars
<1>3. [s \in Services |-> Waiting(s)]' = [s \in Services |-> Waiting(s)]
  BY <1>2
<1>4. level' = level /\ kept' = kept
  BY <1>1 DEF bootVars
<1>5. CASE marker' = marker
  BY <1>1, <1>3, <1>4, <1>5 DEF Database!vars
<1>6. CASE marker' # marker
  <2>1. request[t] \in Requests
    BY <1>6 DEF IInv, TypeOK, Submit, Enable, Disable, Remove, Idle
  <2>2. \/ marker' = marker \cup {<<request[t].level, request[t].service>>}
        \/ marker' = marker \ {<<request[t].level, request[t].service>>}
    BY <1>6 DEF Submit, Enable, Disable, Remove
  <2>3. \/ Database!Enable(request[t].level, request[t].service)
        \/ Database!Disable(request[t].level, request[t].service)
    BY <1>1, <1>3, <1>4, <2>2 DEF Database!Enable, Database!Disable
  <2> QED
    BY <2>1, <2>3 DEF Database!Next, Requests
<1> QED
  BY <1>5, <1>6

LEMMA BeginRefines ==
  ASSUME IInv, NEW target \in Levels, BeginFilter(target) PROVE Database!Next
<1> DEFINE r == TargetToRunlevel(target)
<1>1. r \in Levels /\ r # "none" /\ level' = r /\ runlevels' = runlevels
  BY RunlevelAssumption DEF BeginFilter, TargetToRunlevel
<1>2. unseen' = Services /\ current' = "none" /\ kept' = {} /\ marker' = marker
  BY DEF BeginFilter
<1>3. ASSUME NEW s \in Services
      PROVE Waiting(s)' = IF Database!Eligible(s, r) THEN Inherited(r) ELSE {}
  BY <1>1, <1>2 DEF Waiting, EligibleAt, Database!Eligible
<1>4. [s \in Services |-> Waiting(s)]'
        = [s \in Services |-> IF Database!Eligible(s, r) THEN [l \in Levels |-> Inherited(l)][r] ELSE {}]
  BY <1>1, <1>3
<1>5. Database!Begin(r)
  BY <1>1, <1>2, <1>4 DEF BeginFilter, Database!Begin
<1> QED
  BY <1>1, <1>5 DEF Database!Next

LEMMA NextServiceRefines ==
  ASSUME IInv, NEW s \in Services, NextService(s) PROVE UNCHANGED Database!vars
<1>1. level' = level /\ marker' = marker /\ kept' = kept /\ runlevels' = runlevels
  BY DEF NextService
<1>2. s # "none" /\ "none" \notin Services /\ current = "none" /\ depth' = 1
  BY RunlevelAssumption DEF NextService
<1>3. s \in EligibleAt(level) <=> UnitEligible(s, level)
  BY AncestorsAreInherited DEF EligibleAt, UnitEligible
<1>4. {Ancestors(level)[i] : i \in 1..Len(Ancestors(level))} = Inherited(level)
  BY AncestorLength, AncestorsAreInherited DEF AncestorSet
<1>5. ASSUME NEW u \in Services PROVE Waiting(u)' = Waiting(u)
  <2>1. CASE u = s
    BY <1>1, <1>2, <1>3, <1>4, <2>1 DEF Waiting, NextService
  <2>2. CASE u # s
    BY <1>1, <1>2, <2>2 DEF Waiting, NextService, EligibleAt
  <2> QED
    BY <2>1, <2>2
<1>6. [u \in Services |-> Waiting(u)]' = [u \in Services |-> Waiting(u)]
  BY <1>5
<1> QED
  BY <1>1, <1>6 DEF Database!vars

LEMMA LookAtLevelRefines == ASSUME IInv, LookAtLevel PROVE Database!Next
<1> DEFINE l == Ancestors(level)[depth]
<1>1. current \in Services /\ current \notin unseen /\ level \in Levels
  BY DEF IInv, TypeOK, FilterInv, LookAtLevel
<1>2. depth \in 1..Len(Ancestors(level)) /\ Len(Ancestors(level)) \in Nat
  BY AncestorLength DEF IInv, TypeOK, LookAtLevel
<1>3. l \in Levels /\ l \in Waiting(current)
  <2>1. l \in AncestorSet(level)
    BY <1>2, AncestorLength DEF AncestorSet
  <2> QED
    BY <1>1, <1>2, <2>1, AncestorAssumption DEF Waiting
<1>4. UNCHANGED <<runlevels, marker, request, level, unseen>> /\ level # "none"
  BY DEF LookAtLevel, IInv, FilterInv
<1>. PICK s \in Services : s = current
  BY <1>1
<1>5. ASSUME NEW u \in Services, u # s PROVE Waiting(u)' = Waiting(u)
  BY <1>4, <1>5, RunlevelAssumption DEF Waiting, EligibleAt, LookAtLevel
<1>6. CASE <<l, s>> \in marker
  <2>1. Waiting(s)' = {}
    BY <1>1, <1>4, <1>6, RunlevelAssumption DEF Waiting, LookAtLevel
  <2>2. [u \in Services |-> Waiting(u)]' = [[u \in Services |-> Waiting(u)] EXCEPT ![s] = {}]
    BY <1>1, <1>5, <2>1
  <2>3. Database!Consult(l, s)
    BY <1>1, <1>3, <1>4, <1>6, <2>2 DEF Database!Consult, LookAtLevel
  <2> QED
    BY <1>1, <1>3, <2>3 DEF Database!Next
<1>7. CASE <<l, s>> \notin marker
  <2>1. depth' = depth + 1 /\ current' = current /\ kept' = kept
    BY <1>7 DEF LookAtLevel
  <2>2. Waiting(s)' = Waiting(s) \ {l}
    BY <1>1, <1>2, <1>4, <2>1, AncestorsDiffer DEF Waiting
  <2>3. [u \in Services |-> Waiting(u)]'
          = [[u \in Services |-> Waiting(u)] EXCEPT ![s] = Waiting(s) \ {l}]
    BY <1>1, <1>5, <2>2
  <2>4. Database!Consult(l, s)
    BY <1>1, <1>3, <1>4, <1>7, <2>1, <2>3 DEF Database!Consult
  <2> QED
    BY <1>1, <1>3, <2>4 DEF Database!Next
<1> QED
  BY <1>6, <1>7

LEMMA NotEnabledRefines == ASSUME IInv, NotEnabled PROVE UNCHANGED Database!vars
<1>1. current \in Services /\ current \notin unseen /\ current # "none"
  BY DEF IInv, TypeOK, FilterInv, NotEnabled
<1>2. depth > Len(Ancestors(level)) /\ depth \in Nat /\ Len(Ancestors(level)) \in Nat
  BY AncestorLength DEF IInv, TypeOK, NotEnabled
<1>3. UNCHANGED <<runlevels, marker, level, unseen, kept>> /\ current' = "none"
  BY DEF NotEnabled
<1>4. ASSUME NEW u \in Services PROVE Waiting(u)' = Waiting(u)
  <2>1. CASE u = current
    BY <1>1, <1>2, <1>3, <2>1, RunlevelAssumption DEF Waiting
  <2>2. CASE u # current
    BY <1>3, <2>2, RunlevelAssumption DEF Waiting, EligibleAt
  <2> QED
    BY <2>1, <2>2
<1>5. [u \in Services |-> Waiting(u)]' = [u \in Services |-> Waiting(u)]
  BY <1>4
<1> QED
  BY <1>3, <1>5 DEF Database!vars

LEMMA EndRefines == ASSUME IInv, EndFilter PROVE Database!Next
<1>1. UNCHANGED <<runlevels, marker, unseen, current, kept>> /\ unseen = {} /\ current = "none"
  BY DEF EndFilter
<1>2. ASSUME NEW s \in Services PROVE Waiting(s)' = {} /\ Waiting(s) = {}
  BY <1>1, RunlevelAssumption DEF Waiting
<1>3. [s \in Services |-> Waiting(s)]' = [s \in Services |-> Waiting(s)]
  BY <1>2
<1>4. Database!End
  BY <1>1, <1>2, <1>3 DEF Database!End, EndFilter
<1> QED
  BY <1>4 DEF Database!Next

LEMMA StepRefines == IInv /\ [Next]_vars => [Database!Next]_(Database!vars)
<1> SUFFICES ASSUME IInv, [Next]_vars PROVE [Database!Next]_(Database!vars)
  OBVIOUS
<1>1. CASE UNCHANGED vars
  <2>1. \A s : Waiting(s)' = Waiting(s)
    BY <1>1 DEF vars, Waiting, EligibleAt
  <2>2. [s \in Services |-> Waiting(s)]' = [s \in Services |-> Waiting(s)]
    BY <2>1
  <2> QED
    BY <1>1, <2>2 DEF vars, Database!vars
<1>2. CASE ControlStep
  BY <1>2, ControlRefines
<1>3. CASE \E target \in Levels : BeginFilter(target)
  BY <1>3, BeginRefines
<1>4. CASE \E s \in Services : NextService(s)
  BY <1>4, NextServiceRefines
<1>5. CASE LookAtLevel
  BY <1>5, LookAtLevelRefines
<1>6. CASE NotEnabled
  BY <1>6, NotEnabledRefines
<1>7. CASE EndFilter
  BY <1>7, EndRefines
<1> QED
  BY <1>1, <1>2, <1>3, <1>4, <1>5, <1>6, <1>7 DEF Next, ControlStep

\* The files, the threads and the loops implement the database that RunlevelDatabase states.
THEOREM Implementation == Spec => ImplementsDatabase
<1>1. Spec => Database!Spec
  BY InitRefines, StepRefines, Inductive, PTL DEF Spec, Database!Spec
<1> QED
  BY <1>1 DEF ImplementsDatabase
=============================================================================
