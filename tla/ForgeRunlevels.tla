---------------------------- MODULE ForgeRunlevels ----------------------------
(***************************************************************************)
(* The runlevel database of the Forge: marker files that control clients    *)
(* make and remove on two threads without a lock, while a boot sorts out    *)
(* the services that are not enabled, level by level.                       *)
(***************************************************************************)
EXTENDS Naturals, Sequences

CONSTANTS
  Services,
  Levels,        \* directories: the levels of the code, "rescue", and levels of the site
  Threads,       \* threads that serve control requests: the reactor and the socket bridge
  UnitRunlevels  \* what the runlevels fields of the services may be

ASSUME RunlevelAssumption ==
  /\ UnitRunlevels \subseteq [Services -> SUBSET Levels]
  /\ "single" \in Levels /\ "none" \notin Levels \cup Services

VARIABLES
  runlevels,  \* runlevels field of each service
  marker,     \* marker files: pairs of a level and a service
  request,    \* what each thread is doing: an operation, its arguments and how far it got
  level,      \* runlevel of the boot that is sorting services out, or "none"
  unseen,     \* services it has still to look at
  current,    \* the service it looks at, or "none"
  depth,      \* index of the ancestor it looks at next
  kept,       \* services it keeps
  always, ever  \* history: markers that were there all the time of this sorting, or at some time

vars == <<runlevels, marker, request, level, unseen, current, depth, kept, always, ever>>

Idle == [op |-> "idle"]
Requests == [op : {"enable", "disable", "remove"}, level : Levels, service : Services]

TypeOK ==
  /\ runlevels \in UnitRunlevels
  /\ marker \subseteq Levels \X Services
  /\ request \in [Threads -> Requests \cup {Idle}]
  /\ level \in Levels \cup {"none"} /\ unseen \subseteq Services /\ kept \subseteq Services
  /\ current \in Services \cup {"none"} /\ depth \in 1..5
  /\ always \subseteq Levels \X Services /\ ever \subseteq Levels \X Services

-----------------------------------------------------------------------------
\* target_to_runlevel
TargetToRunlevel(target) ==
  IF target \in {"rescue", "single", "emergency"} THEN "single" ELSE target

\* Mutant: single inherits nothing from sysinit.
AncestorsSkipSysinit(l) ==
  CASE l = "boot" -> <<"boot", "sysinit">>
    [] l = "sysinit" -> <<"sysinit">>
    [] l \in {"single", "rescue", "emergency"} -> <<"single">>
    [] OTHER -> <<>>

\* runlevel_ancestors, most specific level first; a level of the site has none.
Ancestors(l) ==
  CASE l = "graphical" -> <<"graphical", "multi-user", "boot", "sysinit">>
    [] l = "multi-user" -> <<"multi-user", "boot", "sysinit">>
    [] l = "boot" -> <<"boot", "sysinit">>
    [] l = "sysinit" -> <<"sysinit">>
    [] l \in {"single", "rescue", "emergency"} -> <<"single", "sysinit">>
    [] OTHER -> <<>>

AncestorSet(l) == {Ancestors(l)[i] : i \in DOMAIN Ancestors(l)}

\* A level that is inherited from is a level.
ASSUME AncestorAssumption == \A l \in Levels : AncestorSet(l) \subseteq Levels

\* unit_eligible_for_runlevel
UnitEligible(s, l) == runlevels[s] = {} \/ runlevels[s] \cap AncestorSet(l) # {}

Init ==
  /\ runlevels \in UnitRunlevels
  /\ marker \in SUBSET (Levels \X Services)
  /\ request = [t \in Threads |-> Idle]
  /\ level = "none" /\ unseen = {} /\ current = "none" /\ depth = 1 /\ kept = {}
  /\ always = {} /\ ever = {}

-----------------------------------------------------------------------------
(***************************************************************************)
(* Control requests.  None of them takes the lock of the supervisor.        *)
(***************************************************************************)
bootVars == <<level, unseen, current, depth, kept>>

\* While a boot sorts services out, remember what it could have seen.
Remember ==
  IF level = "none" THEN UNCHANGED <<always, ever>>
  ELSE always' = always \cap marker' /\ ever' = ever \cup marker'

\* dispatch: enable or disable a service; a missing level means graphical.
Submit(t, op, l, s) ==
  /\ request[t] = Idle
  /\ request' = [request EXCEPT ![t] = [op |-> op, level |-> l, service |-> s]]
  /\ UNCHANGED <<runlevels, marker, bootVars, always, ever>>

Reply(t) == request' = [request EXCEPT ![t] = Idle]

\* enable: the directory and the marker are written, or the client gets an error.
Enable(t) ==
  LET r == request[t] IN
  /\ r.op = "enable"
  /\ Reply(t)
  /\ marker' \in {marker, marker \cup {<<r.level, r.service>>}}
  /\ Remember
  /\ UNCHANGED <<runlevels, bootVars>>

\* disable looks for the marker ...
Disable(t) ==
  LET r == request[t] IN
  /\ r.op = "disable"
  /\ IF <<r.level, r.service>> \in marker
     THEN request' = [request EXCEPT ![t].op = "remove"]
     ELSE Reply(t)
  /\ UNCHANGED <<runlevels, marker, bootVars, always, ever>>

\* ... and then removes it, or gets an error when the other thread was faster.
Remove(t) ==
  LET r == request[t] IN
  /\ r.op = "remove"
  /\ Reply(t)
  /\ marker' = marker \ {<<r.level, r.service>>}
  /\ Remember
  /\ UNCHANGED <<runlevels, bootVars>>

-----------------------------------------------------------------------------
(***************************************************************************)
(* filter_active_by_runlevel, with a seeded database.                       *)
(***************************************************************************)
BeginFilter(target) ==
  /\ level = "none"
  /\ level' = TargetToRunlevel(target)
  /\ unseen' = Services /\ current' = "none" /\ depth' = 1 /\ kept' = {}
  /\ always' = marker /\ ever' = marker
  /\ UNCHANGED <<runlevels, marker, request>>

\* Mutant: the runlevels field is not looked at.
NextServiceOfAnyLevel(s) ==
  /\ level # "none" /\ current = "none" /\ s \in unseen
  /\ unseen' = unseen \ {s} /\ current' = s /\ depth' = 1
  /\ UNCHANGED <<runlevels, marker, request, level, kept, always, ever>>

\* is_enabled of the next service, in the order of a hash set.
NextService(s) ==
  /\ level # "none" /\ current = "none" /\ s \in unseen
  /\ unseen' = unseen \ {s}
  /\ current' = IF UnitEligible(s, level) THEN s ELSE "none"
  /\ depth' = 1
  /\ UNCHANGED <<runlevels, marker, request, level, kept, always, ever>>

\* Mutant: a service without a marker in the first level is given up.
LookAtFirstLevel ==
  /\ current # "none" /\ depth <= Len(Ancestors(level))
  /\ IF <<Ancestors(level)[depth], current>> \in marker
     THEN kept' = kept \cup {current} ELSE UNCHANGED kept
  /\ current' = "none" /\ depth' = 1
  /\ UNCHANGED <<runlevels, marker, request, level, unseen, always, ever>>

\* A marker in the next ancestor enables it ...
LookAtLevel ==
  /\ current # "none" /\ depth <= Len(Ancestors(level))
  /\ IF <<Ancestors(level)[depth], current>> \in marker
     THEN kept' = kept \cup {current} /\ current' = "none" /\ depth' = 1
     ELSE depth' = depth + 1 /\ UNCHANGED <<kept, current>>
  /\ UNCHANGED <<runlevels, marker, request, level, unseen, always, ever>>

\* ... and without one in any of them it is excluded.
NotEnabled ==
  /\ current # "none" /\ depth > Len(Ancestors(level))
  /\ current' = "none" /\ depth' = 1
  /\ UNCHANGED <<runlevels, marker, request, level, unseen, kept, always, ever>>

EndFilter ==
  /\ level # "none" /\ unseen = {} /\ current = "none"
  /\ level' = "none" /\ always' = {} /\ ever' = {}
  /\ UNCHANGED <<runlevels, marker, request, unseen, current, depth, kept>>

Next ==
  \/ \E t \in Threads :
       \/ \E op \in {"enable", "disable"}, l \in Levels, s \in Services : Submit(t, op, l, s)
       \/ Enable(t) \/ Disable(t) \/ Remove(t)
  \/ \E target \in Levels : BeginFilter(target)
  \/ \E s \in Services : NextService(s)
  \/ LookAtLevel \/ NotEnabled \/ EndFilter

Spec == Init /\ [][Next]_vars

-----------------------------------------------------------------------------
(***************************************************************************)
(* What the database promises.                                              *)
(***************************************************************************)
\* The inheritance that the header of rc_update.rs draws: graphical, multi-user, boot, sysinit
\* in a row, and single beside it before sysinit.
Row == <<"sysinit", "boot", "multi-user", "graphical">>
Inherited(l) ==
  IF l \in {"single", "rescue", "emergency"} THEN {"single", "sysinit"}
  ELSE UNION {{Row[j] : j \in 1..i} : i \in {i \in 1..4 : Row[i] = l}}

EligibleAt(l) == {s \in Services : runlevels[s] = {} \/ runlevels[s] \cap Inherited(l) # {}}

\* The levels that the boot has still to look at for a service.
Waiting(s) ==
  IF s \in unseen THEN IF s \in EligibleAt(level) THEN Inherited(level) ELSE {}
  ELSE IF s = current THEN {Ancestors(level)[i] : i \in depth..Len(Ancestors(level))}
  ELSE {}

\* The files, threads and loops implement the database of RunlevelDatabase: per level and service
\* every request and every look is one atomic step, although disable looks before it removes.
Database ==
  INSTANCE RunlevelDatabase WITH
    enabled <- marker, booting <- level, waiting <- [s \in Services |-> Waiting(s)],
    InheritedBy <- [l \in Levels |-> Inherited(l)]

ImplementsDatabase == Database!Spec

\* A verdict is justified: a service that a boot keeps was enabled in a level that its runlevel
\* inherits from at some time during the boot, and one it excludes was enabled in none of them
\* all the time (is_enabled, while enable and disable run on other threads).
VerdictsAreJustified ==
  [][\A s \in Services :
       current = s /\ current' = "none" =>
         IF s \in kept' THEN \E l \in Inherited(level) : <<l, s>> \in ever
         ELSE \A l \in Inherited(level) : <<l, s>> \notin always]_vars

\* Where the boot's loop is: the inductive invariant of the proofs.
FilterInv ==
  /\ level = "none" => unseen = {} /\ current = "none" /\ always = {}
  /\ level # "none" => always \subseteq marker /\ marker \subseteq ever
  /\ kept \cap (unseen \cup {current}) = {}
  /\ current # "none" =>
       /\ current \notin unseen /\ UnitEligible(current, level)
       /\ depth \in 1..(Len(Ancestors(level)) + 1)
       /\ \A i \in 1..(depth - 1) : <<Ancestors(level)[i], current>> \notin always

IInv == TypeOK /\ FilterInv
=============================================================================
