----------------------------- MODULE MCForgeDag -----------------------------
EXTENDS ForgeDag, TLC
CONSTANTS goal, rescue, x, y, z, virtual, gone

MCProvider == [n \in Names |-> IF n = virtual THEN y ELSE NoUnit]

\* Two targets over three units; what kind y is and who is ordered after whom varies.
Manifest(yKind, xNeeds, xAfter, yNeeds, yAfter, zWants, zAfter) ==
  [kind     |-> goal :> "target" @@ rescue :> "target" @@ x :> "service" @@ y :> yKind
                  @@ z :> "service",
   after    |-> goal :> {} @@ rescue :> {} @@ x :> xAfter @@ y :> yAfter @@ z :> zAfter,
   requires |-> goal :> {x} @@ rescue :> {z} @@ x :> xNeeds @@ y :> yNeeds @@ z :> {},
   wants    |-> goal :> {z} @@ rescue :> {} @@ x :> {} @@ y :> {} @@ z :> zWants,
   sockets  |-> goal :> {} @@ rescue :> {} @@ x :> (IF yKind = "socket" THEN {y} ELSE {})
                  @@ y :> {} @@ z :> {}]

MCManifests ==
  {Manifest(k, xn, xa, yn, ya, zw, za) :
     k \in {"service", "socket", "mount"}, xn \in {{}, {virtual}}, xa \in {{}, {z}},
     yn \in {{}, {z}}, ya \in {{}, {x}, {gone}}, zw \in {{}, {y}}, za \in {{}, {x}}}
  \cup
  {Manifest(k, xn, {}, {}, ya, {y}, za) :
     k \in {"timer", "device"}, xn \in {{y}, {gone}}, ya \in {{}, {z}}, za \in {{}, {x}}}

MCExclusions == {{}, {z}}

\* The manifests that show the divergences: x needs y, which may need z.
FewManifests == {Manifest("service", {y}, {}, need, {}, {}, {}) : need \in {{}, {z}}}

-----------------------------------------------------------------------------
(* What comments of the source say of the boot and the code does not do.    *)

\* stop_order: boot_waves, in reverse, over what the last resolution and later starts have
\* left.  The units in the first n waves.
Scheduled[n \in Nat] ==
  IF n = 0 THEN {}
  ELSE LET earlier == Scheduled[n - 1] IN
       {u \in Bootable : Cardinality({d \in earlier : u \in rdeps[d]}) >= Cardinality(deps[u])}
AllWaves == Scheduled[Cardinality(Units)]
StopsBefore(u, d) ==
  \E n \in 1..Cardinality(Units) : d \in Scheduled[n] /\ u \notin Scheduled[n]

\* forge.rs on shutdown: "Beginning graceful shutdown (reverse dependency order)".  At
\* rest after a complete boot the stop order exists, and it has every active service in
\* an earlier group than the services it depends on, unless the manifests have a cycle.
StopsInReverseOrder ==
  pc = "idle" /\ reached /\ ~Stuck =>
    /\ AllWaves = Bootable
    /\ \A u \in active \cap OfKind({"service"}) :
         \A d \in Before(u) \cap OfKind({"service"}) : StopsBefore(u, d)

=============================================================================
