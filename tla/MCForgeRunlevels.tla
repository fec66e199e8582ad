--------------------------- MODULE MCForgeRunlevels ---------------------------
(***************************************************************************)
(* Instances of ForgeRunlevels for TLC.                                     *)
(***************************************************************************)
EXTENDS ForgeRunlevels, TLC

\* The runlevels field is empty, or names one level.
MCUnitRunlevels == {[s \in Services |-> f] : f \in {{}, {"boot"}, {"single"}}}

ThreadSymmetry == Permutations(Threads)
=============================================================================
