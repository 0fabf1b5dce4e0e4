---------------------------- MODULE MCLifecycle ----------------------------
(***************************************************************************)
(* Instances of Lifecycle for TLC.                                         *)
(***************************************************************************)
EXTENDS Lifecycle, TLC

CONSTANTS c1, c2, c3, main, ctx

Symmetry == Permutations({c1, c2, c3}) \cup Permutations({main, ctx})
=============================================================================
