----------------------------- MODULE MCMetrics -----------------------------
(***************************************************************************)
(* Instances of Metrics for TLC.                                           *)
(***************************************************************************)
EXTENDS Metrics, TLC

CONSTANTS c1, c2, harness

\* After a torn reset with no reset left to come no property speaks of anything.
StillTold == torn => resets < MaxResets

Symmetry == Permutations({c1, c2})
=============================================================================
