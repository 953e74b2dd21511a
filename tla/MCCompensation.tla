-------------------------- MODULE MCCompensation ----------------------------
(* Small instances of Compensation for TLC.                                *)
EXTENDS Compensation

CONSTANTS w1, w2, operator

\* The two workers are interchangeable; the run has no liveness property.
Symmetry == Permutations({w1, w2})
=============================================================================
