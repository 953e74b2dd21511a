---------------------------- MODULE MCChildJoin -----------------------------
(* Small instances of ChildJoin for TLC.                                   *)
EXTENDS ChildJoin, TLC

CONSTANTS w1, w2, join, after

\* Sound for the runs that check no liveness: nothing tells the two workers apart.
Symmetry == Permutations({w1, w2})
=============================================================================
