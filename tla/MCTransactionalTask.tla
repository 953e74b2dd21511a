------------------------ MODULE MCTransactionalTask ------------------------
(* Small instances of TransactionalTask for TLC.                           *)
EXTENDS TransactionalTask, TLC

CONSTANTS w1, w2, save, after

\* Sound: no run checks a liveness property, and nothing tells the workers apart.
Symmetry == Permutations({w1, w2})
=============================================================================
