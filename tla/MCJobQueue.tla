---------------------------- MODULE MCJobQueue ------------------------------
(* JobQueue for TLC. *)
EXTENDS JobQueue, TLC
CONSTANTS w1, w2, p1, p2, j1, j2, j3, j4

Symmetry == Permutations(Jobs)
=============================================================================
