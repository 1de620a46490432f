---------------------------- MODULE MCMonsterAI ----------------------------
(* MonsterAI for TLC. *)
EXTENDS MonsterAI, TLC
CONSTANTS p1, p2, p3

Symmetry == Permutations(Players)
=============================================================================
