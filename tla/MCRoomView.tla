----------------------------- MODULE MCRoomView -----------------------------
(* RoomView for TLC. *)
EXTENDS RoomView, TLC
CONSTANTS p1, p2, p3, m1, m2

Symmetry == Permutations(Players) \cup Permutations(Monsters)
=============================================================================
