----------------------------- MODULE MCRoomTick -----------------------------
(* RoomTick for TLC. *)
EXTENDS RoomTick, TLC
CONSTANTS r1, r2

Symmetry == Permutations(Rooms)
=============================================================================
