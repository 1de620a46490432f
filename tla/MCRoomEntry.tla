---------------------------- MODULE MCRoomEntry ----------------------------
(* Two clients and two rooms for one player each. *)
EXTENDS RoomEntry
CONSTANTS s1, s2, r1, r2
=============================================================================
