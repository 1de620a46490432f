--------------------------- MODULE MCSessionRecv ----------------------------
(* SessionRecv for TLC. *)
EXTENDS SessionRecv
=============================================================================
