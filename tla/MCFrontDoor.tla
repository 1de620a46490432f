----------------------------- MODULE MCFrontDoor -----------------------------
(* Two sessions, two database threads, one account. *)
EXTENDS FrontDoor
=============================================================================
