--------------------------- MODULE MCSessionSend ----------------------------
(* SessionSend for TLC. *)
EXTENDS SessionSend, TLC
CONSTANTS w1, w2, w3, m1, m2, m3

Symmetry == Permutations(Workers) \cup Permutations(Msgs)
=============================================================================
