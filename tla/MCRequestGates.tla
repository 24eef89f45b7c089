--------------------------- MODULE MCRequestGates ---------------------------
(* Instances of RequestGates for TLC. *)
EXTENDS RequestGates
=============================================================================
