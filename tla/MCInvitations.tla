--------------------------- MODULE MCInvitations ----------------------------
(* Instances of Invitations for TLC. *)
EXTENDS Invitations, TLC

(* People, rows and goroutines are interchangeable. *)
Symmetric == Permutations(Person) \cup Permutations(Inv) \cup Permutations(Req)
=============================================================================
