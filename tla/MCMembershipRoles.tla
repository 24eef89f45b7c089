------------------------- MODULE MCMembershipRoles --------------------------
(* Instances of MembershipRoles for TLC. *)
EXTENDS MembershipRoles, TLC

AllOps == {"P-7", "P-8", "P-28", "O-7", "I-3", "I-4", "I-5", "I-10"}

(* The goroutines are interchangeable. *)
Procs == Permutations(Proc)
=============================================================================
