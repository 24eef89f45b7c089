-------------------------- MODULE MCDeptMemberships -------------------------
(* Instances of DeptMemberships for TLC. *)
EXTENDS DeptMemberships, TLC

(* Departments and goroutines are interchangeable. *)
Symmetric == Permutations(Dept) \cup Permutations(Req)
=============================================================================
