---------------------------- MODULE MCAuthzCache ----------------------------
(* Instances of AuthzCache for TLC. *)
EXTENDS AuthzCache
=============================================================================
