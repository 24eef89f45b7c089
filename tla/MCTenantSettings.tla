-------------------------- MODULE MCTenantSettings --------------------------
(* Instances of TenantSettings for TLC. *)
EXTENDS TenantSettings
=============================================================================
