------------------------- MODULE MCOutboxDelivery ---------------------------
(* Instances of OutboxDelivery for TLC. *)
EXTENDS OutboxDelivery, TLC

CONSTANTS user, tenant, t1, t2

(* A removal announces the user and then the tenant, a wipe the tenant and   *)
(* then its users: two keys, two topics, in opposite orders.                 *)
Ev(k, t) == [key |-> k, topic |-> t]
Removal == <<Ev(user, "membership"), Ev(tenant, "tenant")>>
Wipe == <<Ev(tenant, "membership"), Ev(user, "membership")>>
MCBody == {Removal, Wipe}

(* One transaction removes; the other removes too, or wipes. *)
MCBodyOf == (t1 :> {Removal} @@ t2 :> {Removal, Wipe})
=============================================================================
