------------------------- MODULE MCTenantLifecycle --------------------------
(* Instances of TenantLifecycle for TLC. *)
EXTENDS TenantLifecycle, TLC

MCTrialDays == [p \in Plan |-> IF p = SignupPlan THEN 14 ELSE 30]
MCSeats == {3}

(* The types of each instance: enough to drive the path in question. *)
PaidTypes == {"DirectPaidSignup", "TenantSeatsChanged"}
HistoryTypes == {"TrialExpired", "TrialReactivated", "DirectPaidSignup",
                 "TenantSubscriptionCancelled", "TenantSuspended",
                 "TenantOffboarded"}
PlanTypes == {"TenantConverted", "TenantRealmReady", "TenantPaymentPastDue",
              "TenantPlanChanged", "TenantSeatsChanged",
              "TenantSubscriptionCancelled", "TenantReactivated"}

(* The workers are interchangeable. *)
Workers == Permutations(Worker)
=============================================================================
