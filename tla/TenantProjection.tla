-------------------------- MODULE TenantProjection --------------------------
(***************************************************************************)
(* The tenants row, the CHECK constraints of its table, and the lifecycle  *)
(* projection that consumed events write into it.  Everything here is a    *)
(* pure operator: TenantLifecycle supplies the transactions around it.     *)
(*                                                                         *)
(* A timestamp column that is only ever tested for NULL is a Boolean; the  *)
(* recency column last_event_at keeps its value, with 0 for NULL.          *)
(***************************************************************************)
EXTENDS Integers

CONSTANTS Plan,        \* the plan codes of the catalog
          NoPlan,      \* a payload whose plan field is empty
          Seats,       \* licensed_seats values a payload may carry
          SignupPlan,  \* the plan I-1 creates the tenant with
          TrialDays    \* trial_duration_days of each plan

ASSUME PlanAssumption == SignupPlan \in Plan /\ NoPlan \notin Plan
ASSUME SeatsAssumption == Seats \subseteq Int
ASSUME TrialDaysAssumption == TrialDays \in [Plan -> Nat \ {0}]

Status == {"trial", "active", "past_due", "cancelled", "suspended",
           "trial_expired", "offboarded"}

RealmType == {"shared", "dedicated"}

SuspensionSource == {"none", "billing_lapse", "operator"}

(* The two queues' event types, as applyProjection names them. *)
EventType ==
  {"TenantRealmReady", "TenantConverted", "DirectPaidSignup", "TrialExpired",
   "TrialReactivated", "TenantSuspended", "TenantOffboarded",
   "TenantPlanChanged", "TenantPaymentPastDue", "TenantSubscriptionCancelled",
   "TenantReactivated", "TenantSeatsChanged"}

(* An envelope: its identity, CloudEvents time, and the payload fields any  *)
(* handler reads.                                                           *)
Event == [id : Nat, type : EventType, time : Nat \ {0},
          plan : Plan \cup {NoPlan}, seats : Seats, source : SuspensionSource]

DefaultTrialSeats == 10

(* The columns of a tenants row that the projection reads or writes.        *)
(* graceOver abbreviates trial_ends_at < now() - grace; trialDays is the    *)
(* length trial_ends_at was last computed with.                             *)
Row == [status : Status, plan : Plan, paid : BOOLEAN, cancelled : BOOLEAN,
        source : SuspensionSource, reactivations : Nat, deleted : BOOLEAN,
        lastEventAt : Nat, seats : Seats \cup {DefaultTrialSeats},
        realm : RealmType, trialDays : Nat, graceOver : BOOLEAN]

(* The row I-1 inserts. *)
FreshRow ==
  [status |-> "trial", plan |-> SignupPlan, paid |-> FALSE,
   cancelled |-> FALSE, source |-> "none", reactivations |-> 0,
   deleted |-> FALSE, lastEventAt |-> 0, seats |-> DefaultTrialSeats,
   realm |-> "shared", trialDays |-> TrialDays[SignupPlan],
   graceOver |-> FALSE]

-----------------------------------------------------------------------------
(* The table's CHECK constraints. *)

SubscriptionStartedRequired(r) ==
  r.status \in {"trial", "trial_expired", "suspended"} \/ r.paid

CancelledAtRequired(r) ==
  CASE r.status \in {"cancelled", "offboarded"} -> r.cancelled
    [] r.status = "suspended" -> r.source = "billing_lapse" => r.cancelled
    [] OTHER -> ~ r.cancelled

SuspensionSourceRequired(r) == (r.status = "suspended") <=> (r.source # "none")

ChecksHold(r) ==
  /\ r.reactivations \in 0..1
  /\ r.seats > 0
  /\ SubscriptionStartedRequired(r)
  /\ r.status = "offboarded" => r.deleted
  /\ CancelledAtRequired(r)
  /\ SuspensionSourceRequired(r)

-----------------------------------------------------------------------------
(* The UPDATE statements of execLifecyclePatch.  A statement whose WHERE    *)
(* clause excludes the row leaves it as it is.                              *)

SetRealm(r) == [r EXCEPT !.realm = "dedicated"]

ActivatePaid(r, plan) ==
  [r EXCEPT !.status = "active", !.paid = TRUE, !.plan = plan,
            !.source = "none"]

SetStatusClearSuspension(r, status) ==
  [r EXCEPT !.status = status, !.source = "none"]

MayReactivateTrial(r) == r.reactivations < 1

TrialReactivate(r, days) ==
  IF MayReactivateTrial(r)
  THEN [SetStatusClearSuspension(r, "trial") EXCEPT
          !.trialDays = days, !.graceOver = FALSE, !.reactivations = @ + 1]
  ELSE r

Suspend(r, source) ==
  [r EXCEPT !.status = "suspended", !.source = source,
            !.cancelled = @ \/ source = "billing_lapse"]

Offboard(r) ==
  [r EXCEPT !.status = "offboarded", !.deleted = TRUE, !.cancelled = TRUE,
            !.source = "none"]

SetPlan(r, plan) == [r EXCEPT !.plan = plan]

Cancel(r) ==
  [r EXCEPT !.status = "cancelled", !.cancelled = TRUE, !.source = "none"]

Reactivate(r) ==
  [r EXCEPT !.status = IF r.paid THEN "active" ELSE "trial",
            !.cancelled = FALSE, !.source = "none"]

SetLicensedSeats(r, seats) == [r EXCEPT !.seats = seats]

-----------------------------------------------------------------------------
(* Faulty variant: an empty plan field is written as it is. *)
PayloadPlanBlank(e, prevPlan) == e.plan

(* A payload without a plan keeps the plan the row has. *)
PayloadPlan(e, prevPlan) == IF e.plan = NoPlan THEN prevPlan ELSE e.plan

(* An absent or unknown source counts as a billing lapse. *)
PayloadSource(e) ==
  IF e.source = "operator" THEN "operator" ELSE "billing_lapse"

(* The row after the event's patch. *)
Patched(r, e, days) ==
  CASE e.type = "TenantRealmReady" -> SetRealm(r)
    [] e.type \in {"TenantConverted", "DirectPaidSignup"} ->
         ActivatePaid(r, PayloadPlan(e, r.plan))
    [] e.type = "TrialExpired" -> SetStatusClearSuspension(r, "trial_expired")
    [] e.type = "TrialReactivated" -> TrialReactivate(r, days)
    [] e.type = "TenantSuspended" -> Suspend(r, PayloadSource(e))
    [] e.type = "TenantOffboarded" -> Offboard(r)
    [] e.type = "TenantPlanChanged" -> SetPlan(r, PayloadPlan(e, r.plan))
    [] e.type = "TenantPaymentPastDue" ->
         SetStatusClearSuspension(r, "past_due")
    [] e.type = "TenantSubscriptionCancelled" -> Cancel(r)
    [] e.type = "TenantReactivated" -> Reactivate(r)
    [] OTHER -> SetLicensedSeats(r, e.seats)

(* The status applyProjection reports.  It is not read back from the row:   *)
(* the code returns the constant that goes with the event type.             *)
ReportedStatus(r, e) ==
  CASE e.type \in {"TenantConverted", "DirectPaidSignup"} -> "active"
    [] e.type = "TrialExpired" -> "trial_expired"
    [] e.type = "TrialReactivated" ->
         IF MayReactivateTrial(r) THEN "trial" ELSE r.status
    [] e.type = "TenantSuspended" -> "suspended"
    [] e.type = "TenantOffboarded" -> "offboarded"
    [] e.type = "TenantPaymentPastDue" -> "past_due"
    [] e.type = "TenantSubscriptionCancelled" -> "cancelled"
    [] e.type = "TenantReactivated" -> IF r.paid THEN "active" ELSE "trial"
    [] OTHER -> r.status

(* Faulty variant: the payload's plan is reported without the fallback. *)
ReportedPlanRaw(r, e) ==
  IF e.type \in {"TenantConverted", "DirectPaidSignup", "TenantPlanChanged"}
  THEN e.plan
  ELSE r.plan

(* The plan applyProjection reports, likewise taken from the payload. *)
ReportedPlan(r, e) ==
  IF e.type \in {"TenantConverted", "DirectPaidSignup", "TenantPlanChanged"}
  THEN PayloadPlan(e, r.plan)
  ELSE r.plan
=============================================================================
