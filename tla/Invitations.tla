---------------------------- MODULE Invitations -----------------------------
(***************************************************************************)
(* Invitations of one tenant and the seats they hold: P-6 (invite), I-3    *)
(* (the REGISTER webhook: accept or plain add), P-31 (revoke), the jobs    *)
(* invitation-expiry, invitation-kc-cleanup and seat-overage-reconcile,    *)
(* and what else changes the seat count (P-7, P-8, TenantSeatsChanged).    *)
(*                                                                         *)
(* P-6 creates a Keycloak account at the Realm Provisioner before its      *)
(* transaction and has to undo that when the transaction refuses.  Nothing *)
(* is held across the call, so each request is a sequence of steps.  A     *)
(* transaction that holds the tenants row FOR UPDATE is split only where a *)
(* writer that does not take that lock can make a difference.              *)
(***************************************************************************)
EXTENDS Integers, FiniteSets

CONSTANTS Person,          \* invitable people: one e-mail, one Keycloak account each
          Inv,             \* rows of pending_invitations
          Req,             \* goroutines that serve requests
          NoInv,           \* no invitation found
          Erased,          \* the e-mail column after ErasePII
          BaseMembers,     \* active members that stay throughout (the owner)
          InitSeats,       \* licensed_seats at the start
          MaxSeats,        \* bound on licensed_seats
          MaxPerHour,      \* INVITE_MAX_PER_TENANT_PER_HOUR, 0 disables
          ActorCeiling,    \* is INVITE_MAX_PER_ACTOR_PER_HOUR above 0?
          LiveTenants,     \* live tenants the seat-overage job lists from
          BatchLimit,      \* RECONCILER_BATCH_LIMIT
          MaxUngated       \* bound on seat growth outside SEAT-1

ASSUME PersonAssumption == IsFiniteSet(Person) /\ Erased \notin Person
ASSUME RowAssumption == IsFiniteSet(Inv) /\ NoInv \notin Inv
ASSUME CeilingAssumption == ActorCeiling \in BOOLEAN
ASSUME SeatAssumption ==
  /\ {BaseMembers, InitSeats, MaxSeats, MaxPerHour, LiveTenants, BatchLimit, MaxUngated}
       \subseteq Nat
  /\ BaseMembers <= InitSeats
  /\ InitSeats <= MaxSeats

VARIABLES
  inv,         \* pending_invitations
  member,      \* tenant_memberships status, "none" without a live row
  seats,       \* tenants.licensed_seats
  overage,     \* tenants.overage_since IS NOT NULL
  account,     \* Keycloak: "none", "shell" (never activated), "active";
               \* history: "lost" for a shell that P-6 or P-31 lost track of
  req,         \* the request of each goroutine
  expiry,      \* rows the running invitation-expiry statement has selected
  cleaning,    \* the row invitation-kc-cleanup has deleted the account of
  ungated      \* history: seats taken outside SEAT-1's check

rowVars == <<inv, member, seats, overage>>
jobVars == <<expiry, cleaning>>
vars == <<rowVars, account, req, jobVars, ungated>>

InvitationStatus == {"absent", "pending", "accepted", "expired", "revoked"}

(* Age of a row: created within the cool-down and the hourly window, older,  *)
(* past expires_at.                                                          *)
Recent == 0
Older == 1
Overdue == 2

Row == [email : Person \cup {Erased}, user : Person \cup {Erased}, status : InvitationStatus,
        age : {Recent, Older, Overdue}, kc : BOOLEAN]

NoRow == [email |-> Erased, user |-> Erased, status |-> "absent", age |-> Recent,
          kc |-> FALSE]

Absent(i) == inv[i].status = "absent"
IsPending(i) == inv[i].status = "pending"

Idle == [at |-> "idle", who |-> Erased, row |-> NoInv, full |-> FALSE]

(* LockSeatOccupancy, LicensedSeatsForUpdate: the tenants row is held FOR    *)
(* UPDATE from the count to the commit.                                      *)
TenantLocked == \E r \in Req : req[r].at = "insert"

----------------------------------------------------------------------------
(* Reads. *)

CountActive == BaseMembers + Cardinality({p \in Person : member[p] = "active"})

CountPending ==
  Cardinality({i \in Inv : IsPending(i) /\ inv[i].age # Overdue})

Usage == CountActive + CountPending

AtCap == Usage >= seats

OverCap == Usage > seats

FindPendingByEmail(p) ==
  LET found == {i \in Inv : IsPending(i) /\ inv[i].email = p}
  IN  IF found = {} THEN NoInv ELSE CHOOSE i \in found : TRUE

FindPendingByKeycloakUser(p) ==
  LET found == {i \in Inv : IsPending(i) /\ inv[i].user = p}
  IN  IF found = {} THEN NoInv ELSE CHOOSE i \in found : TRUE

(* PI-11 finds the latest row by its e-mail column. *)
InvitedRecently(p) ==
  \E i \in Inv : ~Absent(i) /\ inv[i].email = p /\ inv[i].age = Recent

CountCreatedInWindow ==
  Cardinality({i \in Inv : ~Absent(i) /\ inv[i].age = Recent})

(* The query behind the per-actor ceiling names a column deleted_at that     *)
(* pending_invitations does not have: where the ceiling is set, it fails.    *)
Throttled(p) ==
  \/ InvitedRecently(p)
  \/ MaxPerHour > 0 /\ CountCreatedInWindow >= MaxPerHour
  \/ ActorCeiling

----------------------------------------------------------------------------
(* Row updates. *)

InsertRow(i, p, status, marked) ==
  inv' = [inv EXCEPT ![i] =
            [email |-> p, user |-> p, status |-> status, age |-> Recent, kc |-> marked]]

SetStatus(i, status) == inv' = [inv EXCEPT ![i].status = status]

SetKCCleanupPending(row) == [row EXCEPT !.kc = TRUE]

ClearKCCleanupPending(i) == inv' = [inv EXCEPT ![i].kc = FALSE]

(* SECURITY-8: I-3 and P-31 blank the row's personal data in a statement     *)
(* after their last commit; a failure is logged and the data stays.          *)
ErasePII(row) == {row, [row EXCEPT !.email = Erased]}

(* Faulty variant: only the preflight looks for a pending invitation. *)
NoUniqueIndex(p) == TRUE

(* uq_pi_pending *)
UniquePending(p) == FindPendingByEmail(p) = NoInv

(* Realm Provisioner.  The Idempotency-Key is derived from the tenant and    *)
(* the e-mail, so repeated creates lead to the same account.                 *)
CreateInvitedUser(p) ==
  account' = [account EXCEPT ![p] = IF @ = "none" THEN "shell" ELSE @]

(* 404 counts as success. *)
DeleteUser(p) == account' = [account EXCEPT ![p] = "none"]

LoseTrack(p) == account' = [account EXCEPT ![p] = IF @ = "shell" THEN "lost" ELSE @]

Goto(r, at) == req' = [req EXCEPT ![r].at = at]
Finish(r) == req' = [req EXCEPT ![r] = Idle]

----------------------------------------------------------------------------
(* P-6 Invite. *)

(* The checks before the call: none of them is repeated but the seat count. *)
InvitePreflight(p) ==
  /\ FindPendingByEmail(p) = NoInv
  /\ ~Throttled(p)
  /\ ~AtCap

(* Nothing the checks read depends on the account, so they and the call are  *)
(* one step.                                                                 *)
InviteCreateUser(r, p) ==
  /\ req[r] = Idle
  /\ InvitePreflight(p)
  /\ CreateInvitedUser(p)
  /\ req' = [req EXCEPT ![r] = [Idle EXCEPT !.at = "count", !.who = p]]
  /\ UNCHANGED <<rowVars, jobVars, ungated>>

(* The call is reported as failed although it took effect. *)
InviteGiveUp(r, p) ==
  /\ req[r] = Idle
  /\ InvitePreflight(p)
  /\ account[p] = "none"
  /\ account' = [account EXCEPT ![p] = "lost"]
  /\ UNCHANGED <<rowVars, req, jobVars, ungated>>

(* What Token Service may say of a Keycloak user, an outage counting as no.  *)
IsServiceAccount == BOOLEAN

(* AUTH-9 refuses the user that the call returned and leaves the account.    *)
InviteRefused(r) ==
  /\ req[r].at = "count"
  /\ \E automation \in IsServiceAccount : automation
  /\ LoseTrack(req[r].who)
  /\ Finish(r)
  /\ UNCHANGED <<rowVars, jobVars, ungated>>

(* Faulty variant: the counts are read without the tenants row lock. *)
InviteCountUnlocked(r) ==
  /\ req[r].at = "count"
  /\ req' = [req EXCEPT ![r].at = "insert", ![r].full = AtCap]
  /\ UNCHANGED <<rowVars, account, jobVars, ungated>>

(* SELECT licensed_seats FOR UPDATE, then the two counts. *)
InviteCount(r) ==
  /\ req[r].at = "count"
  /\ ~TenantLocked
  /\ req' = [req EXCEPT ![r].at = "insert", ![r].full = AtCap]
  /\ UNCHANGED <<rowVars, account, jobVars, ungated>>

(* The invitation, or, at the cap, the terminal row that remembers the       *)
(* account for invitation-kc-cleanup (PI-9).                                 *)
InviteInsert(r) ==
  LET p == req[r].who IN
  /\ req[r].at = "insert"
  /\ \E i \in Inv :
       /\ Absent(i)
       /\ \/ /\ req[r].full
             /\ InsertRow(i, p, "revoked", TRUE)
             /\ Goto(r, "undo")
          \/ /\ ~req[r].full
             /\ UniquePending(p)
             /\ InsertRow(i, p, "pending", FALSE)
             /\ Finish(r)
  /\ UNCHANGED <<member, seats, overage, account, jobVars, ungated>>

(* uq_pi_pending or any other error rolls the transaction back. *)
InviteTxFails(r) ==
  /\ req[r].at \in {"count", "insert"}
  /\ Goto(r, "undoLost")
  /\ UNCHANGED <<rowVars, account, jobVars, ungated>>

(* DeleteUser after the transaction refused or failed, best effort. *)
InviteUndo(r) ==
  /\ req[r].at \in {"undo", "undoLost"}
  /\ \/ DeleteUser(req[r].who)
     \/ req[r].at = "undoLost" /\ LoseTrack(req[r].who)
     \/ req[r].at = "undo" /\ UNCHANGED account
  /\ Finish(r)
  /\ UNCHANGED <<rowVars, jobVars, ungated>>

----------------------------------------------------------------------------
(* I-3 AddFromRegister. *)

RegisterLookup(r, p) ==
  LET byUser == FindPendingByKeycloakUser(p) IN
  /\ req[r] = Idle
  /\ account[p] = "active"
  /\ req' = [req EXCEPT ![r] =
               [Idle EXCEPT !.at = "register", !.who = p,
                            !.row = IF byUser = NoInv THEN FindPendingByEmail(p) ELSE byUser]]
  /\ UNCHANGED <<rowVars, account, jobVars, ungated>>

(* Under the lock the row that was found counts only if it is still pending. *)
Matched(r) == req[r].row # NoInv /\ IsPending(req[r].row)

(* Late acceptance: the invitation no longer holds a seat. *)
SeatForLate(r) == inv[req[r].row].age = Overdue => ~AtCap

(* ON CONFLICT DO NOTHING keeps an existing row, suspended or not. *)
InsertMember(p) == member' = [member EXCEPT ![p] = IF @ = "none" THEN "active" ELSE @]

RegisterAccept(r) ==
  LET i == req[r].row IN
  /\ req[r].at = "register"
  /\ ~TenantLocked
  /\ Matched(r)
  /\ SeatForLate(r)
  /\ InsertMember(req[r].who)
  /\ \E row \in ErasePII([inv[i] EXCEPT !.status = "accepted"]) : inv' = [inv EXCEPT ![i] = row]
  /\ Finish(r)
  /\ UNCHANGED <<seats, overage, account, jobVars, ungated>>

(* No invitation, or one that ended meanwhile: a plain add, whatever the     *)
(* seat count.                                                               *)
RegisterPlain(r) ==
  /\ req[r].at = "register"
  /\ ~TenantLocked
  /\ ~Matched(r)
  /\ member[req[r].who] = "none" => ungated < MaxUngated
  /\ InsertMember(req[r].who)
  /\ ungated' = IF member[req[r].who] = "none" THEN ungated + 1 ELSE ungated
  /\ Finish(r)
  /\ UNCHANGED <<inv, seats, overage, account, jobVars>>

----------------------------------------------------------------------------
(* P-31 Revoke: three statements, each a transaction of its own. *)

RevokeStatus(r, i) ==
  /\ req[r] = Idle
  /\ IsPending(i)
  /\ SetStatus(i, "revoked")
  /\ req' = [req EXCEPT ![r] = [Idle EXCEPT !.at = "mark", !.row = i, !.who = inv[i].user]]
  /\ UNCHANGED <<member, seats, overage, account, jobVars, ungated>>

(* The second statement compares record_version and ends with 409 when the   *)
(* row has changed: only a sweep that had selected it earlier does that.     *)
RevokeMark(r) ==
  LET i == req[r].row IN
  /\ req[r].at = "mark"
  /\ \/ /\ inv[i].status = "revoked"
        /\ \E row \in ErasePII(SetKCCleanupPending(inv[i])) : inv' = [inv EXCEPT ![i] = row]
     \/ inv[i].status # "revoked" /\ UNCHANGED inv
  /\ Finish(r)
  /\ UNCHANGED <<member, seats, overage, account, jobVars, ungated>>

(* The process dies, or the request fails or times out, wherever it is. *)
Crash(r) ==
  /\ req[r] # Idle
  /\ \/ req[r].at \in {"count", "insert", "undoLost", "mark"} /\ LoseTrack(req[r].who)
     \/ req[r].at \in {"undo", "register"} /\ UNCHANGED account
  /\ Finish(r)
  /\ UNCHANGED <<rowVars, jobVars, ungated>>

----------------------------------------------------------------------------
(* invitation-expiry.  One UPDATE ... WHERE id IN (SELECT ...): the inner    *)
(* SELECT reads one snapshot and locks nothing; a row that another           *)
(* transaction changes before the UPDATE reaches it is updated all the same. *)

ExpirySelect ==
  /\ expiry = {}
  /\ expiry' = {i \in Inv : IsPending(i) /\ inv[i].age = Overdue}
  /\ expiry' # {}
  /\ UNCHANGED <<rowVars, account, req, cleaning, ungated>>

(* Faulty variant: no CHECK. *)
AcceptedAtUnchecked(i) == TRUE

(* accepted_at is set on an accepted row and a CHECK ties it to the status.  *)
AcceptedAtOnlyIfAccepted(i) == inv[i].status # "accepted"

(* Faulty variant: the sweep forgets the Keycloak account. *)
ExpireOverdueUnmarked ==
  /\ expiry # {}
  /\ \A i \in expiry : AcceptedAtOnlyIfAccepted(i)
  /\ inv' = [i \in Inv |->
               IF i \in expiry
               THEN [inv[i] EXCEPT !.status = "expired", !.email = Erased]
               ELSE inv[i]]
  /\ expiry' = {}
  /\ UNCHANGED <<member, seats, overage, account, req, cleaning, ungated>>

ExpireOverdue ==
  /\ expiry # {}
  /\ \A i \in expiry : AcceptedAtOnlyIfAccepted(i)
  /\ inv' = [i \in Inv |->
               IF i \in expiry
               THEN [inv[i] EXCEPT !.status = "expired", !.kc = TRUE, !.email = Erased]
               ELSE inv[i]]
  /\ expiry' = {}
  /\ UNCHANGED <<member, seats, overage, account, req, cleaning, ungated>>

(* The CHECK, an error or a crash: the statement changes nothing. *)
ExpiryFails ==
  /\ expiry # {}
  /\ expiry' = {}
  /\ UNCHANGED <<rowVars, account, req, cleaning, ungated>>

----------------------------------------------------------------------------
(* invitation-kc-cleanup, row by row.  Only this job clears the marker, and   *)
(* keycloak_user_id never changes, so the list it works from is not stale.   *)

(* Faulty variant: the job lists only rows that the expiry sweep marked. *)
CleanupDeleteExpiredOnly(i) ==
  /\ inv[i].kc /\ inv[i].status = "expired"
  /\ cleaning = NoInv
  /\ DeleteUser(inv[i].user)
  /\ cleaning' = i
  /\ UNCHANGED <<rowVars, req, expiry, ungated>>

CleanupDelete(i) ==
  /\ inv[i].kc
  /\ cleaning = NoInv
  /\ DeleteUser(inv[i].user)
  /\ cleaning' = i
  /\ UNCHANGED <<rowVars, req, expiry, ungated>>

(* The marker is cleared by id alone. *)
CleanupClear ==
  /\ cleaning # NoInv
  /\ ClearKCCleanupPending(cleaning)
  /\ cleaning' = NoInv
  /\ UNCHANGED <<member, seats, overage, account, req, expiry, ungated>>

(* The update fails: the marker stays for the next tick. *)
CleanupSkip ==
  /\ cleaning # NoInv
  /\ cleaning' = NoInv
  /\ UNCHANGED <<rowVars, account, req, expiry, ungated>>

----------------------------------------------------------------------------
(* seat-overage-reconcile: one transaction under the tenants row for each    *)
(* tenant of a listing, the only code that moves overage_since.              *)

(* ListSeatOverageCandidates has a LIMIT, no ORDER BY and no test of the     *)
(* seats: a tenant is certain to be listed only where all of them fit.       *)
AlwaysListed == LiveTenants <= BatchLimit

(* Faulty variant: the job only looks at tenants already marked. *)
SeatOverageReconcileMarkedOnly ==
  /\ ~TenantLocked
  /\ overage
  /\ overage # OverCap
  /\ overage' = OverCap
  /\ UNCHANGED <<inv, member, seats, account, req, jobVars, ungated>>

SeatOverageReconcile ==
  /\ ~TenantLocked
  /\ overage # OverCap
  /\ overage' = OverCap
  /\ UNCHANGED <<inv, member, seats, account, req, jobVars, ungated>>

----------------------------------------------------------------------------
(* What else moves the seat count. *)

(* TenantSeatsChanged: a decrease is never refused (SEAT-2). *)
SeatsChanged(n) ==
  /\ ~TenantLocked
  /\ n # seats
  /\ ungated + (IF n < seats THEN seats - n ELSE 0) <= MaxUngated
  /\ seats' = n
  /\ ungated' = IF n < seats THEN ungated + (seats - n) ELSE ungated
  /\ UNCHANGED <<inv, member, overage, account, req, jobVars>>

(* P-7 and I-4 suspend; P-8 removes, and so does I-5, which does not lock the *)
(* tenants row (the refusals are in MembershipRoles).                        *)
LeaveSeat(p, status) ==
  /\ member[p] # "none"
  /\ status # member[p]
  /\ status = "suspended" => member[p] = "active"
  /\ member' = [member EXCEPT ![p] = status]
  /\ UNCHANGED <<inv, seats, overage, account, req, jobVars, ungated>>

(* P-7 reactivates in one statement, without the lock and the cap. *)
Reactivate(p) ==
  /\ member[p] = "suspended"
  /\ ungated < MaxUngated
  /\ member' = [member EXCEPT ![p] = "active"]
  /\ ungated' = ungated + 1
  /\ UNCHANGED <<inv, seats, overage, account, req, jobVars>>

(* Keycloak: the user completes onboarding, or a federated one appears. *)
Onboard(p) ==
  /\ account[p] # "active"
  /\ account' = [account EXCEPT ![p] = "active"]
  /\ UNCHANGED <<rowVars, req, jobVars, ungated>>

Tick(i) ==
  /\ ~Absent(i)
  /\ inv[i].age < Overdue
  /\ inv' = [inv EXCEPT ![i].age = @ + 1]
  /\ UNCHANGED <<member, seats, overage, account, req, jobVars, ungated>>

----------------------------------------------------------------------------
Init ==
  /\ inv = [i \in Inv |-> NoRow]
  /\ member = [p \in Person |-> "none"]
  /\ seats = InitSeats
  /\ overage = FALSE
  /\ account = [p \in Person |-> "none"]
  /\ req = [r \in Req |-> Idle]
  /\ expiry = {}
  /\ cleaning = NoInv
  /\ ungated = 0

Request(r) ==
  \/ \E p \in Person : InviteCreateUser(r, p) \/ InviteGiveUp(r, p) \/ RegisterLookup(r, p)
  \/ \E i \in Inv : RevokeStatus(r, i)

Progress(r) ==
  \/ InviteRefused(r) \/ InviteCount(r) \/ InviteInsert(r) \/ InviteTxFails(r) \/ InviteUndo(r)
  \/ RegisterAccept(r) \/ RegisterPlain(r) \/ RevokeMark(r) \/ Crash(r)

ExpiryStep == ExpireOverdue \/ ExpiryFails

CleanupStep == CleanupClear \/ CleanupSkip

Outside ==
  \/ \E p \in Person : Reactivate(p) \/ Onboard(p)
  \/ \E p \in Person, status \in {"suspended", "none"} : LeaveSeat(p, status)
  \/ \E n \in 0..MaxSeats : SeatsChanged(n)
  \/ \E i \in Inv : Tick(i)

Next ==
  \/ \E r \in Req : Request(r) \/ Progress(r)
  \/ ExpirySelect \/ ExpiryStep
  \/ \E i \in Inv : CleanupDelete(i)
  \/ CleanupStep
  \/ SeatOverageReconcile
  \/ Outside

Spec == Init /\ [][Next]_vars

(* Requests end (REQUEST_TIMEOUT), the CronJobs run again and again, the     *)
(* Realm Provisioner does not fail for ever.  Nothing is assumed of callers, *)
(* nor that the seat-overage job finds this tenant among too many.           *)
Fairness ==
  /\ \A r \in Req : WF_vars(Progress(r))
  /\ WF_vars(ExpirySelect) /\ SF_vars(ExpireOverdue) /\ WF_vars(ExpiryStep)
  /\ \A i \in Inv : SF_vars(CleanupDelete(i))
  /\ SF_vars(CleanupClear) /\ WF_vars(CleanupStep)
  /\ AlwaysListed => SF_vars(SeatOverageReconcile)

FairSpec == Spec /\ Fairness

----------------------------------------------------------------------------
(* Properties. *)

(* Every variable has its type and pending_invitations its constraints: an   *)
(* address has one pending invitation, and an erased row has ended.          *)
TypeOK ==
  /\ inv \in [Inv -> Row]
  /\ \A i, j \in Inv : IsPending(i) /\ IsPending(j) /\ inv[i].email = inv[j].email => i = j
  /\ \A i \in Inv : IsPending(i) => inv[i].email \in Person
  /\ member \in [Person -> {"none", "active", "suspended"}]
  /\ seats \in 0..MaxSeats
  /\ overage \in BOOLEAN
  /\ account \in [Person -> {"none", "shell", "lost", "active"}]
  /\ req \in [Req -> [at : {"idle", "count", "insert", "undo", "undoLost", "register", "mark"},
                      who : Person \cup {Erased}, row : Inv \cup {NoInv},
                      full : BOOLEAN]]
  /\ expiry \subseteq Inv
  /\ cleaning \in Inv \cup {NoInv}
  /\ ungated \in 0..MaxUngated

(* SEAT-1 and SEAT-4: however P-6 and I-3 interleave with each other, with   *)
(* expiry and with late acceptances, invitations never take more seats than  *)
(* licensed.  Usage exceeds licensed_seats by no more than what was taken    *)
(* outside the check: plain adds, reactivations, seats Billing withdrew.     *)
SeatCap == Usage <= seats + ungated

(* PI-9: a Keycloak account that nobody activated is still known: a request  *)
(* is working on it, an invitation stands for it, or a committed row is      *)
(* marked for invitation-kc-cleanup.  The exceptions are the recorded ones:  *)
(* P-6 or P-31 died between two of its steps, or P-6 gave up after the call. *)
ShellTracked ==
  \A p \in Person :
    account[p] = "shell" =>
      \/ \E r \in Req : req[r].who = p /\ req[r].at \in {"count", "insert", "undoLost", "mark"}
      \/ \E i \in Inv : inv[i].user = p /\ (inv[i].kc \/ inv[i].status \in {"pending", "accepted"})

(* PI-2 for acceptance: nothing takes an accepted invitation back, not even  *)
(* an expiry sweep that selected the row before it was accepted.             *)
AcceptanceFinal ==
  [][\A i \in Inv : inv[i].status = "accepted" => inv'[i].status = "accepted"]_vars

(* PI-5, PI-6, PI-9: an invitation past expires_at ends, and every row       *)
(* marked for clean-up is cleaned in the end, whatever fails on the way.     *)
InvitationsEnd ==
  \A i \in Inv :
    /\ (IsPending(i) /\ inv[i].age = Overdue) ~> ~IsPending(i)
    /\ inv[i].kc ~> ~inv[i].kc

(* SEAT-5, as far as the job carries it: while all live tenants fit in one   *)
(* listing, a tenant that stays over its licence is marked and one that      *)
(* stays within it is unmarked, whichever of P-6, P-7, P-8, I-3, I-5, expiry *)
(* and Billing moved the count, though none of them touches the marker.      *)
OverageNoticed ==
  AlwaysListed =>
    /\ []<>(OverCap => overage)
    /\ []<>(overage => OverCap)

=============================================================================
