-------------------------- MODULE MembershipRoles ---------------------------
(***************************************************************************)
(* The members of one tenant, their elevated roles, and the guard that     *)
(* keeps the tenant from losing its last owner: P-7 (suspend), P-8         *)
(* (remove), P-28 (reconcile roles), O-7 (reassign owner) and the internal *)
(* I-3 (register), I-4 (status), I-5 (Keycloak deletion), I-10 (JIT roles).*)
(*                                                                         *)
(* Every operation is a transaction at READ COMMITTED, often after reads   *)
(* made outside it.  Its writes become visible at its commit; a step ends  *)
(* wherever another transaction can commit between two of its statements   *)
(* and make a difference.  Two locks of Postgres order the operations:     *)
(*  - the tenants row: FOR UPDATE in P-7, P-8, P-28 and I-3, UPDATE in O-7 *)
(*    and in I-5 when it marks the tenant, KEY SHARE (by the foreign key)  *)
(*    in every insert into tenant_roles;                                   *)
(*  - the rows an open I-5 has soft-deleted.                               *)
(***************************************************************************)
EXTENDS Integers, FiniteSets

CONSTANTS User,        \* Keycloak subjects
          Founder,     \* the owner I-1 seeds the tenant with
          Role,        \* elevated role codes
          Owner,       \* tenant_owner
          Proc,        \* goroutines that serve requests
          Nobody,      \* nobody holds the tenants row
          Ops,         \* the operations of this instance
          MaxVersion   \* bound on record_version

ASSUME UserAssumption == IsFiniteSet(User) /\ Founder \in User
ASSUME RoleAssumption == Owner \in Role
ASSUME ProcAssumption == Nobody \notin Proc
ASSUME OpsAssumption ==
  /\ Ops \subseteq {"P-7", "P-8", "P-28", "O-7", "I-3", "I-4", "I-5", "I-10"}
  /\ MaxVersion \in Nat \ {0}

VARIABLES
  member,       \* the tenant_memberships row of each user
  grants,       \* live rows of tenant_roles: <<user, role>>
  ownerless,    \* is tenants.ownerless_since set?
  announced,    \* the grants a consumer of the role events knows of
  byWebhook,    \* has an I-5 ever removed an owner?
  overlap,      \* did two removals of an owner, one an I-5, ever overlap?
  tenantLock,   \* who holds the tenants row (FOR UPDATE or UPDATE)
  tx            \* the operation of each goroutine

tableVars == <<member, grants, ownerless, announced, byWebhook, overlap>>
vars == <<tableVars, tenantLock, tx>>

Status == {"active", "suspended", "left"}

NoMember == [status |-> "none", version |-> 0]

(* roles: what the operation read; want: what it will leave, or, for I-5,    *)
(* the roles its open transaction has soft-deleted; marks: will it set       *)
(* ownerless_since?                                                          *)
Idle == [op |-> "none", pc |-> "idle", user |-> Founder, version |-> 0,
         roles |-> {}, want |-> {}, marks |-> FALSE]

IsMember(u) == member[u].status \in Status
RolesOf(u) == {r \in Role : <<u, r>> \in grants}
Owners == {u \in User : <<u, Owner>> \in grants}

(* The partial unique index makes counting rows count users. *)
CountActiveOwners == Cardinality(Owners)

(* The state I-1 commits: the founder is a member and the owner. *)
Init ==
  /\ member = [u \in User |-> IF u = Founder
                              THEN [status |-> "active", version |-> 1]
                              ELSE NoMember]
  /\ grants = {<<Founder, Owner>>}
  /\ ownerless = FALSE
  /\ announced = {<<Founder, Owner>>}
  /\ byWebhook = FALSE /\ overlap = FALSE
  /\ tenantLock = Nobody
  /\ tx = [p \in Proc |-> Idle]

-----------------------------------------------------------------------------
(* Row locks. *)

(* An open I-5 has soft-deleted this role of the user, or the membership. *)
Deleting(p, u) == tx[p].pc \in {"count", "commit"} /\ tx[p].user = u
RoleLocked(u, r) == \E p \in Proc : Deleting(p, u) /\ r \in tx[p].want
MemberLocked(u) == \E p \in Proc : Deleting(p, u)

(* Inserting a role takes KEY SHARE on the tenants row, which waits for      *)
(* FOR UPDATE but not for I-5's UPDATE.                                      *)
MayInsert(p) ==
  tenantLock \notin {Nobody, p} => tx[tenantLock].op = "I-5"

(* Grant: ON CONFLICT DO NOTHING, behind the unique index. *)
MayGrant(p, u, roles) ==
  /\ \A r \in roles : ~ RoleLocked(u, r)
  /\ roles \subseteq RolesOf(u) \/ MayInsert(p)

Release(p) == tenantLock' = IF tenantLock = p THEN Nobody ELSE tenantLock

Starts(p, op, u) == op \in Ops /\ tx[p].pc = "idle" /\ IsMember(u)

(* The operation keeps what it read: the version if it writes the membership *)
(* row, the roles and what it wants if it reconciles them.                   *)
Begin(p, op, u, pc, version, roles, want) ==
  /\ tx' = [tx EXCEPT ![p] = [op |-> op, pc |-> pc, user |-> u,
                              version |-> version, roles |-> roles,
                              want |-> want, marks |-> FALSE]]
  /\ UNCHANGED tableVars

At(p, op, pc) == tx[p].op = op /\ tx[p].pc = pc

(* The optimistic lock: the row is live and at the version that was read. *)
SameVersion(p) ==
  LET u == tx[p].user IN
  IsMember(u) /\ member[u].version = tx[p].version /\ ~ MemberLocked(u)

End(p) == tx' = [tx EXCEPT ![p] = Idle] /\ Release(p)

Revoked(u, roles) == {u} \X roles

(* An open transaction that is about to take an owner grant away. *)
TakesOwner(q) ==
  \/ tx[q].pc \in {"count", "commit"} /\ Owner \in tx[q].want
  \/ tenantLock = q /\ tx[q].op \in {"P-8", "P-28"}
       /\ Owner \in RolesOf(tx[q].user)

(* What the commit of p, which takes an owner grant or not, adds to the      *)
(* history: another transaction takes one too, or p is an I-5 that did not   *)
(* see the grant when it looked at the user's roles.                         *)
Overlapping(p, takes) ==
  overlap' = (overlap \/ /\ takes
                         /\ \/ \E q \in Proc \ {p} : TakesOwner(q)
                            \/ tx[p].op = "I-5" /\ Owner \notin tx[p].roles)

-----------------------------------------------------------------------------
(* TM-13: lock the tenants row and count the owners under the lock. *)

(* Faulty variant: the owners are not counted again under the lock. *)
LockWithoutRecount(p) ==
  /\ tx[p].pc = "lock"
  /\ tenantLock = Nobody
  /\ tenantLock' = p
  /\ tx' = [tx EXCEPT ![p].pc = "write"]
  /\ UNCHANGED tableVars

LockByID(p) ==
  /\ tx[p].pc = "lock"
  /\ tenantLock = Nobody
  /\ CountActiveOwners > 1
  /\ tenantLock' = p
  /\ tx' = [tx EXCEPT ![p].pc = "write"]
  /\ UNCHANGED tableVars

(* P-7 suspend.  Whether the target is an owner is read before, and outside, *)
(* the transaction.                                                          *)
SuspendRead(p, u) ==
  /\ Starts(p, "P-7", u)
  /\ Begin(p, "P-7", u, IF Owner \in RolesOf(u) THEN "lock" ELSE "write",
           member[u].version, {}, {})
  /\ UNCHANGED tenantLock

SetStatus(u, status) ==
  /\ member[u].version < MaxVersion
  /\ member' = [member EXCEPT ![u].status = status,
                              ![u].version = IF member[u].status = status
                                             THEN @ ELSE @ + 1]

SuspendCommit(p) ==
  /\ At(p, "P-7", "write")
  /\ SameVersion(p)
  /\ SetStatus(tx[p].user, "suspended")
  /\ End(p)
  /\ UNCHANGED <<grants, ownerless, announced, byWebhook, overlap>>

(* I-4 and P-7 reactivate: one statement, no lock and no owner guard. *)
SetStatusDirect(u, status) ==
  /\ "I-4" \in Ops \/ ("P-7" \in Ops /\ status = "active")
  /\ IsMember(u) /\ ~ MemberLocked(u)
  /\ SetStatus(u, status)
  /\ UNCHANGED <<grants, ownerless, announced, byWebhook, overlap, tenantLock,
                 tx>>

(* Faulty variant: the last-owner comparison is off by one. *)
RemoveGuardOffByOne(p, u) ==
  /\ Starts(p, "P-8", u)
  /\ tenantLock = Nobody
  /\ Owner \in RolesOf(u) => CountActiveOwners > 0
  /\ tenantLock' = p
  /\ Begin(p, "P-8", u, "write", member[u].version, {}, {})

(* P-8.  The delegate-impact check may refuse before anything is read. *)
RemoveGuard(p, u) ==
  /\ Starts(p, "P-8", u)
  /\ tenantLock = Nobody
  /\ Owner \in RolesOf(u) => CountActiveOwners > 1
  /\ tenantLock' = p
  /\ Begin(p, "P-8", u, "write", member[u].version, {}, {})

RemoveCommit(p) ==
  LET u == tx[p].user IN
  /\ At(p, "P-8", "write")
  /\ SameVersion(p)
  /\ grants' = grants \ Revoked(u, RolesOf(u))
  /\ announced' = announced \ Revoked(u, RolesOf(u))
  /\ member' = [member EXCEPT ![u] = NoMember]
  /\ Overlapping(p, Owner \in RolesOf(u))
  /\ End(p)
  /\ UNCHANGED <<ownerless, byWebhook>>

(* P-28.  Membership and current roles are read outside the transaction,     *)
(* with an early last-owner refusal; only a reconcile that strips the owner  *)
(* role takes the lock.                                                      *)
Strips(current, desired) == Owner \in current \ desired

ReconcileRead(p, u, desired) ==
  /\ Starts(p, "P-28", u)
  /\ Strips(RolesOf(u), desired) => CountActiveOwners > 1
  /\ Begin(p, "P-28", u, IF Strips(RolesOf(u), desired) THEN "lock" ELSE "write",
           0, RolesOf(u), desired)
  /\ UNCHANGED tenantLock

(* Every role to revoke must still be there; the membership is not looked at *)
(* again.                                                                    *)
ReconcileCommit(p) ==
  LET u == tx[p].user
      granted == tx[p].want \ tx[p].roles
      revoked == tx[p].roles \ tx[p].want
  IN  /\ At(p, "P-28", "write")
      /\ MayGrant(p, u, granted)
      /\ \A r \in revoked : r \in RolesOf(u) /\ ~ RoleLocked(u, r)
      /\ grants' = (grants \cup ({u} \X granted)) \ Revoked(u, revoked)
      /\ announced' = (announced \cup ({u} \X granted)) \ Revoked(u, revoked)
      /\ End(p)
      /\ Overlapping(p, Owner \in revoked)
      /\ UNCHANGED <<member, ownerless, byWebhook>>

(* O-7: the candidate must be an active member when looked up. *)
ReassignRead(p, u) ==
  /\ Starts(p, "O-7", u)
  /\ member[u].status = "active"
  /\ Begin(p, "O-7", u, "write", 0, {}, {})
  /\ UNCHANGED tenantLock

ReassignCommit(p) ==
  LET u == tx[p].user IN
  /\ At(p, "O-7", "write")
  /\ tenantLock = Nobody
  /\ MayGrant(p, u, {Owner})
  /\ grants' = grants \cup {<<u, Owner>>}
  /\ announced' = announced \cup {<<u, Owner>>}
  /\ ownerless' = FALSE
  /\ End(p)
  /\ UNCHANGED <<member, byWebhook, overlap>>

-----------------------------------------------------------------------------
(* I-10: the membership is looked up outside the transaction, its status is  *)
(* not; roles are only ever added.                                           *)
JitRead(p, u, mapped) ==
  /\ Starts(p, "I-10", u)
  /\ Begin(p, "I-10", u, "write", 0, {}, mapped)
  /\ UNCHANGED tenantLock

(* Faulty variant: JIT grants are not announced. *)
JitSilent(p) ==
  LET u == tx[p].user
      granted == tx[p].want \ RolesOf(u)
  IN  /\ At(p, "I-10", "write")
      /\ MayGrant(p, u, granted)
      /\ grants' = grants \cup ({u} \X granted)
      /\ End(p)
      /\ UNCHANGED <<member, ownerless, announced, byWebhook, overlap>>

JitCommit(p) ==
  LET u == tx[p].user
      granted == tx[p].want \ RolesOf(u)
  IN  /\ At(p, "I-10", "write")
      /\ MayGrant(p, u, granted)
      /\ grants' = grants \cup ({u} \X granted)
      /\ announced' = announced \cup ({u} \X granted)
      /\ End(p)
      /\ UNCHANGED <<member, ownerless, byWebhook, overlap>>

(* I-3: under FOR UPDATE from its first statement, so one step.  An existing *)
(* membership is kept as it is; the roles are those of the invitation.       *)
AddFromRegister(u, roles) ==
  /\ "I-3" \in Ops
  /\ tenantLock = Nobody
  /\ ~ MemberLocked(u)
  /\ member' = IF IsMember(u) THEN member
               ELSE [member EXCEPT ![u] = [status |-> "active", version |-> 1]]
  /\ grants' = grants \cup ({u} \X roles)
  /\ announced' = announced \cup ({u} \X roles)
  /\ UNCHANGED <<ownerless, byWebhook, overlap, tenantLock, tx>>

(* I-5, without a lock on the tenants row: look up the member, delete its    *)
(* rows, count the owners that are left, mark the tenant if there is none.   *)
DeleteRead(p, u) ==
  /\ Starts(p, "I-5", u)
  /\ Begin(p, "I-5", u, "cascade", member[u].version, RolesOf(u), {})
  /\ UNCHANGED tenantLock

DeleteCascade(p) ==
  /\ At(p, "I-5", "cascade")
  /\ SameVersion(p)
  /\ tx' = [tx EXCEPT ![p].pc = "count", ![p].want = RolesOf(tx[p].user)]
  /\ UNCHANGED <<tableVars, tenantLock>>

(* Faulty variant: the count still sees the grant that was just deleted. *)
OwnersLeftBefore(p) == Owners

OwnersLeft(p) == Owners \ (IF Owner \in tx[p].want THEN {tx[p].user} ELSE {})

DeleteCount(p) ==
  LET marks == Owner \in tx[p].roles /\ OwnersLeft(p) = {} IN
  /\ At(p, "I-5", "count")
  /\ marks => tenantLock = Nobody
  /\ tenantLock' = IF marks THEN p ELSE tenantLock
  /\ tx' = [tx EXCEPT ![p].pc = "commit", ![p].marks = marks]
  /\ UNCHANGED tableVars

DeleteCommit(p) ==
  LET u == tx[p].user IN
  /\ At(p, "I-5", "commit")
  /\ grants' = grants \ Revoked(u, tx[p].want)
  /\ announced' = announced \ Revoked(u, tx[p].want)
  /\ member' = [member EXCEPT ![u] = NoMember]
  /\ ownerless' = (ownerless \/ tx[p].marks)
  /\ byWebhook' = (byWebhook \/ Owner \in tx[p].want)
  /\ Overlapping(p, Owner \in tx[p].want)
  /\ End(p)

(* A refusal, a version conflict, a deadlock victim, an error, a crash. *)
Abort(p) ==
  /\ tx[p].pc # "idle"
  /\ End(p)
  /\ UNCHANGED tableVars

-----------------------------------------------------------------------------
ActorNext(p) ==
  \/ LockByID(p) \/ SuspendCommit(p) \/ RemoveCommit(p) \/ ReconcileCommit(p)
  \/ ReassignCommit(p)
  \/ \E u \in User : SuspendRead(p, u) \/ RemoveGuard(p, u) \/ ReassignRead(p, u)
  \/ \E u \in User, desired \in SUBSET Role : ReconcileRead(p, u, desired)

InternalNext(p) ==
  \/ JitCommit(p) \/ DeleteCascade(p) \/ DeleteCount(p) \/ DeleteCommit(p)
  \/ \E u \in User : DeleteRead(p, u)
  \/ \E u \in User, mapped \in SUBSET Role : JitRead(p, u, mapped)

DirectNext ==
  \/ \E u \in User, status \in Status : SetStatusDirect(u, status)
  \/ \E u \in User, roles \in SUBSET Role : AddFromRegister(u, roles)

Next ==
  \/ \E p \in Proc : ActorNext(p) \/ InternalNext(p) \/ Abort(p)
  \/ DirectNext

Spec == Init /\ [][Next]_vars

-----------------------------------------------------------------------------
Membership == [status : Status, version : 1..MaxVersion] \cup {NoMember}

Transaction ==
  [op : Ops \cup {"none"},
   pc : {"idle", "lock", "write", "cascade", "count", "commit"},
   user : User, version : 0..MaxVersion, roles : SUBSET Role,
   want : SUBSET Role, marks : BOOLEAN]

(* Every variable has its type. *)
TypeOK ==
  /\ member \in [User -> Membership]
  /\ grants \subseteq User \X Role /\ announced \subseteq User \X Role
  /\ ownerless \in BOOLEAN /\ byWebhook \in BOOLEAN /\ overlap \in BOOLEAN
  /\ tenantLock \in Proc \cup {Nobody}
  /\ tx \in [Proc -> Transaction]

(* TM-8 and TM-13: no interleaving of removals, suspensions, reconciles,     *)
(* reassignments and registrations takes the last owner grant away; only the *)
(* Keycloak deletion I-5, which cannot refuse, may leave a tenant without.   *)
OwnerlessOnlyByWebhook == Owners = {} => byWebhook

(* Whoever holds the tenants row and is about to take the owner role from a  *)
(* user leaves another owner behind; this is what makes the property above   *)
(* inductive.                                                                *)
GuardHolds ==
  \A p \in Proc :
    /\ tenantLock = p => tx[p].pc \in {"write", "commit"}
    /\ At(p, "P-8", "write") => tenantLock = p
    /\ At(p, "P-28", "write") /\ Strips(tx[p].roles, tx[p].want)
         => tenantLock = p
    /\ tenantLock = p /\ tx[p].op \in {"P-8", "P-28"}
         => byWebhook \/ Owners \ {tx[p].user} # {}

(* TM-12: a tenant that has lost its last owner is marked ownerless.  I-5    *)
(* takes no lock before it counts the owners that are left, so this holds    *)
(* unless its transaction overlapped another one that takes an owner, or the *)
(* grant it deleted was made after it had looked at the user's roles.        *)
UnmarkedOnlyByOverlap == Owners = {} => ownerless \/ overlap

(* EVT-10: the consumers of the role events never miss a role somebody       *)
(* holds: each commit that grants announces the grant, and a revocation is   *)
(* announced only together with the row's deletion.                          *)
GrantsAnnounced == grants \subseteq announced
=============================================================================
