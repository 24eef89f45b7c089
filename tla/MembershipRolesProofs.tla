----------------------- MODULE MembershipRolesProofs ------------------------
(***************************************************************************)
(* Theorems about MembershipRoles, for every finite set of users, every    *)
(* set of roles and goroutines, and every selection of operations.         *)
(***************************************************************************)
EXTENDS MembershipRoles, FiniteSetTheorems, TLAPS

(* Two counted owners: whoever one of them is, there is another. *)
LEMMA AnotherOwner ==
  ASSUME CountActiveOwners > 1, NEW u
  PROVE  Owners \ {u} # {}
<1>1. IsFiniteSet(Owners)
  BY UserAssumption, FS_Subset DEF Owners
<1>2. ASSUME Owners \ {u} = {} PROVE FALSE
  <2>1. Owners \in SUBSET {u}
    BY <1>2
  <2>2. Cardinality(Owners) <= Cardinality({u})
    BY <2>1, FS_Singleton, FS_Subset
  <2>3. Cardinality({u}) = 1 /\ Cardinality(Owners) \in Nat
    BY <1>1, FS_Singleton, FS_CardinalityType
  <2> QED
    BY <2>2, <2>3 DEF CountActiveOwners
<1> QED
  BY <1>2

(* Ending an operation keeps its record and the lock well typed. *)
LEMMA EndType ==
  ASSUME TypeOK, NEW p \in Proc, End(p)
  PROVE  tx' \in [Proc -> Transaction] /\ tenantLock' \in Proc \cup {Nobody}
<1>1. Idle \in Transaction
  BY UserAssumption, OpsAssumption DEF Idle, Transaction
<1> QED
  BY <1>1 DEF TypeOK, End, Release

(* So does beginning one. *)
LEMMA BeginType ==
  ASSUME TypeOK, NEW p \in Proc, NEW op \in Ops, NEW u \in User,
         NEW pc \in {"lock", "write", "cascade"}, NEW version \in 0..MaxVersion,
         NEW roles \in SUBSET Role, NEW want \in SUBSET Role,
         Begin(p, op, u, pc, version, roles, want)
  PROVE  tx' \in [Proc -> Transaction]
<1>1. [op |-> op, pc |-> pc, user |-> u, version |-> version,
       roles |-> roles, want |-> want, marks |-> FALSE] \in Transaction
  BY DEF Transaction
<1> QED
  BY <1>1 DEF TypeOK, Begin

(* The version an operation reads is a version. *)
LEMMA VersionType ==
  ASSUME TypeOK, NEW u \in User
  PROVE  member[u].version \in 0..MaxVersion
BY OpsAssumption DEF TypeOK, Membership, NoMember

(* SetStatus writes a membership row. *)
LEMMA SetStatusType ==
  ASSUME TypeOK, NEW u \in User, NEW status \in Status, IsMember(u),
         SetStatus(u, status)
  PROVE  member' \in [User -> Membership]
<1> DEFINE v == IF member[u].status = status THEN member[u].version
                                             ELSE member[u].version + 1
<1>1. member[u] \in [status : Status, version : 1..MaxVersion]
  BY DEF TypeOK, Membership, IsMember, NoMember, Status
<1>2. member[u].version \in 1..MaxVersion /\ member[u].version < MaxVersion
  BY <1>1 DEF SetStatus
<1>3. v \in 1..MaxVersion
  BY <1>2, OpsAssumption
<1>4. [member[u] EXCEPT !.status = status, !.version = v] \in Membership
  <2> HIDE DEF v
  <2> QED
    BY <1>1, <1>3 DEF Membership
<1>5. member' = [member EXCEPT ![u] = [member[u] EXCEPT !.status = status,
                                                       !.version = v]]
  BY DEF SetStatus, TypeOK
<1> QED
  BY <1>4, <1>5 DEF TypeOK

(* The initial state is well typed. *)
LEMMA TypeInit == Init => TypeOK
<1> SUFFICES ASSUME Init PROVE TypeOK
  OBVIOUS
<1>1. Idle \in Transaction
  BY UserAssumption, OpsAssumption DEF Idle, Transaction
<1>2. [status |-> "active", version |-> 1] \in Membership
  BY OpsAssumption DEF Membership, Status
<1>3. NoMember \in Membership
  BY DEF Membership
<1>4. member \in [User -> Membership]
  BY <1>2, <1>3 DEF Init
<1>5. grants \subseteq User \X Role /\ announced \subseteq User \X Role
  BY UserAssumption, RoleAssumption DEF Init
<1>6. ownerless \in BOOLEAN /\ byWebhook \in BOOLEAN /\ overlap \in BOOLEAN
  BY DEF Init
<1>7. tenantLock \in Proc \cup {Nobody} /\ tx \in [Proc -> Transaction]
  BY <1>1 DEF Init
<1> QED
  BY <1>4, <1>5, <1>6, <1>7 DEF TypeOK

(* Every step keeps the types. *)
LEMMA TypeStep ==
  ASSUME TypeOK, [Next]_vars
  PROVE  TypeOK'
<1>0. CASE UNCHANGED vars
  BY <1>0 DEF TypeOK, vars, tableVars
<1>1. ASSUME NEW p \in Proc, LockByID(p) PROVE TypeOK'
  <2>1. tx' \in [Proc -> Transaction]
    <3>1. [tx[p] EXCEPT !.pc = "write"] \in Transaction
      BY DEF TypeOK, Transaction
    <3> QED
      BY <1>1, <3>1 DEF LockByID, TypeOK
  <2> QED
    BY <1>1, <2>1 DEF LockByID, tableVars, TypeOK
<1>2. ASSUME NEW p \in Proc, NEW u \in User,
             SuspendRead(p, u) \/ RemoveGuard(p, u) \/ ReassignRead(p, u)
               \/ DeleteRead(p, u)
      PROVE  TypeOK'
  <2>1. /\ RolesOf(u) \in SUBSET Role /\ {} \in SUBSET Role
        /\ member[u].version \in 0..MaxVersion
    BY VersionType DEF RolesOf
  <2>2. 0 \in 0..MaxVersion
    BY OpsAssumption
  <2>3. CASE SuspendRead(p, u)
    <3> DEFINE pc == IF Owner \in RolesOf(u) THEN "lock" ELSE "write"
    <3>1. pc \in {"lock", "write", "cascade"}
      OBVIOUS
    <3>2. /\ "P-7" \in Ops /\ UNCHANGED tenantLock
          /\ Begin(p, "P-7", u, pc, member[u].version, {}, {})
      BY <2>3 DEF SuspendRead, Starts
    <3> HIDE DEF pc
    <3>3. tx' \in [Proc -> Transaction]
      BY <2>1, <3>1, <3>2, BeginType
    <3> QED
      BY <3>2, <3>3 DEF Begin, tableVars, TypeOK
  <2>4. CASE RemoveGuard(p, u)
    <3>1. /\ "P-8" \in Ops /\ tenantLock' = p
          /\ Begin(p, "P-8", u, "write", member[u].version, {}, {})
      BY <2>4 DEF RemoveGuard, Starts
    <3>2. tx' \in [Proc -> Transaction]
      BY <2>1, <3>1, BeginType
    <3> QED
      BY <3>1, <3>2 DEF Begin, tableVars, TypeOK
  <2>5. CASE ReassignRead(p, u)
    <3>1. /\ "O-7" \in Ops /\ UNCHANGED tenantLock
          /\ Begin(p, "O-7", u, "write", 0, {}, {})
      BY <2>5 DEF ReassignRead, Starts
    <3>2. tx' \in [Proc -> Transaction]
      BY <2>2, <3>1, BeginType
    <3> QED
      BY <3>1, <3>2 DEF Begin, tableVars, TypeOK
  <2>6. CASE DeleteRead(p, u)
    <3>1. /\ "I-5" \in Ops /\ UNCHANGED tenantLock
          /\ Begin(p, "I-5", u, "cascade", member[u].version, RolesOf(u), {})
      BY <2>6 DEF DeleteRead, Starts
    <3>2. tx' \in [Proc -> Transaction]
      BY <2>1, <3>1, BeginType
    <3> QED
      BY <3>1, <3>2 DEF Begin, tableVars, TypeOK
  <2> QED
    BY <1>2, <2>3, <2>4, <2>5, <2>6
<1>3. ASSUME NEW p \in Proc, NEW u \in User, NEW want \in SUBSET Role,
             ReconcileRead(p, u, want) \/ JitRead(p, u, want)
      PROVE  TypeOK'
  <2>1. RolesOf(u) \in SUBSET Role /\ 0 \in 0..MaxVersion
    BY OpsAssumption DEF RolesOf
  <2>2. CASE ReconcileRead(p, u, want)
    <3> DEFINE pc == IF Strips(RolesOf(u), want) THEN "lock" ELSE "write"
    <3>1. pc \in {"lock", "write", "cascade"}
      OBVIOUS
    <3>2. /\ "P-28" \in Ops /\ UNCHANGED tenantLock
          /\ Begin(p, "P-28", u, pc, 0, RolesOf(u), want)
      BY <2>2 DEF ReconcileRead, Starts
    <3> HIDE DEF pc
    <3>3. tx' \in [Proc -> Transaction]
      BY <2>1, <3>1, <3>2, BeginType
    <3> QED
      BY <3>2, <3>3 DEF Begin, tableVars, TypeOK
  <2>3. CASE JitRead(p, u, want)
    <3>1. /\ "I-10" \in Ops /\ UNCHANGED tenantLock
          /\ Begin(p, "I-10", u, "write", 0, {}, want)
      BY <2>3 DEF JitRead, Starts
    <3>2. tx' \in [Proc -> Transaction]
      BY <2>1, <3>1, BeginType
    <3> QED
      BY <3>1, <3>2 DEF Begin, tableVars, TypeOK
  <2> QED
    BY <1>3, <2>2, <2>3
<1>4. ASSUME NEW p \in Proc, SuspendCommit(p) PROVE TypeOK'
  <2>1. tx[p].user \in User /\ "suspended" \in Status
    BY DEF TypeOK, Transaction, Status
  <2>2. member' \in [User -> Membership]
    BY <1>4, <2>1, SetStatusType DEF SuspendCommit, SameVersion
  <2> QED
    BY <1>4, <2>2, EndType DEF SuspendCommit, TypeOK
<1>5. ASSUME NEW p \in Proc,
             RemoveCommit(p) \/ ReconcileCommit(p) \/ ReassignCommit(p)
               \/ JitCommit(p) \/ DeleteCommit(p) \/ Abort(p)
      PROVE  TypeOK'
  <2>1. /\ tx[p].user \in User
        /\ tx[p].want \in SUBSET Role /\ tx[p].roles \in SUBSET Role
        /\ tx[p].marks \in BOOLEAN
    BY DEF TypeOK, Transaction
  <2>2. [member EXCEPT ![tx[p].user] = NoMember] \in [User -> Membership]
    BY DEF TypeOK, Membership
  <2>3. tx' \in [Proc -> Transaction] /\ tenantLock' \in Proc \cup {Nobody}
    BY <1>5, EndType DEF RemoveCommit, ReconcileCommit, ReassignCommit,
       JitCommit, DeleteCommit, Abort
  <2>0. ASSUME NEW takes, Overlapping(p, takes) PROVE overlap' \in BOOLEAN
    BY <2>0 DEF Overlapping
  <2>4. CASE RemoveCommit(p)
    <3>1. overlap' \in BOOLEAN
      BY <2>0, <2>4 DEF RemoveCommit
    <3> QED
      BY <2>2, <2>3, <2>4, <3>1 DEF RemoveCommit, TypeOK
  <2>5. CASE ReconcileCommit(p)
    <3>1. {tx[p].user} \X (tx[p].want \ tx[p].roles) \subseteq User \X Role
      BY <2>1
    <3>2. grants' \subseteq User \X Role /\ announced' \subseteq User \X Role
      BY <2>5, <3>1 DEF ReconcileCommit, TypeOK
    <3>3. UNCHANGED <<member, ownerless, byWebhook>> /\ overlap' \in BOOLEAN
      BY <2>0, <2>5 DEF ReconcileCommit
    <3> QED
      BY <2>3, <3>2, <3>3 DEF TypeOK
  <2>6. CASE ReassignCommit(p)
    <3>1. grants' \subseteq User \X Role /\ announced' \subseteq User \X Role
      BY <2>1, <2>6, RoleAssumption DEF ReassignCommit, TypeOK
    <3>2. ownerless' = FALSE /\ UNCHANGED <<member, byWebhook, overlap>>
      BY <2>6 DEF ReassignCommit
    <3> QED
      BY <2>3, <3>1, <3>2 DEF TypeOK
  <2>7. CASE JitCommit(p)
    BY <2>1, <2>3, <2>7 DEF JitCommit, TypeOK
  <2>8. CASE DeleteCommit(p)
    <3>1. member' \in [User -> Membership]
      BY <2>2, <2>8 DEF DeleteCommit
    <3>2. grants' \subseteq User \X Role /\ announced' \subseteq User \X Role
      BY <2>8 DEF DeleteCommit, TypeOK
    <3>3. ownerless' \in BOOLEAN /\ byWebhook' \in BOOLEAN
      BY <2>1, <2>8 DEF DeleteCommit, TypeOK
    <3>4. overlap' \in BOOLEAN
      BY <2>0, <2>8 DEF DeleteCommit
    <3> QED
      BY <2>3, <3>1, <3>2, <3>3, <3>4 DEF TypeOK
  <2>9. CASE Abort(p)
    BY <2>3, <2>9 DEF Abort, tableVars, TypeOK
  <2> QED
    BY <1>5, <2>4, <2>5, <2>6, <2>7, <2>8, <2>9
<1>6. ASSUME NEW p \in Proc, DeleteCascade(p) \/ DeleteCount(p) PROVE TypeOK'
  <2>1. tx[p] \in Transaction
    BY DEF TypeOK
  <2>2. CASE DeleteCascade(p)
    <3>1. [tx[p] EXCEPT !.pc = "count", !.want = RolesOf(tx[p].user)]
            \in Transaction
      BY <2>1 DEF Transaction, RolesOf
    <3>2. tx' = [tx EXCEPT ![p] = [tx[p] EXCEPT !.pc = "count",
                                     !.want = RolesOf(tx[p].user)]]
      BY <2>2 DEF DeleteCascade, TypeOK
    <3> QED
      BY <2>2, <3>1, <3>2 DEF DeleteCascade, tableVars, TypeOK
  <2>3. CASE DeleteCount(p)
    <3> DEFINE marks == Owner \in tx[p].roles /\ OwnersLeft(p) = {}
    <3>1. marks \in BOOLEAN
      OBVIOUS
    <3>2. /\ tx' = [tx EXCEPT ![p] = [tx[p] EXCEPT !.pc = "commit",
                                                  !.marks = marks]]
          /\ tenantLock' = IF marks THEN p ELSE tenantLock
          /\ UNCHANGED tableVars
      BY <2>3 DEF DeleteCount, TypeOK
    <3> HIDE DEF marks
    <3>3. [tx[p] EXCEPT !.pc = "commit", !.marks = marks] \in Transaction
      BY <2>1, <3>1 DEF Transaction
    <3> QED
      BY <3>2, <3>3 DEF tableVars, TypeOK
  <2> QED
    BY <1>6, <2>2, <2>3
<1>7. ASSUME NEW u \in User, NEW status \in Status, SetStatusDirect(u, status)
      PROVE  TypeOK'
  <2>1. member' \in [User -> Membership]
    BY <1>7, SetStatusType DEF SetStatusDirect
  <2> QED
    BY <1>7, <2>1 DEF SetStatusDirect, TypeOK
<1>8. ASSUME NEW u \in User, NEW roles \in SUBSET Role,
             AddFromRegister(u, roles)
      PROVE  TypeOK'
  <2>1. [status |-> "active", version |-> 1] \in Membership
    BY OpsAssumption DEF Membership, Status
  <2> QED
    BY <1>8, <2>1 DEF AddFromRegister, TypeOK
<1> QED
  BY <1>0, <1>1, <1>2, <1>3, <1>4, <1>5, <1>6, <1>7, <1>8
     DEF Next, ActorNext, InternalNext, DirectNext

(* Every variable keeps its type: no interleaving of the operations writes   *)
(* a membership row or a version outside its range.                          *)
THEOREM RolesTypeCorrect == Spec => []TypeOK
BY TypeInit, TypeStep, PTL DEF Spec

-----------------------------------------------------------------------------
(* What the last-owner guard needs to know of the history. *)
OwnersInv == TypeOK /\ OwnerlessOnlyByWebhook /\ GuardHolds

(* An operation that ends without taking the owner role from anybody keeps   *)
(* the guard of the others.                                                  *)
LEMMA EndKeepsGuard ==
  ASSUME OwnersInv, NEW p \in Proc, End(p), Owners \subseteq Owners',
         byWebhook' = byWebhook
  PROVE  OwnerlessOnlyByWebhook' /\ GuardHolds'
<1>1. OwnerlessOnlyByWebhook'
  BY DEF OwnersInv, OwnerlessOnlyByWebhook
<1>2. tx'[p] = Idle /\ \A q \in Proc \ {p} : tx'[q] = tx[q]
  BY DEF End, OwnersInv, TypeOK
<1>3. tenantLock' = IF tenantLock = p THEN Nobody ELSE tenantLock
  BY DEF End, Release
<1>4. GuardHolds'
  BY <1>2, <1>3, ProcAssumption DEF GuardHolds, At, OwnersInv, Idle
<1> QED
  BY <1>1, <1>4

(* An operation that holds the tenants row and takes the owner role from its *)
(* own user leaves another owner behind.                                     *)
LEMMA GuardedRemoval ==
  ASSUME OwnersInv, NEW p \in Proc, End(p), tenantLock = p,
         tx[p].op \in {"P-8", "P-28"}, Owners \ {tx[p].user} \subseteq Owners',
         byWebhook' = byWebhook
  PROVE  OwnerlessOnlyByWebhook' /\ GuardHolds'
<1>1. byWebhook \/ Owners \ {tx[p].user} # {}
  BY DEF OwnersInv, GuardHolds
<1>2. OwnerlessOnlyByWebhook'
  BY <1>1 DEF OwnerlessOnlyByWebhook
<1>3. tx'[p] = Idle /\ \A q \in Proc \ {p} : tx'[q] = tx[q]
  BY DEF End, OwnersInv, TypeOK
<1>4. tenantLock' = Nobody
  BY DEF End, Release
<1>5. GuardHolds'
  BY <1>3, <1>4, ProcAssumption DEF GuardHolds, At, OwnersInv, Idle
<1> QED
  BY <1>2, <1>5

(* A step that changes neither the locks nor the operations and takes no     *)
(* owner role.                                                               *)
LEMMA QuietStep ==
  ASSUME OwnersInv, Owners \subseteq Owners',
         UNCHANGED <<byWebhook, tenantLock, tx>>
  PROVE  OwnerlessOnlyByWebhook' /\ GuardHolds'
BY DEF OwnersInv, OwnerlessOnlyByWebhook, GuardHolds, At

(* An operation other than P-8 and P-28 that moves on without ending. *)
LEMMA UnguardedStep ==
  ASSUME OwnersInv, NEW p \in Proc, NEW t, tx' = [tx EXCEPT ![p] = t],
         t.op \notin {"P-8", "P-28"}, UNCHANGED <<grants, byWebhook>>,
         tenantLock' \in {p, tenantLock},
         tenantLock' = p => t.pc \in {"write", "commit"},
         tenantLock' # tenantLock => tenantLock = Nobody
  PROVE  OwnerlessOnlyByWebhook' /\ GuardHolds'
<1>1. Owners' = Owners
  BY DEF Owners
<1>2. OwnerlessOnlyByWebhook'
  BY <1>1 DEF OwnersInv, OwnerlessOnlyByWebhook
<1>3. tx'[p] = t /\ \A q \in Proc \ {p} : tx'[q] = tx[q]
  BY DEF OwnersInv, TypeOK
<1>4. GuardHolds'
  BY <1>1, <1>3, ProcAssumption DEF GuardHolds, At, OwnersInv
<1> QED
  BY <1>2, <1>4

(* What the initial state satisfies. *)
LEMMA OwnersInit == Init => OwnersInv
<1> SUFFICES ASSUME Init PROVE OwnersInv
  OBVIOUS
<1>1. Founder \in Owners
  BY UserAssumption DEF Init, Owners
<1>2. GuardHolds
  BY ProcAssumption DEF Init, GuardHolds, At, Idle
<1> QED
  BY <1>1, <1>2, TypeInit DEF OwnersInv, OwnerlessOnlyByWebhook

(* Every step keeps an owner unless I-5 takes it, and keeps the guard that   *)
(* the operations in progress rely on.                                       *)
LEMMA OwnersStep ==
  ASSUME OwnersInv, [Next]_vars
  PROVE  OwnersInv'
<1>0. TypeOK /\ TypeOK'
  BY TypeStep DEF OwnersInv
<1> SUFFICES OwnerlessOnlyByWebhook' /\ GuardHolds'
  BY <1>0 DEF OwnersInv
<1>1. CASE UNCHANGED vars
  BY <1>1, QuietStep DEF vars, tableVars, Owners
<1>2. ASSUME NEW p \in Proc, LockByID(p)
      PROVE  OwnerlessOnlyByWebhook' /\ GuardHolds'
  <2>1. Owners' = Owners /\ byWebhook' = byWebhook
    BY <1>2 DEF LockByID, tableVars, Owners
  <2>2. Owners \ {tx[p].user} # {}
    BY <1>2, AnotherOwner DEF LockByID
  <2>3. /\ tx'[p] = [tx[p] EXCEPT !.pc = "write"]
        /\ \A q \in Proc \ {p} : tx'[q] = tx[q]
        /\ tenantLock = Nobody /\ tenantLock' = p
    BY <1>0, <1>2 DEF LockByID, TypeOK
  <2>4. tx'[p].pc = "write" /\ tx'[p].user = tx[p].user
    BY <1>0, <2>3 DEF TypeOK, Transaction
  <2>5. GuardHolds'
    BY <2>1, <2>2, <2>3, <2>4, ProcAssumption DEF GuardHolds, At, OwnersInv
  <2> QED
    BY <2>1, <2>2, <2>5 DEF OwnerlessOnlyByWebhook
<1>3. ASSUME NEW p \in Proc, NEW u \in User, RemoveGuard(p, u)
      PROVE  OwnerlessOnlyByWebhook' /\ GuardHolds'
  <2>1. Owners' = Owners /\ byWebhook' = byWebhook
    BY <1>3 DEF RemoveGuard, Begin, tableVars, Owners
  <2>2. byWebhook \/ Owners \ {u} # {}
    <3>1. CASE Owner \in RolesOf(u)
      BY <1>3, <3>1, AnotherOwner DEF RemoveGuard
    <3>2. CASE Owner \notin RolesOf(u)
      BY <3>2, RoleAssumption DEF RolesOf, Owners, OwnersInv,
         OwnerlessOnlyByWebhook
    <3> QED
      BY <3>1, <3>2
  <2>3. /\ tx'[p].pc = "write" /\ tx'[p].user = u /\ tx'[p].op = "P-8"
        /\ \A q \in Proc \ {p} : tx'[q] = tx[q]
        /\ tenantLock = Nobody /\ tenantLock' = p
    BY <1>0, <1>3 DEF RemoveGuard, Begin, TypeOK
  <2>4. GuardHolds'
    BY <2>1, <2>2, <2>3, ProcAssumption DEF GuardHolds, At, OwnersInv
  <2> QED
    BY <2>1, <2>4 DEF OwnerlessOnlyByWebhook, OwnersInv
<1>4. ASSUME NEW p \in Proc, NEW u \in User, NEW want \in SUBSET Role,
             ReconcileRead(p, u, want)
      PROVE  OwnerlessOnlyByWebhook' /\ GuardHolds'
  <2>1. Owners' = Owners /\ byWebhook' = byWebhook /\ tenantLock' = tenantLock
    BY <1>4 DEF ReconcileRead, Begin, tableVars, Owners
  <2>2. /\ tx'[p].op = "P-28" /\ tx'[p].roles = RolesOf(u)
        /\ tx'[p].want = want
        /\ tx'[p].pc = IF Strips(RolesOf(u), want) THEN "lock" ELSE "write"
        /\ \A q \in Proc \ {p} : tx'[q] = tx[q]
    BY <1>0, <1>4 DEF ReconcileRead, Begin, TypeOK
  <2>3. tenantLock # p
    BY <1>4 DEF ReconcileRead, Starts, GuardHolds, OwnersInv
  <2>4. GuardHolds'
    BY <2>1, <2>2, <2>3 DEF GuardHolds, At, OwnersInv, Strips
  <2> QED
    BY <2>1, <2>4 DEF OwnerlessOnlyByWebhook, OwnersInv
<1>5. ASSUME NEW p \in Proc, NEW u \in User,
             SuspendRead(p, u) \/ ReassignRead(p, u) \/ DeleteRead(p, u)
      PROVE  OwnerlessOnlyByWebhook' /\ GuardHolds'
  <2>1. tx[p].pc = "idle" /\ tenantLock' = tenantLock
    BY <1>5 DEF SuspendRead, ReassignRead, DeleteRead, Starts
  <2>2. UNCHANGED <<grants, byWebhook>>
    BY <1>5 DEF SuspendRead, ReassignRead, DeleteRead, Begin, tableVars
  <2>3. tenantLock # p
    BY <2>1 DEF GuardHolds, OwnersInv
  <2>4. /\ tx' = [tx EXCEPT ![p] = tx'[p]]
        /\ tx'[p].op \in {"P-7", "O-7", "I-5"}
    BY <1>0, <1>5 DEF SuspendRead, ReassignRead, DeleteRead, Begin, TypeOK
  <2> QED
    BY <2>1, <2>2, <2>3, <2>4, UnguardedStep
<1>6. ASSUME NEW p \in Proc, NEW u \in User, NEW want \in SUBSET Role,
             JitRead(p, u, want)
      PROVE  OwnerlessOnlyByWebhook' /\ GuardHolds'
  <2>1. tx[p].pc = "idle" /\ tenantLock' = tenantLock
    BY <1>6 DEF JitRead, Starts
  <2>2. UNCHANGED <<grants, byWebhook>>
    BY <1>6 DEF JitRead, Begin, tableVars
  <2>3. tenantLock # p
    BY <2>1 DEF GuardHolds, OwnersInv
  <2>4. tx' = [tx EXCEPT ![p] = tx'[p]] /\ tx'[p].op = "I-10"
    BY <1>0, <1>6 DEF JitRead, Begin, TypeOK
  <2> QED
    BY <2>1, <2>2, <2>3, <2>4, UnguardedStep
<1>7. ASSUME NEW p \in Proc, DeleteCascade(p) \/ DeleteCount(p)
      PROVE  OwnerlessOnlyByWebhook' /\ GuardHolds'
  <2>1. tx[p].op = "I-5" /\ tx[p] \in Transaction
    BY <1>0, <1>7 DEF DeleteCascade, DeleteCount, At, TypeOK
  <2>2. UNCHANGED <<grants, byWebhook>>
    BY <1>7 DEF DeleteCascade, DeleteCount, tableVars
  <2>3. CASE DeleteCascade(p)
    <3> DEFINE t == [tx[p] EXCEPT !.pc = "count",
                                  !.want = RolesOf(tx[p].user)]
    <3>1. tx' = [tx EXCEPT ![p] = t] /\ tenantLock' = tenantLock
      BY <1>0, <2>3 DEF DeleteCascade, TypeOK
    <3>2. t.op = "I-5"
      BY <2>1 DEF Transaction
    <3>3. tenantLock # p
      BY <2>3 DEF DeleteCascade, At, GuardHolds, OwnersInv
    <3> HIDE DEF t
    <3> QED
      BY <2>2, <3>1, <3>2, <3>3, UnguardedStep
  <2>4. CASE DeleteCount(p)
    <3> DEFINE marks == Owner \in tx[p].roles /\ OwnersLeft(p) = {}
               t == [tx[p] EXCEPT !.pc = "commit", !.marks = marks]
    <3>1. /\ tx' = [tx EXCEPT ![p] = t]
          /\ marks => tenantLock = Nobody
          /\ tenantLock' = IF marks THEN p ELSE tenantLock
      BY <1>0, <2>4 DEF DeleteCount, TypeOK
    <3>2. t.op = "I-5" /\ t.pc = "commit"
      BY <2>1 DEF Transaction
    <3> HIDE DEF t, marks
    <3> QED
      BY <2>2, <3>1, <3>2, UnguardedStep
  <2> QED
    BY <1>7, <2>3, <2>4
<1>8. ASSUME NEW p \in Proc,
             SuspendCommit(p) \/ ReassignCommit(p) \/ JitCommit(p) \/ Abort(p)
      PROVE  OwnerlessOnlyByWebhook' /\ GuardHolds'
  <2>1. End(p) /\ byWebhook' = byWebhook /\ grants \subseteq grants'
    BY <1>8 DEF SuspendCommit, ReassignCommit, JitCommit, Abort, tableVars
  <2>2. Owners \subseteq Owners'
    BY <2>1 DEF Owners
  <2> QED
    BY <2>1, <2>2, EndKeepsGuard
<1>9. ASSUME NEW p \in Proc, RemoveCommit(p)
      PROVE  OwnerlessOnlyByWebhook' /\ GuardHolds'
  <2>1. /\ End(p) /\ byWebhook' = byWebhook /\ tx[p].op = "P-8"
        /\ grants' = grants \ Revoked(tx[p].user, RolesOf(tx[p].user))
    BY <1>9 DEF RemoveCommit, At
  <2>2. tenantLock = p
    BY <1>9 DEF RemoveCommit, GuardHolds, OwnersInv
  <2>3. Owners \ {tx[p].user} \subseteq Owners'
    BY <2>1 DEF Owners, Revoked
  <2> QED
    BY <2>1, <2>2, <2>3, GuardedRemoval
<1>10. ASSUME NEW p \in Proc, ReconcileCommit(p)
       PROVE  OwnerlessOnlyByWebhook' /\ GuardHolds'
  <2> DEFINE u == tx[p].user
             granted == tx[p].want \ tx[p].roles
             revoked == tx[p].roles \ tx[p].want
  <2>1. /\ End(p) /\ byWebhook' = byWebhook /\ At(p, "P-28", "write")
        /\ grants' = (grants \cup ({u} \X granted)) \ Revoked(u, revoked)
    BY <1>10 DEF ReconcileCommit
  <2>2. CASE Strips(tx[p].roles, tx[p].want)
    <3>1. tenantLock = p
      BY <2>1, <2>2 DEF GuardHolds, OwnersInv
    <3>2. Owners \ {u} \subseteq Owners'
      BY <2>1 DEF Owners, Revoked
    <3> QED
      BY <2>1, <3>1, <3>2, GuardedRemoval DEF At
  <2>3. CASE ~ Strips(tx[p].roles, tx[p].want)
    <3>1. Owners \subseteq Owners'
      BY <2>1, <2>3 DEF Owners, Revoked, Strips
    <3> QED
      BY <2>1, <3>1, EndKeepsGuard
  <2> QED
    BY <2>2, <2>3
<1>11. ASSUME NEW p \in Proc, DeleteCommit(p)
       PROVE  OwnerlessOnlyByWebhook' /\ GuardHolds'
  <2>1. /\ End(p) /\ grants' = grants \ Revoked(tx[p].user, tx[p].want)
        /\ byWebhook' = (byWebhook \/ Owner \in tx[p].want)
    BY <1>11 DEF DeleteCommit
  <2>2. CASE Owner \in tx[p].want
    <3>1. byWebhook' = TRUE
      BY <2>1, <2>2
    <3>2. tx'[p] = Idle /\ \A q \in Proc \ {p} : tx'[q] = tx[q]
      BY <1>0, <2>1 DEF End, TypeOK
    <3>3. tenantLock' = IF tenantLock = p THEN Nobody ELSE tenantLock
      BY <2>1 DEF End, Release
    <3>4. GuardHolds'
      BY <3>1, <3>2, <3>3, ProcAssumption DEF GuardHolds, At, OwnersInv, Idle
    <3> QED
      BY <3>1, <3>4 DEF OwnerlessOnlyByWebhook
  <2>3. CASE Owner \notin tx[p].want
    <3>1. Owners \subseteq Owners'
      BY <2>1, <2>3 DEF Owners, Revoked
    <3>2. byWebhook' = byWebhook
      BY <1>0, <2>1, <2>3 DEF TypeOK
    <3> QED
      BY <2>1, <3>1, <3>2, EndKeepsGuard
  <2> QED
    BY <2>2, <2>3
<1>12. ASSUME NEW u \in User, NEW status \in Status, SetStatusDirect(u, status)
       PROVE  OwnerlessOnlyByWebhook' /\ GuardHolds'
  BY <1>12, QuietStep DEF SetStatusDirect, Owners
<1>13. ASSUME NEW u \in User, NEW roles \in SUBSET Role,
              AddFromRegister(u, roles)
       PROVE  OwnerlessOnlyByWebhook' /\ GuardHolds'
  BY <1>13, QuietStep DEF AddFromRegister, Owners
<1> QED
  BY <1>1, <1>2, <1>3, <1>4, <1>5, <1>6, <1>7, <1>8, <1>9, <1>10, <1>11,
     <1>12, <1>13 DEF Next, ActorNext, InternalNext, DirectNext

(* EVT-10: every live grant has been announced to the consumers of the role  *)
(* events, and its revocation has not.                                       *)
THEOREM GrantsKnown == Spec => []GrantsAnnounced
<1>1. Init => GrantsAnnounced
  BY DEF Init, GrantsAnnounced
<1>2. ASSUME GrantsAnnounced, [Next]_vars PROVE GrantsAnnounced'
  <2>1. CASE UNCHANGED tableVars
    BY <1>2, <2>1 DEF tableVars, GrantsAnnounced
  <2>2. ASSUME NEW added, NEW removed,
               grants' = (grants \cup added) \ removed,
               announced' = (announced \cup added) \ removed
        PROVE  GrantsAnnounced'
    BY <1>2, <2>2 DEF GrantsAnnounced
  <2>3. ASSUME NEW p \in Proc, RemoveCommit(p) \/ DeleteCommit(p)
        PROVE  GrantsAnnounced'
    BY <1>2, <2>3 DEF RemoveCommit, DeleteCommit, GrantsAnnounced
  <2>4. ASSUME NEW p \in Proc, ReconcileCommit(p) PROVE GrantsAnnounced'
    BY <2>2, <2>4 DEF ReconcileCommit
  <2>5. ASSUME NEW p \in Proc, ReassignCommit(p) \/ JitCommit(p)
        PROVE  GrantsAnnounced'
    BY <1>2, <2>5 DEF ReassignCommit, JitCommit, GrantsAnnounced
  <2>6. ASSUME NEW u \in User, NEW roles \in SUBSET Role,
               AddFromRegister(u, roles)
        PROVE  GrantsAnnounced'
    BY <1>2, <2>6 DEF AddFromRegister, GrantsAnnounced
  <2>7. ASSUME NEW p \in Proc, SuspendCommit(p) PROVE GrantsAnnounced'
    BY <1>2, <2>7 DEF SuspendCommit, GrantsAnnounced
  <2>8. ASSUME NEW u \in User, NEW status \in Status,
               SetStatusDirect(u, status)
        PROVE  GrantsAnnounced'
    BY <1>2, <2>8 DEF SetStatusDirect, GrantsAnnounced
  <2>9. ASSUME NEW p \in Proc,
               LockByID(p) \/ DeleteCascade(p) \/ DeleteCount(p) \/ Abort(p)
        PROVE  UNCHANGED tableVars
    BY <2>9 DEF LockByID, DeleteCascade, DeleteCount, Abort
  <2>10. ASSUME NEW p \in Proc, NEW u \in User,
                SuspendRead(p, u) \/ RemoveGuard(p, u) \/ ReassignRead(p, u)
                  \/ DeleteRead(p, u)
         PROVE  UNCHANGED tableVars
    BY <2>10 DEF SuspendRead, RemoveGuard, ReassignRead, DeleteRead, Begin
  <2>11. ASSUME NEW p \in Proc, NEW u \in User, NEW want \in SUBSET Role,
                ReconcileRead(p, u, want) \/ JitRead(p, u, want)
         PROVE  UNCHANGED tableVars
    BY <2>11 DEF ReconcileRead, JitRead, Begin
  <2>12. CASE UNCHANGED vars
    BY <2>1, <2>12 DEF vars
  <2> QED
    BY <1>2, <2>1, <2>3, <2>4, <2>5, <2>6, <2>7, <2>8, <2>9, <2>10, <2>11,
       <2>12 DEF Next, ActorNext, InternalNext, DirectNext
<1> QED
  BY <1>1, <1>2, PTL DEF Spec

(* TM-8 with TM-13, for any number of concurrent operations: a tenant loses  *)
(* its last owner grant only to the Keycloak deletion I-5.                   *)
THEOREM LastOwnerKept == Spec => []OwnerlessOnlyByWebhook
<1>1. OwnersInv => OwnerlessOnlyByWebhook
  BY DEF OwnersInv
<1> QED
  BY <1>1, OwnersInit, OwnersStep, PTL DEF Spec

(* The guard that makes it so: an operation that is about to take the owner  *)
(* role holds the tenants row and, but for I-5, leaves another owner.        *)
THEOREM GuardKept == Spec => []GuardHolds
<1>1. OwnersInv => GuardHolds
  BY DEF OwnersInv
<1> QED
  BY <1>1, OwnersInit, OwnersStep, PTL DEF Spec

-----------------------------------------------------------------------------
(* The mark of a tenant without owners. *)

(* Whoever takes an owner away leaves another one, will mark the tenant, or  *)
(* overlaps: for P-8 and P-28 while they hold the tenants row, for I-5 from  *)
(* its count on.                                                             *)
Leaves(u) == overlap \/ Owners \ {u} # {}

LockedLeaves ==
  \A q \in Proc :
    tenantLock = q /\ tx[q].op \in {"P-8", "P-28"}
      /\ Owner \in RolesOf(tx[q].user) => Leaves(tx[q].user)

CountedLeaves ==
  \A p \in Proc :
    At(p, "I-5", "commit") /\ Owner \in tx[p].want \cap tx[p].roles /\ ~ tx[p].marks
      => Leaves(tx[p].user)

(* Only I-5 is ever at its count or its commit. *)
CountingIsI5 ==
  \A p \in Proc : tx[p].pc \in {"count", "commit"} => tx[p].op = "I-5"

MarkInv ==
  OwnersInv /\ UnmarkedOnlyByOverlap /\ LockedLeaves /\ CountedLeaves /\ CountingIsI5

(* A user is an owner exactly when owner is one of the user's roles. *)
LEMMA OwnerRole ==
  \A u \in User : u \in Owners <=> Owner \in RolesOf(u)
BY RoleAssumption DEF Owners, RolesOf

(* While P-8 or P-28 holds the tenants row nobody else becomes an owner: the *)
(* insert waits for the row.                                                 *)
LEMMA InsertWaits ==
  ASSUME OwnersInv, NEW p \in Proc, NEW u \in User, NEW roles \in SUBSET Role,
         MayGrant(p, u, roles), NEW q \in Proc \ {p}, tenantLock = q,
         tx[q].op \in {"P-8", "P-28"}
  PROVE  roles \subseteq RolesOf(u)
BY ProcAssumption DEF MayGrant, MayInsert

(* The parts of MarkInv that are not about the guard. *)
Marking ==
  UnmarkedOnlyByOverlap /\ LockedLeaves /\ CountedLeaves /\ CountingIsI5

(* A transaction that reads or locks but writes nothing that others see. *)
LEMMA MoveKeepsMarking ==
  ASSUME MarkInv, NEW p \in Proc, NEW t \in Transaction,
         tx' = [tx EXCEPT ![p] = t], UNCHANGED tableVars,
         tenantLock' \in {p, tenantLock},
         tenantLock' = p /\ t.op \in {"P-8", "P-28"} /\ t.user \in Owners
           => Owners \ {t.user} # {},
         t.pc = "commit" /\ Owner \in t.want \cap t.roles /\ ~ t.marks
           => Owners \ {t.user} # {},
         t.pc \in {"count", "commit"} => t.op = "I-5"
  PROVE  Marking'
<1> USE DEF MarkInv
<1>1. tx'[p] = t /\ \A q \in Proc \ {p} : tx'[q] = tx[q]
  BY DEF OwnersInv, TypeOK
<1>2. /\ Owners' = Owners /\ overlap' = overlap /\ ownerless' = ownerless
      /\ \A u \in User : RolesOf(u)' = RolesOf(u)
  BY DEF tableVars, Owners, RolesOf
<1>3. UnmarkedOnlyByOverlap'
  BY <1>2 DEF UnmarkedOnlyByOverlap
<1>4. LockedLeaves'
  <2> SUFFICES ASSUME NEW q \in Proc, tenantLock' = q, tx'[q].op \in {"P-8", "P-28"},
                      Owner \in RolesOf(tx[q].user)'
               PROVE  Leaves(tx[q].user)'
    BY DEF LockedLeaves
  <2>0. tx'[q].user \in User
    BY <1>1 DEF OwnersInv, TypeOK, Transaction
  <2>1. tx'[q].user \in Owners
    BY <1>2, <2>0, OwnerRole
  <2>2. CASE q = p
    BY <1>1, <1>2, <2>1, <2>2 DEF Leaves
  <2>3. CASE q # p
    BY <1>1, <1>2, <2>0, <2>3 DEF Leaves, LockedLeaves
  <2> QED
    BY <2>2, <2>3
<1>5. CountedLeaves'
  BY <1>1, <1>2 DEF CountedLeaves, At, Leaves
<1>6. CountingIsI5'
  BY <1>1 DEF CountingIsI5
<1> QED
  BY <1>3, <1>4, <1>5, <1>6 DEF Marking

(* A transaction that ends and takes no owner grant.  One that makes an      *)
(* owner does not make the user of a waiting P-8 or P-28 one.                *)
LEMMA EndKeepsMarking ==
  ASSUME MarkInv, NEW p \in Proc, End(p), overlap' = overlap,
         Owners \subseteq Owners', Owners' # {} \/ ownerless' = ownerless \/ ownerless',
         \A q \in Proc \ {p} :
           tenantLock = q /\ tx[q].op \in {"P-8", "P-28"}
             /\ tx[q].user \in Owners' => tx[q].user \in Owners
  PROVE  Marking'
<1> USE DEF MarkInv
<1>1. tx'[p] = Idle /\ \A q \in Proc \ {p} : tx'[q] = tx[q]
  BY DEF End, OwnersInv, TypeOK
<1>2. tenantLock' # p /\ \A q \in Proc : tenantLock' = q => tenantLock = q
  BY ProcAssumption DEF End, Release
<1>3. \A u \in User : u \in Owners' <=> Owner \in RolesOf(u)'
  BY RoleAssumption DEF Owners, RolesOf
<1>4. UnmarkedOnlyByOverlap'
  BY DEF UnmarkedOnlyByOverlap
<1>5. LockedLeaves'
  <2> SUFFICES ASSUME NEW q \in Proc, tenantLock' = q, tx'[q].op \in {"P-8", "P-28"},
                      Owner \in RolesOf(tx[q].user)'
               PROVE  Leaves(tx[q].user)'
    BY DEF LockedLeaves
  <2>1. q # p /\ tenantLock = q /\ tx'[q] = tx[q]
    BY <1>1, <1>2
  <2>2. tx[q].user \in User
    BY DEF OwnersInv, TypeOK, Transaction
  <2>3. tx[q].user \in Owners
    BY <1>3, <2>1, <2>2
  <2>4. Leaves(tx[q].user)
    BY <2>1, <2>2, <2>3, OwnerRole DEF LockedLeaves
  <2> QED
    BY <2>1, <2>4 DEF Leaves
<1>6. CountedLeaves'
  BY <1>1 DEF CountedLeaves, At, Leaves, Idle
<1>7. CountingIsI5'
  BY <1>1 DEF CountingIsI5, Idle
<1> QED
  BY <1>4, <1>5, <1>6, <1>7 DEF Marking

(* A transaction that ends and takes the owner grant of its user: another    *)
(* one that takes a grant too is recorded as an overlap.                     *)
LEMMA TakingKeepsMarking ==
  ASSUME MarkInv, TypeOK', NEW p \in Proc, End(p), Overlapping(p, TRUE),
         Owners \ {tx[p].user} \subseteq Owners', Owners' \subseteq Owners,
         ownerless' \/ overlap' \/ Leaves(tx[p].user)
  PROVE  Marking'
<1> USE DEF MarkInv
<1>1. tx'[p] = Idle /\ \A q \in Proc \ {p} : tx'[q] = tx[q]
  BY DEF End, OwnersInv, TypeOK
<1>2. tenantLock' # p /\ \A q \in Proc : tenantLock' = q => tenantLock = q
  BY ProcAssumption DEF End, Release
<1>3. overlap => overlap'
  BY DEF Overlapping
<1>4. UnmarkedOnlyByOverlap'
  BY <1>3 DEF UnmarkedOnlyByOverlap, Leaves
<1>5. ASSUME NEW q \in Proc \ {p}, TakesOwner(q) PROVE overlap'
  BY <1>5 DEF Overlapping
<1>6. LockedLeaves'
  <2> SUFFICES ASSUME NEW q \in Proc, tenantLock' = q, tx'[q].op \in {"P-8", "P-28"},
                      Owner \in RolesOf(tx[q].user)'
               PROVE  Leaves(tx[q].user)'
    BY DEF LockedLeaves
  <2>1. q # p /\ tenantLock = q /\ tx'[q] = tx[q]
    BY <1>1, <1>2
  <2>2. tx[q].user \in User
    BY DEF OwnersInv, TypeOK, Transaction
  <2>3. tx[q].user \in Owners'
    BY <2>1, <2>2, RoleAssumption DEF Owners, RolesOf
  <2>4. TakesOwner(q)
    BY <2>1, <2>2, <2>3, OwnerRole DEF TakesOwner
  <2> QED
    BY <1>5, <2>1, <2>4 DEF Leaves
<1>7. CountedLeaves'
  <2> SUFFICES ASSUME NEW q \in Proc, At(q, "I-5", "commit")', Owner \in tx'[q].want
               PROVE  overlap'
    BY DEF CountedLeaves, Leaves
  <2>1. q # p /\ tx'[q] = tx[q]
    BY <1>1 DEF At, Idle
  <2> QED
    BY <1>5, <2>1 DEF TakesOwner, At
<1>8. CountingIsI5'
  BY <1>1 DEF CountingIsI5, Idle
<1> QED
  BY <1>4, <1>6, <1>7, <1>8 DEF Marking

(* A single statement outside any transaction of the model. *)
LEMMA DirectKeepsMarking ==
  ASSUME MarkInv, UNCHANGED <<tx, tenantLock, overlap, ownerless>>,
         Owners \subseteq Owners', tenantLock = Nobody \/ UNCHANGED grants
  PROVE  Marking'
<1> USE DEF MarkInv
<1>1. UnmarkedOnlyByOverlap' /\ CountingIsI5'
  BY DEF UnmarkedOnlyByOverlap, CountingIsI5
<1>2. CountedLeaves'
  BY DEF CountedLeaves, At, Leaves
<1>3. LockedLeaves'
  BY ProcAssumption DEF LockedLeaves, Leaves, RolesOf, Owners
<1> QED
  BY <1>1, <1>2, <1>3 DEF Marking

(* What a commit that grants roles does to the other transactions. *)
LEMMA GrantKeepsMarking ==
  ASSUME MarkInv, NEW p \in Proc, End(p), overlap' = overlap,
         NEW roles \in SUBSET Role, MayGrant(p, tx[p].user, roles),
         Owners \subseteq Owners', Owners' # {} \/ ownerless' = ownerless,
         \A u \in User : u \in Owners' =>
           u \in Owners \/ (u = tx[p].user /\ Owner \in roles)
  PROVE  Marking'
<1>1. tx[p].user \in User /\ \A q \in Proc : tx[q].user \in User
  BY DEF MarkInv, OwnersInv, TypeOK, Transaction
<1>2. ASSUME NEW q \in Proc \ {p}, tenantLock = q, tx[q].op \in {"P-8", "P-28"},
             tx[q].user \in Owners'
      PROVE  tx[q].user \in Owners
  <2>1. roles \subseteq RolesOf(tx[p].user)
    BY <1>1, <1>2, InsertWaits DEF MarkInv
  <2> QED
    BY <1>1, <1>2, <2>1, OwnerRole
<1> QED
  BY <1>2, EndKeepsMarking

(* Every step keeps the marking. *)
LEMMA MarkStep ==
  ASSUME MarkInv, [Next]_vars
  PROVE  MarkInv'
<1>0. OwnersInv /\ OwnersInv' /\ TypeOK /\ TypeOK'
  BY OwnersStep DEF MarkInv, OwnersInv
<1> SUFFICES Marking'
  BY <1>0 DEF MarkInv, Marking
<1>1. CASE UNCHANGED vars
  BY <1>1, DirectKeepsMarking DEF vars, tableVars, Owners
<1>2. ASSUME NEW p \in Proc, LockByID(p) PROVE Marking'
  <2> DEFINE t == [tx[p] EXCEPT !.pc = "write"]
  <2>1. t \in Transaction /\ t.pc = "write" /\ t.user = tx[p].user
    BY <1>0 DEF TypeOK, Transaction
  <2>2. tx' = [tx EXCEPT ![p] = t] /\ UNCHANGED tableVars /\ tenantLock' = p
    BY <1>0, <1>2 DEF LockByID, TypeOK
  <2>3. Owners \ {t.user} # {}
    BY <1>2, AnotherOwner DEF LockByID
  <2> HIDE DEF t
  <2> QED
    BY <2>1, <2>2, <2>3, MoveKeepsMarking
<1>3. ASSUME NEW p \in Proc, NEW u \in User, RemoveGuard(p, u) PROVE Marking'
  <2>1. /\ tx' = [tx EXCEPT ![p] = tx'[p]] /\ tx'[p] \in Transaction
        /\ tx'[p].pc = "write" /\ tx'[p].user = u
        /\ UNCHANGED tableVars /\ tenantLock' = p
    BY <1>0, <1>3 DEF RemoveGuard, Begin, TypeOK
  <2>2. u \in Owners => Owners \ {u} # {}
    BY <1>3, AnotherOwner, OwnerRole DEF RemoveGuard
  <2> QED
    BY <2>1, <2>2, MoveKeepsMarking
<1>4. ASSUME NEW p \in Proc, NEW u \in User,
             SuspendRead(p, u) \/ ReassignRead(p, u) \/ DeleteRead(p, u)
      PROVE  Marking'
  <2>1. /\ tx' = [tx EXCEPT ![p] = tx'[p]] /\ tx'[p] \in Transaction
        /\ tx'[p].pc \in {"lock", "write", "cascade"}
        /\ tx'[p].op \in {"P-7", "O-7", "I-5"}
        /\ UNCHANGED tableVars /\ tenantLock' = tenantLock
    BY <1>0, <1>4 DEF SuspendRead, ReassignRead, DeleteRead, Begin, TypeOK
  <2> QED
    BY <2>1, MoveKeepsMarking
<1>5. ASSUME NEW p \in Proc, NEW u \in User, NEW want \in SUBSET Role,
             ReconcileRead(p, u, want) \/ JitRead(p, u, want)
      PROVE  Marking'
  <2>1. /\ tx' = [tx EXCEPT ![p] = tx'[p]] /\ tx'[p] \in Transaction
        /\ tx'[p].pc \in {"lock", "write"} /\ tx[p].pc = "idle"
        /\ UNCHANGED tableVars /\ tenantLock' = tenantLock
    BY <1>0, <1>5 DEF ReconcileRead, JitRead, Begin, Starts, TypeOK
  <2>2. tenantLock # p
    BY <1>0, <2>1 DEF OwnersInv, GuardHolds
  <2> QED
    BY <2>1, <2>2, MoveKeepsMarking
<1>6. ASSUME NEW p \in Proc, DeleteCascade(p) PROVE Marking'
  <2> DEFINE t == [tx[p] EXCEPT !.pc = "count", !.want = RolesOf(tx[p].user)]
  <2>1. t \in Transaction /\ t.pc = "count" /\ t.op = "I-5"
    BY <1>0, <1>6 DEF DeleteCascade, At, TypeOK, Transaction, RolesOf
  <2>2. tx' = [tx EXCEPT ![p] = t] /\ UNCHANGED <<tableVars, tenantLock>>
    BY <1>0, <1>6 DEF DeleteCascade, TypeOK
  <2> HIDE DEF t
  <2> QED
    BY <2>1, <2>2, MoveKeepsMarking
<1>7. ASSUME NEW p \in Proc, DeleteCount(p) PROVE Marking'
  <2> DEFINE marks == Owner \in tx[p].roles /\ OwnersLeft(p) = {}
             t == [tx[p] EXCEPT !.pc = "commit", !.marks = marks]
  <2>1. /\ t \in Transaction /\ t.pc = "commit" /\ t.op = "I-5"
        /\ t.marks = marks /\ t.user = tx[p].user
        /\ t.want = tx[p].want /\ t.roles = tx[p].roles
    BY <1>0, <1>7 DEF DeleteCount, At, TypeOK, Transaction
  <2>2. tx' = [tx EXCEPT ![p] = t] /\ UNCHANGED tableVars
        /\ tenantLock' \in {p, tenantLock}
    BY <1>0, <1>7 DEF DeleteCount, TypeOK
  <2>3. Owner \in t.want \cap t.roles /\ ~ t.marks => Owners \ {t.user} # {}
    BY <2>1 DEF OwnersLeft
  <2> HIDE DEF t, marks
  <2> QED
    BY <2>1, <2>2, <2>3, MoveKeepsMarking
<1>8. ASSUME NEW p \in Proc, SuspendCommit(p) \/ Abort(p) PROVE Marking'
  <2>1. End(p) /\ UNCHANGED <<grants, overlap, ownerless>>
    BY <1>8 DEF SuspendCommit, Abort, tableVars
  <2>2. Owners' = Owners
    BY <2>1 DEF Owners
  <2> QED
    BY <2>1, <2>2, EndKeepsMarking
<1>9. ASSUME NEW p \in Proc, ReassignCommit(p) \/ JitCommit(p) PROVE Marking'
  <2>1. tx[p].user \in User /\ tx[p].want \in SUBSET Role
    BY <1>0 DEF TypeOK, Transaction
  <2>2. PICK roles \in SUBSET Role :
          /\ End(p) /\ overlap' = overlap /\ MayGrant(p, tx[p].user, roles)
          /\ grants' = grants \cup ({tx[p].user} \X roles)
          /\ Owner \in roles \/ ownerless' = ownerless
    <3>1. CASE ReassignCommit(p)
      <4>1. {<<tx[p].user, Owner>>} = {tx[p].user} \X {Owner}
        OBVIOUS
      <4> QED
        BY <3>1, <4>1, RoleAssumption DEF ReassignCommit
    <3>2. CASE JitCommit(p)
      BY <2>1, <3>2 DEF JitCommit
    <3> QED
      BY <1>9, <3>1, <3>2
  <2>3. /\ Owners \subseteq Owners'
        /\ \A u \in User : u \in Owners' =>
             u \in Owners \/ (u = tx[p].user /\ Owner \in roles)
        /\ Owner \in roles => tx[p].user \in Owners'
    BY <2>1, <2>2 DEF Owners
  <2> QED
    BY <2>2, <2>3, GrantKeepsMarking
<1>10. ASSUME NEW p \in Proc, RemoveCommit(p) PROVE Marking'
  <2> DEFINE u == tx[p].user
  <2>1. /\ End(p) /\ tx[p].op = "P-8" /\ ownerless' = ownerless
        /\ grants' = grants \ Revoked(u, RolesOf(u))
        /\ Overlapping(p, Owner \in RolesOf(u))
    BY <1>10 DEF RemoveCommit, At
  <2>2. tenantLock = p /\ u \in User
    BY <1>0, <1>10 DEF RemoveCommit, GuardHolds, OwnersInv, TypeOK, Transaction
  <2>3. Owners \ {u} \subseteq Owners' /\ Owners' \subseteq Owners
    BY <2>1 DEF Owners, Revoked
  <2>4. CASE Owner \in RolesOf(u)
    <3>1. Leaves(u)
      BY <2>1, <2>2, <2>4 DEF MarkInv, LockedLeaves
    <3>2. Overlapping(p, TRUE)
      BY <2>1, <2>4 DEF Overlapping
    <3> QED
      BY <1>0, <2>1, <2>3, <3>1, <3>2, TakingKeepsMarking
  <2>5. CASE Owner \notin RolesOf(u)
    <3>1. Owners' = Owners
      BY <2>2, <2>3, <2>5, OwnerRole
    <3>2. overlap' = overlap
      BY <1>0, <2>1, <2>5 DEF Overlapping, TypeOK
    <3> QED
      BY <2>1, <3>1, <3>2, EndKeepsMarking
  <2> QED
    BY <2>4, <2>5
<1>11. ASSUME NEW p \in Proc, ReconcileCommit(p) PROVE Marking'
  <2> DEFINE u == tx[p].user
             granted == tx[p].want \ tx[p].roles
             revoked == tx[p].roles \ tx[p].want
  <2>1. /\ End(p) /\ At(p, "P-28", "write") /\ ownerless' = ownerless
        /\ MayGrant(p, u, granted) /\ revoked \subseteq RolesOf(u)
        /\ grants' = (grants \cup ({u} \X granted)) \ Revoked(u, revoked)
        /\ Overlapping(p, Owner \in revoked)
    BY <1>11 DEF ReconcileCommit
  <2>2. u \in User /\ granted \in SUBSET Role /\ revoked \in SUBSET Role
    BY <1>0 DEF TypeOK, Transaction
  <2>3. CASE Owner \in revoked
    <3>1. tenantLock = p /\ tx[p].op = "P-28"
      BY <1>0, <2>1, <2>3 DEF GuardHolds, OwnersInv, Strips, At
    <3>2. Leaves(u)
      BY <2>1, <2>3, <3>1 DEF MarkInv, LockedLeaves
    <3>3. Overlapping(p, TRUE)
      BY <2>1, <2>3 DEF Overlapping
    <3>4. Owners \ {u} \subseteq Owners' /\ Owners' \subseteq Owners
      BY <2>1, <2>3 DEF Owners, Revoked
    <3> QED
      BY <1>0, <2>1, <3>2, <3>3, <3>4, TakingKeepsMarking
  <2>4. CASE Owner \notin revoked
    <3>1. /\ Owners \subseteq Owners'
          /\ \A v \in User : v \in Owners' =>
               v \in Owners \/ (v = u /\ Owner \in granted)
      BY <2>1, <2>4 DEF Owners, Revoked
    <3>2. overlap' = overlap
      BY <1>0, <2>1, <2>4 DEF Overlapping, TypeOK
    <3> HIDE DEF granted
    <3> QED
      BY <2>1, <2>2, <3>1, <3>2, GrantKeepsMarking
  <2> QED
    BY <2>3, <2>4
<1>12. ASSUME NEW p \in Proc, DeleteCommit(p) PROVE Marking'
  <2> DEFINE u == tx[p].user
  <2>1. /\ End(p) /\ At(p, "I-5", "commit")
        /\ ownerless' = (ownerless \/ tx[p].marks)
        /\ grants' = grants \ Revoked(u, tx[p].want)
        /\ Overlapping(p, Owner \in tx[p].want)
    BY <1>12 DEF DeleteCommit
  <2>2. Owners \ {u} \subseteq Owners' /\ Owners' \subseteq Owners
    BY <2>1 DEF Owners, Revoked
  <2>3. CASE Owner \in tx[p].want
    <3>1. Overlapping(p, TRUE)
      BY <2>1, <2>3 DEF Overlapping
    <3>2. ownerless' \/ overlap' \/ Leaves(u)
      <4>1. CASE Owner \notin tx[p].roles
        BY <2>1, <3>1, <4>1 DEF Overlapping, At
      <4>2. CASE tx[p].marks
        BY <2>1, <4>2
      <4>3. CASE Owner \in tx[p].roles /\ ~ tx[p].marks
        BY <2>1, <2>3, <4>3 DEF MarkInv, CountedLeaves
      <4> QED
        BY <4>1, <4>2, <4>3
    <3> QED
      BY <1>0, <2>1, <2>2, <3>1, <3>2, TakingKeepsMarking
  <2>4. CASE Owner \notin tx[p].want
    <3>1. Owners' = Owners
      BY <2>1, <2>4 DEF Owners, Revoked
    <3>2. overlap' = overlap
      BY <1>0, <2>1, <2>4 DEF Overlapping, TypeOK
    <3>3. ownerless' = ownerless \/ ownerless'
      BY <1>0, <2>1 DEF TypeOK, Transaction
    <3> QED
      BY <2>1, <3>1, <3>2, <3>3, EndKeepsMarking
  <2> QED
    BY <2>3, <2>4
<1>13. ASSUME NEW u \in User, NEW status \in Status, SetStatusDirect(u, status)
       PROVE  Marking'
  BY <1>13, DirectKeepsMarking DEF SetStatusDirect, Owners
<1>14. ASSUME NEW u \in User, NEW roles \in SUBSET Role, AddFromRegister(u, roles)
       PROVE  Marking'
  BY <1>14, DirectKeepsMarking DEF AddFromRegister, Owners
<1> QED
  BY <1>1, <1>2, <1>3, <1>4, <1>5, <1>6, <1>7, <1>8, <1>9, <1>10, <1>11,
     <1>12, <1>13, <1>14 DEF Next, ActorNext, InternalNext, DirectNext

(* TM-12, for any number of concurrent operations: a tenant left without an  *)
(* owner is marked, unless two removals of owners overlapped or the deleted  *)
(* grant was newer than I-5's look at the roles.                             *)
THEOREM OwnerlessIsMarked == Spec => []UnmarkedOnlyByOverlap
<1>1. Init => MarkInv
  <2> SUFFICES ASSUME Init PROVE MarkInv
    OBVIOUS
  <2>1. Founder \in Owners
    BY UserAssumption DEF Init, Owners
  <2>2. LockedLeaves /\ CountedLeaves /\ CountingIsI5
    BY ProcAssumption DEF Init, LockedLeaves, CountedLeaves, CountingIsI5, At, Idle
  <2> QED
    BY <2>1, <2>2, OwnersInit DEF MarkInv, UnmarkedOnlyByOverlap
<1>2. MarkInv => UnmarkedOnlyByOverlap
  BY DEF MarkInv
<1> QED
  BY <1>1, <1>2, MarkStep, PTL DEF Spec
=============================================================================
