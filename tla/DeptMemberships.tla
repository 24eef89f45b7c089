-------------------------- MODULE DeptMemberships ---------------------------
(***************************************************************************)
(* The departments of one user in one tenant: P-10 (assign), P-11 (remove),*)
(* I-10 (assignments from Keycloak groups), the initial assignments of     *)
(* I-3, and the two removals of the user that cascade to departments, P-8  *)
(* and I-5; P-24 and P-25 on tenant_departments; the Delegation and        *)
(* Workflow services that are asked before a level is lowered.             *)
(*                                                                         *)
(* Requests look up the membership and ask the other services before their *)
(* transaction.  In it, Assign takes an advisory lock on the (tenant,      *)
(* user, department) key; the removals take row locks only, so a statement *)
(* that waited for a row misses the row which replaced it.                 *)
(***************************************************************************)
EXTENDS Integers, FiniteSets

CONSTANTS Dept,       \* departments of the catalogue, not is_system
          Req,        \* goroutines that serve requests
          NoDept,     \* a request about all departments, or no request
          MaxJoins    \* bound on how often the user joins the tenant

ASSUME DeptAssumption == IsFiniteSet(Dept) /\ NoDept \notin Dept \cup Req
ASSUME JoinAssumption == MaxJoins \in Nat \ {0}

VARIABLES
  member,      \* tenant_memberships: status, and which joining this is
  dm,          \* dept_memberships: the live row of each department
  announced,   \* the level a consumer of the department events has on file
  td,          \* tenant_departments
  retired,     \* departments the global catalogue has retired
  catalog,     \* ... as om:departments, or its stale copy, has it
  delegate,    \* departments where the user is a delegate with active workflows
  req          \* the request of each goroutine

catalogVars == <<retired, catalog>>
vars == <<member, dm, announced, td, catalogVars, delegate, req>>

(* DeptRole.Rank: preparator, reviewer, approver; 0 for no row.              *)
Level == 1..3
NoLevel == 0

(* join: the membership the row is anchored to; late (history): written by a *)
(* request that overlapped the end of that membership.                       *)
Row == [level : Level \cup {NoLevel}, join : 0..MaxJoins, late : BOOLEAN]
NoRow == [level |-> NoLevel, join |-> 0, late |-> FALSE]

(* prev: the level read under the advisory lock; rows: the live rows that    *)
(* the snapshot of the soft delete holds; excused (history): the gate was    *)
(* skipped, a service did not answer, or what the gate read has changed;     *)
(* late (history): the membership ended after the request had read it.       *)
Idle == [op |-> "none", at |-> "idle", dept |-> NoDept, level |-> NoLevel, join |-> 0,
         prev |-> NoLevel, rows |-> {}, excused |-> FALSE, late |-> FALSE]

(* tenant_departments: never activated, or is_active. *)
TenantDept == {"absent", "active", "inactive"}

(* P-8 and I-5. *)
Leaving == {"leave", "erase"}

Go(r, at) == req' = [req EXCEPT ![r].at = at]
Finish(r) == req' = [req EXCEPT ![r] = Idle]

Satisfies(level, minimum) == level >= minimum

(* P-10 past its gate. *)
Gated == {q \in Req : req[q].op = "assign" /\ req[q].at # "gate"}

(* P-8 and I-3 hold the tenants row; the Keycloak deletion does not. *)
TenantLocked == \E q \in Req : req[q].op = "leave" /\ req[q].at = "delete"

(* The transaction of Assign has the key's advisory lock. *)
KeyLocked(d) == \E q \in Req : req[q].at = "write" /\ req[q].dept = d

(* ... and FOR UPDATE the row it found. *)
RowLocked(d) == \E q \in Req : req[q].at = "write" /\ req[q].dept = d /\ req[q].prev # NoLevel

(* FindByUserID: a live membership, suspended or not. *)
FindByUserID == member.status # "none"

(* DepartmentByID: the cached catalogue; after a failed fetch, a stale one.  *)
DepartmentByID(d) == d \notin catalog

----------------------------------------------------------------------------
(* P-10 and I-10. *)

(* The department has to be active in the catalogue and for the tenant, the  *)
(* grantee an active member (TD-6, DM-2).                                    *)
Assignable(d) ==
  /\ DepartmentByID(d)
  /\ td[d] = "active"
  /\ member.status = "active"

AssignRead(r, d, level) ==
  /\ req[r] = Idle
  /\ Assignable(d)
  /\ req' = [req EXCEPT ![r] = [Idle EXCEPT !.op = "assign", !.at = "gate", !.dept = d,
                                            !.level = level, !.join = member.join]]
  /\ UNCHANGED <<member, dm, announced, td, catalogVars, delegate>>

(* Group Mapping Service: the level a group has in a department, if any.     *)
ResolveGroups == {{}} \cup {{level} : level \in Level}

(* The same from the cache or, when the service fails, from the stale copy;  *)
(* without any of them no level, and the login goes on (fail open).          *)
ResolveMappings == ResolveGroups \cup {{}}

(* I-10 asks for a membership of any status and for a department that the    *)
(* foreign key knows.  It passes no gate.                                    *)
JitRead(r, d) ==
  /\ req[r] = Idle
  /\ FindByUserID
  /\ td[d] # "absent"
  /\ \E mapped \in ResolveMappings : \E level \in mapped :
       req' = [req EXCEPT ![r] = [Idle EXCEPT !.op = "jit", !.at = "lock", !.dept = d,
                                              !.level = level, !.join = member.join,
                                              !.excused = TRUE]]
  /\ UNCHANGED <<member, dm, announced, td, catalogVars, delegate>>

Demotes(d, level) == dm[d].level # NoLevel /\ ~Satisfies(level, dm[d].level)

(* Delegation: is there a delegation of the department to the user?          *)
DeptDelegate(d) == d \in delegate

(* Workflow, GetDelegateImpact: the active workflows of one delegation, or   *)
(* tenant-wide.  Each of the two services may fail to answer.                *)
DelegateImpact(d) == IF d = NoDept THEN delegate # {} ELSE DeptDelegate(d)

(* Faulty variant: a promotion is taken for a demotion. *)
GateInverted(r) ==
  LET d == req[r].dept IN
  /\ req[r].at = "gate" /\ req[r].op = "assign"
  /\ \/ ~(dm[d].level # NoLevel /\ req[r].level > dm[d].level) /\ Go(r, "lock")
     \/ dm[d].level # NoLevel /\ req[r].level > dm[d].level /\ DelegateImpact(d) /\ Finish(r)
  /\ UNCHANGED <<member, dm, announced, td, catalogVars, delegate>>

(* WFI-9, WFI-12: a demotion of a delegate with active workflows is refused; *)
(* where a service does not answer, the gate is open.                        *)
DemotionGate(r) ==
  LET d == req[r].dept IN
  /\ req[r].at = "gate" /\ req[r].op = "assign"
  /\ \/ ~Demotes(d, req[r].level) /\ Go(r, "lock")
     \/ Demotes(d, req[r].level) /\ ~DelegateImpact(d) /\ Go(r, "lock")
     \/ Demotes(d, req[r].level) /\ DelegateImpact(d) /\ Finish(r)
     \/ /\ Demotes(d, req[r].level)
        /\ req' = [req EXCEPT ![r].at = "lock", ![r].excused = TRUE]
  /\ UNCHANGED <<member, dm, announced, td, catalogVars, delegate>>

(* Faulty variant: FOR UPDATE alone, which locks no row that is not there. *)
AssignUnlocked(r) ==
  LET d == req[r].dept IN
  /\ req[r].at = "lock"
  /\ ~RowLocked(d)
  /\ req' = [req EXCEPT ![r].at = "write", ![r].prev = dm[d].level]
  /\ UNCHANGED <<member, dm, announced, td, catalogVars, delegate>>

(* pg_advisory_xact_lock, then SELECT ... FOR UPDATE. *)
AssignLock(r) ==
  LET d == req[r].dept IN
  /\ req[r].at = "lock"
  /\ ~KeyLocked(d)
  /\ req' = [req EXCEPT ![r].at = "write", ![r].prev = dm[d].level]
  /\ UNCHANGED <<member, dm, announced, td, catalogVars, delegate>>

(* A row was written or deleted: snapshots no longer hold it, and demotion   *)
(* gates that were passed earlier looked at another level.                   *)
Touched(depts, r) ==
  [q \in Req |->
     IF q = r THEN Idle
     ELSE [req[q] EXCEPT !.rows = @ \ depts,
                         !.excused = @ \/ (q \in Gated /\ req[q].dept \in depts)]]

(* A cascade whose snapshot is taken but that has not committed. *)
Cascading == \E q \in Req : req[q].op \in Leaving /\ req[q].at = "delete"

(* The level is replaced by soft delete and insert; ON CONFLICT DO NOTHING   *)
(* leaves a row somebody else inserted.  P-10 announces the level it asked   *)
(* for, I-10 the level of the row.                                           *)
AssignWrite(r) ==
  LET d == req[r].dept
      level == req[r].level
      prev == req[r].prev
      inserts == prev # level /\ (prev # NoLevel \/ dm[d].level = NoLevel)
      row == IF inserts
             THEN [level |-> level, join |-> req[r].join, late |-> req[r].late \/ Cascading]
             ELSE dm[d]
  IN
  /\ req[r].at = "write"
  /\ dm' = [dm EXCEPT ![d] = row]
  /\ announced' = [announced EXCEPT ![d] =
                     IF prev = level THEN @ ELSE IF req[r].op = "jit" THEN row.level ELSE level]
  /\ req' = IF inserts THEN Touched({d}, r) ELSE [req EXCEPT ![r] = Idle]
  /\ UNCHANGED <<member, td, catalogVars, delegate>>

----------------------------------------------------------------------------
(* P-11. *)

(* An answer with active workflows refuses; no answer lets the call through. *)
RemoveGate(r, d) ==
  /\ req[r] = Idle
  /\ \E answered \in BOOLEAN :
       /\ answered => ~DelegateImpact(d)
       /\ req' = [req EXCEPT ![r] = [Idle EXCEPT !.op = "remove", !.at = "snapshot", !.dept = d,
                                                 !.excused = ~answered]]
  /\ UNCHANGED <<member, dm, announced, td, catalogVars, delegate>>

(* The statement's snapshot; without a row in it the call ends with 404. *)
RemoveSnapshot(r) ==
  LET d == req[r].dept IN
  /\ req[r].at = "snapshot" /\ req[r].op = "remove"
  /\ \/ dm[d].level # NoLevel /\ req' = [req EXCEPT ![r].at = "delete", ![r].rows = {d}]
     \/ dm[d].level = NoLevel /\ Finish(r)
  /\ UNCHANGED <<member, dm, announced, td, catalogVars, delegate>>

Deleted(depts) == [d \in Dept |-> IF d \in depts THEN NoRow ELSE dm[d]]
Withdrawn(depts) == [d \in Dept |-> IF d \in depts THEN NoLevel ELSE announced[d]]

(* Waits for the row's lock.  A row that was replaced meanwhile no longer    *)
(* matches: 404 although the user is still in the department.                *)
RemoveCommit(r) ==
  /\ req[r].at = "delete" /\ req[r].op = "remove"
  /\ \A d \in req[r].rows : ~RowLocked(d)
  /\ dm' = Deleted(req[r].rows)
  /\ announced' = Withdrawn(req[r].rows)
  /\ req' = IF req[r].rows = {} THEN [req EXCEPT ![r] = Idle] ELSE Touched(req[r].rows, r)
  /\ UNCHANGED <<member, td, catalogVars, delegate>>

----------------------------------------------------------------------------
(* P-8 and I-5: the user leaves the tenant. *)

(* P-8 refuses when the user is a delegate anywhere and when Workflow does   *)
(* not answer (WFI-3, WFI-8).                                                *)
LeaveGate(r) ==
  /\ req[r] = Idle
  /\ ~DelegateImpact(NoDept)
  /\ req' = [req EXCEPT ![r] = [Idle EXCEPT !.op = "leave", !.at = "snapshot"]]
  /\ UNCHANGED <<member, dm, announced, td, catalogVars, delegate>>

(* The Keycloak deletion asks nobody. *)
DeleteMember(r) ==
  /\ req[r] = Idle
  /\ req' = [req EXCEPT ![r] = [Idle EXCEPT !.op = "erase", !.at = "snapshot", !.excused = TRUE]]
  /\ UNCHANGED <<member, dm, announced, td, catalogVars, delegate>>

(* The membership as the transaction reads it, and the snapshot of           *)
(* SoftDeleteAllForUser.                                                     *)
LeaveSnapshot(r) ==
  /\ req[r].at = "snapshot" /\ req[r].op \in Leaving
  /\ req[r].op = "leave" => ~TenantLocked
  /\ \/ /\ FindByUserID
        /\ req' = [req EXCEPT ![r].at = "delete", ![r].join = member.join,
                              ![r].rows = {d \in Dept : dm[d].level # NoLevel}]
     \/ ~FindByUserID /\ Finish(r)
  /\ UNCHANGED <<member, dm, announced, td, catalogVars, delegate>>

(* Faulty variant: the cascade stops at the roles. *)
NoCascade(r) == {}

(* The rows the removal deletes and announces. *)
CascadeRows(r) == req[r].rows

(* Rows, events and the membership in one transaction. *)
LeaveCommit(r) ==
  LET rows == CascadeRows(r) IN
  /\ req[r].at = "delete" /\ req[r].op \in Leaving
  /\ member.status # "none" /\ member.join = req[r].join
  /\ \A d \in rows : ~RowLocked(d)
  /\ member' = [member EXCEPT !.status = "none"]
  /\ dm' = Deleted(rows)
  /\ announced' = Withdrawn(rows)
  /\ req' = [q \in Req |-> [Touched(rows, r)[q] EXCEPT !.late = @ \/ req[q].op \in {"assign", "jit"}]]
  /\ UNCHANGED <<td, catalogVars, delegate>>

(* The request fails, times out or its process dies: nothing is written. *)
Abort(r) ==
  /\ req[r] # Idle
  /\ Finish(r)
  /\ UNCHANGED <<member, dm, announced, td, catalogVars, delegate>>

----------------------------------------------------------------------------
(* I-3 joins the user; an accepted invitation carries initial departments,   *)
(* assigned in the same transaction and always announced as granted.  The    *)
(* membership may exist already, suspended or not.                           *)
Joined ==
  IF FindByUserID THEN member ELSE [status |-> "active", join |-> member.join + 1]

Register ==
  /\ ~TenantLocked
  /\ member.status = "none"
  /\ member.join < MaxJoins
  /\ member' = Joined
  /\ UNCHANGED <<dm, announced, td, catalogVars, delegate, req>>

RegisterInvited(d, level) ==
  LET written == dm[d].level # level IN
  /\ ~TenantLocked
  /\ member.status = "none" => member.join < MaxJoins
  /\ td[d] # "absent"
  /\ ~KeyLocked(d)
  /\ member' = Joined
  /\ dm' = [dm EXCEPT ![d] =
              IF written THEN [level |-> level, join |-> member'.join, late |-> Cascading] ELSE @]
  /\ announced' = [announced EXCEPT ![d] = level]
  /\ req' = IF written THEN Touched({d}, NoDept) ELSE req
  /\ UNCHANGED <<td, catalogVars, delegate>>

(* P-7, I-4: dept_memberships stay as they are (DM-1). *)
SetStatus(status) ==
  /\ member.status \notin {"none", status}
  /\ member' = [member EXCEPT !.status = status]
  /\ UNCHANGED <<dm, announced, td, catalogVars, delegate, req>>

(* INSERT ... ON CONFLICT DO NOTHING: one row per department (TD-7). *)
InsertActive(d) == td[d] = "absent" /\ td' = [td EXCEPT ![d] = "active"]

(* UPDATE ... SET is_active: there is a row. *)
UpdateActive(d, active) ==
  td[d] # "absent" /\ td' = [td EXCEPT ![d] = IF active THEN "active" ELSE "inactive"]

(* P-24. *)
Activate(d) ==
  /\ DepartmentByID(d)
  /\ InsertActive(d)
  /\ UNCHANGED <<member, dm, announced, catalogVars, delegate, req>>

(* Faulty variant: deactivation gives the activation row up. *)
SetActiveDeletes(d, active) ==
  /\ td[d] # "absent"
  /\ td' = [td EXCEPT ![d] = IF active THEN "active" ELSE "absent"]
  /\ UNCHANGED <<member, dm, announced, catalogVars, delegate, req>>

(* P-25: existing assignments stay (TD-2). *)
SetActive(d, active) ==
  /\ active => DepartmentByID(d)
  /\ UpdateActive(d, active)
  /\ td' # td
  /\ UNCHANGED <<member, dm, announced, catalogVars, delegate, req>>

(* Catalog Admin retires a department. *)
Retire(d) ==
  /\ d \notin retired
  /\ retired' = retired \cup {d}
  /\ UNCHANGED <<catalog, member, dm, announced, td, delegate, req>>

(* What a reader had from the Catalog Service: the departments retired by    *)
(* then.                                                                     *)
FetchedDepartments == SUBSET retired

(* The cached catalogue has expired, or DepartmentCatalogChanged deleted it, *)
(* and a reader writes what it has fetched, be it late.                      *)
Departments ==
  /\ catalog' \in FetchedDepartments \ {catalog}
  /\ UNCHANGED <<retired, member, dm, announced, td, delegate, req>>

(* Workflow: the user becomes, in a department of theirs, the delegate of    *)
(* active workflows.                                                         *)
WorkflowStarts(d) ==
  /\ dm[d].level # NoLevel
  /\ d \notin delegate
  /\ delegate' = delegate \cup {d}
  /\ req' = [q \in Req |->
               [req[q] EXCEPT !.excused = @ \/ (q \in Gated \/ req[q].op \in {"remove", "leave"})]]
  /\ UNCHANGED <<member, dm, announced, td, catalogVars>>

(* ... or no longer is. *)
WorkflowEnds(d) ==
  /\ d \in delegate
  /\ delegate' = delegate \ {d}
  /\ UNCHANGED <<member, dm, announced, td, catalogVars, req>>

(* ReassignDelegate and CancelByDelegate name no delegation: all of them.    *)
PostInternal == delegate' = {}

(* P-26: another member takes the user's workflows over, or they are         *)
(* stopped.  The user stays.                                                 *)
RemovalResolution ==
  /\ DelegateImpact(NoDept)
  /\ PostInternal
  /\ UNCHANGED <<member, dm, announced, td, catalogVars, req>>

----------------------------------------------------------------------------
Init ==
  /\ member = [status |-> "active", join |-> 1]
  /\ dm = [d \in Dept |-> NoRow]
  /\ announced = [d \in Dept |-> NoLevel]
  /\ td \in [Dept -> {"absent", "active"}]
  /\ retired = {} /\ catalog = {}
  /\ delegate = {}
  /\ req = [r \in Req |-> Idle]

Serve(r) ==
  \/ \E d \in Dept, level \in Level : AssignRead(r, d, level)
  \/ \E d \in Dept : JitRead(r, d) \/ RemoveGate(r, d)
  \/ LeaveGate(r) \/ DeleteMember(r)
  \/ DemotionGate(r) \/ AssignLock(r) \/ AssignWrite(r)
  \/ RemoveSnapshot(r) \/ RemoveCommit(r)
  \/ LeaveSnapshot(r) \/ LeaveCommit(r)
  \/ Abort(r)

Next ==
  \/ \E r \in Req : Serve(r)
  \/ Register
  \/ RemovalResolution \/ Departments
  \/ \E status \in {"active", "suspended"} : SetStatus(status)
  \/ \E d \in Dept :
       \/ \E level \in Level : RegisterInvited(d, level)
       \/ Activate(d) \/ Retire(d) \/ WorkflowStarts(d) \/ WorkflowEnds(d)
       \/ \E active \in BOOLEAN : SetActive(d, active)

Spec == Init /\ [][Next]_vars

----------------------------------------------------------------------------
(* Properties. *)

(* Every variable has its type, and fk_dm_tenant_dept holds: a live row      *)
(* belongs to a department the tenant has activated at some time (TD-2).     *)
TypeOK ==
  /\ member \in [status : {"none", "active", "suspended"}, join : 1..MaxJoins]
  /\ dm \in [Dept -> Row]
  /\ announced \in [Dept -> Level \cup {NoLevel}]
  /\ td \in [Dept -> TenantDept]
  /\ \A d \in Dept : dm[d].level # NoLevel => td[d] # "absent"
  /\ catalog \subseteq retired /\ retired \subseteq Dept
  /\ delegate \subseteq Dept
  /\ req \in [Req -> [op : {"none", "assign", "jit", "remove", "leave", "erase"},
                      at : {"idle", "gate", "lock", "write", "snapshot", "delete"},
                      dept : Dept \cup {NoDept}, level : Level \cup {NoLevel},
                      join : 0..MaxJoins, prev : Level \cup {NoLevel}, rows : SUBSET Dept,
                      excused : BOOLEAN, late : BOOLEAN]]

(* B15, EVT-10: whoever follows the Granted, LevelChanged and Revoked events *)
(* has every department level as the table has it, although concurrent       *)
(* callers decide which event to send from a row they may both not find.     *)
LevelsAnnounced == \A d \in Dept : announced[d] = dm[d].level

(* DM-1: the departments of a user who left are gone, and one who comes back *)
(* inherits none.  The exception is an assignment that read the membership   *)
(* before it ended, or wrote between the cascade's snapshot and its commit.  *)
OrphanOnlyByRace ==
  \A d \in Dept :
    dm[d].level # NoLevel =>
      \/ member.status # "none" /\ dm[d].join = member.join
      \/ dm[d].late

(* WFI-3, WFI-9, WFI-11: no delegate of active workflows is demoted in a     *)
(* department or removed from it, but by the paths that ask nobody (I-3,     *)
(* I-5, I-10), when a service did not answer, or when the workflows or the   *)
(* level are newer than the answer the gate was given.                       *)
DelegatesKept ==
  [][\A d \in Dept :
       d \in delegate /\ dm'[d].level < dm[d].level =>
         \/ \E r \in Req : req[r] # Idle /\ req'[r] = Idle /\ req[r].excused
         \/ \A r \in Req : req'[r] = Idle => req[r] = Idle]_vars

=============================================================================
