------------------------ MODULE DeptMembershipsProofs -----------------------
(***************************************************************************)
(* Theorems of DeptMemberships, for any departments, goroutines and number *)
(* of joinings.                                                            *)
(***************************************************************************)
EXTENDS DeptMemberships, TLAPS

ReqRecord == [op : {"none", "assign", "jit", "remove", "leave", "erase"},
              at : {"idle", "gate", "lock", "write", "snapshot", "delete"},
              dept : Dept \cup {NoDept}, level : Level \cup {NoLevel},
              join : 0..MaxJoins, prev : Level \cup {NoLevel}, rows : SUBSET Dept,
              excused : BOOLEAN, late : BOOLEAN]

Assigning(r) == req[r].at \in {"gate", "lock", "write"}

-----------------------------------------------------------------------------
(* The inductive invariants.                                                 *)

(* What the requests carry: an assignment is to a department that the tenant *)
(* has activated at some time, and a removal's snapshot is of its department.*)
Carries(r) ==
  /\ req[r].at = "idle" => req[r] = Idle
  /\ Assigning(r) => /\ req[r].op \in {"assign", "jit"}
                     /\ req[r].dept \in Dept /\ td[req[r].dept] # "absent"
                     /\ req[r].level \in Level
  /\ req[r].at \in {"snapshot", "delete"} => req[r].op \in {"remove", "leave", "erase"}
  /\ req[r].op = "remove" => req[r].dept \in Dept /\ req[r].rows \subseteq {req[r].dept}
Carried == \A r \in Req : Carries(r)

(* The advisory lock: one writer per department, and the row it did not find *)
(* is still not there.                                                       *)
KeyHeld ==
  /\ \A r, s \in Req : req[r].at = "write" /\ req[s].at = "write" /\ req[r].dept = req[s].dept => r = s
  /\ \A r \in Req : req[r].at = "write" /\ req[r].prev = NoLevel => dm[req[r].dept].level = NoLevel

(* An assignment knows the membership it read, unless that has ended.        *)
KnowsMember(r) ==
  Assigning(r) => req[r].late \/ (member.status # "none" /\ req[r].join = member.join)
Anchored == \A r \in Req : KnowsMember(r)

(* A cascade's snapshot holds every row but those written since.             *)
Sweeps(r) ==
  req[r].op \in Leaving /\ req[r].at = "delete" =>
    \A d \in Dept : dm[d].level # NoLevel => d \in req[r].rows \/ dm[d].late
Swept == \A r \in Req : Sweeps(r)

(* What a gate was told still stands, unless the request is excused.         *)
Answered(r) ==
  /\ r \in Gated /\ Assigning(r) /\ Demotes(req[r].dept, req[r].level) /\ req[r].dept \in delegate
       => req[r].excused
  /\ req[r].op = "jit" => req[r].excused
  /\ req[r].op = "remove" /\ req[r].dept \in delegate => req[r].excused
  /\ req[r].op = "leave" /\ delegate # {} => req[r].excused
  /\ req[r].op = "erase" => req[r].excused
Asked == \A r \in Req : Answered(r)

-----------------------------------------------------------------------------
(* Steps, request by request.                                                *)

(* What a step of another process leaves of a request, when it writes or     *)
(* deletes the rows of depts.                                                *)
Left(q, depts, y) ==
  /\ y.op = req[q].op /\ y.at = req[q].at /\ y.dept = req[q].dept
  /\ y.level = req[q].level /\ y.join = req[q].join /\ y.prev = req[q].prev
  /\ y.rows = req[q].rows \ depts
  /\ req[q].excused \/ (q \in Gated /\ req[q].dept \in depts) => y.excused
  /\ req[q].late => y.late
  /\ req[q] = Idle => y = Idle
Follows(q, depts) == Left(q, depts, req'[q])

(* A step of r: the others follow. *)
Stepped(r, depts) ==
  req' \in [Req -> ReqRecord] /\ \A q \in Req \ {r} : Follows(q, depts)

Ended(r, depts) == Stepped(r, depts) /\ req'[r] = Idle

LEMMA TypeParts ==
  ASSUME TypeOK
  PROVE  /\ req \in [Req -> ReqRecord] /\ \A r \in Req : req[r] \in ReqRecord
         /\ dm \in [Dept -> Row] /\ \A d \in Dept : dm[d] \in Row
         /\ member.join \in 1..MaxJoins /\ member.join \in 0..MaxJoins
         /\ member.status \in {"none", "active", "suspended"}
<1>1. req \in [Req -> ReqRecord] /\ dm \in [Dept -> Row]
  BY DEF TypeOK, ReqRecord
<1>2. member.join \in 1..MaxJoins /\ member.status \in {"none", "active", "suspended"}
  BY DEF TypeOK
<1> QED BY <1>1, <1>2, JoinAssumption

LEMMA IdleFields ==
  /\ Idle \in ReqRecord /\ Idle.op = "none" /\ Idle.at = "idle" /\ Idle.dept = NoDept
  /\ Idle.level = NoLevel /\ Idle.join = 0 /\ Idle.prev = NoLevel /\ Idle.rows = {}
  /\ Idle.excused = FALSE /\ Idle.late = FALSE
  BY JoinAssumption DEF Idle, ReqRecord

LEMMA IdleOnly ==
  ASSUME NEW x \in ReqRecord, x.op = "none", x.at = "idle", x.dept = NoDept, x.level = NoLevel,
         x.join = 0, x.prev = NoLevel, x.rows = {}, ~ x.excused, ~ x.late
  PROVE  x = Idle
<1>1. x.excused = FALSE /\ x.late = FALSE
  BY DEF ReqRecord
<1> QED BY <1>1 DEF ReqRecord, Idle

(* A request of which no other process's write takes note.                   *)
LEMMA Untouched ==
  ASSUME TypeOK, NEW q \in Req, req'[q] = req[q]
  PROVE  Follows(q, {})
<1>1. req[q] \in ReqRecord
  BY TypeParts
<1>2. req[q].rows = req[q].rows \ {}
  BY <1>1 DEF ReqRecord
<1> QED BY <1>2 DEF Follows, Left

LEMMA OnlyMoves ==
  ASSUME TypeOK, NEW r \in Req, NEW x \in ReqRecord, req' = [req EXCEPT ![r] = x]
  PROVE  Stepped(r, {}) /\ req'[r] = x
<1>1. req \in [Req -> ReqRecord]
  BY TypeParts
<1>2. req' \in [Req -> ReqRecord] /\ req'[r] = x /\ \A q \in Req \ {r} : req'[q] = req[q]
  BY <1>1
<1>3. \A q \in Req \ {r} : Follows(q, {})
  BY <1>2, Untouched
<1> QED BY <1>2, <1>3 DEF Stepped

LEMMA OnlyFinishes ==
  ASSUME TypeOK, NEW r \in Req, req' = [req EXCEPT ![r] = Idle]
  PROVE  Ended(r, {})
  BY OnlyMoves, IdleFields DEF Ended

LEMMA Waits ==
  ASSUME TypeOK, UNCHANGED req
  PROVE  Stepped(NoDept, {})
<1>1. req' \in [Req -> ReqRecord] /\ \A q \in Req : req'[q] = req[q]
  BY TypeParts
<1>2. \A q \in Req : Follows(q, {})
  BY <1>1, Untouched
<1> QED BY <1>1, <1>2 DEF Stepped

(* What the write of the rows of S leaves of the requests.                   *)
LEMMA TouchedLeaves ==
  ASSUME TypeOK, NEW S \in SUBSET Dept, NEW r, NEW t, t = Touched(S, r)
  PROVE  /\ t \in [Req -> ReqRecord] /\ (r \in Req => t[r] = Idle)
         /\ \A q \in Req \ {r} : Left(q, S, t[q])
<1> DEFINE b(q) == q \in Gated /\ req[q].dept \in S
           y(q) == [req[q] EXCEPT !.rows = @ \ S, !.excused = @ \/ b(q)]
<1>1. t = [q \in Req |-> IF q = r THEN Idle ELSE y(q)]
  BY DEF Touched
<1>2. \A q \in Req : b(q) \in BOOLEAN /\ req[q] \in ReqRecord /\ (req[q] = Idle => ~ b(q))
  BY TypeParts, IdleFields DEF Gated
<1>3. \A q \in Req : (q \in Gated /\ req[q].dept \in S) => b(q)
  OBVIOUS
<1> HIDE DEF b
<1>4. ASSUME NEW q \in Req
      PROVE  /\ y(q) \in ReqRecord /\ y(q).op = req[q].op /\ y(q).at = req[q].at
             /\ y(q).dept = req[q].dept
             /\ y(q).level = req[q].level /\ y(q).join = req[q].join /\ y(q).prev = req[q].prev
             /\ y(q).rows = req[q].rows \ S /\ y(q).late = req[q].late
             /\ (y(q).excused <=> req[q].excused \/ b(q))
  <2> DEFINE x == req[q]
  <2>1. x \in ReqRecord /\ y(q) = [x EXCEPT !.rows = @ \ S, !.excused = @ \/ b(q)] /\ b(q) \in BOOLEAN
    BY <1>2
  <2> HIDE DEF x
  <2> QED BY <2>1 DEF x, ReqRecord
<1> HIDE DEF y
<1>5. ASSUME NEW q \in Req, req[q] = Idle PROVE y(q) = Idle
  <2>1. /\ y(q).op = "none" /\ y(q).at = "idle" /\ y(q).dept = NoDept /\ y(q).level = NoLevel
        /\ y(q).join = 0 /\ y(q).prev = NoLevel /\ y(q).rows = {} /\ ~ y(q).late
    BY <1>4, <1>5, IdleFields
  <2>2. ~ y(q).excused
    BY <1>2, <1>4, <1>5, IdleFields
  <2> QED BY <1>4, <2>1, <2>2, IdleOnly
<1>6. t \in [Req -> ReqRecord]
  BY <1>1, <1>4, IdleFields
<1>7. r \in Req => t[r] = Idle
  BY <1>1
<1>8. ASSUME NEW q \in Req \ {r} PROVE Left(q, S, t[q])
  <2>1. t[q] = y(q)
    BY <1>1
  <2> QED BY <1>3, <1>4, <1>5, <2>1 DEF Left
<1> QED BY <1>6, <1>7, <1>8

LEMMA TouchedEffect ==
  ASSUME TypeOK, NEW S \in SUBSET Dept, NEW r, req' = Touched(S, r)
  PROVE  Stepped(r, S) /\ (r \in Req => req'[r] = Idle)
  BY TouchedLeaves DEF Stepped, Follows

-----------------------------------------------------------------------------
(* What each action does.                                                    *)

tables == <<member, dm, announced, td, catalogVars, delegate>>

LEMMA AssignReadEffect ==
  ASSUME TypeOK, NEW r \in Req, NEW d \in Dept, NEW level \in Level, AssignRead(r, d, level)
  PROVE  /\ Stepped(r, {}) /\ UNCHANGED tables /\ td[d] # "absent" /\ member.status # "none"
         /\ req'[r].op = "assign" /\ req'[r].at = "gate" /\ req'[r].dept = d
         /\ req'[r].level = level /\ req'[r].join = member.join
<1> DEFINE x == [Idle EXCEPT !.op = "assign", !.at = "gate", !.dept = d,
                             !.level = level, !.join = member.join]
<1>1. req' = [req EXCEPT ![r] = x] /\ UNCHANGED tables /\ td[d] = "active" /\ member.status = "active"
  BY DEF AssignRead, Assignable, tables
<1>2. x \in ReqRecord /\ x.op = "assign" /\ x.at = "gate" /\ x.dept = d /\ x.level = level
      /\ x.join = member.join
  BY TypeParts DEF Idle, ReqRecord
<1> HIDE DEF x
<1>3. Stepped(r, {}) /\ req'[r] = x
  BY <1>1, <1>2, OnlyMoves
<1> QED BY <1>1, <1>2, <1>3

LEMMA JitReadEffect ==
  ASSUME TypeOK, NEW r \in Req, NEW d \in Dept, JitRead(r, d)
  PROVE  /\ Stepped(r, {}) /\ UNCHANGED tables /\ td[d] # "absent" /\ member.status # "none"
         /\ req'[r].op = "jit" /\ req'[r].at = "lock" /\ req'[r].dept = d
         /\ req'[r].level \in Level /\ req'[r].join = member.join /\ req'[r].excused
<1>1. PICK level \in Level :
        req' = [req EXCEPT ![r] = [Idle EXCEPT !.op = "jit", !.at = "lock", !.dept = d,
                                               !.level = level, !.join = member.join,
                                               !.excused = TRUE]]
  <2>1. \A mapped \in ResolveMappings : \A level \in mapped : level \in Level
    BY DEF ResolveMappings, ResolveGroups
  <2> QED BY <2>1 DEF JitRead
<1>2. td[d] # "absent" /\ member.status # "none" /\ UNCHANGED tables
  BY DEF JitRead, FindByUserID, tables
<1> DEFINE x == [Idle EXCEPT !.op = "jit", !.at = "lock", !.dept = d,
                             !.level = level, !.join = member.join, !.excused = TRUE]
<1>3. x \in ReqRecord /\ x.op = "jit" /\ x.at = "lock" /\ x.dept = d /\ x.level = level
      /\ x.join = member.join /\ x.excused = TRUE
  BY TypeParts DEF Idle, ReqRecord
<1>4. req' = [req EXCEPT ![r] = x]
  BY <1>1
<1> HIDE DEF x
<1>5. Stepped(r, {}) /\ req'[r] = x
  BY <1>3, <1>4, OnlyMoves
<1> QED BY <1>2, <1>3, <1>5

LEMMA RemoveGateEffect ==
  ASSUME TypeOK, NEW r \in Req, NEW d \in Dept, RemoveGate(r, d)
  PROVE  /\ Stepped(r, {}) /\ UNCHANGED tables
         /\ req'[r].op = "remove" /\ req'[r].at = "snapshot" /\ req'[r].dept = d
         /\ req'[r].rows = {} /\ (d \in delegate => req'[r].excused)
<1>1. PICK answered \in BOOLEAN :
        /\ answered => ~ DelegateImpact(d)
        /\ req' = [req EXCEPT ![r] = [Idle EXCEPT !.op = "remove", !.at = "snapshot", !.dept = d,
                                                  !.excused = ~answered]]
  BY DEF RemoveGate
<1>2. UNCHANGED tables
  BY DEF RemoveGate, tables
<1>3. d \in delegate => ~ answered
  BY <1>1, DeptAssumption DEF DelegateImpact, DeptDelegate
<1> DEFINE x == [Idle EXCEPT !.op = "remove", !.at = "snapshot", !.dept = d, !.excused = ~answered]
<1>4. x \in ReqRecord /\ x.op = "remove" /\ x.at = "snapshot" /\ x.dept = d /\ x.rows = {}
      /\ x.excused = ~ answered
  BY IdleFields DEF ReqRecord
<1>5. req' = [req EXCEPT ![r] = x]
  BY <1>1
<1> HIDE DEF x
<1>6. Stepped(r, {}) /\ req'[r] = x
  BY <1>4, <1>5, OnlyMoves
<1> QED BY <1>2, <1>3, <1>4, <1>6

LEMMA LeaveStartEffect ==
  ASSUME TypeOK, NEW r \in Req, LeaveGate(r) \/ DeleteMember(r)
  PROVE  /\ Stepped(r, {}) /\ UNCHANGED tables
         /\ req'[r].op \in Leaving /\ req'[r].at = "snapshot"
         /\ (req'[r].op = "leave" => delegate = {}) /\ (req'[r].op = "erase" => req'[r].excused)
<1>1. UNCHANGED tables
  BY DEF LeaveGate, DeleteMember, tables
<1>2. CASE LeaveGate(r)
  <2> DEFINE x == [Idle EXCEPT !.op = "leave", !.at = "snapshot"]
  <2>1. req' = [req EXCEPT ![r] = x] /\ delegate = {}
    BY <1>2 DEF LeaveGate, DelegateImpact
  <2>2. x \in ReqRecord /\ x.op = "leave" /\ x.at = "snapshot"
    BY IdleFields DEF ReqRecord
  <2> HIDE DEF x
  <2>3. Stepped(r, {}) /\ req'[r] = x
    BY <2>1, <2>2, OnlyMoves
  <2> QED BY <1>1, <2>1, <2>2, <2>3 DEF Leaving
<1>3. CASE DeleteMember(r)
  <2> DEFINE x == [Idle EXCEPT !.op = "erase", !.at = "snapshot", !.excused = TRUE]
  <2>1. req' = [req EXCEPT ![r] = x]
    BY <1>3 DEF DeleteMember
  <2>2. x \in ReqRecord /\ x.op = "erase" /\ x.at = "snapshot" /\ x.excused = TRUE
    BY IdleFields DEF ReqRecord
  <2> HIDE DEF x
  <2>3. Stepped(r, {}) /\ req'[r] = x
    BY <2>1, <2>2, OnlyMoves
  <2> QED BY <1>1, <2>2, <2>3 DEF Leaving
<1> QED BY <1>2, <1>3

(* A gate is passed when there is no demotion, nobody to ask for, or no      *)
(* answer.                                                                   *)
LEMMA DemotionGateEffect ==
  ASSUME TypeOK, NEW r \in Req, DemotionGate(r)
  PROVE  /\ UNCHANGED tables /\ req[r].at = "gate" /\ req[r].op = "assign"
         /\ \/ Ended(r, {})
            \/ /\ Stepped(r, {}) /\ req'[r].op = "assign" /\ req'[r].at = "lock"
               /\ req'[r].dept = req[r].dept /\ req'[r].level = req[r].level
               /\ req'[r].join = req[r].join /\ req'[r].late = req[r].late
               /\ \/ ~ Demotes(req[r].dept, req[r].level)
                  \/ ~ DelegateImpact(req[r].dept)
                  \/ req'[r].excused
<1>1. UNCHANGED tables /\ req[r].at = "gate" /\ req[r].op = "assign"
  BY DEF DemotionGate, tables
<1>2. req \in [Req -> ReqRecord] /\ req[r] \in ReqRecord
  BY TypeParts
<1>3. \/ Finish(r)
      \/ Go(r, "lock") /\ (~ Demotes(req[r].dept, req[r].level) \/ ~ DelegateImpact(req[r].dept))
      \/ req' = [req EXCEPT ![r].at = "lock", ![r].excused = TRUE]
  BY DEF DemotionGate
<1>4. CASE Finish(r)
  BY <1>1, <1>4, OnlyFinishes DEF Finish
<1>5. CASE Go(r, "lock") /\ (~ Demotes(req[r].dept, req[r].level) \/ ~ DelegateImpact(req[r].dept))
  <2> DEFINE x == [req[r] EXCEPT !.at = "lock"]
  <2>1. req' = [req EXCEPT ![r] = x]
    BY <1>2, <1>5 DEF Go
  <2>2. /\ x \in ReqRecord /\ x.op = req[r].op /\ x.at = "lock" /\ x.dept = req[r].dept
        /\ x.level = req[r].level /\ x.join = req[r].join /\ x.late = req[r].late
    BY <1>2 DEF ReqRecord
  <2> HIDE DEF x
  <2>3. Stepped(r, {}) /\ req'[r] = x
    BY <2>1, <2>2, OnlyMoves
  <2> QED BY <1>1, <1>5, <2>2, <2>3
<1>6. CASE req' = [req EXCEPT ![r].at = "lock", ![r].excused = TRUE]
  <2> DEFINE x == [req[r] EXCEPT !.at = "lock", !.excused = TRUE]
  <2>1. req' = [req EXCEPT ![r] = x]
    BY <1>2, <1>6
  <2>2. /\ x \in ReqRecord /\ x.op = req[r].op /\ x.at = "lock" /\ x.dept = req[r].dept
        /\ x.level = req[r].level /\ x.join = req[r].join /\ x.late = req[r].late /\ x.excused = TRUE
    BY <1>2 DEF ReqRecord
  <2> HIDE DEF x
  <2>3. Stepped(r, {}) /\ req'[r] = x
    BY <2>1, <2>2, OnlyMoves
  <2> QED BY <1>1, <2>2, <2>3
<1> QED BY <1>3, <1>4, <1>5, <1>6

LEMMA AssignLockEffect ==
  ASSUME TypeOK, Carried, NEW r \in Req, AssignLock(r)
  PROVE  /\ UNCHANGED tables /\ req[r].at = "lock" /\ ~ KeyLocked(req[r].dept) /\ Stepped(r, {})
         /\ req'[r].op = req[r].op /\ req'[r].at = "write" /\ req'[r].dept = req[r].dept
         /\ req'[r].level = req[r].level /\ req'[r].join = req[r].join
         /\ req'[r].prev = dm[req[r].dept].level
         /\ req'[r].rows = req[r].rows
         /\ req'[r].late = req[r].late /\ req'[r].excused = req[r].excused
<1>1. UNCHANGED tables /\ req[r].at = "lock" /\ ~ KeyLocked(req[r].dept)
  BY DEF AssignLock, tables
<1>2. req \in [Req -> ReqRecord] /\ req[r] \in ReqRecord
  BY TypeParts
<1>3. req[r].dept \in Dept
  BY <1>1 DEF Carried, Carries, Assigning
<1>4. dm[req[r].dept].level \in Level \cup {NoLevel}
  BY <1>3, TypeParts DEF Row
<1> DEFINE x == [req[r] EXCEPT !.at = "write", !.prev = dm[req[r].dept].level]
<1>5. req' = [req EXCEPT ![r] = x]
  BY <1>2 DEF AssignLock
<1>6. /\ x \in ReqRecord /\ x.op = req[r].op /\ x.at = "write" /\ x.dept = req[r].dept
      /\ x.level = req[r].level /\ x.join = req[r].join /\ x.prev = dm[req[r].dept].level
      /\ x.rows = req[r].rows
      /\ x.late = req[r].late /\ x.excused = req[r].excused
  BY <1>2, <1>4 DEF ReqRecord
<1> HIDE DEF x
<1>7. Stepped(r, {}) /\ req'[r] = x
  BY <1>5, <1>6, OnlyMoves
<1> QED BY <1>1, <1>6, <1>7

LEMMA RemoveSnapshotEffect ==
  ASSUME TypeOK, Carried, NEW r \in Req, RemoveSnapshot(r)
  PROVE  /\ UNCHANGED tables /\ req[r].op = "remove"
         /\ \/ Ended(r, {})
            \/ /\ Stepped(r, {}) /\ req'[r].op = "remove" /\ req'[r].at = "delete"
               /\ req'[r].dept = req[r].dept /\ req'[r].rows = {req[r].dept}
               /\ req'[r].excused = req[r].excused
<1>1. UNCHANGED tables /\ req[r].at = "snapshot" /\ req[r].op = "remove"
  BY DEF RemoveSnapshot, tables
<1>2. req \in [Req -> ReqRecord] /\ req[r] \in ReqRecord /\ req[r].dept \in Dept
  BY <1>1, TypeParts DEF Carried, Carries
<1>3. \/ Finish(r)
      \/ req' = [req EXCEPT ![r].at = "delete", ![r].rows = {req[r].dept}]
  BY DEF RemoveSnapshot
<1>4. CASE Finish(r)
  BY <1>1, <1>4, OnlyFinishes DEF Finish
<1>5. CASE req' = [req EXCEPT ![r].at = "delete", ![r].rows = {req[r].dept}]
  <2> DEFINE x == [req[r] EXCEPT !.at = "delete", !.rows = {req[r].dept}]
  <2>1. req' = [req EXCEPT ![r] = x]
    BY <1>2, <1>5
  <2>2. /\ x \in ReqRecord /\ x.op = "remove" /\ x.at = "delete" /\ x.dept = req[r].dept
        /\ x.rows = {req[r].dept} /\ x.excused = req[r].excused
    BY <1>1, <1>2 DEF ReqRecord
  <2> HIDE DEF x
  <2>3. Stepped(r, {}) /\ req'[r] = x
    BY <2>1, <2>2, OnlyMoves
  <2> QED BY <1>1, <2>2, <2>3
<1> QED BY <1>3, <1>4, <1>5

LEMMA LeaveSnapshotEffect ==
  ASSUME TypeOK, NEW r \in Req, LeaveSnapshot(r)
  PROVE  /\ UNCHANGED tables /\ req[r].op \in Leaving
         /\ \/ Ended(r, {})
            \/ /\ Stepped(r, {}) /\ req'[r].op = req[r].op /\ req'[r].at = "delete"
               /\ req'[r].rows = {d \in Dept : dm[d].level # NoLevel}
               /\ req'[r].excused = req[r].excused
<1>1. UNCHANGED tables /\ req[r].op \in Leaving
  BY DEF LeaveSnapshot, tables
<1>2. req \in [Req -> ReqRecord] /\ req[r] \in ReqRecord /\ member.join \in 0..MaxJoins
  BY TypeParts
<1> DEFINE S == {d \in Dept : dm[d].level # NoLevel}
<1>3. \/ Finish(r)
      \/ req' = [req EXCEPT ![r].at = "delete", ![r].join = member.join, ![r].rows = S]
  BY DEF LeaveSnapshot
<1>4. S \in SUBSET Dept
  OBVIOUS
<1> HIDE DEF S
<1>5. CASE Finish(r)
  BY <1>1, <1>5, OnlyFinishes DEF Finish
<1>6. CASE req' = [req EXCEPT ![r].at = "delete", ![r].join = member.join, ![r].rows = S]
  <2> DEFINE x == [req[r] EXCEPT !.at = "delete", !.join = member.join, !.rows = S]
  <2>1. req' = [req EXCEPT ![r] = x]
    BY <1>2, <1>6
  <2>2. /\ x \in ReqRecord /\ x.op = req[r].op /\ x.at = "delete" /\ x.rows = S
        /\ x.excused = req[r].excused
    BY <1>2, <1>4 DEF ReqRecord
  <2> HIDE DEF x
  <2>3. Stepped(r, {}) /\ req'[r] = x
    BY <2>1, <2>2, OnlyMoves
  <2> QED BY <1>1, <2>2, <2>3 DEF S
<1> QED BY <1>3, <1>5, <1>6

LEMMA AbortEffect ==
  ASSUME TypeOK, NEW r \in Req, Abort(r)
  PROVE  Ended(r, {}) /\ UNCHANGED tables
  BY OnlyFinishes DEF Abort, Finish, tables

(* Assign writes and announces its level unless the row has it already: the  *)
(* advisory lock leaves ON CONFLICT nothing to do.                           *)
LEMMA AssignWriteEffect ==
  ASSUME TypeOK, Carried, KeyHeld, NEW r \in Req, AssignWrite(r)
  PROVE  LET d == req[r].dept IN
         /\ UNCHANGED <<member, td, catalogVars, delegate>>
         /\ req[r].at = "write" /\ d \in Dept /\ td[d] # "absent"
         /\ \/ Ended(r, {}) /\ UNCHANGED <<dm, announced>>
            \/ /\ Ended(r, {d})
               /\ dm' \in [Dept -> Row] /\ announced' \in [Dept -> Level \cup {NoLevel}]
               /\ \A e \in Dept \ {d} : dm'[e] = dm[e] /\ announced'[e] = announced[e]
               /\ dm'[d].level = req[r].level /\ announced'[d] = req[r].level
               /\ dm'[d].join = req[r].join
               /\ (dm'[d].late <=> req[r].late \/ Cascading)
<1> DEFINE d == req[r].dept
           level == req[r].level
           prev == req[r].prev
           inserts == prev # level /\ (prev # NoLevel \/ dm[d].level = NoLevel)
           new == [level |-> level, join |-> req[r].join, late |-> req[r].late \/ Cascading]
           row == IF inserts THEN new ELSE dm[d]
<1>1. UNCHANGED <<member, td, catalogVars, delegate>> /\ req[r].at = "write"
  BY DEF AssignWrite
<1>2. d \in Dept /\ td[d] # "absent" /\ level \in Level
  BY <1>1 DEF Carried, Carries, Assigning
<1>3. inserts <=> prev # level
  BY <1>1 DEF KeyHeld
<1>4. /\ req[r] \in ReqRecord /\ dm \in [Dept -> Row] /\ {d} \in SUBSET Dept
      /\ announced \in [Dept -> Level \cup {NoLevel}]
  BY <1>2, TypeParts DEF TypeOK
<1>5. /\ dm' = [dm EXCEPT ![d] = row]
      /\ announced' = [announced EXCEPT ![d] =
                         IF prev = level THEN announced[d]
                         ELSE IF req[r].op = "jit" THEN row.level ELSE level]
      /\ req' = IF inserts THEN Touched({d}, r) ELSE [req EXCEPT ![r] = Idle]
  BY DEF AssignWrite
<1>6. CASE prev = level
  <2>1. row = dm[d] /\ req' = [req EXCEPT ![r] = Idle]
    BY <1>3, <1>5, <1>6
  <2>2. dm' = dm /\ announced' = announced
    BY <1>4, <1>5, <1>6, <2>1
  <2> QED BY <1>1, <1>2, <2>1, <2>2, OnlyFinishes
<1>7. CASE prev # level
  <2>1. row = new /\ req' = Touched({d}, r)
    BY <1>3, <1>5, <1>7
  <2>2. /\ new \in Row /\ new.level = level /\ new.join = req[r].join
        /\ (new.late <=> req[r].late \/ Cascading)
    BY <1>2, <1>4 DEF ReqRecord, Row
  <2> HIDE DEF new, row, inserts
  <2>3. /\ dm' \in [Dept -> Row] /\ dm'[d] = new
        /\ \A e \in Dept \ {d} : dm'[e] = dm[e]
    BY <1>2, <1>4, <1>5, <2>1, <2>2
  <2>4. announced' = [announced EXCEPT ![d] = level]
    BY <1>5, <1>7, <2>1, <2>2
  <2>5. /\ announced' \in [Dept -> Level \cup {NoLevel}] /\ announced'[d] = level
        /\ \A e \in Dept \ {d} : announced'[e] = announced[e]
    BY <1>2, <1>4, <2>4
  <2>6. Ended(r, {d})
    BY <1>4, <2>1, TouchedEffect DEF Ended
  <2> QED BY <1>1, <1>2, <2>2, <2>3, <2>5, <2>6
<1> QED BY <1>6, <1>7

(* What a soft delete of the rows of S leaves.                               *)
LEMMA DeletedEffect ==
  ASSUME TypeOK, NEW S \in SUBSET Dept, dm' = Deleted(S), announced' = Withdrawn(S)
  PROVE  /\ dm' \in [Dept -> Row] /\ announced' \in [Dept -> Level \cup {NoLevel}]
         /\ \A d \in S : dm'[d].level = NoLevel /\ announced'[d] = NoLevel
         /\ \A d \in Dept \ S : dm'[d] = dm[d] /\ announced'[d] = announced[d]
<1>1. NoRow \in Row /\ NoRow.level = NoLevel
  BY JoinAssumption DEF NoRow, Row
<1>2. dm \in [Dept -> Row] /\ announced \in [Dept -> Level \cup {NoLevel}]
  BY DEF TypeOK
<1> QED BY <1>1, <1>2 DEF Deleted, Withdrawn

LEMMA RemoveCommitEffect ==
  ASSUME TypeOK, NEW r \in Req, RemoveCommit(r)
  PROVE  LET S == req[r].rows IN
         /\ UNCHANGED <<member, td, catalogVars, delegate>>
         /\ req[r].at = "delete" /\ req[r].op = "remove" /\ S \in SUBSET Dept
         /\ Ended(r, S)
         /\ dm' \in [Dept -> Row] /\ announced' \in [Dept -> Level \cup {NoLevel}]
         /\ \A d \in S : dm'[d].level = NoLevel /\ announced'[d] = NoLevel
         /\ \A d \in Dept \ S : dm'[d] = dm[d] /\ announced'[d] = announced[d]
<1> DEFINE S == req[r].rows
<1>1. /\ UNCHANGED <<member, td, catalogVars, delegate>> /\ req[r].at = "delete" /\ req[r].op = "remove"
      /\ dm' = Deleted(S) /\ announced' = Withdrawn(S)
      /\ req' = IF S = {} THEN [req EXCEPT ![r] = Idle] ELSE Touched(S, r)
  BY DEF RemoveCommit
<1>2. S \in SUBSET Dept
  BY TypeParts DEF ReqRecord
<1>3. Ended(r, S)
  <2>1. CASE S = {}
    BY <1>1, <2>1, OnlyFinishes
  <2>2. CASE S # {}
    BY <1>1, <1>2, <2>2, TouchedEffect DEF Ended
  <2> QED BY <2>1, <2>2
<1> HIDE DEF S
<1>4. /\ dm' \in [Dept -> Row] /\ announced' \in [Dept -> Level \cup {NoLevel}]
      /\ \A d \in S : dm'[d].level = NoLevel /\ announced'[d] = NoLevel
      /\ \A d \in Dept \ S : dm'[d] = dm[d] /\ announced'[d] = announced[d]
  BY <1>1, <1>2, DeletedEffect
<1> QED BY <1>1, <1>2, <1>3, <1>4 DEF S

(* The requests after the removal: assignments that read the membership are  *)
(* late.                                                                     *)
LEMMA LeaveRequests ==
  ASSUME TypeOK, NEW S \in SUBSET Dept, NEW r \in Req,
         req' = [q \in Req |-> [Touched(S, r)[q] EXCEPT !.late = @ \/ req[q].op \in {"assign", "jit"}]],
         req[r].op \notin {"assign", "jit"}
  PROVE  /\ Ended(r, S)
         /\ \A q \in Req \ {r} : req[q].op \in {"assign", "jit"} => req'[q].late
<1> DEFINE t == Touched(S, r)
           b(q) == req[q].op \in {"assign", "jit"}
           y(q) == [t[q] EXCEPT !.late = @ \/ b(q)]
<1>1. t \in [Req -> ReqRecord] /\ t[r] = Idle /\ \A q \in Req \ {r} : Left(q, S, t[q])
  BY TouchedLeaves
<1>2. req' = [q \in Req |-> y(q)]
  OBVIOUS
<1>3. \A q \in Req : b(q) \in BOOLEAN /\ (req[q] = Idle => ~ b(q)) /\ ~ b(r)
  BY IdleFields
<1>4. \A q \in Req : req[q].op \in {"assign", "jit"} => b(q)
  OBVIOUS
<1> HIDE DEF t, b
<1>5. ASSUME NEW q \in Req
      PROVE  /\ y(q) \in ReqRecord /\ y(q).op = t[q].op /\ y(q).at = t[q].at
             /\ y(q).dept = t[q].dept /\ y(q).level = t[q].level /\ y(q).join = t[q].join
             /\ y(q).prev = t[q].prev /\ y(q).rows = t[q].rows /\ y(q).excused = t[q].excused
             /\ (y(q).late <=> t[q].late \/ b(q))
  <2> DEFINE x == t[q]
  <2>1. x \in ReqRecord /\ y(q) = [x EXCEPT !.late = @ \/ b(q)] /\ b(q) \in BOOLEAN
    BY <1>1, <1>3
  <2> HIDE DEF x
  <2> QED BY <2>1 DEF x, ReqRecord
<1> HIDE DEF y
<1>6. ASSUME NEW q \in Req, t[q] = Idle, ~ b(q) PROVE y(q) = Idle
  <2>1. /\ y(q).op = "none" /\ y(q).at = "idle" /\ y(q).dept = NoDept /\ y(q).level = NoLevel
        /\ y(q).join = 0 /\ y(q).prev = NoLevel /\ y(q).rows = {}
    BY <1>5, <1>6, IdleFields
  <2>2. ~ y(q).excused /\ ~ y(q).late
    BY <1>5, <1>6, IdleFields
  <2> QED BY <1>5, <2>1, <2>2, IdleOnly
<1>7. req' \in [Req -> ReqRecord] /\ \A q \in Req : req'[q] = y(q)
  BY <1>2, <1>5
<1>8. req'[r] = Idle
  BY <1>1, <1>3, <1>6, <1>7
<1>9. ASSUME NEW q \in Req \ {r} PROVE Follows(q, S) /\ (b(q) => req'[q].late)
  <2>1. Left(q, S, t[q])
    BY <1>1
  <2>2. req[q] = Idle => y(q) = Idle
    BY <1>3, <1>6, <2>1 DEF Left
  <2> QED BY <1>5, <1>7, <2>1, <2>2 DEF Follows, Left
<1> QED BY <1>4, <1>7, <1>8, <1>9 DEF Ended, Stepped

LEMMA LeaveCommitEffect ==
  ASSUME TypeOK, NEW r \in Req, LeaveCommit(r)
  PROVE  LET S == req[r].rows IN
         /\ UNCHANGED <<td, catalogVars, delegate>>
         /\ member' \in [status : {"none", "active", "suspended"}, join : 1..MaxJoins]
         /\ member'.status = "none"
         /\ req[r].at = "delete" /\ req[r].op \in Leaving /\ S \in SUBSET Dept
         /\ Ended(r, S)
         /\ \A q \in Req \ {r} : req[q].op \in {"assign", "jit"} => req'[q].late
         /\ dm' \in [Dept -> Row] /\ announced' \in [Dept -> Level \cup {NoLevel}]
         /\ \A d \in S : dm'[d].level = NoLevel /\ announced'[d] = NoLevel
         /\ \A d \in Dept \ S : dm'[d] = dm[d] /\ announced'[d] = announced[d]
<1> DEFINE S == req[r].rows
<1>1. /\ UNCHANGED <<td, catalogVars, delegate>> /\ req[r].at = "delete" /\ req[r].op \in Leaving
      /\ dm' = Deleted(S) /\ announced' = Withdrawn(S)
      /\ member' = [member EXCEPT !.status = "none"]
      /\ req' = [q \in Req |-> [Touched(S, r)[q] EXCEPT !.late = @ \/ req[q].op \in {"assign", "jit"}]]
  BY DEF LeaveCommit, CascadeRows
<1>2. S \in SUBSET Dept
  BY TypeParts DEF ReqRecord
<1>3. /\ member' \in [status : {"none", "active", "suspended"}, join : 1..MaxJoins]
      /\ member'.status = "none"
  BY <1>1 DEF TypeOK
<1>4. req[r].op \notin {"assign", "jit"}
  BY <1>1 DEF Leaving
<1> HIDE DEF S
<1>5. Ended(r, S) /\ \A q \in Req \ {r} : req[q].op \in {"assign", "jit"} => req'[q].late
  BY <1>1, <1>2, <1>4, LeaveRequests
<1>6. /\ dm' \in [Dept -> Row] /\ announced' \in [Dept -> Level \cup {NoLevel}]
      /\ \A d \in S : dm'[d].level = NoLevel /\ announced'[d] = NoLevel
      /\ \A d \in Dept \ S : dm'[d] = dm[d] /\ announced'[d] = announced[d]
  BY <1>1, <1>2, DeletedEffect
<1> QED BY <1>1, <1>2, <1>3, <1>5, <1>6 DEF S

LEMMA JoinedIs ==
  ASSUME TypeOK, member.status = "none" => member.join < MaxJoins
  PROVE  /\ Joined \in [status : {"none", "active", "suspended"}, join : 1..MaxJoins]
         /\ Joined.status # "none" /\ (member.status # "none" => Joined = member)
<1>1. member.join \in 1..MaxJoins /\ MaxJoins \in Nat
  BY TypeParts, JoinAssumption
<1>2. member.join < MaxJoins => member.join + 1 \in 1..MaxJoins
  BY <1>1
<1> QED BY <1>2 DEF Joined, FindByUserID, TypeOK

LEMMA RegisterInvitedEffect ==
  ASSUME TypeOK, NEW d \in Dept, NEW level \in Level, RegisterInvited(d, level)
  PROVE  /\ UNCHANGED <<td, catalogVars, delegate>> /\ td[d] # "absent" /\ ~ KeyLocked(d)
         /\ member' \in [status : {"none", "active", "suspended"}, join : 1..MaxJoins]
         /\ member'.status # "none" /\ (member.status # "none" => member' = member)
         /\ announced' \in [Dept -> Level \cup {NoLevel}] /\ announced'[d] = level
         /\ \A e \in Dept \ {d} : announced'[e] = announced[e]
         /\ dm' \in [Dept -> Row] /\ dm'[d].level = level
         /\ \A e \in Dept \ {d} : dm'[e] = dm[e]
         /\ \/ Stepped(NoDept, {}) /\ dm' = dm
            \/ /\ Stepped(NoDept, {d}) /\ dm'[d].join = member'.join
               /\ (dm'[d].late <=> Cascading)
<1> DEFINE written == dm[d].level # level
           new == [level |-> level, join |-> member'.join, late |-> Cascading]
<1>1. /\ UNCHANGED <<td, catalogVars, delegate>> /\ td[d] # "absent" /\ ~ KeyLocked(d)
      /\ member' = Joined
      /\ dm' = [dm EXCEPT ![d] = IF written THEN new ELSE dm[d]]
      /\ announced' = [announced EXCEPT ![d] = level]
      /\ req' = IF written THEN Touched({d}, NoDept) ELSE req
  BY DEF RegisterInvited
<1>2. /\ member' \in [status : {"none", "active", "suspended"}, join : 1..MaxJoins]
      /\ member'.status # "none" /\ (member.status # "none" => member' = member)
  BY <1>1, JoinedIs DEF RegisterInvited
<1>3. /\ announced' \in [Dept -> Level \cup {NoLevel}] /\ announced'[d] = level
      /\ \A e \in Dept \ {d} : announced'[e] = announced[e]
  BY <1>1 DEF TypeOK
<1>4. dm \in [Dept -> Row] /\ NoDept \notin Req
  BY DeptAssumption DEF TypeOK
<1>5. new \in Row /\ new.level = level /\ new.join = member'.join /\ (new.late <=> Cascading)
  <2>1. member'.join \in 0..MaxJoins /\ Cascading \in BOOLEAN
    BY <1>2, JoinAssumption DEF Cascading
  <2> QED BY <2>1 DEF Row
<1> HIDE DEF new
<1>6. CASE written
  <2>1. dm' \in [Dept -> Row] /\ dm'[d] = new /\ \A e \in Dept \ {d} : dm'[e] = dm[e]
    BY <1>1, <1>4, <1>5, <1>6
  <2>2. Stepped(NoDept, {d})
    BY <1>1, <1>6, TouchedEffect
  <2> QED BY <1>1, <1>2, <1>3, <1>5, <2>1, <2>2
<1>7. CASE ~ written
  <2>1. dm' = dm /\ UNCHANGED req
    BY <1>1, <1>4, <1>7
  <2> QED BY <1>1, <1>2, <1>3, <1>4, <1>7, <2>1, Waits
<1> QED BY <1>6, <1>7

LEMMA WorkflowStartsEffect ==
  ASSUME TypeOK, NEW d \in Dept, WorkflowStarts(d)
  PROVE  /\ UNCHANGED <<member, dm, announced, td, catalogVars>>
         /\ delegate' = delegate \cup {d} /\ Stepped(NoDept, {})
         /\ \A q \in Req : q \in Gated \/ req[q].op \in {"remove", "leave"} => req'[q].excused
<1> DEFINE b(q) == q \in Gated \/ req[q].op \in {"remove", "leave"}
           y(q) == [req[q] EXCEPT !.excused = @ \/ b(q)]
<1>1. /\ UNCHANGED <<member, dm, announced, td, catalogVars>> /\ delegate' = delegate \cup {d}
      /\ req' = [q \in Req |-> y(q)]
  BY DEF WorkflowStarts
<1>2. \A q \in Req : b(q) \in BOOLEAN /\ req[q] \in ReqRecord /\ (req[q] = Idle => ~ b(q))
  BY TypeParts, IdleFields DEF Gated
<1>3. \A q \in Req : q \in Gated \/ req[q].op \in {"remove", "leave"} => b(q)
  OBVIOUS
<1> HIDE DEF b
<1>4. ASSUME NEW q \in Req
      PROVE  /\ y(q) \in ReqRecord /\ y(q).op = req[q].op /\ y(q).at = req[q].at
             /\ y(q).dept = req[q].dept
             /\ y(q).level = req[q].level /\ y(q).join = req[q].join /\ y(q).prev = req[q].prev
             /\ y(q).rows = req[q].rows /\ y(q).late = req[q].late
             /\ (y(q).excused <=> req[q].excused \/ b(q))
  <2> DEFINE x == req[q]
  <2>1. x \in ReqRecord /\ y(q) = [x EXCEPT !.excused = @ \/ b(q)] /\ b(q) \in BOOLEAN
    BY <1>2
  <2> HIDE DEF x
  <2> QED BY <2>1 DEF x, ReqRecord
<1> HIDE DEF y
<1>5. ASSUME NEW q \in Req, req[q] = Idle PROVE y(q) = Idle
  <2>1. /\ y(q).op = "none" /\ y(q).at = "idle" /\ y(q).dept = NoDept /\ y(q).level = NoLevel
        /\ y(q).join = 0 /\ y(q).prev = NoLevel /\ y(q).rows = {} /\ ~ y(q).late
    BY <1>4, <1>5, IdleFields
  <2>2. ~ y(q).excused
    BY <1>2, <1>4, <1>5, IdleFields
  <2> QED BY <1>4, <2>1, <2>2, IdleOnly
<1>6. req' \in [Req -> ReqRecord] /\ \A q \in Req : req'[q] = y(q)
  BY <1>1, <1>4
<1>7. ASSUME NEW q \in Req PROVE Follows(q, {}) /\ (b(q) => req'[q].excused)
  <2>1. y(q).rows = req[q].rows \ {}
    BY <1>2, <1>4 DEF ReqRecord
  <2> QED BY <1>4, <1>5, <1>6, <2>1 DEF Follows, Left
<1> QED BY <1>1, <1>3, <1>6, <1>7 DEF Stepped

-----------------------------------------------------------------------------
(* The invariants, for the requests a step does not belong to.               *)

LEMMA OthersCarry ==
  ASSUME TypeOK, Carried, NEW r, NEW S, Stepped(r, S),
         \A d \in Dept : td[d] # "absent" => td'[d] # "absent"
  PROVE  \A q \in Req \ {r} : Carries(q)'
<1> SUFFICES ASSUME NEW q \in Req \ {r} PROVE Carries(q)'
  OBVIOUS
<1>1. Carries(q) /\ Left(q, S, req'[q]) /\ req[q] \in ReqRecord
  BY TypeParts DEF Carried, Stepped, Follows
<1>2. req'[q].at = "idle" => req'[q] = Idle
  BY <1>1 DEF Carries, Left
<1>3. Assigning(q)' => /\ req'[q].op \in {"assign", "jit"}
                       /\ req'[q].dept \in Dept /\ td'[req'[q].dept] # "absent"
                       /\ req'[q].level \in Level
  BY <1>1 DEF Carries, Left, Assigning
<1>4. req'[q].at \in {"snapshot", "delete"} => req'[q].op \in {"remove", "leave", "erase"}
  BY <1>1 DEF Carries, Left
<1>5. req'[q].op = "remove" => req'[q].dept \in Dept /\ req'[q].rows \subseteq {req'[q].dept}
  BY <1>1 DEF Carries, Left
<1> QED BY <1>2, <1>3, <1>4, <1>5 DEF Carries

LEMMA IdleHolds ==
  ASSUME NEW r, req'[r] = Idle
  PROVE  Carries(r)' /\ KnowsMember(r)' /\ Sweeps(r)' /\ Answered(r)' /\ req'[r].at # "write"
<1>1. req'[r].op = "none" /\ req'[r].at = "idle"
  BY IdleFields
<1> QED BY <1>1 DEF Carries, KnowsMember, Sweeps, Answered, Assigning, Leaving, Gated

LEMMA KeyKept ==
  ASSUME KeyHeld, NEW r, NEW S, Stepped(r, S), r \in Req => req'[r].at # "write",
         \A q \in Req \ {r} : req[q].at = "write" /\ req[q].prev = NoLevel
                                => dm'[req[q].dept].level = NoLevel
  PROVE  KeyHeld'
<1>1. \A q \in Req \ {r} : req'[q].at = req[q].at /\ req'[q].dept = req[q].dept
                             /\ req'[q].prev = req[q].prev
  BY DEF Stepped, Follows, Left
<1>2. \A q \in Req : req'[q].at = "write" => q \in Req \ {r}
  OBVIOUS
<1> QED BY <1>1, <1>2 DEF KeyHeld

LEMMA OthersKnow ==
  ASSUME Anchored, NEW r, NEW S, Stepped(r, S), UNCHANGED member
  PROVE  \A q \in Req \ {r} : KnowsMember(q)'
<1> SUFFICES ASSUME NEW q \in Req \ {r} PROVE KnowsMember(q)'
  OBVIOUS
<1>1. KnowsMember(q) /\ Left(q, S, req'[q])
  BY DEF Anchored, Stepped, Follows
<1> QED BY <1>1 DEF KnowsMember, Left, Assigning

LEMMA OthersSweep ==
  ASSUME Swept, NEW r, NEW S, Stepped(r, S),
         \A d \in Dept : dm'[d].level # NoLevel =>
           \/ dm'[d] = dm[d] /\ d \notin S
           \/ Cascading => dm'[d].late
  PROVE  \A q \in Req \ {r} : Sweeps(q)'
<1> SUFFICES ASSUME NEW q \in Req \ {r}, req'[q].op \in Leaving, req'[q].at = "delete",
                    NEW d \in Dept, dm'[d].level # NoLevel
             PROVE  d \in req'[q].rows \/ dm'[d].late
  BY DEF Sweeps, Leaving
<1>1. Sweeps(q) /\ Left(q, S, req'[q])
  BY DEF Swept, Stepped, Follows
<1>2. req[q].op \in Leaving /\ req[q].at = "delete" /\ req'[q].rows = req[q].rows \ S
  BY <1>1 DEF Left
<1>3. Cascading
  BY <1>2 DEF Cascading
<1>4. CASE dm'[d] = dm[d] /\ d \notin S
  BY <1>1, <1>2, <1>4 DEF Sweeps
<1> QED BY <1>3, <1>4

LEMMA OthersAnswered ==
  ASSUME TypeOK, Asked, NEW r, NEW S, Stepped(r, S), delegate' \subseteq delegate,
         \A d \in Dept \ S : dm'[d] = dm[d], Carried
  PROVE  \A q \in Req \ {r} : Answered(q)'
<1> SUFFICES ASSUME NEW q \in Req \ {r} PROVE Answered(q)'
  OBVIOUS
<1>1. Answered(q) /\ Left(q, S, req'[q]) /\ Carries(q)
  BY DEF Asked, Stepped, Follows, Carried
<1>2. ASSUME q \in Gated', Assigning(q)', Demotes(req[q].dept, req[q].level)',
             req'[q].dept \in delegate'
      PROVE  req'[q].excused
  <2>1. /\ q \in Gated /\ Assigning(q) /\ req'[q].dept = req[q].dept /\ req'[q].level = req[q].level
        /\ req[q].dept \in Dept
    BY <1>1, <1>2 DEF Gated, Assigning, Left, Carries
  <2>2. CASE req[q].dept \in S
    BY <1>1, <2>1, <2>2 DEF Left
  <2>3. CASE req[q].dept \notin S
    <3>1. dm'[req[q].dept] = dm[req[q].dept]
      BY <2>1, <2>3
    <3>2. Demotes(req[q].dept, req[q].level)
      BY <1>2, <2>1, <3>1 DEF Demotes, Satisfies
    <3> QED BY <1>1, <1>2, <2>1, <3>2 DEF Answered, Left
  <2> QED BY <2>2, <2>3
<1>3. req'[q].op = "jit" \/ req'[q].op = "erase" => req'[q].excused
  BY <1>1 DEF Answered, Left
<1>4. req'[q].op = "remove" /\ req'[q].dept \in delegate' => req'[q].excused
  BY <1>1 DEF Answered, Left
<1>5. req'[q].op = "leave" /\ delegate' # {} => req'[q].excused
  BY <1>1 DEF Answered, Left
<1> QED BY <1>2, <1>3, <1>4, <1>5 DEF Answered

-----------------------------------------------------------------------------
(* The inductive step.                                                       *)

Held == TypeOK /\ Carried /\ KeyHeld
Raced == OrphanOnlyByRace /\ Anchored /\ Swept
Inductive == Held /\ LevelsAnnounced /\ Raced /\ Asked

(* A step of r that leaves the tables alone.                                 *)
LEMMA QuietStep ==
  ASSUME Inductive, NEW r, Stepped(r, {}), UNCHANGED tables,
         r \in Req => /\ Carries(r)' /\ KnowsMember(r)' /\ Sweeps(r)' /\ Answered(r)'
                      /\ req'[r].at # "write"
  PROVE  Inductive'
<1> USE DEF Inductive, Held, Raced
<1>1. UNCHANGED <<member, dm, announced, td, retired, catalog, delegate>>
  BY DEF tables, catalogVars
<1>2. TypeOK'
  BY <1>1 DEF TypeOK, Stepped, ReqRecord
<1>3. Carried'
  BY <1>1, OthersCarry DEF Carried
<1>4. KeyHeld'
  <2>1. \A q \in Req \ {r} : req[q].at = "write" /\ req[q].prev = NoLevel
                               => dm'[req[q].dept].level = NoLevel
    BY <1>1 DEF KeyHeld
  <2> QED BY <2>1, KeyKept
<1>5. LevelsAnnounced' /\ OrphanOnlyByRace'
  BY <1>1 DEF LevelsAnnounced, OrphanOnlyByRace
<1>6. Anchored'
  BY <1>1, OthersKnow DEF Anchored
<1>7. Swept'
  BY <1>1, OthersSweep DEF Swept
<1>8. Asked'
  BY <1>1, OthersAnswered DEF Asked
<1> QED BY <1>2, <1>3, <1>4, <1>5, <1>6, <1>7, <1>8

LEMMA QuietEnd ==
  ASSUME Inductive, NEW r \in Req, Ended(r, {}), UNCHANGED tables
  PROVE  Inductive'
  BY IdleHolds, QuietStep DEF Ended

LEMMA StartStep ==
  ASSUME Inductive, NEW r \in Req,
         \/ \E d \in Dept, level \in Level : AssignRead(r, d, level)
         \/ \E d \in Dept : JitRead(r, d) \/ RemoveGate(r, d)
         \/ LeaveGate(r) \/ DeleteMember(r)
  PROVE  Inductive'
<1>0. TypeOK
  BY DEF Inductive, Held
<1>1. ASSUME NEW d \in Dept, NEW level \in Level, AssignRead(r, d, level) PROVE Inductive'
  <2>1. /\ Stepped(r, {}) /\ UNCHANGED tables /\ td[d] # "absent" /\ member.status # "none"
        /\ req'[r].op = "assign" /\ req'[r].at = "gate" /\ req'[r].dept = d
        /\ req'[r].level = level /\ req'[r].join = member.join
    BY <1>0, <1>1, AssignReadEffect
  <2>2. td' = td /\ member' = member
    BY <2>1 DEF tables
  <2>3. Carries(r)' /\ KnowsMember(r)' /\ Sweeps(r)' /\ Answered(r)' /\ req'[r].at # "write"
    BY <2>1, <2>2 DEF Carries, KnowsMember, Sweeps, Answered, Assigning, Leaving, Gated
  <2> QED BY <2>1, <2>3, QuietStep
<1>2. ASSUME NEW d \in Dept, JitRead(r, d) PROVE Inductive'
  <2>1. /\ Stepped(r, {}) /\ UNCHANGED tables /\ td[d] # "absent" /\ member.status # "none"
        /\ req'[r].op = "jit" /\ req'[r].at = "lock" /\ req'[r].dept = d
        /\ req'[r].level \in Level /\ req'[r].join = member.join /\ req'[r].excused
    BY <1>0, <1>2, JitReadEffect
  <2>2. td' = td /\ member' = member
    BY <2>1 DEF tables
  <2>3. Carries(r)' /\ KnowsMember(r)' /\ Sweeps(r)' /\ Answered(r)' /\ req'[r].at # "write"
    BY <2>1, <2>2 DEF Carries, KnowsMember, Sweeps, Answered, Assigning, Leaving
  <2> QED BY <2>1, <2>3, QuietStep
<1>3. ASSUME NEW d \in Dept, RemoveGate(r, d) PROVE Inductive'
  <2>1. /\ Stepped(r, {}) /\ UNCHANGED tables
        /\ req'[r].op = "remove" /\ req'[r].at = "snapshot" /\ req'[r].dept = d
        /\ req'[r].rows = {} /\ (d \in delegate => req'[r].excused)
    BY <1>0, <1>3, RemoveGateEffect
  <2>2. delegate' = delegate
    BY <2>1 DEF tables
  <2>3. Carries(r)' /\ KnowsMember(r)' /\ Sweeps(r)' /\ Answered(r)' /\ req'[r].at # "write"
    BY <2>1, <2>2 DEF Carries, KnowsMember, Sweeps, Answered, Assigning, Leaving
  <2> QED BY <2>1, <2>3, QuietStep
<1>4. ASSUME LeaveGate(r) \/ DeleteMember(r) PROVE Inductive'
  <2>1. /\ Stepped(r, {}) /\ UNCHANGED tables
        /\ req'[r].op \in Leaving /\ req'[r].at = "snapshot"
        /\ (req'[r].op = "leave" => delegate = {}) /\ (req'[r].op = "erase" => req'[r].excused)
    BY <1>0, <1>4, LeaveStartEffect
  <2>2. delegate' = delegate
    BY <2>1 DEF tables
  <2>3. Carries(r)' /\ KnowsMember(r)' /\ Sweeps(r)' /\ Answered(r)' /\ req'[r].at # "write"
    BY <2>1, <2>2 DEF Carries, KnowsMember, Sweeps, Answered, Assigning, Leaving
  <2> QED BY <2>1, <2>3, QuietStep
<1> QED BY <1>1, <1>2, <1>3, <1>4

LEMMA GateStep ==
  ASSUME Inductive, NEW r \in Req, DemotionGate(r)
  PROVE  Inductive'
<1>0. TypeOK /\ Carries(r) /\ KnowsMember(r)
  BY DEF Inductive, Held, Raced, Carried, Anchored
<1>1. /\ UNCHANGED tables /\ req[r].at = "gate" /\ req[r].op = "assign"
      /\ \/ Ended(r, {})
         \/ /\ Stepped(r, {}) /\ req'[r].op = "assign" /\ req'[r].at = "lock"
            /\ req'[r].dept = req[r].dept /\ req'[r].level = req[r].level
            /\ req'[r].join = req[r].join /\ req'[r].late = req[r].late
            /\ \/ ~ Demotes(req[r].dept, req[r].level)
               \/ ~ DelegateImpact(req[r].dept)
               \/ req'[r].excused
  BY <1>0, DemotionGateEffect
<1>2. CASE Ended(r, {})
  BY <1>1, <1>2, QuietEnd
<1>3. ASSUME Stepped(r, {}), req'[r].op = "assign", req'[r].at = "lock",
             req'[r].dept = req[r].dept, req'[r].level = req[r].level,
             req'[r].join = req[r].join, req'[r].late = req[r].late,
             \/ ~ Demotes(req[r].dept, req[r].level)
             \/ ~ DelegateImpact(req[r].dept)
             \/ req'[r].excused
      PROVE  Inductive'
  <2>1. td' = td /\ member' = member /\ delegate' = delegate /\ dm' = dm
    BY <1>1 DEF tables
  <2>2. req[r].dept \in Dept /\ td[req[r].dept] # "absent" /\ req[r].level \in Level
    BY <1>0, <1>1 DEF Carries, Assigning
  <2>3. Carries(r)' /\ Sweeps(r)' /\ req'[r].at # "write"
    BY <1>3, <2>1, <2>2 DEF Carries, Sweeps, Assigning, Leaving
  <2>4. KnowsMember(r)'
    BY <1>0, <1>1, <1>3, <2>1 DEF KnowsMember, Assigning
  <2>5. DelegateImpact(req[r].dept) <=> req[r].dept \in delegate
    BY <2>2, DeptAssumption DEF DelegateImpact, DeptDelegate
  <2>6. Demotes(req[r].dept, req[r].level)' <=> Demotes(req[r].dept, req[r].level)
    BY <1>3, <2>1 DEF Demotes, Satisfies
  <2>7. Answered(r)'
    BY <1>3, <2>1, <2>5, <2>6 DEF Answered
  <2> QED BY <1>1, <1>3, <2>3, <2>4, <2>7, QuietStep
<1> QED BY <1>1, <1>2, <1>3

LEMMA SnapshotStep ==
  ASSUME Inductive, NEW r \in Req, RemoveSnapshot(r) \/ LeaveSnapshot(r)
  PROVE  Inductive'
<1>0. TypeOK /\ Carried /\ Carries(r) /\ Answered(r)
  BY DEF Inductive, Held, Raced, Carried, Asked
<1>1. CASE RemoveSnapshot(r)
  <2>1. /\ UNCHANGED tables /\ req[r].op = "remove"
        /\ \/ Ended(r, {})
           \/ /\ Stepped(r, {}) /\ req'[r].op = "remove" /\ req'[r].at = "delete"
              /\ req'[r].dept = req[r].dept /\ req'[r].rows = {req[r].dept}
              /\ req'[r].excused = req[r].excused
    BY <1>0, <1>1, RemoveSnapshotEffect
  <2>2. CASE Ended(r, {})
    BY <2>1, <2>2, QuietEnd
  <2>3. ASSUME Stepped(r, {}), req'[r].op = "remove", req'[r].at = "delete",
               req'[r].dept = req[r].dept, req'[r].rows = {req[r].dept},
               req'[r].excused = req[r].excused
        PROVE  Inductive'
    <3>1. delegate' = delegate
      BY <2>1 DEF tables
    <3>2. Carries(r)' /\ KnowsMember(r)' /\ Sweeps(r)' /\ Answered(r)' /\ req'[r].at # "write"
      BY <1>0, <2>1, <2>3, <3>1 DEF Carries, KnowsMember, Sweeps, Answered, Assigning, Leaving
    <3> QED BY <2>1, <2>3, <3>2, QuietStep
  <2> QED BY <2>1, <2>2, <2>3
<1>2. CASE LeaveSnapshot(r)
  <2>1. /\ UNCHANGED tables /\ req[r].op \in Leaving
        /\ \/ Ended(r, {})
           \/ /\ Stepped(r, {}) /\ req'[r].op = req[r].op /\ req'[r].at = "delete"
              /\ req'[r].rows = {d \in Dept : dm[d].level # NoLevel}
              /\ req'[r].excused = req[r].excused
    BY <1>0, <1>2, LeaveSnapshotEffect
  <2>2. CASE Ended(r, {})
    BY <2>1, <2>2, QuietEnd
  <2>3. ASSUME Stepped(r, {}), req'[r].op = req[r].op, req'[r].at = "delete",
               req'[r].rows = {d \in Dept : dm[d].level # NoLevel},
               req'[r].excused = req[r].excused
        PROVE  Inductive'
    <3>1. delegate' = delegate /\ dm' = dm
      BY <2>1 DEF tables
    <3>2. Carries(r)' /\ KnowsMember(r)' /\ Answered(r)' /\ req'[r].at # "write"
      BY <1>0, <2>1, <2>3, <3>1 DEF Carries, KnowsMember, Answered, Assigning, Leaving
    <3>3. Sweeps(r)'
      BY <2>3, <3>1 DEF Sweeps
    <3> QED BY <2>1, <2>3, <3>2, <3>3, QuietStep
  <2> QED BY <2>1, <2>2, <2>3
<1> QED BY <1>1, <1>2

LEMMA LockStep ==
  ASSUME Inductive, NEW r \in Req, AssignLock(r)
  PROVE  Inductive'
<1> USE DEF Inductive, Held, Raced
<1>1. /\ UNCHANGED tables /\ req[r].at = "lock" /\ ~ KeyLocked(req[r].dept) /\ Stepped(r, {})
      /\ req'[r].op = req[r].op /\ req'[r].at = "write" /\ req'[r].dept = req[r].dept
      /\ req'[r].level = req[r].level /\ req'[r].join = req[r].join
      /\ req'[r].prev = dm[req[r].dept].level
      /\ req'[r].rows = req[r].rows
      /\ req'[r].late = req[r].late /\ req'[r].excused = req[r].excused
  BY AssignLockEffect
<1>2. UNCHANGED <<member, dm, announced, td, retired, catalog, delegate>>
  BY <1>1 DEF tables, catalogVars
<1>3. Carries(r) /\ KnowsMember(r) /\ Answered(r)
  BY DEF Carried, Anchored, Asked
<1>4. TypeOK'
  BY <1>1, <1>2 DEF TypeOK, Stepped, ReqRecord
<1>5. Carried'
  <2>1. Carries(r)'
    BY <1>1, <1>2, <1>3 DEF Carries, Assigning
  <2> QED BY <1>1, <1>2, <2>1, OthersCarry DEF Carried
<1>6. KeyHeld'
  <2>1. \A q \in Req \ {r} : req'[q].at = req[q].at /\ req'[q].dept = req[q].dept
                               /\ req'[q].prev = req[q].prev
    BY <1>1 DEF Stepped, Follows, Left
  <2>2. \A q \in Req \ {r} : req'[q].at = "write" => req'[q].dept # req'[r].dept
    BY <1>1, <2>1 DEF KeyLocked
  <2> QED BY <1>1, <1>2, <2>1, <2>2 DEF KeyHeld
<1>7. LevelsAnnounced' /\ OrphanOnlyByRace'
  BY <1>2 DEF LevelsAnnounced, OrphanOnlyByRace
<1>8. Anchored'
  <2>1. KnowsMember(r)'
    BY <1>1, <1>2, <1>3 DEF KnowsMember, Assigning
  <2> QED BY <1>1, <1>2, <2>1, OthersKnow DEF Anchored
<1>9. Swept'
  <2>1. Sweeps(r)'
    BY <1>1 DEF Sweeps
  <2> QED BY <1>1, <1>2, <2>1, OthersSweep DEF Swept
<1>10. Asked'
  <2>1. Demotes(req[r].dept, req[r].level)' <=> Demotes(req[r].dept, req[r].level)
    BY <1>1, <1>2 DEF Demotes, Satisfies
  <2>2. Answered(r)'
    BY <1>1, <1>2, <1>3, <2>1 DEF Answered, Gated, Assigning
  <2> QED BY <1>1, <1>2, <2>2, OthersAnswered DEF Asked
<1> QED BY <1>4, <1>5, <1>6, <1>7, <1>8, <1>9, <1>10

(* The types, for a step that writes the rows of some departments.           *)
LEMMA WriteTypes ==
  ASSUME TypeOK, NEW r, NEW S, Stepped(r, S), UNCHANGED <<td, catalogVars, delegate>>,
         member' \in [status : {"none", "active", "suspended"}, join : 1..MaxJoins],
         dm' \in [Dept -> Row], announced' \in [Dept -> Level \cup {NoLevel}],
         \A d \in Dept : dm'[d].level = NoLevel \/ dm'[d] = dm[d] \/ td[d] # "absent"
  PROVE  TypeOK'
  BY DEF TypeOK, Stepped, ReqRecord, catalogVars

LEMMA WriteStep ==
  ASSUME Inductive, NEW r \in Req, AssignWrite(r)
  PROVE  Inductive'
<1> DEFINE d == req[r].dept
<1>0. TypeOK /\ Carried /\ KeyHeld /\ Carries(r) /\ KnowsMember(r)
  BY DEF Inductive, Held, Raced, Carried, Anchored
<1>1. /\ UNCHANGED <<member, td, catalogVars, delegate>>
      /\ req[r].at = "write" /\ d \in Dept /\ td[d] # "absent"
      /\ \/ Ended(r, {}) /\ UNCHANGED <<dm, announced>>
         \/ /\ Ended(r, {d})
            /\ dm' \in [Dept -> Row] /\ announced' \in [Dept -> Level \cup {NoLevel}]
            /\ \A e \in Dept \ {d} : dm'[e] = dm[e] /\ announced'[e] = announced[e]
            /\ dm'[d].level = req[r].level /\ announced'[d] = req[r].level
            /\ dm'[d].join = req[r].join
            /\ (dm'[d].late <=> req[r].late \/ Cascading)
  BY <1>0, AssignWriteEffect
<1>2. PICK e \in Dept : e = d
  BY <1>1
<1> HIDE DEF d
<1>3. CASE Ended(r, {}) /\ UNCHANGED <<dm, announced>>
  BY <1>1, <1>3, QuietEnd DEF tables
<1>4. ASSUME Ended(r, {e}), dm' \in [Dept -> Row],
             announced' \in [Dept -> Level \cup {NoLevel}],
             \A f \in Dept \ {e} : dm'[f] = dm[f] /\ announced'[f] = announced[f],
             dm'[e].level = req[r].level, announced'[e] = req[r].level,
             dm'[e].join = req[r].join, dm'[e].late <=> req[r].late \/ Cascading
      PROVE  Inductive'
  <2> USE DEF Inductive, Held, Raced
  <2>1. Stepped(r, {e}) /\ req'[r] = Idle
    BY <1>4 DEF Ended
  <2>2. Carries(r)' /\ KnowsMember(r)' /\ Sweeps(r)' /\ Answered(r)' /\ req'[r].at # "write"
    BY <2>1, IdleHolds
  <2>3. TypeOK'
    <3>1. member' \in [status : {"none", "active", "suspended"}, join : 1..MaxJoins]
      BY <1>1 DEF TypeOK
    <3>2. \A f \in Dept : dm'[f] = dm[f] \/ td[f] # "absent"
      BY <1>1, <1>2, <1>4
    <3> QED BY <1>0, <1>1, <1>4, <2>1, <3>1, <3>2, WriteTypes
  <2>4. Carried'
    BY <1>1, <2>1, <2>2, OthersCarry DEF Carried
  <2>5. KeyHeld'
    <3>1. \A q \in Req \ {r} : req[q].at = "write" => req[q].dept # e
      BY <1>1, <1>2 DEF KeyHeld, d
    <3>2. \A q \in Req \ {r} : req[q].at = "write" => req[q].dept \in Dept
      BY DEF Carried, Carries, Assigning
    <3>3. \A q \in Req \ {r} : req[q].at = "write" /\ req[q].prev = NoLevel
                                 => dm'[req[q].dept].level = NoLevel
      BY <1>4, <3>1, <3>2 DEF KeyHeld
    <3> QED BY <2>1, <2>2, <3>3, KeyKept
  <2>6. LevelsAnnounced'
    BY <1>4 DEF LevelsAnnounced
  <2>7. Anchored'
    BY <1>1, <2>1, <2>2, OthersKnow DEF Anchored
  <2>8. Swept'
    <3>1. \A f \in Dept : (dm'[f] = dm[f] /\ f \notin {e}) \/ (Cascading => dm'[f].late)
      BY <1>4
    <3> QED BY <2>1, <2>2, <3>1, OthersSweep DEF Swept
  <2>9. OrphanOnlyByRace'
    <3>1. dm'[e].late \/ (member.status # "none" /\ dm'[e].join = member.join)
      BY <1>0, <1>1, <1>4 DEF KnowsMember, Assigning
    <3> QED BY <1>1, <1>4, <3>1 DEF OrphanOnlyByRace
  <2>10. Asked'
    BY <1>1, <1>4, <2>1, <2>2, OthersAnswered DEF Asked
  <2> QED BY <2>3, <2>4, <2>5, <2>6, <2>7, <2>8, <2>9, <2>10
<1> QED BY <1>1, <1>2, <1>3, <1>4

(* A soft delete, but for what it means to the membership.                   *)
LEMMA DeleteStep ==
  ASSUME TypeOK, Carried, KeyHeld, LevelsAnnounced, Swept, Asked,
         NEW r \in Req, NEW S \in SUBSET Dept, Ended(r, S),
         UNCHANGED <<td, catalogVars, delegate>>,
         member' \in [status : {"none", "active", "suspended"}, join : 1..MaxJoins],
         dm' \in [Dept -> Row], announced' \in [Dept -> Level \cup {NoLevel}],
         \A d \in S : dm'[d].level = NoLevel /\ announced'[d] = NoLevel,
         \A d \in Dept \ S : dm'[d] = dm[d] /\ announced'[d] = announced[d]
  PROVE  TypeOK' /\ Carried' /\ KeyHeld' /\ LevelsAnnounced' /\ Swept' /\ Asked' /\ KnowsMember(r)'
<1>1. Stepped(r, S) /\ req'[r] = Idle
  BY DEF Ended
<1>2. Carries(r)' /\ KnowsMember(r)' /\ Sweeps(r)' /\ Answered(r)' /\ req'[r].at # "write"
  BY <1>1, IdleHolds
<1>3. TypeOK'
  <2>1. \A d \in Dept : dm'[d].level = NoLevel \/ dm'[d] = dm[d]
    OBVIOUS
  <2> QED BY <1>1, <2>1, WriteTypes
<1>4. Carried'
  BY <1>1, <1>2, OthersCarry DEF Carried
<1>5. KeyHeld'
  <2>1. \A q \in Req \ {r} : req[q].at = "write" => req[q].dept \in Dept
    BY DEF Carried, Carries, Assigning
  <2>2. \A q \in Req \ {r} : req[q].at = "write" /\ req[q].prev = NoLevel
                               => dm'[req[q].dept].level = NoLevel
    BY <2>1 DEF KeyHeld
  <2> QED BY <1>1, <1>2, <2>2, KeyKept
<1>6. LevelsAnnounced'
  BY DEF LevelsAnnounced
<1>7. Swept'
  <2>1. \A d \in Dept : dm'[d].level # NoLevel => dm'[d] = dm[d] /\ d \notin S
    OBVIOUS
  <2> QED BY <1>1, <1>2, <2>1, OthersSweep DEF Swept
<1>8. Asked'
  BY <1>1, <1>2, OthersAnswered DEF Asked
<1> QED BY <1>2, <1>3, <1>4, <1>5, <1>6, <1>7, <1>8

LEMMA RemoveStep ==
  ASSUME Inductive, NEW r \in Req, RemoveCommit(r)
  PROVE  Inductive'
<1> USE DEF Inductive, Held, Raced
<1>1. PICK S \in SUBSET Dept :
        /\ UNCHANGED <<member, td, catalogVars, delegate>> /\ Ended(r, S)
        /\ dm' \in [Dept -> Row] /\ announced' \in [Dept -> Level \cup {NoLevel}]
        /\ \A d \in S : dm'[d].level = NoLevel /\ announced'[d] = NoLevel
        /\ \A d \in Dept \ S : dm'[d] = dm[d] /\ announced'[d] = announced[d]
  BY RemoveCommitEffect
<1>2. member' \in [status : {"none", "active", "suspended"}, join : 1..MaxJoins]
  BY <1>1 DEF TypeOK
<1>3. TypeOK' /\ Carried' /\ KeyHeld' /\ LevelsAnnounced' /\ Swept' /\ Asked' /\ KnowsMember(r)'
  BY <1>1, <1>2, DeleteStep
<1>4. Anchored'
  BY <1>1, <1>3, OthersKnow DEF Anchored, Ended
<1>5. OrphanOnlyByRace'
  BY <1>1 DEF OrphanOnlyByRace
<1> QED BY <1>3, <1>4, <1>5

LEMMA LeaveStep ==
  ASSUME Inductive, NEW r \in Req, LeaveCommit(r)
  PROVE  Inductive'
<1> USE DEF Inductive, Held, Raced
<1>1. PICK S \in SUBSET Dept :
        /\ UNCHANGED <<td, catalogVars, delegate>> /\ Ended(r, S) /\ S = req[r].rows
        /\ member' \in [status : {"none", "active", "suspended"}, join : 1..MaxJoins]
        /\ req[r].at = "delete" /\ req[r].op \in Leaving
        /\ \A q \in Req \ {r} : req[q].op \in {"assign", "jit"} => req'[q].late
        /\ dm' \in [Dept -> Row] /\ announced' \in [Dept -> Level \cup {NoLevel}]
        /\ \A d \in S : dm'[d].level = NoLevel /\ announced'[d] = NoLevel
        /\ \A d \in Dept \ S : dm'[d] = dm[d] /\ announced'[d] = announced[d]
  BY LeaveCommitEffect
<1>2. TypeOK' /\ Carried' /\ KeyHeld' /\ LevelsAnnounced' /\ Swept' /\ Asked' /\ KnowsMember(r)'
  BY <1>1, DeleteStep
<1>3. Anchored'
  <2>1. \A q \in Req \ {r} : Assigning(q)' => req[q].op \in {"assign", "jit"}
    BY <1>1 DEF Ended, Stepped, Follows, Left, Assigning, Carried, Carries
  <2> QED BY <1>1, <1>2, <2>1 DEF Anchored, KnowsMember
<1>4. OrphanOnlyByRace'
  <2>1. \A d \in Dept : dm[d].level # NoLevel => d \in S \/ dm[d].late
    BY <1>1 DEF Swept, Sweeps
  <2> QED BY <1>1, <2>1 DEF OrphanOnlyByRace
<1> QED BY <1>2, <1>3, <1>4

LEMMA InvitedStep ==
  ASSUME Inductive, NEW d \in Dept, NEW level \in Level, RegisterInvited(d, level)
  PROVE  Inductive'
<1> USE DEF Inductive, Held, Raced
<1>1. /\ UNCHANGED <<td, catalogVars, delegate>> /\ td[d] # "absent" /\ ~ KeyLocked(d)
      /\ member' \in [status : {"none", "active", "suspended"}, join : 1..MaxJoins]
      /\ member'.status # "none" /\ (member.status # "none" => member' = member)
      /\ announced' \in [Dept -> Level \cup {NoLevel}] /\ announced'[d] = level
      /\ \A e \in Dept \ {d} : announced'[e] = announced[e]
      /\ dm' \in [Dept -> Row] /\ dm'[d].level = level
      /\ \A e \in Dept \ {d} : dm'[e] = dm[e]
      /\ \/ Stepped(NoDept, {}) /\ dm' = dm
         \/ /\ Stepped(NoDept, {d}) /\ dm'[d].join = member'.join
            /\ (dm'[d].late <=> Cascading)
  BY RegisterInvitedEffect
<1>2. NoDept \notin Req /\ Req \ {NoDept} = Req
  BY DeptAssumption
<1>3. PICK S \in SUBSET Dept :
        /\ Stepped(NoDept, S) /\ S \subseteq {d}
        /\ \A e \in Dept \ S : dm'[e] = dm[e]
        /\ d \in S => dm'[d].join = member'.join /\ (dm'[d].late <=> Cascading)
  <2>1. CASE Stepped(NoDept, {}) /\ dm' = dm
    BY <2>1
  <2>2. CASE /\ Stepped(NoDept, {d}) /\ dm'[d].join = member'.join
             /\ (dm'[d].late <=> Cascading)
    BY <1>1, <2>2
  <2> QED BY <1>1, <2>1, <2>2
<1>4. TypeOK'
  <2>1. \A e \in Dept : dm'[e] = dm[e] \/ td[e] # "absent"
    BY <1>1
  <2> QED BY <1>1, <1>3, <2>1, WriteTypes
<1>5. Carried'
  BY <1>1, <1>2, <1>3, OthersCarry DEF Carried
<1>6. KeyHeld'
  <2>1. \A q \in Req : req[q].at = "write" => req[q].dept \in Dept \ {d}
    BY <1>1 DEF Carried, Carries, Assigning, KeyLocked
  <2>2. \A q \in Req \ {NoDept} : req[q].at = "write" /\ req[q].prev = NoLevel
                                    => dm'[req[q].dept].level = NoLevel
    BY <1>1, <2>1 DEF KeyHeld
  <2> QED BY <1>2, <1>3, <2>2, KeyKept
<1>7. LevelsAnnounced'
  BY <1>1 DEF LevelsAnnounced
<1>8. Anchored'
  <2> SUFFICES ASSUME NEW q \in Req PROVE KnowsMember(q)'
    BY DEF Anchored
  <2>1. KnowsMember(q) /\ Left(q, S, req'[q])
    BY <1>2, <1>3 DEF Anchored, Stepped, Follows
  <2> QED BY <1>1, <2>1 DEF KnowsMember, Left, Assigning
<1>9. Swept'
  <2>1. \A e \in Dept : (dm'[e] = dm[e] /\ e \notin S) \/ (Cascading => dm'[e].late)
    BY <1>3
  <2> QED BY <1>2, <1>3, <2>1, OthersSweep DEF Swept
<1>10. OrphanOnlyByRace'
  <2> SUFFICES ASSUME NEW e \in Dept, dm'[e].level # NoLevel
               PROVE  (member'.status # "none" /\ dm'[e].join = member'.join) \/ dm'[e].late
    BY DEF OrphanOnlyByRace
  <2>1. CASE e \in S
    BY <1>1, <1>3, <2>1
  <2>2. CASE e \notin S
    BY <1>1, <1>3, <2>2 DEF OrphanOnlyByRace
  <2> QED BY <2>1, <2>2
<1>11. Asked'
  BY <1>1, <1>2, <1>3, OthersAnswered DEF Asked
<1> QED BY <1>4, <1>5, <1>6, <1>7, <1>8, <1>9, <1>10, <1>11

LEMMA WorkflowStep ==
  ASSUME Inductive, NEW d \in Dept, WorkflowStarts(d)
  PROVE  Inductive'
<1> USE DEF Inductive, Held, Raced
<1>1. /\ UNCHANGED <<member, dm, announced, td, catalogVars>>
      /\ delegate' = delegate \cup {d} /\ Stepped(NoDept, {})
      /\ \A q \in Req : q \in Gated \/ req[q].op \in {"remove", "leave"} => req'[q].excused
  BY WorkflowStartsEffect
<1>2. NoDept \notin Req /\ Req \ {NoDept} = Req
  BY DeptAssumption
<1>3. TypeOK'
  BY <1>1 DEF TypeOK, Stepped, ReqRecord, catalogVars
<1>4. Carried'
  BY <1>1, <1>2, OthersCarry DEF Carried
<1>5. KeyHeld'
  <2>1. \A q \in Req \ {NoDept} : req[q].at = "write" /\ req[q].prev = NoLevel
                                    => dm'[req[q].dept].level = NoLevel
    BY <1>1 DEF KeyHeld
  <2> QED BY <1>1, <1>2, <2>1, KeyKept
<1>6. LevelsAnnounced' /\ OrphanOnlyByRace'
  BY <1>1 DEF LevelsAnnounced, OrphanOnlyByRace
<1>7. Anchored' /\ Swept'
  BY <1>1, <1>2, OthersKnow, OthersSweep DEF Anchored, Swept
<1>8. Asked'
  <2> SUFFICES ASSUME NEW q \in Req PROVE Answered(q)'
    BY DEF Asked
  <2>1. Answered(q) /\ Left(q, {}, req'[q])
    BY <1>1, <1>2 DEF Asked, Stepped, Follows
  <2>2. q \in Gated' => req'[q].excused
    BY <1>1, <2>1 DEF Gated, Left
  <2>3. req'[q].op \in {"remove", "leave"} => req'[q].excused
    BY <1>1, <2>1 DEF Left
  <2>4. req'[q].op \in {"jit", "erase"} => req'[q].excused
    BY <2>1 DEF Left, Answered
  <2> QED BY <2>2, <2>3, <2>4 DEF Answered
<1> QED BY <1>3, <1>4, <1>5, <1>6, <1>7, <1>8

(* The steps that touch neither the requests nor the departments' rows.      *)
LEMMA OutsideStep ==
  ASSUME Inductive, UNCHANGED <<dm, announced, req>>,
         member' \in [status : {"none", "active", "suspended"}, join : 1..MaxJoins],
         member.status = "none" \/ (member'.status # "none" /\ member'.join = member.join),
         td' \in [Dept -> TenantDept], \A d \in Dept : td[d] # "absent" => td'[d] # "absent",
         catalog' \subseteq retired', retired' \subseteq Dept, delegate' \subseteq delegate
  PROVE  Inductive'
<1> USE DEF Inductive, Held, Raced
<1>1. Stepped(NoDept, {}) /\ Req \ {NoDept} = Req
  BY Waits, DeptAssumption
<1>2. TypeOK'
  BY DEF TypeOK
<1>3. Carried'
  BY <1>1, OthersCarry DEF Carried
<1>4. KeyHeld'
  BY DEF KeyHeld
<1>5. LevelsAnnounced' /\ OrphanOnlyByRace'
  BY DEF LevelsAnnounced, OrphanOnlyByRace
<1>6. Anchored'
  BY DEF Anchored, KnowsMember, Assigning
<1>7. Swept'
  BY DEF Swept, Sweeps
<1>8. Asked'
  BY <1>1, OthersAnswered DEF Asked
<1> QED BY <1>2, <1>3, <1>4, <1>5, <1>6, <1>7, <1>8

LEMMA TenantStep ==
  ASSUME Inductive,
         \/ Register \/ RemovalResolution \/ Departments
         \/ \E status \in {"active", "suspended"} : SetStatus(status)
         \/ \E d \in Dept : Activate(d) \/ Retire(d) \/ WorkflowEnds(d)
         \/ \E d \in Dept, active \in BOOLEAN : SetActive(d, active)
  PROVE  Inductive'
<1>0. TypeOK
  BY DEF Inductive, Held
<1>1. /\ member \in [status : {"none", "active", "suspended"}, join : 1..MaxJoins]
      /\ td \in [Dept -> TenantDept] /\ catalog \subseteq retired /\ retired \subseteq Dept
  BY <1>0 DEF TypeOK
<1>2. CASE Register
  <2>1. /\ UNCHANGED <<dm, announced, req, td, retired, catalog, delegate>>
        /\ member.status = "none" /\ member' = Joined /\ member.join < MaxJoins
    BY <1>2 DEF Register, catalogVars
  <2>2. member' \in [status : {"none", "active", "suspended"}, join : 1..MaxJoins]
    BY <1>0, <2>1, JoinedIs
  <2> QED BY <1>1, <2>1, <2>2, OutsideStep
<1>3. CASE RemovalResolution
  BY <1>1, <1>3, OutsideStep DEF RemovalResolution, PostInternal, catalogVars
<1>4. CASE Departments
  BY <1>1, <1>4, OutsideStep DEF Departments, FetchedDepartments
<1>5. ASSUME NEW status \in {"active", "suspended"}, SetStatus(status) PROVE Inductive'
  <2>1. /\ UNCHANGED <<dm, announced, req, td, retired, catalog, delegate>>
        /\ member' = [member EXCEPT !.status = status]
    BY <1>5 DEF SetStatus, catalogVars
  <2>2. /\ member' \in [status : {"none", "active", "suspended"}, join : 1..MaxJoins]
        /\ member'.status # "none" /\ member'.join = member.join
    BY <1>1, <2>1
  <2> QED BY <1>1, <2>1, <2>2, OutsideStep
<1>6. ASSUME NEW d \in Dept, Activate(d) PROVE Inductive'
  <2>1. UNCHANGED <<member, dm, announced, retired, catalog, delegate, req>>
        /\ td' = [td EXCEPT ![d] = "active"]
    BY <1>6 DEF Activate, InsertActive, catalogVars
  <2>2. td' \in [Dept -> TenantDept] /\ \A e \in Dept : td[e] # "absent" => td'[e] # "absent"
    BY <1>1, <2>1 DEF TenantDept
  <2> QED BY <1>1, <2>1, <2>2, OutsideStep
<1>7. ASSUME NEW d \in Dept, NEW active \in BOOLEAN, SetActive(d, active) PROVE Inductive'
  <2>1. UNCHANGED <<member, dm, announced, retired, catalog, delegate, req>>
        /\ td' = [td EXCEPT ![d] = IF active THEN "active" ELSE "inactive"]
    BY <1>7 DEF SetActive, UpdateActive, catalogVars
  <2>2. td' \in [Dept -> TenantDept] /\ \A e \in Dept : td[e] # "absent" => td'[e] # "absent"
    BY <1>1, <2>1 DEF TenantDept
  <2> QED BY <1>1, <2>1, <2>2, OutsideStep
<1>8. ASSUME NEW d \in Dept, Retire(d) PROVE Inductive'
  <2>1. UNCHANGED <<member, dm, announced, td, catalog, delegate, req>> /\ retired' = retired \cup {d}
    BY <1>8 DEF Retire
  <2>2. catalog' \subseteq retired' /\ retired' \subseteq Dept
    BY <1>1, <2>1
  <2> QED BY <1>1, <2>1, <2>2, OutsideStep
<1>9. ASSUME NEW d \in Dept, WorkflowEnds(d) PROVE Inductive'
  <2>1. UNCHANGED <<member, dm, announced, td, retired, catalog, req>> /\ delegate' = delegate \ {d}
    BY <1>9 DEF WorkflowEnds, catalogVars
  <2> QED BY <1>1, <2>1, OutsideStep
<1> QED BY <1>2, <1>3, <1>4, <1>5, <1>6, <1>7, <1>8, <1>9

LEMMA InductiveInit == Init => Inductive
<1> SUFFICES ASSUME Init PROVE Inductive
  OBVIOUS
<1> USE DEF Init
<1>1. NoRow \in Row /\ NoRow.level = NoLevel
  BY JoinAssumption DEF NoRow, Row
<1>2. \A r \in Req : req[r] = Idle /\ req[r].op = "none" /\ req[r].at = "idle"
  BY IdleFields
<1>3. TypeOK
  <2>1. member \in [status : {"none", "active", "suspended"}, join : 1..MaxJoins]
    BY JoinAssumption
  <2>2. dm \in [Dept -> Row] /\ \A d \in Dept : dm[d].level = NoLevel
    BY <1>1
  <2>3. req \in [Req -> ReqRecord]
    BY IdleFields
  <2> QED BY <2>1, <2>2, <2>3 DEF TypeOK, ReqRecord, TenantDept
<1>4. Carried /\ KeyHeld /\ Anchored /\ Swept
  BY <1>2 DEF Carried, Carries, KeyHeld, Anchored, KnowsMember, Swept, Sweeps, Assigning, Leaving
<1>5. Asked
  BY <1>2 DEF Asked, Answered, Gated
<1>6. LevelsAnnounced /\ OrphanOnlyByRace
  BY <1>1 DEF LevelsAnnounced, OrphanOnlyByRace
<1> QED BY <1>3, <1>4, <1>5, <1>6 DEF Inductive, Held, Raced

LEMMA InductiveStep ==
  ASSUME Inductive, [Next]_vars
  PROVE  Inductive'
<1>1. ASSUME NEW r \in Req, Serve(r) PROVE Inductive'
  <2>1. CASE \/ \E d \in Dept, level \in Level : AssignRead(r, d, level)
             \/ \E d \in Dept : JitRead(r, d) \/ RemoveGate(r, d)
             \/ LeaveGate(r) \/ DeleteMember(r)
    BY <2>1, StartStep
  <2>2. CASE DemotionGate(r)
    BY <2>2, GateStep
  <2>3. CASE AssignLock(r)
    BY <2>3, LockStep
  <2>4. CASE AssignWrite(r)
    BY <2>4, WriteStep
  <2>5. CASE RemoveSnapshot(r) \/ LeaveSnapshot(r)
    BY <2>5, SnapshotStep
  <2>6. CASE RemoveCommit(r)
    BY <2>6, RemoveStep
  <2>7. CASE LeaveCommit(r)
    BY <2>7, LeaveStep
  <2>8. CASE Abort(r)
    BY <2>8, AbortEffect, QuietEnd DEF Inductive, Held
  <2> QED BY <1>1, <2>1, <2>2, <2>3, <2>4, <2>5, <2>6, <2>7, <2>8 DEF Serve
<1>2. ASSUME NEW d \in Dept, NEW level \in Level, RegisterInvited(d, level) PROVE Inductive'
  BY <1>2, InvitedStep
<1>3. ASSUME NEW d \in Dept, WorkflowStarts(d) PROVE Inductive'
  BY <1>3, WorkflowStep
<1>4. CASE \/ Register \/ RemovalResolution \/ Departments
           \/ \E status \in {"active", "suspended"} : SetStatus(status)
           \/ \E d \in Dept : Activate(d) \/ Retire(d) \/ WorkflowEnds(d)
           \/ \E d \in Dept, active \in BOOLEAN : SetActive(d, active)
  BY <1>4, TenantStep
<1>5. CASE UNCHANGED vars
  <2>1. UNCHANGED <<member, dm, announced, td, retired, catalog, delegate, req>>
    BY <1>5 DEF vars, catalogVars
  <2>2. /\ member \in [status : {"none", "active", "suspended"}, join : 1..MaxJoins]
        /\ td \in [Dept -> TenantDept] /\ catalog \subseteq retired /\ retired \subseteq Dept
    BY DEF Inductive, Held, TypeOK
  <2> QED BY <2>1, <2>2, OutsideStep
<1> QED BY <1>1, <1>2, <1>3, <1>4, <1>5 DEF Next

LEMMA InductiveHolds == Spec => []Inductive
<1> QED BY InductiveInit, InductiveStep, PTL DEF Spec

-----------------------------------------------------------------------------
(* The theorems.                                                             *)

(* Every variable has its type, and a live row belongs to a department that  *)
(* the tenant has activated at some time (fk_dm_tenant_dept).                *)
THEOREM TypeCorrect == Spec => []TypeOK
<1>1. Inductive => TypeOK
  BY DEF Inductive, Held
<1> QED BY <1>1, InductiveHolds, PTL

(* The events P-10, P-11, I-3, I-10 and the cascades publish tell the level  *)
(* of every department as dept_memberships has it.                           *)
THEOREM LevelsAreAnnounced == Spec => []LevelsAnnounced
<1>1. Inductive => LevelsAnnounced
  BY DEF Inductive
<1> QED BY <1>1, InductiveHolds, PTL

(* A department outlives the membership it was given under only when its     *)
(* assignment overlapped the end of that membership.                         *)
THEOREM OrphansAreRaced == Spec => []OrphanOnlyByRace
<1>1. Inductive => OrphanOnlyByRace
  BY DEF Inductive, Raced
<1> QED BY <1>1, InductiveHolds, PTL

(* One step: a delegate loses a level only through an excused request, or    *)
(* through I-3, which ends none.                                             *)
LEMMA DelegateStep ==
  ASSUME Inductive, Next, NEW d \in Dept, d \in delegate, dm'[d].level < dm[d].level
  PROVE  \/ \E r \in Req : req[r] # Idle /\ req'[r] = Idle /\ req[r].excused
         \/ \A r \in Req : req'[r] = Idle => req[r] = Idle
<1> DEFINE Goal == \/ \E r \in Req : req[r] # Idle /\ req'[r] = Idle /\ req[r].excused
                   \/ \A r \in Req : req'[r] = Idle => req[r] = Idle
<1>0. TypeOK /\ Carried /\ KeyHeld /\ Asked
  BY DEF Inductive, Held
<1>1. dm[d].level \in 0..3 /\ ~ (dm[d].level < dm[d].level) /\ dm' # dm /\ dm'[d] # dm[d]
  BY <1>0, TypeParts DEF Row, Level, NoLevel
<1>2. \A r \in Req : req[r].at # "idle" => req[r] # Idle
  BY IdleFields
<1>3. ASSUME NEW r \in Req, AssignWrite(r) PROVE Goal
  <2>1. /\ req[r].at = "write" /\ req'[r] = Idle
        /\ \A e \in Dept \ {req[r].dept} : dm'[e] = dm[e]
        /\ dm'[req[r].dept].level = req[r].level
    BY <1>0, <1>1, <1>3, AssignWriteEffect DEF Ended
  <2>2. d = req[r].dept
    BY <1>1, <2>1
  <2>3. Carries(r) /\ Answered(r) /\ Assigning(r)
    BY <1>0, <2>1 DEF Carried, Asked, Assigning
  <2>4. Demotes(req[r].dept, req[r].level)
    <3>1. req[r].level \in 1..3 /\ req[r].level < dm[d].level
      BY <2>1, <2>2, <2>3 DEF Carries, Level
    <3> QED BY <1>1, <2>2, <3>1 DEF Demotes, Satisfies, NoLevel
  <2>5. req[r].excused
    BY <2>1, <2>2, <2>3, <2>4 DEF Answered, Carries, Gated
  <2> QED BY <1>2, <2>1, <2>5
<1>4. ASSUME NEW r \in Req, RemoveCommit(r) PROVE Goal
  <2>1. /\ req[r].at = "delete" /\ req[r].op = "remove" /\ req'[r] = Idle
        /\ \A e \in Dept \ req[r].rows : dm'[e] = dm[e]
    BY <1>0, <1>4, RemoveCommitEffect DEF Ended
  <2>2. d \in req[r].rows
    BY <1>1, <2>1
  <2>3. d = req[r].dept
    BY <1>0, <2>1, <2>2 DEF Carried, Carries
  <2>4. req[r].excused
    BY <1>0, <2>1, <2>3 DEF Asked, Answered
  <2> QED BY <1>2, <2>1, <2>4
<1>5. ASSUME NEW r \in Req, LeaveCommit(r) PROVE Goal
  <2>1. req[r].at = "delete" /\ req[r].op \in Leaving /\ req'[r] = Idle
    BY <1>0, <1>5, LeaveCommitEffect DEF Ended
  <2>2. req[r].excused
    BY <1>0, <2>1 DEF Asked, Answered, Leaving
  <2> QED BY <1>2, <2>1, <2>2
<1>6. ASSUME NEW e \in Dept, NEW level \in Level, RegisterInvited(e, level) PROVE Goal
  <2>1. PICK S : Stepped(NoDept, S)
    BY <1>0, <1>6, RegisterInvitedEffect
  <2>2. \A r \in Req : req'[r].at = req[r].at
    BY <2>1, DeptAssumption DEF Stepped, Follows, Left
  <2> QED BY <1>0, <2>2, IdleFields DEF Carried, Carries
<1>7. ASSUME NEW r \in Req, Serve(r) PROVE AssignWrite(r) \/ RemoveCommit(r) \/ LeaveCommit(r)
  BY <1>1, <1>7 DEF Serve, AssignRead, JitRead, RemoveGate, LeaveGate, DeleteMember, DemotionGate,
                    AssignLock, RemoveSnapshot, LeaveSnapshot, Abort
<1>8. \/ \E r \in Req : Serve(r)
      \/ \E e \in Dept, level \in Level : RegisterInvited(e, level)
  BY <1>1 DEF Next, Register, RemovalResolution, Departments, SetStatus, Activate, Retire,
              WorkflowStarts, WorkflowEnds, SetActive
<1> QED BY <1>3, <1>4, <1>5, <1>6, <1>7, <1>8

(* P-8, P-10 and P-11 take no level from a delegate of active workflows but  *)
(* where a service did not answer or its answer is out of date.              *)
THEOREM DelegatesAreKept == Spec => DelegatesKept
<1> DEFINE A == \A d \in Dept :
                  d \in delegate /\ dm'[d].level < dm[d].level =>
                    \/ \E r \in Req : req[r] # Idle /\ req'[r] = Idle /\ req[r].excused
                    \/ \A r \in Req : req'[r] = Idle => req[r] = Idle
<1>1. Inductive /\ Next => A
  BY DelegateStep
<1>2. Inductive /\ [Next]_vars => [A]_vars
  BY <1>1
<1>3. Spec => [][A]_vars
  BY <1>2, InductiveHolds, PTL DEF Spec
<1> QED BY <1>3 DEF DelegatesKept
=============================================================================
