-------------------------- MODULE InvitationsProofs -------------------------
(***************************************************************************)
(* Theorems of Invitations, for any people, rows, goroutines, seats and    *)
(* bounds.                                                                 *)
(***************************************************************************)
EXTENDS Invitations, FiniteSetTheorems, TLAPS

-----------------------------------------------------------------------------
(* The inductive invariants.                                                 *)

(* What the requests carry from one step to the next.                        *)
Carried ==
  \A r \in Req :
    /\ req[r].at \in {"count", "insert", "undo", "undoLost", "register"} => req[r].who \in Person
    /\ req[r].at = "mark" => req[r].row \in Inv

(* A row is not marked for clean-up before it has ended, a row that is not   *)
(* there yet stands for nobody, and the job works on a marked row.           *)
Marked ==
  /\ \A i \in Inv : inv[i].status \in {"absent", "pending"} => ~ inv[i].kc
  /\ cleaning # NoInv => inv[cleaning].kc

(* P-31 between its statements: the row it revoked is still unmarked, unless *)
(* a sweep has expired it, and nobody else is at that row.                   *)
Revoking ==
  /\ \A r \in Req : req[r].at = "mark" =>
       /\ inv[req[r].row].status \notin {"absent", "pending"}
       /\ inv[req[r].row].status = "revoked" => ~ inv[req[r].row].kc
       /\ inv[req[r].row].user = req[r].who
  /\ \A r, s \in Req : req[r].at = "mark" /\ req[s].at = "mark" /\ req[r].row = req[s].row => r = s

(* Who knows of the account of p, not counting a mark that is about to be    *)
(* cleared, nor a revocation that will end with 409.                         *)
Works(r, p) ==
  /\ req[r].who = p
  /\ \/ req[r].at \in {"count", "insert", "undoLost"}
     \/ req[r].at = "mark" /\ inv[req[r].row].status = "revoked"
Stands(i, p) ==
  /\ inv[i].user = p
  /\ \/ inv[i].kc /\ i # cleaning
     \/ inv[i].status \in {"pending", "accepted"}
Remembered(p) == (\E r \in Req : Works(r, p)) \/ (\E i \in Inv : Stands(i, p))
Known == \A p \in Person : account[p] = "shell" => Remembered(p)

(* The seat a P-6 found free under the lock is still there when it inserts.  *)
Reserved ==
  /\ \A r, s \in Req : req[r].at = "insert" /\ req[s].at = "insert" => r = s
  /\ \A r \in Req : req[r].at = "insert" /\ ~ req[r].full => Usage < seats + ungated

-----------------------------------------------------------------------------
(* Types.                                                                    *)

ReqRecord == [at : {"idle", "count", "insert", "undo", "undoLost", "register", "mark"},
              who : Person \cup {Erased}, row : Inv \cup {NoInv}, full : BOOLEAN]

RowsOK ==
  /\ inv \in [Inv -> Row]
  /\ \A i, j \in Inv : IsPending(i) /\ IsPending(j) /\ inv[i].email = inv[j].email => i = j
  /\ \A i \in Inv : IsPending(i) => inv[i].email \in Person

(* A look-up finds a pending row, or says that there is none.                *)
LEMMA FindByEmail ==
  ASSUME NEW p \in Person
  PROVE  /\ FindPendingByEmail(p) \in Inv \cup {NoInv}
         /\ FindPendingByEmail(p) = NoInv
              => \A i \in Inv : ~ (IsPending(i) /\ inv[i].email = p)
<1> DEFINE found == {i \in Inv : IsPending(i) /\ inv[i].email = p}
<1>1. found # {} => (CHOOSE i \in found : TRUE) \in found
  OBVIOUS
<1>2. found \subseteq Inv /\ NoInv \notin Inv
  BY RowAssumption
<1>3. FindPendingByEmail(p) = IF found = {} THEN NoInv ELSE CHOOSE i \in found : TRUE
  BY DEF FindPendingByEmail
<1> HIDE DEF found
<1>4. FindPendingByEmail(p) = NoInv => found = {}
  BY <1>1, <1>2, <1>3
<1>5. FindPendingByEmail(p) \in Inv \cup {NoInv}
  BY <1>1, <1>2, <1>3
<1> QED BY <1>4, <1>5 DEF found

LEMMA FindByUser ==
  ASSUME NEW p \in Person
  PROVE  FindPendingByKeycloakUser(p) \in Inv \cup {NoInv}
<1> DEFINE found == {i \in Inv : IsPending(i) /\ inv[i].user = p}
<1>1. found # {} => (CHOOSE i \in found : TRUE) \in found
  OBVIOUS
<1>2. found \subseteq Inv
  OBVIOUS
<1>3. FindPendingByKeycloakUser(p) = IF found = {} THEN NoInv ELSE CHOOSE i \in found : TRUE
  BY DEF FindPendingByKeycloakUser
<1> HIDE DEF found
<1> QED BY <1>1, <1>2, <1>3

(* A row may change as long as it does not become pending.                   *)
LEMMA RowChange ==
  ASSUME RowsOK, NEW i \in Inv, NEW row \in Row, inv' = [inv EXCEPT ![i] = row],
         \/ row.status # "pending"
         \/ IsPending(i) /\ row.email = inv[i].email
  PROVE  RowsOK'
<1>1. inv' \in [Inv -> Row] /\ inv'[i] = row /\ \A j \in Inv \ {i} : inv'[j] = inv[j]
  BY DEF RowsOK
<1>2. \A j \in Inv : IsPending(j)' => IsPending(j) /\ inv'[j].email = inv[j].email
  BY <1>1 DEF IsPending
<1> QED BY <1>1, <1>2 DEF RowsOK

(* A row becomes pending only under uq_pi_pending.                           *)
LEMMA RowInsert ==
  ASSUME RowsOK, NEW i \in Inv, NEW p \in Person, UniquePending(p),
         InsertRow(i, p, "pending", FALSE)
  PROVE  RowsOK'
<1>1. /\ inv' \in [Inv -> Row] /\ inv'[i].email = p
      /\ \A j \in Inv \ {i} : inv'[j] = inv[j]
  BY DEF RowsOK, InsertRow, Row, InvitationStatus, Recent
<1>2. \A j \in Inv : ~ (IsPending(j) /\ inv[j].email = p)
  BY FindByEmail DEF UniquePending
<1> QED BY <1>1, <1>2 DEF RowsOK, IsPending

(* The variants of a row that the actions write are rows.                    *)
LEMMA StatusVariant ==
  ASSUME NEW row \in Row, NEW st \in InvitationStatus, NEW r2, r2 = [row EXCEPT !.status = st]
  PROVE  /\ r2 \in Row /\ r2.status = st /\ r2.kc = row.kc /\ r2.user = row.user
         /\ r2.age = row.age /\ r2.email = row.email
  BY DEF Row

LEMMA ErasedVariant ==
  ASSUME NEW row \in Row, NEW r2 \in ErasePII(row)
  PROVE  /\ r2 \in Row /\ r2.status = row.status /\ r2.kc = row.kc /\ r2.user = row.user
         /\ r2.age = row.age
  BY DEF Row, ErasePII

LEMMA MarkedVariant ==
  ASSUME NEW row \in Row, NEW r2, r2 = SetKCCleanupPending(row)
  PROVE  /\ r2 \in Row /\ r2.kc = TRUE /\ r2.status = row.status /\ r2.user = row.user
         /\ r2.age = row.age
  BY DEF Row, SetKCCleanupPending

LEMMA ClearedVariant ==
  ASSUME NEW row \in Row, NEW r2, r2 = [row EXCEPT !.kc = FALSE]
  PROVE  /\ r2 \in Row /\ r2.kc = FALSE /\ r2.status = row.status /\ r2.user = row.user
         /\ r2.age = row.age /\ r2.email = row.email
  BY DEF Row

-----------------------------------------------------------------------------
(* What each action that writes pending_invitations does, row by row.        *)

LEMMA TypeParts ==
  ASSUME TypeOK
  PROVE  /\ RowsOK /\ inv \in [Inv -> Row] /\ req \in [Req -> ReqRecord]
         /\ \A i \in Inv : inv[i] \in Row
         /\ \A r \in Req : req[r] \in ReqRecord
<1>1. RowsOK /\ req \in [Req -> ReqRecord]
  BY DEF TypeOK, RowsOK, ReqRecord
<1> QED BY <1>1 DEF RowsOK

LEMMA InsertEffect ==
  ASSUME TypeOK, Carried, NEW r \in Req, InviteInsert(r)
  PROVE  /\ req[r].at = "insert" /\ req[r].who \in Person
         /\ UNCHANGED <<member, seats, overage, account, jobVars, ungated>>
         /\ \E i \in Inv :
              /\ Absent(i) /\ RowsOK' /\ inv'[i].user = req[r].who
              /\ \A j \in Inv \ {i} : inv'[j] = inv[j]
              /\ \/ /\ req[r].full /\ inv'[i].status = "revoked" /\ inv'[i].kc
                    /\ req' = [req EXCEPT ![r].at = "undo"]
                 \/ /\ ~ req[r].full /\ inv'[i].status = "pending" /\ ~ inv'[i].kc
                    /\ req' = [req EXCEPT ![r] = Idle]
<1>0. RowsOK /\ inv \in [Inv -> Row]
  BY TypeParts
<1>1. req[r].at = "insert" /\ UNCHANGED <<member, seats, overage, account, jobVars, ungated>>
  BY DEF InviteInsert
<1>2. req[r].who \in Person
  BY <1>1 DEF Carried
<1>3. PICK i \in Inv :
        /\ Absent(i)
        /\ \/ /\ req[r].full
              /\ InsertRow(i, req[r].who, "revoked", TRUE)
              /\ Goto(r, "undo")
           \/ /\ ~req[r].full
              /\ UniquePending(req[r].who)
              /\ InsertRow(i, req[r].who, "pending", FALSE)
              /\ Finish(r)
  BY DEF InviteInsert
<1>4. CASE req[r].full /\ InsertRow(i, req[r].who, "revoked", TRUE) /\ Goto(r, "undo")
  <2> DEFINE row == [email |-> req[r].who, user |-> req[r].who, status |-> "revoked",
                     age |-> Recent, kc |-> TRUE]
  <2>1. row \in Row /\ row.status = "revoked" /\ row.kc = TRUE /\ row.user = req[r].who
    BY <1>2 DEF Row, InvitationStatus, Recent
  <2>2. inv' = [inv EXCEPT ![i] = row]
    BY <1>4 DEF InsertRow
  <2> HIDE DEF row
  <2>3. RowsOK'
    BY <1>0, <2>1, <2>2, RowChange
  <2>4. inv'[i] = row /\ \A j \in Inv \ {i} : inv'[j] = inv[j]
    BY <1>0, <2>2
  <2> QED BY <1>1, <1>2, <1>3, <1>4, <2>1, <2>3, <2>4 DEF Goto
<1>5. CASE ~ req[r].full /\ UniquePending(req[r].who)
             /\ InsertRow(i, req[r].who, "pending", FALSE) /\ Finish(r)
  <2>1. RowsOK'
    BY <1>0, <1>2, <1>5, RowInsert
  <2>2. /\ inv'[i].status = "pending" /\ inv'[i].kc = FALSE /\ inv'[i].user = req[r].who
        /\ \A j \in Inv \ {i} : inv'[j] = inv[j]
    BY <1>0, <1>5 DEF InsertRow
  <2> QED BY <1>1, <1>2, <1>3, <1>5, <2>1, <2>2 DEF Finish
<1> QED BY <1>3, <1>4, <1>5

LEMMA AcceptEffect ==
  ASSUME TypeOK, NEW r \in Req, RegisterAccept(r)
  PROVE  LET i == req[r].row IN
         /\ req[r].at = "register" /\ i \in Inv /\ IsPending(i) /\ RowsOK'
         /\ inv'[i].status = "accepted" /\ inv'[i].user = inv[i].user
         /\ inv'[i].kc = inv[i].kc
         /\ \A j \in Inv \ {i} : inv'[j] = inv[j]
         /\ req' = [req EXCEPT ![r] = Idle]
         /\ UNCHANGED <<seats, overage, account, jobVars, ungated>>
<1> DEFINE i == req[r].row
<1>0. RowsOK /\ inv \in [Inv -> Row] /\ req[r] \in ReqRecord
  BY TypeParts
<1>1. /\ i \in Inv /\ IsPending(i) /\ req[r].at = "register" /\ req' = [req EXCEPT ![r] = Idle]
      /\ UNCHANGED <<seats, overage, account, jobVars, ungated>>
  BY <1>0 DEF RegisterAccept, Matched, ReqRecord, Finish
<1>2. PICK row \in ErasePII([inv[i] EXCEPT !.status = "accepted"]) : inv' = [inv EXCEPT ![i] = row]
  BY DEF RegisterAccept
<1> HIDE DEF i
<1>3. /\ [inv[i] EXCEPT !.status = "accepted"] \in Row
      /\ [inv[i] EXCEPT !.status = "accepted"].status = "accepted"
      /\ [inv[i] EXCEPT !.status = "accepted"].kc = inv[i].kc
      /\ [inv[i] EXCEPT !.status = "accepted"].user = inv[i].user
  BY <1>0, <1>1, StatusVariant DEF InvitationStatus
<1>4. row \in Row /\ row.status = "accepted" /\ row.kc = inv[i].kc /\ row.user = inv[i].user
  BY <1>2, <1>3, ErasedVariant
<1>5. RowsOK'
  BY <1>0, <1>1, <1>2, <1>4, RowChange
<1>6. inv'[i] = row /\ \A j \in Inv \ {i} : inv'[j] = inv[j]
  BY <1>0, <1>1, <1>2
<1> QED BY <1>1, <1>4, <1>5, <1>6 DEF i

LEMMA RevokeEffect ==
  ASSUME TypeOK, NEW r \in Req, NEW i \in Inv, RevokeStatus(r, i)
  PROVE  /\ req[r] = Idle /\ IsPending(i) /\ RowsOK'
         /\ inv'[i].status = "revoked" /\ inv'[i].user = inv[i].user
         /\ inv'[i].kc = inv[i].kc
         /\ \A j \in Inv \ {i} : inv'[j] = inv[j]
         /\ req' = [req EXCEPT ![r] = [Idle EXCEPT !.at = "mark", !.row = i, !.who = inv[i].user]]
         /\ UNCHANGED <<member, seats, overage, account, jobVars, ungated>>
<1>0. RowsOK /\ inv \in [Inv -> Row]
  BY TypeParts
<1>1. /\ req[r] = Idle /\ IsPending(i)
      /\ inv' = [inv EXCEPT ![i] = [inv[i] EXCEPT !.status = "revoked"]]
      /\ UNCHANGED <<member, seats, overage, account, jobVars, ungated>>
  BY <1>0 DEF RevokeStatus, SetStatus
<1>2. req' = [req EXCEPT ![r] = [Idle EXCEPT !.at = "mark", !.row = i, !.who = inv[i].user]]
  BY DEF RevokeStatus
<1> DEFINE row == [inv[i] EXCEPT !.status = "revoked"]
<1>3. row \in Row /\ row.status = "revoked" /\ row.kc = inv[i].kc /\ row.user = inv[i].user
  BY <1>0, StatusVariant DEF InvitationStatus
<1>4. inv' = [inv EXCEPT ![i] = row]
  BY <1>1
<1> HIDE DEF row
<1>5. RowsOK'
  BY <1>0, <1>3, <1>4, RowChange
<1>6. inv'[i] = row /\ \A j \in Inv \ {i} : inv'[j] = inv[j]
  BY <1>0, <1>4
<1> QED BY <1>1, <1>2, <1>3, <1>5, <1>6

LEMMA MarkEffect ==
  ASSUME TypeOK, Carried, NEW r \in Req, RevokeMark(r)
  PROVE  LET i == req[r].row IN
         /\ req[r].at = "mark" /\ i \in Inv /\ RowsOK'
         /\ \/ /\ inv[i].status = "revoked" /\ inv'[i].status = "revoked"
               /\ inv'[i].user = inv[i].user /\ inv'[i].kc
               /\ \A j \in Inv \ {i} : inv'[j] = inv[j]
            \/ inv[i].status # "revoked" /\ UNCHANGED inv
         /\ req' = [req EXCEPT ![r] = Idle]
         /\ UNCHANGED <<member, seats, overage, account, jobVars, ungated>>
<1> DEFINE i == req[r].row
<1>0. RowsOK /\ inv \in [Inv -> Row]
  BY TypeParts
<1>1. /\ req[r].at = "mark" /\ i \in Inv /\ req' = [req EXCEPT ![r] = Idle]
      /\ UNCHANGED <<member, seats, overage, account, jobVars, ungated>>
  BY DEF RevokeMark, Finish, Carried
<1>2. \/ /\ inv[i].status = "revoked"
         /\ \E row \in ErasePII(SetKCCleanupPending(inv[i])) : inv' = [inv EXCEPT ![i] = row]
      \/ inv[i].status # "revoked" /\ UNCHANGED inv
  BY DEF RevokeMark
<1> HIDE DEF i
<1>3. CASE inv[i].status # "revoked" /\ UNCHANGED inv
  BY <1>0, <1>1, <1>3 DEF i, RowsOK, IsPending
<1>4. ASSUME inv[i].status = "revoked",
             NEW row \in ErasePII(SetKCCleanupPending(inv[i])), inv' = [inv EXCEPT ![i] = row]
      PROVE  /\ RowsOK' /\ inv'[i].status = "revoked" /\ inv'[i].user = inv[i].user /\ inv'[i].kc
             /\ \A j \in Inv \ {i} : inv'[j] = inv[j]
  <2>1. /\ SetKCCleanupPending(inv[i]) \in Row
        /\ SetKCCleanupPending(inv[i]).kc = TRUE
        /\ SetKCCleanupPending(inv[i]).status = inv[i].status
        /\ SetKCCleanupPending(inv[i]).user = inv[i].user
    BY <1>0, <1>1, MarkedVariant
  <2>2. row \in Row /\ row.status = "revoked" /\ row.kc = TRUE /\ row.user = inv[i].user
    BY <1>4, <2>1, ErasedVariant
  <2>3. RowsOK'
    BY <1>0, <1>1, <1>4, <2>2, RowChange
  <2>4. inv'[i] = row /\ \A j \in Inv \ {i} : inv'[j] = inv[j]
    BY <1>0, <1>1, <1>4
  <2> QED BY <2>2, <2>3, <2>4
<1> QED BY <1>1, <1>2, <1>3, <1>4 DEF i

LEMMA ExpireEffect ==
  ASSUME TypeOK, ExpireOverdue
  PROVE  /\ RowsOK'
         /\ \A i \in expiry : /\ inv[i].status # "accepted"
                              /\ inv'[i].status = "expired" /\ inv'[i].kc
                              /\ inv'[i].user = inv[i].user
         /\ \A j \in Inv \ expiry : inv'[j] = inv[j]
         /\ expiry' = {}
         /\ UNCHANGED <<member, seats, overage, account, req, cleaning, ungated>>
<1>0. RowsOK /\ inv \in [Inv -> Row] /\ expiry \subseteq Inv
  BY TypeParts DEF TypeOK
<1>1. /\ inv' = [i \in Inv |->
                   IF i \in expiry
                   THEN [inv[i] EXCEPT !.status = "expired", !.kc = TRUE, !.email = Erased]
                   ELSE inv[i]]
      /\ \A i \in expiry : inv[i].status # "accepted"
      /\ expiry' = {}
      /\ UNCHANGED <<member, seats, overage, account, req, cleaning, ungated>>
  BY DEF ExpireOverdue, AcceptedAtOnlyIfAccepted
<1>2. \A i \in expiry : /\ inv'[i] \in Row /\ inv'[i].status = "expired" /\ inv'[i].kc
                        /\ inv'[i].user = inv[i].user
  BY <1>0, <1>1 DEF Row, InvitationStatus
<1>3. \A j \in Inv \ expiry : inv'[j] = inv[j]
  BY <1>1
<1>4. inv' \in [Inv -> Row]
  BY <1>0, <1>1, <1>2
<1>5. \A j \in Inv : IsPending(j)' => IsPending(j) /\ inv'[j] = inv[j]
  BY <1>2, <1>3 DEF IsPending
<1>6. RowsOK'
  BY <1>0, <1>4, <1>5 DEF RowsOK
<1> QED BY <1>1, <1>2, <1>3, <1>6

LEMMA ClearEffect ==
  ASSUME TypeOK, CleanupClear
  PROVE  /\ cleaning \in Inv /\ RowsOK' /\ cleaning' = NoInv
         /\ inv'[cleaning].status = inv[cleaning].status
         /\ inv'[cleaning].user = inv[cleaning].user
         /\ inv'[cleaning].kc = FALSE
         /\ inv'[cleaning].age = inv[cleaning].age
         /\ \A j \in Inv \ {cleaning} : inv'[j] = inv[j]
         /\ UNCHANGED <<member, seats, overage, account, req, expiry, ungated>>
<1>0. RowsOK /\ inv \in [Inv -> Row]
  BY TypeParts
<1>1. /\ cleaning \in Inv /\ cleaning' = NoInv
      /\ UNCHANGED <<member, seats, overage, account, req, expiry, ungated>>
  BY DEF CleanupClear, TypeOK
<1> DEFINE row == [inv[cleaning] EXCEPT !.kc = FALSE]
<1>2. inv' = [inv EXCEPT ![cleaning] = row]
  BY <1>0, <1>1 DEF CleanupClear, ClearKCCleanupPending
<1>3. /\ row \in Row /\ row.status = inv[cleaning].status /\ row.user = inv[cleaning].user
      /\ row.kc = FALSE /\ row.email = inv[cleaning].email /\ row.age = inv[cleaning].age
  BY <1>0, <1>1, ClearedVariant
<1> HIDE DEF row
<1>4. RowsOK'
  BY <1>0, <1>1, <1>2, <1>3, RowChange DEF IsPending
<1>5. inv'[cleaning] = row /\ \A j \in Inv \ {cleaning} : inv'[j] = inv[j]
  BY <1>0, <1>1, <1>2
<1> QED BY <1>1, <1>3, <1>4, <1>5

LEMMA TickEffect ==
  ASSUME TypeOK, NEW i \in Inv, Tick(i)
  PROVE  /\ RowsOK' /\ ~ Absent(i)
         /\ inv'[i].status = inv[i].status /\ inv'[i].user = inv[i].user
         /\ inv'[i].kc = inv[i].kc
         /\ inv[i].age # Overdue
         /\ \A j \in Inv \ {i} : inv'[j] = inv[j]
         /\ UNCHANGED <<member, seats, overage, account, req, jobVars, ungated>>
<1>0. RowsOK /\ inv \in [Inv -> Row]
  BY TypeParts
<1> DEFINE row == [inv[i] EXCEPT !.age = @ + 1]
<1>1. /\ inv' = [inv EXCEPT ![i] = row] /\ ~ Absent(i) /\ inv[i].age < Overdue
      /\ UNCHANGED <<member, seats, overage, account, req, jobVars, ungated>>
  BY <1>0 DEF Tick
<1>2. inv[i].age \in {0, 1}
  BY <1>0, <1>1 DEF Row, Recent, Older, Overdue
<1>3. /\ row \in Row /\ row.status = inv[i].status /\ row.user = inv[i].user
      /\ row.kc = inv[i].kc /\ row.email = inv[i].email
  BY <1>0, <1>2 DEF Row, Recent, Older, Overdue
<1> HIDE DEF row
<1>4. RowsOK'
  BY <1>0, <1>1, <1>3, RowChange DEF IsPending
<1>5. inv'[i] = row /\ \A j \in Inv \ {i} : inv'[j] = inv[j]
  BY <1>0, <1>1
<1> QED BY <1>1, <1>2, <1>3, <1>4, <1>5 DEF Overdue

-----------------------------------------------------------------------------
(* Type correctness.                                                         *)

RestOK ==
  /\ member \in [Person -> {"none", "active", "suspended"}]
  /\ seats \in 0..MaxSeats
  /\ overage \in BOOLEAN
  /\ account \in [Person -> {"none", "shell", "lost", "active"}]
  /\ expiry \subseteq Inv
  /\ cleaning \in Inv \cup {NoInv}
  /\ ungated \in 0..MaxUngated

RequestsOK == req \in [Req -> ReqRecord] /\ Carried

LEMMA TypeSplit == TypeOK /\ Carried <=> RowsOK /\ RequestsOK /\ RestOK
  BY DEF TypeOK, RowsOK, RequestsOK, RestOK, ReqRecord

(* Only seven actions write pending_invitations.                             *)
LEMMA RowWriters ==
  ASSUME [Next]_vars
  PROVE  \/ UNCHANGED inv
         \/ \E r \in Req : InviteInsert(r) \/ RegisterAccept(r) \/ RevokeMark(r)
         \/ \E r \in Req, i \in Inv : RevokeStatus(r, i)
         \/ ExpireOverdue \/ CleanupClear
         \/ \E i \in Inv : Tick(i)
<1> USE DEF rowVars
<1>1. ASSUME NEW r \in Req, Request(r)
      PROVE  UNCHANGED inv \/ \E i \in Inv : RevokeStatus(r, i)
  BY <1>1 DEF Request, InviteCreateUser, InviteGiveUp, RegisterLookup
<1>2. ASSUME NEW r \in Req, Progress(r)
      PROVE  UNCHANGED inv \/ InviteInsert(r) \/ RegisterAccept(r) \/ RevokeMark(r)
  BY <1>2 DEF Progress, InviteRefused, InviteCount, InviteTxFails, InviteUndo, RegisterPlain, Crash
<1>3. CASE \/ ExpirySelect \/ ExpiryStep \/ CleanupStep \/ SeatOverageReconcile
           \/ \E i \in Inv : CleanupDelete(i)
  BY <1>3 DEF ExpirySelect, ExpiryStep, ExpiryFails, CleanupStep, CleanupSkip, CleanupDelete,
     SeatOverageReconcile
<1>4. CASE Outside
  BY <1>4 DEF Outside, Reactivate, Onboard, LeaveSeat, SeatsChanged
<1>5. CASE UNCHANGED vars
  BY <1>5 DEF vars
<1> QED BY <1>1, <1>2, <1>3, <1>4, <1>5 DEF Next

LEMMA RowsStep == TypeOK /\ Carried /\ [Next]_vars => RowsOK'
<1> SUFFICES ASSUME TypeOK, Carried, [Next]_vars PROVE RowsOK'
  OBVIOUS
<1>1. CASE UNCHANGED inv
  BY <1>1, TypeParts DEF RowsOK, IsPending
<1>2. ASSUME NEW r \in Req, InviteInsert(r) PROVE RowsOK'
  BY <1>2, InsertEffect
<1>3. ASSUME NEW r \in Req, RegisterAccept(r) PROVE RowsOK'
  BY <1>3, AcceptEffect
<1>4. ASSUME NEW r \in Req, RevokeMark(r) PROVE RowsOK'
  BY <1>4, MarkEffect
<1>5. ASSUME NEW r \in Req, NEW i \in Inv, RevokeStatus(r, i) PROVE RowsOK'
  BY <1>5, RevokeEffect
<1>6. ASSUME NEW i \in Inv, Tick(i) PROVE RowsOK'
  BY <1>6, TickEffect
<1> QED BY <1>1, <1>2, <1>3, <1>4, <1>5, <1>6, ExpireEffect, ClearEffect, RowWriters

(* A request record may change in the ways the actions change it.            *)
LEMMA RequestChange ==
  ASSUME RequestsOK, NEW r \in Req, NEW new \in ReqRecord, req' = [req EXCEPT ![r] = new],
         new.at \in {"count", "insert", "undo", "undoLost", "register"} => new.who \in Person,
         new.at = "mark" => new.row \in Inv
  PROVE  RequestsOK'
<1>1. req' \in [Req -> ReqRecord] /\ req'[r] = new /\ \A s \in Req \ {r} : req'[s] = req[s]
  BY DEF RequestsOK
<1> QED BY <1>1 DEF RequestsOK, Carried

LEMMA IdleOK == Idle \in ReqRecord /\ Idle.at = "idle"
  BY DEF Idle, ReqRecord

LEMMA FinishOK == ASSUME RequestsOK, NEW r \in Req, Finish(r) PROVE RequestsOK'
  BY IdleOK, RequestChange DEF Finish

LEMMA GotoOK ==
  ASSUME RequestsOK, NEW r \in Req, NEW at \in {"undo", "undoLost"},
         req[r].at \in {"count", "insert"}, Goto(r, at)
  PROVE  RequestsOK'
<1> DEFINE new == [req[r] EXCEPT !.at = at]
<1>1. req[r] \in ReqRecord /\ req[r].who \in Person
  BY DEF RequestsOK, Carried
<1>2. new \in ReqRecord /\ new.at = at /\ new.who = req[r].who
  BY <1>1 DEF ReqRecord
<1>3. req' = [req EXCEPT ![r] = new]
  BY DEF Goto, RequestsOK
<1> HIDE DEF new
<1> QED BY <1>1, <1>2, <1>3, RequestChange

LEMMA RequestsStep == TypeOK /\ Carried /\ [Next]_vars => RequestsOK'
<1> SUFFICES ASSUME TypeOK, Carried, [Next]_vars PROVE RequestsOK'
  OBVIOUS
<1>0. RequestsOK
  BY TypeSplit
<1>u. ASSUME UNCHANGED req PROVE RequestsOK'
  BY <1>0, <1>u DEF RequestsOK, Carried
<1>1. ASSUME NEW r \in Req, NEW p \in Person, InviteCreateUser(r, p) PROVE RequestsOK'
  <2> DEFINE new == [Idle EXCEPT !.at = "count", !.who = p]
  <2>1. req' = [req EXCEPT ![r] = new]
    BY <1>1 DEF InviteCreateUser
  <2>2. new \in ReqRecord /\ new.at = "count" /\ new.who = p
    BY DEF ReqRecord, Idle
  <2> HIDE DEF new
  <2> QED BY <1>0, <2>1, <2>2, RequestChange
<1>2. ASSUME NEW r \in Req, NEW p \in Person, RegisterLookup(r, p) PROVE RequestsOK'
  <2> DEFINE row == IF FindPendingByKeycloakUser(p) = NoInv THEN FindPendingByEmail(p)
                    ELSE FindPendingByKeycloakUser(p)
  <2>1. row \in Inv \cup {NoInv}
    BY FindByEmail, FindByUser
  <2> DEFINE new == [Idle EXCEPT !.at = "register", !.who = p, !.row = row]
  <2>2. req' = [req EXCEPT ![r] = new]
    BY <1>2 DEF RegisterLookup
  <2> HIDE DEF row
  <2>3. new \in ReqRecord /\ new.at = "register" /\ new.who = p
    BY <2>1 DEF ReqRecord, Idle
  <2> HIDE DEF new
  <2> QED BY <1>0, <2>2, <2>3, RequestChange
<1>3. ASSUME NEW r \in Req, NEW i \in Inv, RevokeStatus(r, i) PROVE RequestsOK'
  <2> DEFINE new == [Idle EXCEPT !.at = "mark", !.row = i, !.who = inv[i].user]
  <2>1. req' = [req EXCEPT ![r] = new]
    BY <1>3, RevokeEffect
  <2>2. inv[i].user \in Person \cup {Erased}
    BY TypeParts DEF Row
  <2>3. new \in ReqRecord /\ new.at = "mark" /\ new.row = i
    BY <2>2 DEF ReqRecord, Idle
  <2> HIDE DEF new
  <2> QED BY <1>0, <2>1, <2>3, RequestChange
<1>4. ASSUME NEW r \in Req, InviteCount(r) PROVE RequestsOK'
  <2> DEFINE new == [req[r] EXCEPT !.at = "insert", !.full = AtCap]
  <2>1. req[r] \in ReqRecord /\ req[r].who \in Person
    BY <1>0, <1>4 DEF RequestsOK, Carried, InviteCount
  <2>2. req' = [req EXCEPT ![r] = new]
    BY <1>0, <1>4 DEF InviteCount, RequestsOK
  <2>3. AtCap \in BOOLEAN
    BY DEF AtCap
  <2>4. new \in ReqRecord /\ new.at = "insert" /\ new.who = req[r].who
    BY <2>1, <2>3 DEF ReqRecord
  <2> HIDE DEF new
  <2> QED BY <1>0, <2>1, <2>2, <2>4, RequestChange
<1>5. ASSUME NEW r \in Req, InviteInsert(r) PROVE RequestsOK'
  <2>1. req[r].at = "insert" /\ (Goto(r, "undo") \/ Finish(r))
    BY <1>5 DEF InviteInsert
  <2> QED BY <1>0, <2>1, GotoOK, FinishOK
<1>6. ASSUME NEW r \in Req, InviteTxFails(r) PROVE RequestsOK'
  BY <1>0, <1>6, GotoOK DEF InviteTxFails
<1>7. ASSUME NEW r \in Req,
             \/ InviteRefused(r) \/ InviteUndo(r) \/ RegisterAccept(r) \/ RegisterPlain(r)
             \/ RevokeMark(r) \/ Crash(r)
      PROVE  RequestsOK'
  BY <1>0, <1>7, FinishOK DEF InviteRefused, InviteUndo, RegisterAccept, RegisterPlain,
     RevokeMark, Crash
<1>8. ASSUME NEW r \in Req, NEW p \in Person, InviteGiveUp(r, p) PROVE RequestsOK'
  BY <1>8, <1>u DEF InviteGiveUp
<1>9. CASE \/ ExpirySelect \/ ExpiryStep \/ CleanupStep \/ SeatOverageReconcile
           \/ \E i \in Inv : CleanupDelete(i)
  BY <1>9, <1>u DEF ExpirySelect, ExpiryStep, ExpireOverdue, ExpiryFails, CleanupStep,
     CleanupClear, CleanupSkip, CleanupDelete, SeatOverageReconcile
<1>10. CASE Outside
  BY <1>10, <1>u DEF Outside, Reactivate, Onboard, LeaveSeat, SeatsChanged, Tick
<1>11. CASE UNCHANGED vars
  BY <1>11, <1>u DEF vars
<1> QED BY <1>1, <1>2, <1>3, <1>4, <1>5, <1>6, <1>7, <1>8, <1>9, <1>10, <1>11
        DEF Next, Request, Progress

LEMMA RestStep == TypeOK /\ Carried /\ [Next]_vars => RestOK'
<1> SUFFICES ASSUME TypeOK, Carried, [Next]_vars PROVE RestOK'
  OBVIOUS
<1>0. RestOK /\ req \in [Req -> ReqRecord]
  BY TypeSplit DEF RequestsOK
<1>b. MaxSeats \in Nat /\ MaxUngated \in Nat
  BY SeatAssumption
<1>1. account' \in [Person -> {"none", "shell", "lost", "active"}]
  <2>1. account \in [Person -> {"none", "shell", "lost", "active"}]
    BY <1>0 DEF RestOK
  <2>2. ASSUME NEW p, account' = [account EXCEPT ![p] = IF @ = "none" THEN "shell" ELSE @]
                      \/ account' = [account EXCEPT ![p] = IF @ = "shell" THEN "lost" ELSE @]
                      \/ account' = [account EXCEPT ![p] = "none"]
                      \/ account' = [account EXCEPT ![p] = "lost"]
                      \/ account' = [account EXCEPT ![p] = "active"]
        PROVE  account' \in [Person -> {"none", "shell", "lost", "active"}]
    BY <2>1, <2>2
  <2>3. ASSUME NEW r \in Req, Request(r)
        PROVE  account' \in [Person -> {"none", "shell", "lost", "active"}]
    BY <2>1, <2>2, <2>3 DEF Request, InviteCreateUser, CreateInvitedUser, InviteGiveUp,
       RegisterLookup, RevokeStatus
  <2>4. ASSUME NEW r \in Req, Progress(r)
        PROVE  account' \in [Person -> {"none", "shell", "lost", "active"}]
    BY <2>1, <2>2, <2>4 DEF Progress, InviteRefused, InviteCount, InviteInsert, InviteTxFails,
       InviteUndo, DeleteUser, LoseTrack, RegisterAccept, RegisterPlain, RevokeMark, Crash
  <2>5. CASE \/ ExpirySelect \/ ExpiryStep \/ CleanupStep \/ SeatOverageReconcile
             \/ \E i \in Inv : CleanupDelete(i)
    BY <2>1, <2>2, <2>5 DEF ExpirySelect, ExpiryStep, ExpireOverdue, ExpiryFails, CleanupStep,
       CleanupClear, CleanupSkip, CleanupDelete, DeleteUser, SeatOverageReconcile
  <2>6. CASE Outside
    BY <2>1, <2>2, <2>6 DEF Outside, Reactivate, Onboard, LeaveSeat, SeatsChanged, Tick
  <2>7. CASE UNCHANGED vars
    BY <2>1, <2>7 DEF vars
  <2> QED BY <2>3, <2>4, <2>5, <2>6, <2>7 DEF Next
<1>2. member' \in [Person -> {"none", "active", "suspended"}]
  <2>1. member \in [Person -> {"none", "active", "suspended"}]
    BY <1>0 DEF RestOK
  <2> USE DEF rowVars
  <2>3. ASSUME NEW r \in Req, Request(r) \/ Progress(r)
        PROVE  member' \in [Person -> {"none", "active", "suspended"}]
    BY <2>1, <2>3 DEF Request, InviteCreateUser, InviteGiveUp, RegisterLookup, RevokeStatus,
       Progress, InviteRefused, InviteCount, InviteInsert, InviteTxFails, InviteUndo,
       RegisterAccept, RegisterPlain, InsertMember, RevokeMark, Crash
  <2>5. CASE \/ ExpirySelect \/ ExpiryStep \/ CleanupStep \/ SeatOverageReconcile
             \/ \E i \in Inv : CleanupDelete(i)
    BY <2>1, <2>5 DEF ExpirySelect, ExpiryStep, ExpireOverdue, ExpiryFails, CleanupStep,
       CleanupClear, CleanupSkip, CleanupDelete, SeatOverageReconcile
  <2>6. CASE Outside
    BY <2>1, <2>6 DEF Outside, Reactivate, Onboard, LeaveSeat, SeatsChanged, Tick
  <2>7. CASE UNCHANGED vars
    BY <2>1, <2>7 DEF vars
  <2> QED BY <2>3, <2>5, <2>6, <2>7 DEF Next
<1>3. seats' \in 0..MaxSeats /\ ungated' \in 0..MaxUngated
  <2>1. seats \in 0..MaxSeats /\ ungated \in 0..MaxUngated
    BY <1>0 DEF RestOK
  <2> USE DEF rowVars
  <2>2. ASSUME NEW n \in 0..MaxSeats, SeatsChanged(n)
        PROVE  seats' \in 0..MaxSeats /\ ungated' \in 0..MaxUngated
    BY <1>b, <2>1, <2>2 DEF SeatsChanged
  <2>3. ASSUME NEW r \in Req, Request(r) \/ Progress(r), ~ RegisterPlain(r)
        PROVE  UNCHANGED <<seats, ungated>>
    BY <2>3 DEF Request, InviteCreateUser, InviteGiveUp, RegisterLookup, RevokeStatus,
       Progress, InviteRefused, InviteCount, InviteInsert, InviteTxFails, InviteUndo,
       RegisterAccept, RevokeMark, Crash
  <2>4. ASSUME NEW r \in Req, RegisterPlain(r)
        PROVE  seats' \in 0..MaxSeats /\ ungated' \in 0..MaxUngated
    BY <1>b, <2>1, <2>4 DEF RegisterPlain
  <2>5. CASE \/ ExpirySelect \/ ExpiryStep \/ CleanupStep \/ SeatOverageReconcile
             \/ \E i \in Inv : CleanupDelete(i)
    BY <2>1, <2>5 DEF ExpirySelect, ExpiryStep, ExpireOverdue, ExpiryFails, CleanupStep,
       CleanupClear, CleanupSkip, CleanupDelete, SeatOverageReconcile
  <2>6. ASSUME NEW p \in Person, Reactivate(p)
        PROVE  seats' \in 0..MaxSeats /\ ungated' \in 0..MaxUngated
    BY <1>b, <2>1, <2>6 DEF Reactivate
  <2>7. CASE Outside
    BY <2>1, <2>2, <2>6, <2>7 DEF Outside, Onboard, LeaveSeat, Tick
  <2>8. CASE UNCHANGED vars
    BY <2>1, <2>8 DEF vars
  <2> QED BY <2>1, <2>3, <2>4, <2>5, <2>7, <2>8 DEF Next
<1>4. overage' \in BOOLEAN /\ expiry' \subseteq Inv /\ cleaning' \in Inv \cup {NoInv}
  <2>1. overage \in BOOLEAN /\ expiry \subseteq Inv /\ cleaning \in Inv \cup {NoInv}
    BY <1>0 DEF RestOK
  <2> USE DEF rowVars, jobVars
  <2>3. ASSUME NEW r \in Req, Request(r) \/ Progress(r)
        PROVE  UNCHANGED <<overage, expiry, cleaning>>
    BY <2>3 DEF Request, InviteCreateUser, InviteGiveUp, RegisterLookup, RevokeStatus,
       Progress, InviteRefused, InviteCount, InviteInsert, InviteTxFails, InviteUndo,
       RegisterAccept, RegisterPlain, RevokeMark, Crash
  <2>4. OverCap \in BOOLEAN
    BY DEF OverCap
  <2>5. CASE \/ ExpirySelect \/ ExpiryStep \/ CleanupStep \/ \E i \in Inv : CleanupDelete(i)
    BY <2>1, <2>5 DEF ExpirySelect, ExpiryStep, ExpireOverdue, ExpiryFails, CleanupStep,
       CleanupClear, CleanupSkip, CleanupDelete
  <2>6. CASE SeatOverageReconcile
    BY <2>1, <2>4, <2>6 DEF SeatOverageReconcile
  <2>7. CASE Outside
    BY <2>1, <2>7 DEF Outside, Reactivate, Onboard, LeaveSeat, SeatsChanged, Tick
  <2>8. CASE UNCHANGED vars
    BY <2>1, <2>8 DEF vars
  <2> QED BY <2>1, <2>3, <2>5, <2>6, <2>7, <2>8 DEF Next
<1> QED BY <1>1, <1>2, <1>3, <1>4 DEF RestOK

LEMMA InitTypes == Init => TypeOK /\ Carried
<1> SUFFICES ASSUME Init PROVE TypeOK /\ Carried
  OBVIOUS
<1>1. NoRow \in Row /\ NoRow.status = "absent"
  BY DEF NoRow, Row, InvitationStatus, Recent
<1>2. RowsOK
  BY <1>1 DEF Init, RowsOK, IsPending
<1>3. RequestsOK
  BY IdleOK DEF Init, RequestsOK, Carried
<1>4. RestOK
  <2>1. InitSeats \in Nat /\ MaxSeats \in Nat /\ MaxUngated \in Nat /\ InitSeats <= MaxSeats
    BY SeatAssumption
  <2>2. InitSeats \in 0..MaxSeats /\ 0 \in 0..MaxUngated
    BY <2>1
  <2> QED BY <2>2 DEF Init, RestOK
<1> QED BY <1>2, <1>3, <1>4, TypeSplit

LEMMA TypeStep == TypeOK /\ Carried /\ [Next]_vars => (TypeOK /\ Carried)'
<1> SUFFICES ASSUME TypeOK, Carried, [Next]_vars PROVE (TypeOK /\ Carried)'
  OBVIOUS
<1>1. RowsOK' /\ RequestsOK' /\ RestOK'
  BY RowsStep, RequestsStep, RestStep
<1>2. (TypeOK /\ Carried <=> RowsOK /\ RequestsOK /\ RestOK)'
  BY TypeSplit, PTL
<1> QED BY <1>1, <1>2

LEMMA TypesHold == Spec => [](TypeOK /\ Carried)
  BY InitTypes, TypeStep, PTL DEF Spec

(* For any people, rows and goroutines: every variable has its type, an      *)
(* address never has two pending invitations, and only a row that has ended  *)
(* has lost its address.                                                     *)
THEOREM TypeCorrect == Spec => []TypeOK
  BY TypesHold, PTL

-----------------------------------------------------------------------------
(* Acceptance.                                                               *)

(* PI-2 for acceptance: for any number of requests and sweeps, no step takes *)
(* an accepted invitation back.                                              *)
THEOREM AcceptanceIsFinal == Spec => AcceptanceFinal
<1>1. TypeOK /\ Carried /\ [Next]_vars
        => [\A i \in Inv : inv[i].status = "accepted" => inv'[i].status = "accepted"]_vars
  <2> SUFFICES ASSUME TypeOK, Carried, [Next]_vars, NEW k \in Inv, inv[k].status = "accepted"
               PROVE  inv'[k].status = "accepted"
    OBVIOUS
  <2>1. CASE UNCHANGED inv
    BY <2>1
  <2>2. ASSUME NEW r \in Req, InviteInsert(r) PROVE inv'[k].status = "accepted"
    BY <2>2, InsertEffect DEF Absent
  <2>3. ASSUME NEW r \in Req, RegisterAccept(r) PROVE inv'[k].status = "accepted"
    BY <2>3, AcceptEffect
  <2>4. ASSUME NEW r \in Req, RevokeMark(r) PROVE inv'[k].status = "accepted"
    BY <2>4, MarkEffect
  <2>5. ASSUME NEW r \in Req, NEW i \in Inv, RevokeStatus(r, i) PROVE inv'[k].status = "accepted"
    BY <2>5, RevokeEffect DEF IsPending
  <2>6. ASSUME NEW i \in Inv, Tick(i) PROVE inv'[k].status = "accepted"
    BY <2>6, TickEffect
  <2>7. CASE ExpireOverdue
    BY <2>7, ExpireEffect
  <2>8. CASE CleanupClear
    BY <2>8, ClearEffect
  <2> QED BY <2>1, <2>2, <2>3, <2>4, <2>5, <2>6, <2>7, <2>8, RowWriters
<1> QED BY <1>1, TypesHold, PTL DEF Spec, AcceptanceFinal

-----------------------------------------------------------------------------
(* Keycloak accounts nobody activated.                                       *)

(* What the other actions do to the account and to the requests.             *)
LEMMA MarkedStep == TypeOK /\ Carried /\ Marked /\ [Next]_vars => Marked'
<1> SUFFICES ASSUME TypeOK, Carried, Marked, [Next]_vars PROVE Marked'
  OBVIOUS
<1>0. cleaning \in Inv \cup {NoInv} /\ expiry \subseteq Inv
  BY DEF TypeOK
<1>c. \/ cleaning' = cleaning
      \/ cleaning' = NoInv
      \/ \E i \in Inv : cleaning' = i /\ inv[i].kc /\ UNCHANGED inv
  <2> USE DEF rowVars, jobVars
  <2>1. ASSUME NEW r \in Req, Request(r) \/ Progress(r) PROVE UNCHANGED cleaning
    BY <2>1 DEF Request, InviteCreateUser, InviteGiveUp, RegisterLookup, RevokeStatus,
       Progress, InviteRefused, InviteCount, InviteInsert, InviteTxFails, InviteUndo,
       RegisterAccept, RegisterPlain, RevokeMark, Crash
  <2>2. CASE \/ ExpirySelect \/ ExpiryStep \/ CleanupStep \/ SeatOverageReconcile
             \/ \E i \in Inv : CleanupDelete(i)
    BY <2>2 DEF ExpirySelect, ExpiryStep, ExpireOverdue, ExpiryFails, CleanupStep,
       CleanupClear, CleanupSkip, CleanupDelete, SeatOverageReconcile
  <2>3. CASE Outside \/ UNCHANGED vars
    BY <2>3 DEF Outside, Reactivate, Onboard, LeaveSeat, SeatsChanged, Tick, vars
  <2> QED BY <2>1, <2>2, <2>3 DEF Next
<1>1. CASE UNCHANGED inv
  BY <1>1, <1>c DEF Marked
<1>s. ASSUME cleaning' = cleaning \/ cleaning' = NoInv,
             \A i \in Inv : /\ inv[i].kc => inv'[i].kc
                            /\ inv'[i].status \in {"absent", "pending"} => ~ inv'[i].kc
      PROVE  Marked'
  BY <1>s, <1>0 DEF Marked
<1>k. UNCHANGED inv \/ cleaning' = cleaning \/ cleaning' = NoInv
  BY <1>c
<1>2. ASSUME NEW r \in Req, InviteInsert(r) PROVE Marked'
  BY <1>2, <1>1, <1>k, <1>s, InsertEffect DEF Absent, Marked
<1>3. ASSUME NEW r \in Req, RegisterAccept(r) PROVE Marked'
  BY <1>3, <1>1, <1>k, <1>s, AcceptEffect DEF Marked
<1>4. ASSUME NEW r \in Req, RevokeMark(r) PROVE Marked'
  BY <1>4, <1>1, <1>k, <1>s, MarkEffect DEF Marked
<1>5. ASSUME NEW r \in Req, NEW i \in Inv, RevokeStatus(r, i) PROVE Marked'
  BY <1>5, <1>1, <1>k, <1>s, RevokeEffect DEF Marked
<1>6. ASSUME NEW i \in Inv, Tick(i) PROVE Marked'
  BY <1>6, <1>1, <1>k, <1>s, TickEffect DEF Marked
<1>7. CASE ExpireOverdue
  BY <1>7, <1>0, <1>1, <1>k, <1>s, ExpireEffect DEF Marked
<1>8. CASE CleanupClear
  BY <1>8, ClearEffect DEF Marked
<1> QED BY <1>1, <1>2, <1>3, <1>4, <1>5, <1>6, <1>7, <1>8, RowWriters

(* A request gets to the mark step by RevokeStatus only, and to the insert   *)
(* by InviteCount only.                                                      *)
LEMMA RequestSteps ==
  ASSUME TypeOK, Carried, [Next]_vars, NEW s \in Req, req'[s].at \in {"mark", "insert"}
  PROVE  \/ req'[s] = req[s]
         \/ /\ req'[s].at = "mark"
            /\ \E i \in Inv : /\ RevokeStatus(s, i)
                              /\ req'[s].row = i /\ req'[s].who = inv[i].user
         \/ InviteCount(s)
<1>0. req \in [Req -> ReqRecord]
  BY TypeParts
<1>f. ASSUME NEW r \in Req, NEW new, req' = [req EXCEPT ![r] = new], new.at \notin {"mark", "insert"}
      PROVE  req'[s] = req[s]
  BY <1>0, <1>f
<1>i. Idle.at \notin {"mark", "insert"}
  BY DEF Idle
<1>1. ASSUME NEW r \in Req, NEW i \in Inv, RevokeStatus(r, i)
      PROVE  \/ req'[s] = req[s]
             \/ /\ RevokeStatus(s, i) /\ req'[s].at = "mark"
                /\ req'[s].row = i /\ req'[s].who = inv[i].user
  <2>1. CASE r = s
    <3> DEFINE new == [Idle EXCEPT !.at = "mark", !.row = i, !.who = inv[i].user]
    <3>1. new.at = "mark" /\ new.row = i /\ new.who = inv[i].user
      BY DEF Idle
    <3>2. req' = [req EXCEPT ![r] = new]
      BY <1>1, RevokeEffect
    <3> HIDE DEF new
    <3>3. req'[s] = new
      BY <1>0, <2>1, <3>2
    <3> QED BY <1>1, <2>1, <3>1, <3>3
  <2>2. CASE r # s
    BY <1>0, <1>1, <2>2, RevokeEffect
  <2> QED BY <2>1, <2>2
<1>2. ASSUME NEW r \in Req, NEW p \in Person, InviteCreateUser(r, p) PROVE req'[s] = req[s]
  <2>1. [Idle EXCEPT !.at = "count", !.who = p].at \notin {"mark", "insert"}
    BY DEF Idle
  <2> QED BY <1>2, <1>f, <2>1 DEF InviteCreateUser
<1>3. ASSUME NEW r \in Req, NEW p \in Person, RegisterLookup(r, p) PROVE req'[s] = req[s]
  <2>1. PICK row : req' = [req EXCEPT ![r] = [Idle EXCEPT !.at = "register", !.who = p, !.row = row]]
    BY <1>3 DEF RegisterLookup
  <2>2. [Idle EXCEPT !.at = "register", !.who = p, !.row = row].at \notin {"mark", "insert"}
    BY DEF Idle
  <2> QED BY <1>f, <2>1, <2>2
<1>4. ASSUME NEW r \in Req, InviteCount(r) PROVE req'[s] = req[s] \/ InviteCount(s)
  <2>1. r # s => req'[s] = req[s]
    BY <1>0, <1>4 DEF InviteCount
  <2> QED BY <1>4, <2>1
<1>g. ASSUME NEW r \in Req, NEW at \in {"undo", "undoLost"}, Goto(r, at) PROVE req'[s] = req[s]
  <2>1. req' = [req EXCEPT ![r] = [req[r] EXCEPT !.at = at]]
    BY <1>0, <1>g DEF Goto
  <2>2. [req[r] EXCEPT !.at = at].at \notin {"mark", "insert"}
    BY <1>0 DEF ReqRecord
  <2> QED BY <1>f, <2>1, <2>2
<1>h. ASSUME NEW r \in Req, Finish(r) PROVE req'[s] = req[s]
  BY <1>f, <1>h, <1>i DEF Finish
<1>5. ASSUME NEW r \in Req, InviteInsert(r) \/ InviteTxFails(r) PROVE req'[s] = req[s]
  BY <1>5, <1>g, <1>h DEF InviteInsert, InviteTxFails
<1>6. ASSUME NEW r \in Req,
             \/ InviteRefused(r) \/ InviteUndo(r) \/ RegisterAccept(r) \/ RegisterPlain(r)
             \/ RevokeMark(r) \/ Crash(r)
      PROVE  req'[s] = req[s]
  BY <1>6, <1>h DEF InviteRefused, InviteUndo, RegisterAccept, RegisterPlain, RevokeMark, Crash
<1>7. ASSUME NEW r \in Req, NEW p \in Person, InviteGiveUp(r, p) PROVE req'[s] = req[s]
  BY <1>7 DEF InviteGiveUp
<1>8. CASE \/ ExpirySelect \/ ExpiryStep \/ CleanupStep \/ SeatOverageReconcile
           \/ \E i \in Inv : CleanupDelete(i)
  BY <1>8 DEF ExpirySelect, ExpiryStep, ExpireOverdue, ExpiryFails, CleanupStep,
     CleanupClear, CleanupSkip, CleanupDelete, SeatOverageReconcile
<1>9. CASE Outside \/ UNCHANGED vars
  BY <1>9 DEF Outside, Reactivate, Onboard, LeaveSeat, SeatsChanged, Tick, vars
<1> QED BY <1>1, <1>2, <1>3, <1>4, <1>5, <1>6, <1>7, <1>8, <1>9 DEF Next, Request, Progress

LEMMA MarkRequests ==
  ASSUME TypeOK, Carried, [Next]_vars, NEW s \in Req, req'[s].at = "mark"
  PROVE  \/ req'[s] = req[s]
         \/ \E i \in Inv : /\ RevokeStatus(s, i)
                           /\ req'[s].row = i /\ req'[s].who = inv[i].user
<1>1. ASSUME InviteCount(s) PROVE FALSE
  <2> DEFINE new == [req[s] EXCEPT !.at = "insert", !.full = AtCap]
  <2>1. req \in [Req -> ReqRecord]
    BY TypeParts
  <2>2. req' = [req EXCEPT ![s] = new]
    BY <1>1, <2>1 DEF InviteCount
  <2>3. new.at = "insert"
    BY <2>1 DEF ReqRecord
  <2> HIDE DEF new
  <2> QED BY <2>1, <2>2, <2>3
<1> QED BY <1>1, RequestSteps

LEMMA RevokingStep ==
  TypeOK /\ Carried /\ Marked /\ Revoking /\ [Next]_vars => Revoking'
<1> SUFFICES ASSUME TypeOK, Carried, Marked, Revoking, [Next]_vars PROVE Revoking'
  OBVIOUS
<1>0. req \in [Req -> ReqRecord]
  BY TypeParts
<1>i. Idle.at = "idle"
  BY DEF Idle
<1>1. ASSUME NEW s \in Req, req[s].at = "mark", req'[s] = req[s]
      PROVE  LET k == req[s].row IN
             /\ inv'[k].status \notin {"absent", "pending"}
             /\ inv'[k].status = "revoked" => ~ inv'[k].kc
             /\ inv'[k].user = req[s].who
  <2> DEFINE k == req[s].row
  <2>0. /\ k \in Inv /\ inv[k].status \notin {"absent", "pending"}
        /\ inv[k].status = "revoked" => ~ inv[k].kc
        /\ inv[k].user = req[s].who
    BY <1>1 DEF Revoking, Carried
  <2> DEFINE Goal == /\ inv'[k].status \notin {"absent", "pending"}
                     /\ inv'[k].status = "revoked" => ~ inv'[k].kc
                     /\ inv'[k].user = req[s].who
  <2>r. ASSUME NEW r \in Req, RevokeMark(r) PROVE r # s /\ req[r].row # k
    <3>1. req[r].at = "mark" /\ req' = [req EXCEPT ![r] = Idle]
      BY <2>r, MarkEffect
    <3>2. r # s
      BY <1>0, <1>1, <1>i, <3>1
    <3> QED BY <1>1, <3>1, <3>2 DEF Revoking
  <2> HIDE DEF k
  <2>1. ASSUME UNCHANGED inv PROVE Goal
    BY <2>0, <2>1
  <2>2. ASSUME NEW r \in Req, InviteInsert(r) PROVE Goal
    BY <2>0, <2>2, InsertEffect DEF Absent
  <2>3. ASSUME NEW r \in Req, RegisterAccept(r) PROVE Goal
    BY <2>0, <2>3, AcceptEffect DEF IsPending
  <2>4. ASSUME NEW r \in Req, RevokeMark(r) PROVE Goal
    BY <2>0, <2>4, <2>r, MarkEffect
  <2>5. ASSUME NEW r \in Req, NEW i \in Inv, RevokeStatus(r, i) PROVE Goal
    BY <2>0, <2>5, RevokeEffect DEF IsPending
  <2>6. ASSUME NEW i \in Inv, Tick(i) PROVE Goal
    BY <2>0, <2>6, TickEffect
  <2>7. ASSUME ExpireOverdue PROVE Goal
    BY <2>0, <2>7, ExpireEffect
  <2>8. ASSUME CleanupClear PROVE Goal
    BY <2>0, <2>8, ClearEffect
  <2>9. Goal
    BY <2>1, <2>2, <2>3, <2>4, <2>5, <2>6, <2>7, <2>8, RowWriters
  <2> QED BY <2>9 DEF k
<1>2. ASSUME NEW s \in Req, NEW i \in Inv, RevokeStatus(s, i)
      PROVE  /\ inv'[i].status = "revoked" /\ ~ inv'[i].kc /\ inv'[i].user = inv[i].user
  BY <1>2, RevokeEffect DEF Marked, IsPending
<1>3. ASSUME NEW s \in Req, req'[s].at = "mark"
      PROVE  /\ inv'[req'[s].row].status \notin {"absent", "pending"}
             /\ inv'[req'[s].row].status = "revoked" => ~ inv'[req'[s].row].kc
             /\ inv'[req'[s].row].user = req'[s].who
  BY <1>1, <1>2, <1>3, MarkRequests
<1>4. ASSUME NEW r \in Req, NEW s \in Req, req'[r].at = "mark", req'[s].at = "mark",
             req'[r].row = req'[s].row
      PROVE  r = s
  <2>1. ASSUME NEW u \in Req, NEW v \in Req, NEW i \in Inv, RevokeStatus(u, i),
               req'[u].row = i, req'[v].at = "mark", req'[v].row = i
        PROVE  u = v
    <3> SUFFICES ASSUME u # v PROVE FALSE
      OBVIOUS
    <3>1. req'[v] = req[v] /\ IsPending(i)
      BY <1>0, <2>1, RevokeEffect
    <3>2. inv[req[v].row].status \notin {"absent", "pending"}
      BY <2>1, <3>1 DEF Revoking
    <3> QED BY <2>1, <3>1, <3>2 DEF IsPending
  <2>2. CASE req'[r] = req[r] /\ req'[s] = req[s]
    BY <1>4, <2>2 DEF Revoking
  <2> QED BY <1>4, <2>1, <2>2, MarkRequests
<1> QED BY <1>3, <1>4 DEF Revoking

(* An account becomes a shell by P-6 only, and keeps somebody who remembers. *)
LEMMA KnownStep ==
  TypeOK /\ Carried /\ Marked /\ Revoking /\ Known /\ [Next]_vars => Known'
<1> SUFFICES ASSUME TypeOK, Carried, Marked, Revoking, Known, [Next]_vars,
                    NEW p \in Person, account'[p] = "shell"
             PROVE  Remembered(p)'
  BY DEF Known
<1>0. /\ req \in [Req -> ReqRecord] /\ inv \in [Inv -> Row]
      /\ account \in [Person -> {"none", "shell", "lost", "active"}]
      /\ cleaning \in Inv \cup {NoInv} /\ expiry \subseteq Inv /\ NoInv \notin Inv
  BY TypeParts, RowAssumption DEF TypeOK
<1>i. Idle.at = "idle"
  BY DEF Idle
<1>k. account[p] = "shell" => Remembered(p)
  BY DEF Known
<1>W. ASSUME NEW r \in Req, req'[r] = req[r], Works(r, p),
             req[r].at = "mark" => inv'[req[r].row].status = "revoked"
      PROVE  Remembered(p)'
  BY <1>W DEF Works, Remembered
<1>S. ASSUME NEW i \in Inv, inv'[i] = inv[i], Stands(i, p), cleaning' = cleaning
      PROVE  Remembered(p)'
  BY <1>S DEF Stands, Remembered
<1>F. ASSUME NEW r \in Req, ~ Works(r, p), account[p] = "shell", UNCHANGED <<inv, cleaning>>,
             \A s \in Req \ {r} : req'[s] = req[s]
      PROVE  Remembered(p)'
  <2>1. ASSUME NEW s \in Req, Works(s, p) PROVE Remembered(p)'
    <3>1. s # r
      BY <1>F, <2>1
    <3> QED BY <1>F, <1>W, <2>1, <3>1 DEF Works
  <2>2. ASSUME NEW i \in Inv, Stands(i, p) PROVE Remembered(p)'
    BY <1>F, <1>S, <2>2
  <2> QED BY <1>F, <1>k, <2>1, <2>2 DEF Remembered
<1>E. ASSUME NEW r \in Req, Finish(r) PROVE \A s \in Req \ {r} : req'[s] = req[s]
  BY <1>0, <1>E DEF Finish
<1>A. ASSUME UNCHANGED <<inv, req, cleaning>>, account[p] = "shell" PROVE Remembered(p)'
  BY <1>A, <1>k DEF Remembered, Works, Stands
<1> USE DEF rowVars, jobVars
<1>1. ASSUME NEW r \in Req, NEW q \in Person, InviteCreateUser(r, q) PROVE Remembered(p)'
  <2> DEFINE new == [Idle EXCEPT !.at = "count", !.who = q]
  <2>1. /\ req' = [req EXCEPT ![r] = new] /\ req[r] = Idle /\ UNCHANGED <<inv, cleaning>>
        /\ account' = [account EXCEPT ![q] = IF @ = "none" THEN "shell" ELSE @]
    BY <1>1 DEF InviteCreateUser, CreateInvitedUser
  <2>2. new.at = "count" /\ new.who = q
    BY DEF Idle
  <2> HIDE DEF new
  <2>3. CASE p = q
    <3>1. req'[r] = new
      BY <1>0, <2>1
    <3> QED BY <2>2, <2>3, <3>1 DEF Remembered, Works
  <2>4. CASE p # q
    <3>1. account[p] = "shell"
      BY <1>0, <2>1, <2>4
    <3>2. ~ Works(r, p)
      BY <1>i, <2>1 DEF Works
    <3>3. \A s \in Req \ {r} : req'[s] = req[s]
      BY <1>0, <2>1
    <3> QED BY <1>F, <2>1, <3>1, <3>2, <3>3
  <2> QED BY <2>3, <2>4
<1>2. ASSUME NEW r \in Req, NEW q \in Person, InviteGiveUp(r, q) PROVE Remembered(p)'
  <2>1. account[p] = "shell" /\ UNCHANGED <<inv, req, cleaning>>
    BY <1>0, <1>2 DEF InviteGiveUp
  <2> QED BY <1>A, <2>1
<1>3. ASSUME NEW r \in Req, NEW q \in Person, RegisterLookup(r, q) PROVE Remembered(p)'
  <2>1. /\ req[r] = Idle /\ UNCHANGED <<inv, cleaning, account>>
        /\ \A s \in Req \ {r} : req'[s] = req[s]
    BY <1>0, <1>3 DEF RegisterLookup
  <2>2. ~ Works(r, p)
    BY <1>i, <2>1 DEF Works
  <2> QED BY <1>F, <2>1, <2>2
<1>4. ASSUME NEW r \in Req, NEW i \in Inv, RevokeStatus(r, i) PROVE Remembered(p)'
  <2> DEFINE new == [Idle EXCEPT !.at = "mark", !.row = i, !.who = inv[i].user]
  <2>1. /\ req[r] = Idle /\ IsPending(i) /\ inv'[i].status = "revoked"
        /\ \A j \in Inv \ {i} : inv'[j] = inv[j]
        /\ req' = [req EXCEPT ![r] = new]
        /\ UNCHANGED <<account, cleaning>>
    BY <1>4, RevokeEffect
  <2>2. new.at = "mark" /\ new.row = i /\ new.who = inv[i].user
    BY DEF Idle
  <2> HIDE DEF new
  <2>3. req'[r] = new /\ \A s \in Req \ {r} : req'[s] = req[s]
    BY <1>0, <2>1
  <2>4. ASSUME NEW s \in Req, Works(s, p) PROVE Remembered(p)'
    <3>1. s # r
      BY <1>i, <2>1, <2>4 DEF Works
    <3>2. req[s].at = "mark" => req[s].row \in Inv \ {i} /\ inv[req[s].row].status = "revoked"
      BY <2>1, <2>4 DEF Works, Carried, IsPending
    <3> QED BY <1>W, <2>1, <2>3, <2>4, <3>1, <3>2
  <2>5. ASSUME NEW j \in Inv, Stands(j, p) PROVE Remembered(p)'
    <3>1. CASE j = i
      <4>1. Works(r, p)'
        BY <2>1, <2>2, <2>3, <2>5, <3>1 DEF Works, Stands
      <4> QED BY <4>1 DEF Remembered
    <3>2. CASE j # i
      BY <1>S, <2>1, <2>5, <3>2
    <3> QED BY <3>1, <3>2
  <2> QED BY <1>k, <2>1, <2>4, <2>5 DEF Remembered
<1>5. ASSUME NEW r \in Req, InviteRefused(r) \/ InviteUndo(r) \/ Crash(r) PROVE Remembered(p)'
  <2>1. /\ Finish(r) /\ UNCHANGED <<inv, cleaning>>
        /\ \/ DeleteUser(req[r].who) \/ LoseTrack(req[r].who)
           \/ UNCHANGED account /\ req[r].at \in {"undo", "register"}
    BY <1>5 DEF InviteRefused, InviteUndo, Crash
  <2>2. account[p] = "shell" /\ ~ Works(r, p)
    BY <1>0, <2>1 DEF DeleteUser, LoseTrack, Works
  <2> QED BY <1>E, <1>F, <2>1, <2>2
<1>6. ASSUME NEW r \in Req, NEW new, req' = [req EXCEPT ![r] = new], new.who = req[r].who,
             new.at \in {"insert", "undoLost"}, req[r].at \in {"count", "insert"},
             UNCHANGED <<inv, cleaning, account>>
      PROVE  Remembered(p)'
  <2>1. req'[r] = new /\ \A s \in Req \ {r} : req'[s] = req[s]
    BY <1>0, <1>6
  <2>2. CASE Works(r, p)
    <3>1. Works(r, p)'
      BY <1>6, <2>1, <2>2 DEF Works
    <3> QED BY <3>1 DEF Remembered
  <2> QED BY <1>F, <1>6, <2>1, <2>2
<1>7. ASSUME NEW r \in Req, InviteCount(r) PROVE Remembered(p)'
  <2> DEFINE new == [req[r] EXCEPT !.at = "insert", !.full = AtCap]
  <2>1. /\ req' = [req EXCEPT ![r] = new] /\ req[r].at = "count"
        /\ UNCHANGED <<inv, cleaning, account>>
    BY <1>0, <1>7 DEF InviteCount
  <2>2. new.at = "insert" /\ new.who = req[r].who
    BY <1>0 DEF ReqRecord
  <2> HIDE DEF new
  <2> QED BY <1>6, <2>1, <2>2
<1>8. ASSUME NEW r \in Req, InviteTxFails(r) PROVE Remembered(p)'
  <2> DEFINE new == [req[r] EXCEPT !.at = "undoLost"]
  <2>1. /\ req' = [req EXCEPT ![r] = new] /\ req[r].at \in {"count", "insert"}
        /\ UNCHANGED <<inv, cleaning, account>>
    BY <1>0, <1>8 DEF InviteTxFails, Goto
  <2>2. new.at = "undoLost" /\ new.who = req[r].who
    BY <1>0 DEF ReqRecord
  <2> HIDE DEF new
  <2> QED BY <1>6, <2>1, <2>2
<1>9. ASSUME NEW r \in Req, InviteInsert(r) PROVE Remembered(p)'
  <2>1. PICK i \in Inv :
          /\ Absent(i) /\ inv'[i].user = req[r].who
          /\ \A j \in Inv \ {i} : inv'[j] = inv[j]
          /\ inv'[i].kc \/ inv'[i].status = "pending"
          /\ \A s \in Req \ {r} : req'[s] = req[s]
    BY <1>0, <1>9, InsertEffect
  <2>2. UNCHANGED <<account, cleaning>> /\ i # cleaning /\ ~ inv[i].kc
    BY <1>0, <1>9, <2>1, InsertEffect DEF Marked, Absent
  <2>3. ASSUME NEW s \in Req, Works(s, p) PROVE Remembered(p)'
    <3>1. CASE s = r
      <4>1. Stands(i, p)'
        BY <2>1, <2>2, <2>3, <3>1 DEF Works, Stands
      <4> QED BY <4>1 DEF Remembered
    <3>2. CASE s # r
      <4>1. req[s].at = "mark" => req[s].row \in Inv \ {i} /\ inv[req[s].row].status = "revoked"
        BY <2>1, <2>3 DEF Works, Carried, Revoking, Absent
      <4> QED BY <1>W, <2>1, <2>3, <3>2, <4>1
    <3> QED BY <3>1, <3>2
  <2>4. ASSUME NEW j \in Inv, Stands(j, p) PROVE Remembered(p)'
    <3>1. j # i
      BY <2>1, <2>2, <2>4 DEF Stands, Absent
    <3> QED BY <1>S, <2>1, <2>2, <2>4, <3>1
  <2> QED BY <1>k, <2>2, <2>3, <2>4 DEF Remembered
<1>10. ASSUME NEW r \in Req, RegisterAccept(r) PROVE Remembered(p)'
  <2>i. PICK i \in Inv : i = req[r].row
    BY <1>10, AcceptEffect
  <2>1. /\ req[r].at = "register" /\ i \in Inv /\ IsPending(i)
        /\ inv'[i].status = "accepted" /\ inv'[i].user = inv[i].user
        /\ \A j \in Inv \ {i} : inv'[j] = inv[j]
        /\ UNCHANGED <<account, cleaning>>
        /\ \A s \in Req \ {r} : req'[s] = req[s]
    BY <1>0, <1>10, <2>i, AcceptEffect
  <2>2. ASSUME NEW s \in Req, Works(s, p) PROVE Remembered(p)'
    <3>1. s # r
      BY <2>1, <2>2 DEF Works
    <3>2. req[s].at = "mark" => req[s].row \in Inv \ {i} /\ inv[req[s].row].status = "revoked"
      BY <2>1, <2>2 DEF Works, Carried, IsPending
    <3> QED BY <1>W, <2>1, <2>2, <3>1, <3>2
  <2>3. ASSUME NEW j \in Inv, Stands(j, p) PROVE Remembered(p)'
    <3>1. CASE j = i
      <4>1. Stands(i, p)'
        BY <2>1, <2>3, <3>1 DEF Stands
      <4> QED BY <2>1, <4>1 DEF Remembered
    <3> QED BY <1>S, <2>1, <2>3, <3>1
  <2> QED BY <1>k, <2>1, <2>2, <2>3 DEF Remembered
<1>11. ASSUME NEW r \in Req, RegisterPlain(r) PROVE Remembered(p)'
  <2>1. /\ Finish(r) /\ UNCHANGED <<inv, cleaning, account>> /\ ~ Works(r, p)
    BY <1>11 DEF RegisterPlain, Works
  <2> QED BY <1>E, <1>F, <2>1
<1>12. ASSUME NEW r \in Req, RevokeMark(r) PROVE Remembered(p)'
  <2>i. PICK i \in Inv : i = req[r].row
    BY <1>12, MarkEffect
  <2>1. /\ req[r].at = "mark" /\ i \in Inv
        /\ \/ /\ inv[i].status = "revoked" /\ inv'[i].status = "revoked"
              /\ inv'[i].user = inv[i].user /\ inv'[i].kc
              /\ \A j \in Inv \ {i} : inv'[j] = inv[j]
           \/ inv[i].status # "revoked" /\ UNCHANGED inv
        /\ UNCHANGED <<account, cleaning>>
        /\ \A s \in Req \ {r} : req'[s] = req[s]
    BY <1>0, <1>12, <2>i, MarkEffect
  <2>u. inv[i].status = "revoked" => ~ inv[i].kc
    BY <2>1, <2>i DEF Revoking
  <2>w. inv[i].user = req[r].who
    BY <2>1, <2>i DEF Revoking
  <2>n. inv[i].status # "revoked" => ~ Works(r, p)
    BY <2>1, <2>i DEF Works
  <2>2. CASE inv[i].status # "revoked" /\ UNCHANGED inv
    BY <1>F, <2>1, <2>2, <2>n
  <2>3. CASE /\ inv[i].status = "revoked" /\ inv'[i].status = "revoked"
             /\ inv'[i].user = inv[i].user /\ inv'[i].kc
             /\ \A j \in Inv \ {i} : inv'[j] = inv[j]
    <3>1. i # cleaning
      BY <1>0, <2>1, <2>3, <2>u DEF Marked
    <3>2. ASSUME NEW s \in Req, Works(s, p) PROVE Remembered(p)'
      <4>1. CASE s = r
        <5>1. Stands(i, p)'
          BY <2>1, <2>3, <2>w, <3>1, <3>2, <4>1 DEF Works, Stands
        <5> QED BY <2>1, <5>1 DEF Remembered
      <4>2. CASE s # r
        <5>1. req[s].at = "mark" => inv'[req[s].row].status = "revoked"
          BY <2>3, <3>2 DEF Works, Carried
        <5> QED BY <1>W, <2>1, <3>2, <4>2, <5>1
      <4> QED BY <4>1, <4>2
    <3>3. ASSUME NEW j \in Inv, Stands(j, p) PROVE Remembered(p)'
      <4>1. j # i
        BY <2>3, <2>u, <3>3 DEF Stands
      <4> QED BY <1>S, <2>1, <2>3, <3>3, <4>1
    <3> QED BY <1>k, <2>1, <3>2, <3>3 DEF Remembered
  <2> QED BY <2>1, <2>2, <2>3
<1>13. CASE ExpireOverdue
  <2>1. /\ \A i \in expiry : /\ inv[i].status # "accepted" /\ inv'[i].status = "expired"
                             /\ inv'[i].kc /\ inv'[i].user = inv[i].user
        /\ \A j \in Inv \ expiry : inv'[j] = inv[j]
        /\ UNCHANGED <<account, req, cleaning>>
    BY <1>13, ExpireEffect
  <2>2. ASSUME NEW s \in Req, Works(s, p) PROVE Remembered(p)'
    <3>1. CASE req[s].at = "mark" /\ req[s].row \in expiry
      <4>1. /\ inv[req[s].row].status = "revoked" /\ inv[req[s].row].user = p
            /\ ~ inv[req[s].row].kc /\ req[s].row \in Inv
        BY <2>2, <3>1 DEF Works, Revoking, Carried
      <4>2. req[s].row # cleaning
        BY <1>0, <4>1 DEF Marked
      <4>3. PICK k \in Inv : k = req[s].row
        BY <4>1
      <4>4. Stands(k, p)'
        BY <2>1, <3>1, <4>1, <4>2, <4>3 DEF Stands
      <4> QED BY <4>4 DEF Remembered
    <3>2. CASE ~ (req[s].at = "mark" /\ req[s].row \in expiry)
      <4>1. req[s].at = "mark" => inv'[req[s].row].status = "revoked"
        BY <2>1, <2>2, <3>2 DEF Works, Carried
      <4> QED BY <1>W, <2>1, <2>2, <4>1
    <3> QED BY <3>1, <3>2
  <2>3. ASSUME NEW j \in Inv, Stands(j, p) PROVE Remembered(p)'
    <3>1. CASE j \in expiry
      <4>1. j # cleaning
        BY <1>0, <2>1, <2>3, <3>1 DEF Stands, Marked
      <4>2. Stands(j, p)'
        BY <2>1, <2>3, <3>1, <4>1 DEF Stands
      <4> QED BY <4>2 DEF Remembered
    <3> QED BY <1>S, <2>1, <2>3, <3>1
  <2> QED BY <1>k, <2>1, <2>2, <2>3 DEF Remembered
<1>14. ASSUME NEW i \in Inv, CleanupDelete(i) PROVE Remembered(p)'
  <2>1. /\ account' = [account EXCEPT ![inv[i].user] = "none"] /\ cleaning' = i
        /\ UNCHANGED <<inv, req>>
    BY <1>14 DEF CleanupDelete, DeleteUser
  <2>2. account[p] = "shell" /\ inv[i].user # p
    BY <1>0, <2>1
  <2> QED BY <1>k, <2>1, <2>2 DEF Remembered, Works, Stands
<1>15. CASE CleanupClear
  <2>1. /\ cleaning \in Inv /\ cleaning' = NoInv
        /\ inv'[cleaning].status = inv[cleaning].status
        /\ inv'[cleaning].user = inv[cleaning].user
        /\ \A j \in Inv \ {cleaning} : inv'[j] = inv[j]
        /\ UNCHANGED <<account, req>>
    BY <1>15, ClearEffect
  <2>2. \A j \in Inv : inv'[j].status = inv[j].status /\ inv'[j].user = inv[j].user
    BY <2>1
  <2>3. ASSUME NEW s \in Req, Works(s, p) PROVE Remembered(p)'
    BY <1>W, <2>1, <2>2, <2>3 DEF Works, Carried
  <2>4. ASSUME NEW j \in Inv, Stands(j, p) PROVE Remembered(p)'
    <3>1. Stands(j, p)'
      BY <1>0, <2>1, <2>2, <2>4 DEF Stands
    <3> QED BY <3>1 DEF Remembered
  <2> QED BY <1>k, <2>1, <2>3, <2>4 DEF Remembered
<1>16. CASE CleanupSkip
  BY <1>0, <1>16, <1>k DEF CleanupSkip, Remembered, Works, Stands
<1>17. CASE ExpirySelect \/ ExpiryFails \/ SeatOverageReconcile \/ UNCHANGED vars
  BY <1>17, <1>A DEF ExpirySelect, ExpiryFails, SeatOverageReconcile, vars
<1>18. ASSUME NEW i \in Inv, Tick(i) PROVE Remembered(p)'
  <2>1. /\ inv'[i].status = inv[i].status /\ inv'[i].user = inv[i].user
        /\ inv'[i].kc = inv[i].kc
        /\ \A j \in Inv \ {i} : inv'[j] = inv[j]
        /\ UNCHANGED <<account, req, cleaning>>
    BY <1>18, TickEffect
  <2>2. \A j \in Inv : /\ inv'[j].status = inv[j].status /\ inv'[j].user = inv[j].user
                       /\ inv'[j].kc = inv[j].kc
    BY <2>1
  <2>3. ASSUME NEW s \in Req, Works(s, p) PROVE Remembered(p)'
    BY <1>W, <2>1, <2>2, <2>3 DEF Works, Carried
  <2>4. ASSUME NEW j \in Inv, Stands(j, p) PROVE Remembered(p)'
    <3>1. Stands(j, p)'
      BY <2>1, <2>2, <2>4 DEF Stands
    <3> QED BY <3>1 DEF Remembered
  <2> QED BY <1>k, <2>1, <2>3, <2>4 DEF Remembered
<1>19. ASSUME NEW q \in Person, Onboard(q) PROVE Remembered(p)'
  <2>1. account[p] = "shell" /\ UNCHANGED <<inv, req, cleaning>>
    BY <1>0, <1>19 DEF Onboard
  <2> QED BY <1>A, <2>1
<1>20. CASE Outside
  BY <1>20, <1>18, <1>19, <1>A DEF Outside, Reactivate, LeaveSeat, SeatsChanged
<1> QED BY <1>1, <1>2, <1>3, <1>4, <1>5, <1>7, <1>8, <1>9, <1>10, <1>11, <1>12, <1>13, <1>14,
           <1>15, <1>16, <1>17, <1>20
        DEF Next, Request, Progress, ExpiryStep, CleanupStep

LEMMA TrackingHolds == Spec => [](Marked /\ Revoking /\ Known)
<1>1. Init => Marked /\ Revoking /\ Known
  <2> SUFFICES ASSUME Init PROVE Marked /\ Revoking /\ Known
    OBVIOUS
  <2>1. \A i \in Inv : inv[i].kc = FALSE
    BY DEF Init, NoRow
  <2>2. \A r \in Req : req[r].at = "idle"
    BY DEF Init, Idle
  <2>3. cleaning = NoInv /\ \A p \in Person : account[p] = "none"
    BY DEF Init
  <2> QED BY <2>1, <2>2, <2>3 DEF Marked, Revoking, Known
<1> QED BY <1>1, MarkedStep, RevokingStep, KnownStep, TypesHold, PTL DEF Spec

(* PI-9: for any number of requests, crashes and sweeps, an account that     *)
(* nobody activated is known to a request, stands for an invitation or is    *)
(* marked for invitation-kc-cleanup, but for the recorded losses.            *)
THEOREM ShellsAreTracked == Spec => []ShellTracked
<1>1. Known => ShellTracked
  BY DEF Known, ShellTracked, Remembered, Works, Stands
<1> QED BY <1>1, TrackingHolds, PTL

-----------------------------------------------------------------------------
(* Seats.                                                                    *)

ActiveSet == {p \in Person : member[p] = "active"}
HeldSet == {i \in Inv : IsPending(i) /\ inv[i].age # Overdue}

(* How a count of a finite set moves when elements come or go.               *)
LEMMA CountKeeps ==
  ASSUME NEW S, IsFiniteSet(S), NEW T, T \subseteq S
  PROVE  IsFiniteSet(T) /\ Cardinality(T) <= Cardinality(S)
  BY FS_Subset

LEMMA CountGrows ==
  ASSUME NEW S, IsFiniteSet(S), NEW T, NEW x, T \subseteq S \cup {x}
  PROVE  IsFiniteSet(T) /\ Cardinality(T) <= Cardinality(S) + 1
<1>1. /\ IsFiniteSet(S \cup {x}) /\ Cardinality(S) \in Nat
      /\ Cardinality(S \cup {x}) = IF x \in S THEN Cardinality(S) ELSE Cardinality(S) + 1
  BY FS_AddElement, FS_CardinalityType
<1>2. IsFiniteSet(T) /\ Cardinality(T) <= Cardinality(S \cup {x})
  BY <1>1, CountKeeps
<1>3. Cardinality(T) \in Nat
  BY <1>2, FS_CardinalityType
<1> QED BY <1>1, <1>2, <1>3

LEMMA CountShrinks ==
  ASSUME NEW S, IsFiniteSet(S), NEW T, NEW x \in S, T \subseteq S \ {x}
  PROVE  Cardinality(T) + 1 <= Cardinality(S)
<1>1. /\ IsFiniteSet(S \ {x}) /\ Cardinality(S) \in Nat
      /\ Cardinality(S \ {x}) = Cardinality(S) - 1
  BY FS_RemoveElement, FS_CardinalityType
<1>2. IsFiniteSet(T) /\ Cardinality(T) <= Cardinality(S \ {x})
  BY <1>1, CountKeeps
<1>3. Cardinality(T) \in Nat
  BY <1>2, FS_CardinalityType
<1> QED BY <1>1, <1>2, <1>3

LEMMA UsageParts ==
  /\ IsFiniteSet(ActiveSet) /\ IsFiniteSet(HeldSet)
  /\ Cardinality(ActiveSet) \in Nat /\ Cardinality(HeldSet) \in Nat /\ BaseMembers \in Nat
  /\ Usage = BaseMembers + Cardinality(ActiveSet) + Cardinality(HeldSet)
  /\ Usage \in Nat
<1>1. IsFiniteSet(ActiveSet) /\ IsFiniteSet(HeldSet)
  <2>1. ActiveSet \subseteq Person /\ HeldSet \subseteq Inv
    BY DEF ActiveSet, HeldSet
  <2> QED BY <2>1, CountKeeps, PersonAssumption, RowAssumption
<1>2. Cardinality(ActiveSet) \in Nat /\ Cardinality(HeldSet) \in Nat /\ BaseMembers \in Nat
  BY <1>1, FS_CardinalityType, SeatAssumption
<1>3. Usage = BaseMembers + Cardinality(ActiveSet) + Cardinality(HeldSet)
  BY DEF Usage, CountActive, CountPending, ActiveSet, HeldSet
<1> QED BY <1>1, <1>2, <1>3

LEMMA UsagePartsNext ==
  /\ IsFiniteSet(ActiveSet') /\ IsFiniteSet(HeldSet')
  /\ Cardinality(ActiveSet') \in Nat /\ Cardinality(HeldSet') \in Nat
  /\ Usage' = BaseMembers + Cardinality(ActiveSet') + Cardinality(HeldSet')
  /\ Usage' \in Nat
<1>1. (/\ IsFiniteSet(ActiveSet) /\ IsFiniteSet(HeldSet)
       /\ Cardinality(ActiveSet) \in Nat /\ Cardinality(HeldSet) \in Nat /\ BaseMembers \in Nat
       /\ Usage = BaseMembers + Cardinality(ActiveSet) + Cardinality(HeldSet)
       /\ Usage \in Nat)'
  BY UsageParts, PTL
<1> QED BY <1>1

(* The effect on the usage of members and invitations coming and going.      *)
LEMMA UsageKeeps ==
  ASSUME ActiveSet' \subseteq ActiveSet, HeldSet' \subseteq HeldSet
  PROVE  Usage' <= Usage
  BY UsageParts, UsagePartsNext, CountKeeps

LEMMA UsageGrows ==
  ASSUME NEW x, \/ ActiveSet' \subseteq ActiveSet \cup {x} /\ HeldSet' \subseteq HeldSet
                \/ ActiveSet' \subseteq ActiveSet /\ HeldSet' \subseteq HeldSet \cup {x}
  PROVE  Usage' <= Usage + 1
<1>1. CASE ActiveSet' \subseteq ActiveSet \cup {x} /\ HeldSet' \subseteq HeldSet
  <2>1. Cardinality(ActiveSet') <= Cardinality(ActiveSet) + 1
    BY <1>1, UsageParts, CountGrows
  <2>2. Cardinality(HeldSet') <= Cardinality(HeldSet)
    BY <1>1, UsageParts, CountKeeps
  <2> QED BY <2>1, <2>2, UsageParts, UsagePartsNext
<1>2. CASE ActiveSet' \subseteq ActiveSet /\ HeldSet' \subseteq HeldSet \cup {x}
  <2>1. Cardinality(ActiveSet') <= Cardinality(ActiveSet)
    BY <1>2, UsageParts, CountKeeps
  <2>2. Cardinality(HeldSet') <= Cardinality(HeldSet) + 1
    BY <1>2, UsageParts, CountGrows
  <2> QED BY <2>1, <2>2, UsageParts, UsagePartsNext
<1> QED BY <1>1, <1>2

LEMMA UsageTrades ==
  ASSUME NEW x, NEW i \in HeldSet,
         ActiveSet' \subseteq ActiveSet \cup {x}, HeldSet' \subseteq HeldSet \ {i}
  PROVE  Usage' <= Usage
<1>1. Cardinality(ActiveSet') <= Cardinality(ActiveSet) + 1
  BY UsageParts, CountGrows
<1>2. Cardinality(HeldSet') + 1 <= Cardinality(HeldSet)
  BY UsageParts, CountShrinks
<1> QED BY <1>1, <1>2, UsageParts, UsagePartsNext

(* A step that takes no seat, leaves the licence alone and is not the count  *)
(* of a P-6.                                                                 *)
LEMMA NoSeatTaken ==
  ASSUME TypeOK, Carried, Reserved, SeatCap, [Next]_vars,
         \A r \in Req : ~ InviteCount(r), UNCHANGED <<seats, ungated>>, Usage' <= Usage
  PROVE  Reserved' /\ SeatCap'
<1>1. \A s \in Req : req'[s].at = "insert" => req'[s] = req[s]
  BY RequestSteps
<1>2. Usage \in Nat /\ Usage' \in Nat /\ seats \in Nat /\ ungated \in Nat
  BY UsageParts, UsagePartsNext, SeatAssumption DEF TypeOK
<1>3. SeatCap'
  BY <1>2 DEF SeatCap
<1>4. \A s \in Req : req'[s].at = "insert" /\ ~ req'[s].full => Usage' < seats' + ungated'
  <2> SUFFICES ASSUME NEW s \in Req, req'[s].at = "insert", ~ req'[s].full
               PROVE  Usage' < seats' + ungated'
    OBVIOUS
  <2>1. Usage < seats + ungated
    BY <1>1 DEF Reserved
  <2> QED BY <1>2, <2>1
<1> QED BY <1>1, <1>3, <1>4 DEF Reserved

(* A step after which no P-6 is between its count and its insert.            *)
LEMMA NobodyInserts ==
  ASSUME Usage' <= seats' + ungated', \A s \in Req : req'[s].at # "insert"
  PROVE  Reserved' /\ SeatCap'
  BY DEF Reserved, SeatCap

LEMMA SeatStep ==
  TypeOK /\ Carried /\ Reserved /\ SeatCap /\ [Next]_vars => (Reserved /\ SeatCap)'
<1> SUFFICES ASSUME TypeOK, Carried, Reserved, SeatCap, [Next]_vars
             PROVE  Reserved' /\ SeatCap'
  OBVIOUS
<1>0. req \in [Req -> ReqRecord]
  BY TypeParts
<1>n. Usage \in Nat /\ Usage' \in Nat /\ seats \in Nat /\ ungated \in Nat
  BY UsageParts, UsagePartsNext, SeatAssumption DEF TypeOK
<1>m. member \in [Person -> {"none", "active", "suspended"}]
  BY DEF TypeOK
<1>U. ASSUME UNCHANGED <<inv, member>> PROVE Usage' = Usage
  <2>1. ActiveSet' = ActiveSet /\ HeldSet' = HeldSet
    BY <1>U DEF ActiveSet, HeldSet, IsPending
  <2> QED BY <2>1, UsageParts, UsagePartsNext
<1>A. ASSUME UNCHANGED member PROVE ActiveSet' = ActiveSet
  BY <1>A DEF ActiveSet
<1>I. Idle.at # "insert"
  BY DEF Idle
<1>c. ASSUME NEW r \in Req, InviteCount(r) PROVE Reserved' /\ SeatCap'
  <2> DEFINE new == [req[r] EXCEPT !.at = "insert", !.full = AtCap]
  <2>1. /\ ~ TenantLocked /\ req' = [req EXCEPT ![r] = new]
        /\ UNCHANGED <<inv, member, seats, ungated>>
    BY <1>0, <1>c DEF InviteCount, rowVars
  <2>2. new.full = AtCap
    BY <1>0 DEF ReqRecord
  <2> HIDE DEF new
  <2>3. req'[r] = new /\ \A s \in Req \ {r} : req'[s] = req[s]
    BY <1>0, <2>1
  <2>4. \A s \in Req \ {r} : req'[s].at # "insert"
    BY <2>1, <2>3 DEF TenantLocked
  <2>5. Usage' = Usage
    BY <1>U, <2>1
  <2>6. ~ new.full => Usage < seats
    <3>1. ~ new.full => ~ AtCap
      BY <2>2, Zenon
    <3>2. ~ AtCap => Usage < seats
      BY <1>n DEF AtCap
    <3> QED BY <3>1, <3>2
  <2>7. ~ new.full => Usage' < seats' + ungated'
    BY <1>n, <2>1, <2>5, <2>6
  <2>8. SeatCap'
    BY <2>1, <2>5 DEF SeatCap
  <2> QED BY <2>3, <2>4, <2>7, <2>8 DEF Reserved
<1>K. ASSUME UNCHANGED <<seats, ungated>>, Usage' <= Usage PROVE Reserved' /\ SeatCap'
  BY <1>K, <1>c, NoSeatTaken
<1>F. ASSUME UNCHANGED <<inv, member, seats, ungated>> PROVE Reserved' /\ SeatCap'
  <2>1. Usage' <= Usage
    BY <1>F, <1>U, <1>n
  <2> QED BY <1>F, <1>K, <2>1
<1>L. ASSUME NEW r \in Req, ~ TenantLocked, req' = [req EXCEPT ![r] = Idle] \/ UNCHANGED req
      PROVE  \A s \in Req : req'[s].at # "insert"
  BY <1>0, <1>I, <1>L DEF TenantLocked
<1> USE DEF rowVars
<1>1. ASSUME NEW r \in Req, InviteInsert(r) PROVE Reserved' /\ SeatCap'
  <2>1. PICK i \in Inv :
          /\ Absent(i)
          /\ \A j \in Inv \ {i} : inv'[j] = inv[j]
          /\ \/ /\ req[r].full /\ inv'[i].status = "revoked"
                /\ req' = [req EXCEPT ![r].at = "undo"]
             \/ /\ ~ req[r].full
                /\ req' = [req EXCEPT ![r] = Idle]
    BY <1>1, InsertEffect
  <2>2. req[r].at = "insert" /\ UNCHANGED <<member, seats, ungated>>
    BY <1>1, InsertEffect
  <2>3. ActiveSet' = ActiveSet
    BY <1>A, <2>2
  <2>4. HeldSet' \subseteq HeldSet \cup {i}
    BY <2>1 DEF HeldSet, IsPending
  <2>5. req'[r].at # "insert" /\ \A s \in Req \ {r} : req'[s] = req[s]
    BY <1>0, <1>I, <2>1 DEF ReqRecord
  <2>6. \A s \in Req : req'[s].at # "insert"
    BY <2>2, <2>5 DEF Reserved
  <2>7. CASE req[r].full /\ inv'[i].status = "revoked"
    <3>1. HeldSet' \subseteq HeldSet
      BY <2>1, <2>7 DEF HeldSet, IsPending
    <3>2. Usage' <= Usage
      BY <2>3, <3>1, UsageKeeps
    <3> QED BY <1>K, <2>2, <3>2
  <2>8. CASE ~ req[r].full
    <3>1. Usage < seats + ungated
      BY <2>2, <2>8 DEF Reserved
    <3>2. Usage' <= Usage + 1
      BY <2>3, <2>4, UsageGrows
    <3>3. Usage' <= seats' + ungated'
      BY <1>n, <2>2, <3>1, <3>2
    <3> QED BY <2>6, <3>3, NobodyInserts
  <2> QED BY <2>1, <2>7, <2>8
<1>2. ASSUME NEW r \in Req, RegisterAccept(r) PROVE Reserved' /\ SeatCap'
  <2>i. PICK i \in Inv : i = req[r].row
    BY <1>2, AcceptEffect
  <2>1. /\ IsPending(i) /\ inv'[i].status = "accepted"
        /\ \A j \in Inv \ {i} : inv'[j] = inv[j]
        /\ req' = [req EXCEPT ![r] = Idle]
        /\ UNCHANGED <<seats, ungated>>
    BY <1>2, <2>i, AcceptEffect
  <2>2. /\ ~ TenantLocked /\ (inv[i].age = Overdue => ~ AtCap)
        /\ member' = [member EXCEPT ![req[r].who] = IF @ = "none" THEN "active" ELSE @]
    BY <1>2, <2>i DEF RegisterAccept, SeatForLate, InsertMember
  <2>3. \A s \in Req : req'[s].at # "insert"
    BY <1>L, <2>1, <2>2
  <2>4. ActiveSet' \subseteq ActiveSet \cup {req[r].who} /\ HeldSet' \subseteq HeldSet \ {i}
    BY <1>m, <2>1, <2>2 DEF ActiveSet, HeldSet, IsPending
  <2>5. CASE inv[i].age # Overdue
    <3>1. i \in HeldSet
      BY <2>1, <2>5 DEF HeldSet
    <3>2. Usage' <= Usage
      BY <2>4, <3>1, UsageTrades
    <3> QED BY <1>K, <2>1, <3>2
  <2>6. CASE inv[i].age = Overdue
    <3>1. Usage < seats
      BY <1>n, <2>2, <2>6 DEF AtCap
    <3>2. Usage' <= Usage + 1
      BY <2>4, UsageGrows
    <3>3. Usage' <= seats' + ungated'
      BY <1>n, <2>1, <3>1, <3>2
    <3> QED BY <2>3, <3>3, NobodyInserts
  <2> QED BY <2>5, <2>6
<1>3. ASSUME NEW r \in Req, RegisterPlain(r) PROVE Reserved' /\ SeatCap'
  <2>1. /\ ~ TenantLocked /\ req' = [req EXCEPT ![r] = Idle] /\ UNCHANGED <<inv, seats>>
        /\ member' = [member EXCEPT ![req[r].who] = IF @ = "none" THEN "active" ELSE @]
        /\ ungated' = IF member[req[r].who] = "none" THEN ungated + 1 ELSE ungated
    BY <1>3 DEF RegisterPlain, Finish, InsertMember
  <2>2. \A s \in Req : req'[s].at # "insert"
    BY <1>L, <2>1
  <2>3. HeldSet' = HeldSet
    BY <2>1 DEF HeldSet, IsPending
  <2>4. CASE member[req[r].who] = "none"
    <3>1. ActiveSet' \subseteq ActiveSet \cup {req[r].who}
      BY <1>m, <2>1 DEF ActiveSet
    <3>2. Usage' <= Usage + 1
      BY <2>3, <3>1, UsageGrows
    <3>3. Usage' <= seats' + ungated'
      BY <1>n, <2>1, <2>4, <3>2 DEF SeatCap
    <3> QED BY <2>2, <3>3, NobodyInserts
  <2>5. CASE member[req[r].who] # "none"
    <3>1. ActiveSet' \subseteq ActiveSet
      BY <1>m, <2>1, <2>5 DEF ActiveSet
    <3>2. Usage' <= Usage
      BY <2>3, <3>1, UsageKeeps
    <3> QED BY <1>K, <2>1, <2>5, <3>2
  <2> QED BY <2>4, <2>5
<1>4. ASSUME UNCHANGED <<member, seats, ungated>>,
             \A j \in Inv : inv'[j].status = "pending" =>
               inv[j].status = "pending" /\ (inv[j].age = Overdue => inv'[j].age = Overdue)
      PROVE  Reserved' /\ SeatCap'
  <2>1. HeldSet' \subseteq HeldSet
    BY <1>4 DEF HeldSet, IsPending
  <2>2. Usage' <= Usage
    BY <1>4, <1>A, <2>1, UsageKeeps
  <2> QED BY <1>4, <1>K, <2>2
<1>5. ASSUME NEW r \in Req, RevokeMark(r) PROVE Reserved' /\ SeatCap'
  BY <1>4, <1>5, MarkEffect
<1>6. ASSUME NEW r \in Req, NEW i \in Inv, RevokeStatus(r, i) PROVE Reserved' /\ SeatCap'
  BY <1>4, <1>6, RevokeEffect
<1>7. CASE ExpireOverdue
  BY <1>4, <1>7, ExpireEffect
<1>8. CASE CleanupClear
  BY <1>4, <1>8, ClearEffect
<1>9. ASSUME NEW i \in Inv, Tick(i) PROVE Reserved' /\ SeatCap'
  BY <1>4, <1>9, TickEffect
<1>10. ASSUME NEW n \in 0..MaxSeats, SeatsChanged(n) PROVE Reserved' /\ SeatCap'
  <2>1. /\ ~ TenantLocked /\ UNCHANGED <<inv, member, req>> /\ seats' = n
        /\ ungated' = IF n < seats THEN ungated + (seats - n) ELSE ungated
    BY <1>10 DEF SeatsChanged
  <2>2. Usage' = Usage
    BY <1>U, <2>1
  <2>3. n \in Nat /\ Usage <= seats + ungated
    BY SeatAssumption DEF SeatCap
  <2>4. seats + ungated <= seats' + ungated'
    BY <1>n, <2>1, <2>3
  <2>5. Usage' <= seats' + ungated'
    BY <1>n, <2>1, <2>2, <2>3, <2>4
  <2>6. \A s \in Req : req'[s].at # "insert"
    BY <2>1 DEF TenantLocked
  <2> QED BY <2>5, <2>6, NobodyInserts
<1>11. ASSUME NEW p \in Person, Reactivate(p) PROVE Reserved' /\ SeatCap'
  <2>1. /\ UNCHANGED <<inv, seats, req>> /\ ungated' = ungated + 1
        /\ member' = [member EXCEPT ![p] = "active"]
    BY <1>11 DEF Reactivate
  <2>2. ActiveSet' \subseteq ActiveSet \cup {p} /\ HeldSet' = HeldSet
    BY <1>m, <2>1 DEF ActiveSet, HeldSet, IsPending
  <2>3. Usage' <= Usage + 1
    BY <2>2, UsageGrows
  <2>4. SeatCap'
    BY <1>n, <2>1, <2>3 DEF SeatCap
  <2>5. Usage < seats + ungated => Usage' < seats' + ungated'
    BY <1>n, <2>1, <2>3
  <2> QED BY <2>1, <2>4, <2>5 DEF Reserved
<1>12. ASSUME NEW p \in Person, NEW status \in {"suspended", "none"}, LeaveSeat(p, status)
       PROVE  Reserved' /\ SeatCap'
  <2>1. /\ UNCHANGED <<inv, seats, ungated>>
        /\ member' = [member EXCEPT ![p] = status]
    BY <1>12 DEF LeaveSeat
  <2>2. ActiveSet' \subseteq ActiveSet /\ HeldSet' = HeldSet
    BY <1>m, <2>1 DEF ActiveSet, HeldSet, IsPending
  <2>3. Usage' <= Usage
    BY <2>2, UsageKeeps
  <2> QED BY <1>K, <2>1, <2>3
<1>13. ASSUME NEW r \in Req, NEW p \in Person,
              InviteCreateUser(r, p) \/ InviteGiveUp(r, p) \/ RegisterLookup(r, p)
       PROVE  Reserved' /\ SeatCap'
  BY <1>13, <1>F DEF InviteCreateUser, InviteGiveUp, RegisterLookup
<1>14. ASSUME NEW r \in Req,
              InviteRefused(r) \/ InviteTxFails(r) \/ InviteUndo(r) \/ Crash(r)
       PROVE  Reserved' /\ SeatCap'
  BY <1>14, <1>F DEF InviteRefused, InviteTxFails, InviteUndo, Crash
<1>15. CASE \/ ExpirySelect \/ ExpiryFails \/ CleanupSkip \/ SeatOverageReconcile
            \/ UNCHANGED vars \/ \E i \in Inv : CleanupDelete(i)
  BY <1>15, <1>F DEF ExpirySelect, ExpiryFails, CleanupSkip, CleanupDelete, SeatOverageReconcile,
     vars
<1>16. ASSUME NEW p \in Person, Onboard(p) PROVE Reserved' /\ SeatCap'
  BY <1>16, <1>F DEF Onboard
<1>17. ASSUME NEW r \in Req, Request(r) \/ Progress(r) PROVE Reserved' /\ SeatCap'
  BY <1>1, <1>2, <1>3, <1>5, <1>6, <1>13, <1>14, <1>17, <1>c DEF Request, Progress
<1>18. CASE Outside
  BY <1>9, <1>10, <1>11, <1>12, <1>16, <1>18 DEF Outside
<1> QED BY <1>7, <1>8, <1>15, <1>17, <1>18 DEF Next, ExpiryStep, CleanupStep

(* SEAT-1 and SEAT-4, for any number of people, rows, goroutines and seats:  *)
(* the usage never exceeds the licence by more than what was taken outside   *)
(* the check under the tenants row lock.                                     *)
THEOREM SeatsAreCapped == Spec => []SeatCap
<1>1. Init => Reserved /\ SeatCap
  <2> SUFFICES ASSUME Init PROVE Reserved /\ SeatCap
    OBVIOUS
  <2>1. \A r \in Req : req[r].at = "idle"
    BY DEF Init, Idle
  <2>2. ActiveSet = {} /\ HeldSet = {}
    BY DEF Init, ActiveSet, HeldSet, IsPending, NoRow
  <2>3. Usage = BaseMembers
    BY <2>2, FS_EmptySet, UsageParts
  <2>4. BaseMembers \in Nat /\ InitSeats \in Nat /\ BaseMembers <= InitSeats
    BY SeatAssumption
  <2> QED BY <2>1, <2>3, <2>4 DEF Init, Reserved, SeatCap
<1> QED BY <1>1, SeatStep, TypesHold, PTL DEF Spec
=============================================================================
