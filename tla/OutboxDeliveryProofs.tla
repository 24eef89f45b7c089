----------------------- MODULE OutboxDeliveryProofs -------------------------
(***************************************************************************)
(* Theorems of OutboxDelivery for any number of keys, transactions, events *)
(* and attempts: what the runner marks published was sent, a clean         *)
(* shutdown leaves nothing behind, and the outbox implements EventLog.     *)
(***************************************************************************)
EXTENDS OutboxDelivery, FiniteSetTheorems, WellFoundedInduction, TLAPS

-----------------------------------------------------------------------------
(* The rows of the table are finitely many, in an order. *)
Rows == {e \in Event : status[e] # "none"}

RowsOrdered ==
  /\ IsFiniteSet(Rows)
  /\ \A e \in Event : older[e] \subseteq Rows \ {e}
  /\ \A e \in Event \ Rows : older[e] = {}
  /\ \A e \in Event : \A f \in older[e] : older[f] \subseteq older[e]

(* The advisory lock: the open rows of a key are of one transaction. *)
KeyHeld ==
  \A e, f \in Event :
    status[e] = "open" /\ status[f] = "open" /\ KeyOf(e) = KeyOf(f) => e[1] = f[1]

(* An open row is behind the pending ones of its key and behind those its    *)
(* own transaction inserted earlier, ...                                     *)
OpenBehind ==
  \A e, f \in Event :
    /\ status[e] = "open" /\ status[f] = "pending" /\ KeyOf(f) = KeyOf(e) => f \in older[e]
    /\ status[e] = "open" /\ f[1] = e[1] /\ f[2] < e[2] => f \in older[e]

(* ... which makes insertion order commit order among the pending rows.      *)
PendingBehind ==
  \A e, f \in Event :
    status[e] = "pending" /\ status[f] = "pending" /\ f \in Prior(e) => f \in older[e]

(* The commits are in an order. *)
CommitsOrdered ==
  \A t, u \in Tx : tx[t].at = "done" /\ tx[u].at = "done" =>
    /\ t \notin before[t]
    /\ t # u => (t \in before[u] <=> u \notin before[t])
    /\ t \in before[u] => before[t] \subseteq before[u]
CommitsKnown ==
  \A t \in Tx : \A u \in before[t] : tx[t].at = "done" /\ tx[u].at = "done"

Table ==
  /\ TypeOK /\ RowsOrdered /\ KeyHeld /\ OpenBehind /\ PendingBehind
  /\ CommitsOrdered /\ CommitsKnown

(* What the runner has claimed is next in its key's log, and what its lanes  *)
(* did not list as failed was sent.                                          *)
Claimed ==
  /\ runner.failed \subseteq runner.batch
  /\ runner.at = "idle" => runner.batch = {}
  /\ \A e \in runner.batch :
       status[e] = "pending" /\ \A f \in Prior(e) : Resolved(f)
LanesSent ==
  /\ runner.at = "tenant" => Lane("membership") \ runner.failed \subseteq out
  /\ runner.at = "mark" => runner.batch \ runner.failed \subseteq out
OutCommitted == \A e \in out : Committed(e)

Delivery == Claimed /\ LanesSent /\ OutCommitted /\ PublishedWasSent

(* After a drain in time, and after the end of the process, no transaction   *)
(* runs; after a flush in time, nothing is left to commit or to publish.     *)
DrainedOut ==
  phase = "down" \/ (clean /\ phase \in {"flushing", "closing"}) => \A t \in Tx : ~Running(t)
FlushedOut ==
  clean /\ phase \in {"closing", "down"} => \A e \in Event : status[e] \notin {"open", "pending"}

Shutdown == DrainedOut /\ FlushedOut

Inductive == Table /\ Delivery /\ Shutdown
-----------------------------------------------------------------------------
LEMMA EventParts ==
  ASSUME NEW e \in Event
  PROVE  e[1] \in Tx /\ e[2] \in 1..MaxBody /\ e = <<e[1], e[2]>>
BY DEF Event

LEMMA EventMade ==
  ASSUME NEW t \in Tx, NEW n \in 1..MaxBody
  PROVE  <<t, n>> \in Event /\ <<t, n>>[1] = t /\ <<t, n>>[2] = n
BY DEF Event

LEMMA TxFields ==
  ASSUME TypeOK, NEW t \in Tx
  PROVE  /\ tx[t] \in TxRec
         /\ tx[t].at \in {"idle", "run", "done", "failed"}
         /\ tx[t].done \in Nat /\ tx[t].done <= MaxBody
         /\ tx[t].tries \in 0..MaxTries
BY BoundAssumption DEF TypeOK, TxRec

LEMMA LenFacts ==
  ASSUME NEW S, NEW s \in Seq(S)
  PROVE  Len(s) \in Nat /\ \A i \in 1..Len(s) : s[i] \in S
OBVIOUS

LEMMA BodyFields ==
  ASSUME TypeOK, NEW t \in Tx, tx[t].at \in {"run", "done"}
  PROVE  /\ tx[t].body \in Seq([key : Key, topic : {"membership", "tenant"}])
         /\ Len(tx[t].body) \in Nat /\ Len(tx[t].body) <= MaxBody
         /\ tx[t].body \in Body /\ tx[t].done <= Len(tx[t].body)
<1>1. tx[t].body \in Body /\ tx[t].done <= Len(tx[t].body)
  BY DEF TypeOK
<1>2. tx[t].body \in Seq([key : Key, topic : {"membership", "tenant"}]) /\ Len(tx[t].body) <= MaxBody
  BY <1>1, BodyAssumption
<1>3. Len(tx[t].body) \in Nat
  BY <1>2, LenFacts
<1>4. QED
  BY <1>1, <1>2, <1>3

LEMMA CommittedFields ==
  ASSUME TypeOK, NEW e \in Event, Committed(e)
  PROVE  KeyOf(e) \in Key /\ TopicForEvent(e) \in {"membership", "tenant"}
<1>1. e[1] \in Tx /\ e[2] \in 1..MaxBody /\ tx[e[1]].at = "done" /\ e[2] <= tx[e[1]].done
  BY EventParts DEF Committed
<1>2. /\ tx[e[1]].body \in Seq([key : Key, topic : {"membership", "tenant"}])
      /\ tx[e[1]].done <= Len(tx[e[1]].body) /\ Len(tx[e[1]].body) \in Nat
      /\ tx[e[1]].done \in Nat
  BY <1>1, BodyFields, TxFields
<1>3. e[2] \in 1..Len(tx[e[1]].body)
  BY <1>1, <1>2
<1>4. tx[e[1]].body[e[2]] \in [key : Key, topic : {"membership", "tenant"}]
  BY <1>2, <1>3, LenFacts
<1>5. QED
  BY <1>4 DEF KeyOf, TopicForEvent

LEMMA StatusFacts ==
  ASSUME TypeOK, NEW e \in Event
  PROVE  /\ status[e] \in Status
         /\ status[e] = "open" <=> Running(e[1]) /\ e[2] <= tx[e[1]].done
         /\ status[e] \notin {"none", "open"} <=> Committed(e)
BY DEF TypeOK

LEMMA RunnerFields ==
  ASSUME TypeOK
  PROVE  /\ runner \in RunnerRec
         /\ runner.at \in {"idle", "membership", "tenant", "mark"}
         /\ runner.batch \subseteq Event /\ runner.failed \subseteq Event /\ runner.retry \subseteq Event
BY DEF TypeOK, RunnerRec

LEMMA IdleFields ==
  /\ RunnerIdle \in RunnerRec
  /\ RunnerIdle.at = "idle" /\ RunnerIdle.batch = {} /\ RunnerIdle.failed = {}
BY DEF RunnerIdle, RunnerRec

LEMMA FailedFields ==
  /\ TxFailed \in TxRec /\ TxFailed.at = "failed" /\ TxFailed.done = 0
BY BoundAssumption DEF TxFailed, TxIdle, TxRec

-----------------------------------------------------------------------------
(* Steps that commit nothing leave the history alone. *)
HistoryQuiet ==
  /\ before' = before
  /\ \A u \in Tx : tx[u].at = "done" \/ tx'[u].at = "done" => tx'[u] = tx[u]

LEMMA HistoryKept ==
  ASSUME HistoryQuiet
  PROVE  /\ \A e \in Event : Committed(e)' <=> Committed(e)
         /\ \A e \in Event : Committed(e) =>
              KeyOf(e)' = KeyOf(e) /\ TopicForEvent(e)' = TopicForEvent(e)
         /\ \A e \in Event : Prior(e)' = Prior(e)
         /\ \A k \in Key : LogOf(k)' = LogOf(k)
<1>1. ASSUME NEW e \in Event
      PROVE  Committed(e)' <=> Committed(e)
  BY EventParts DEF HistoryQuiet, Committed
<1>2. ASSUME NEW e \in Event, Committed(e)
      PROVE  KeyOf(e)' = KeyOf(e) /\ TopicForEvent(e)' = TopicForEvent(e)
  BY <1>2, EventParts DEF HistoryQuiet, Committed, KeyOf, TopicForEvent
<1>3. ASSUME NEW e \in Event
      PROVE  Prior(e)' = Prior(e)
  <2>1. ASSUME NEW f \in Event
        PROVE  f \in Prior(e)' <=> f \in Prior(e)
    <3>1. before'[e[1]] = before[e[1]]
      BY DEF HistoryQuiet
    <3>2. QED
      BY <1>1, <1>2, <3>1 DEF Prior
  <2>2. Prior(e)' \subseteq Event /\ Prior(e) \subseteq Event
    BY DEF Prior
  <2>3. QED
    BY <2>1, <2>2
<1>4. ASSUME NEW k \in Key
      PROVE  LogOf(k)' = LogOf(k)
  BY <1>1, <1>2 DEF LogOf
<1>5. QED
  BY <1>1, <1>2, <1>3, <1>4

(* What Begin, the rollbacks and the runner do to the table: rows go, and    *)
(* the others keep their order.                                              *)
Shrinks ==
  /\ HistoryQuiet
  /\ \A e \in Event :
       /\ status'[e] # "none" => status[e] # "none" /\ tx'[e[1]].body = tx[e[1]].body
       /\ status'[e] \in {"open", "pending"} => status'[e] = status[e]
       /\ older'[e] = IF status'[e] = "none" THEN {} ELSE older[e] \cap Rows'

LEMMA ShrinkKeepsTable ==
  ASSUME Table, TypeOK', Shrinks
  PROVE  Table'
<1> USE DEF Table
<1>1. ASSUME NEW e \in Event, status'[e] # "none"
      PROVE  status[e] # "none" /\ KeyOf(e)' = KeyOf(e)
  BY <1>1, EventParts DEF Shrinks, KeyOf
<1>2. Rows' \subseteq Rows
  BY <1>1 DEF Rows
<1>3. ASSUME NEW e \in Event
      PROVE  older'[e] = IF status'[e] = "none" THEN {} ELSE older[e] \cap Rows'
  BY DEF Shrinks
<1>4. RowsOrdered'
  <2>1. IsFiniteSet(Rows')
    BY <1>2, FS_Subset DEF RowsOrdered
  <2>2. ASSUME NEW e \in Event
        PROVE  older'[e] \subseteq Rows' \ {e}
    <3>1. older[e] \subseteq Rows \ {e}
      BY DEF RowsOrdered
    <3>2. older'[e] \subseteq older[e] \cap Rows'
      BY <1>3
    <3>3. QED
      BY <3>1, <3>2
  <2>3. ASSUME NEW e \in Event, e \notin Rows'
        PROVE  older'[e] = {}
    BY <1>3, <2>3 DEF Rows
  <2>4. ASSUME NEW e \in Event, NEW f \in older'[e]
        PROVE  older'[f] \subseteq older'[e]
    <3>1. f \in older[e] /\ f \in Rows' /\ f \in Event /\ status'[e] # "none"
      BY <1>3, <2>4 DEF Rows
    <3>2. older[f] \subseteq older[e]
      BY <3>1 DEF RowsOrdered
    <3>3. QED
      BY <1>3, <3>1, <3>2
  <2>5. QED
    BY <2>1, <2>2, <2>3, <2>4 DEF RowsOrdered
<1>5. ASSUME NEW e \in Event, status'[e] \in {"open", "pending"}
      PROVE  status[e] = status'[e] /\ KeyOf(e)' = KeyOf(e) /\ e \in Rows'
  BY <1>1, <1>5 DEF Shrinks, Rows
<1>6. KeyHeld'
  BY <1>5 DEF KeyHeld
<1>7. OpenBehind'
  <2>1. ASSUME NEW e \in Event, NEW f \in Event, status'[e] = "open", status'[f] = "pending",
               KeyOf(f)' = KeyOf(e)'
        PROVE  f \in older'[e]
    <3>1. f \in older[e] /\ f \in Rows' /\ status'[e] # "none"
      BY <1>5, <2>1 DEF OpenBehind
    <3>2. QED
      BY <1>3, <3>1
  <2>2. ASSUME NEW e \in Event, NEW f \in Event, status'[e] = "open", f[1] = e[1], f[2] < e[2]
        PROVE  f \in older'[e]
    <3>1. f \in older[e] /\ status'[e] # "none"
      BY <1>5, <2>2 DEF OpenBehind
    <3>2. Running(e[1])' /\ e[2] <= tx'[e[1]].done /\ tx'[e[1]].done \in Nat
      BY <2>2, EventParts DEF TypeOK, TxRec
    <3>3. f[2] <= tx'[f[1]].done /\ Running(f[1])'
      BY <2>2, <3>2, EventParts
    <3>4. status'[f] = "open"
      BY <3>3 DEF TypeOK
    <3>5. QED
      BY <1>3, <1>5, <3>1, <3>4
  <2>3. QED
    BY <2>1, <2>2 DEF OpenBehind
<1>8. PendingBehind'
  <2>1. ASSUME NEW e \in Event, NEW f \in Event, status'[e] = "pending", status'[f] = "pending",
               f \in Prior(e)'
        PROVE  f \in older'[e]
    <3>1. f \in Prior(e)
      BY <2>1, HistoryKept DEF Shrinks
    <3>2. f \in older[e] /\ f \in Rows' /\ status'[e] # "none"
      BY <1>5, <2>1, <3>1 DEF PendingBehind
    <3>3. QED
      BY <1>3, <3>2
  <2>2. QED
    BY <2>1 DEF PendingBehind
<1>9. \A u \in Tx : tx'[u].at = "done" <=> tx[u].at = "done"
  BY DEF Shrinks, HistoryQuiet
<1>10. CommitsOrdered' /\ CommitsKnown'
  <2>1. before' = before
    BY DEF Shrinks, HistoryQuiet
  <2>2. before \in [Tx -> SUBSET Tx]
    BY DEF TypeOK
  <2>3. QED
    BY <1>9, <2>1, <2>2 DEF CommitsOrdered, CommitsKnown
<1>11. QED
  BY <1>4, <1>6, <1>7, <1>8, <1>10

-----------------------------------------------------------------------------
(* Enqueue inserts one row, behind all others. *)
LEMMA EnqueueEffect ==
  ASSUME TypeOK, NEW t \in Tx, Enqueue(t), NEW x, x = <<t, tx[t].done + 1>>
  PROVE  /\ x \in Event /\ x[1] = t /\ x[2] = tx[t].done + 1 /\ status[x] = "none"
         /\ tx'[t] \in TxRec /\ tx'[t].done = tx[t].done + 1 /\ tx'[t].at = "run"
         /\ tx[t].at = "run" /\ tx'[t].body = tx[t].body /\ tx[t].done < Len(tx[t].body)
         /\ tx' \in [Tx -> TxRec] /\ \A u \in Tx \ {t} : tx'[u] = tx[u]
         /\ status'[x] = "open" /\ \A e \in Event \ {x} : status'[e] = status[e]
         /\ older'[x] = Rows /\ \A e \in Event \ {x} : older'[e] = older[e]
         /\ KeyOf(x) = NextKey(t)
<1>1. /\ tx[t].at = "run" /\ tx[t].done < Len(tx[t].body) /\ tx[t].done \in Nat
      /\ Len(tx[t].body) \in Nat /\ Len(tx[t].body) <= MaxBody
  BY BodyFields, TxFields DEF Enqueue, Unfinished, Running
<1>2. tx[t].done + 1 \in 1..MaxBody
  BY <1>1, BoundAssumption
<1>3. x \in Event /\ x[1] = t /\ x[2] = tx[t].done + 1
  BY <1>2, EventMade
<1>4. status[x] = "none"
  <2>1. ~(x[2] <= tx[x[1]].done)
    BY <1>1, <1>3
  <2>2. QED
    BY <1>3, <2>1, StatusFacts DEF Committed
<1> DEFINE n == [tx[t] EXCEPT !.done = @ + 1]
<1>6. tx \in [Tx -> TxRec] /\ tx[t] \in TxRec
  BY DEF TypeOK
<1>7. n \in TxRec /\ n.done = tx[t].done + 1 /\ n.at = tx[t].at /\ n.body = tx[t].body
  BY <1>1, <1>2, <1>6 DEF TxRec
<1>8. tx' = [tx EXCEPT ![t] = n]
  BY DEF Enqueue
<1> HIDE DEF n
<1>9. tx' \in [Tx -> TxRec] /\ tx'[t] = n /\ \A u \in Tx \ {t} : tx'[u] = tx[u]
  BY <1>6, <1>7, <1>8
<1>10. /\ status'[x] = "open" /\ \A e \in Event \ {x} : status'[e] = status[e]
       /\ older'[x] = Rows /\ \A e \in Event \ {x} : older'[e] = older[e]
  BY <1>3 DEF Enqueue, TypeOK, Rows
<1>11. KeyOf(x) = NextKey(t)
  BY <1>3 DEF KeyOf, NextKey
<1>12. QED
  BY <1>1, <1>3, <1>4, <1>7, <1>9, <1>10, <1>11

LEMMA EnqueueQuiet ==
  ASSUME TypeOK, NEW t \in Tx, Enqueue(t)
  PROVE  HistoryQuiet
<1>1. PICK x : x = <<t, tx[t].done + 1>>
  OBVIOUS
<1>2. QED
  BY <1>1, EnqueueEffect DEF Enqueue, HistoryQuiet

LEMMA EnqueueTyped ==
  ASSUME TypeOK, NEW t \in Tx, Enqueue(t)
  PROVE  TypeOK'
<1>1. PICK x : x = <<t, tx[t].done + 1>>
  OBVIOUS
<1>2. /\ x \in Event /\ x[1] = t /\ x[2] = tx[t].done + 1 /\ status[x] = "none"
      /\ tx'[t].done = tx[t].done + 1 /\ tx'[t].at = "run"
      /\ tx[t].at = "run" /\ tx'[t].body = tx[t].body /\ tx[t].done < Len(tx[t].body)
      /\ tx' \in [Tx -> TxRec] /\ \A u \in Tx \ {t} : tx'[u] = tx[u]
      /\ status'[x] = "open" /\ \A e \in Event \ {x} : status'[e] = status[e]
  BY <1>1, EnqueueEffect
<1>3. /\ older' \in [Event -> SUBSET Event] /\ status' \in [Event -> Status]
  BY DEF Enqueue, TypeOK, Status
<1>4. ASSUME NEW u \in Tx
      PROVE  IF tx'[u].at \in {"run", "done"}
               THEN tx'[u].body \in Body /\ tx'[u].done <= Len(tx'[u].body)
               ELSE tx'[u].done = 0
  <2>1. CASE u = t
    BY <1>2, <2>1, BodyFields, TxFields
  <2>2. CASE u # t
    BY <1>2, <2>2 DEF TypeOK
  <2>3. QED
    BY <2>1, <2>2
<1>5. ASSUME NEW e \in Event
      PROVE  /\ status'[e] = "open" <=> Running(e[1])' /\ e[2] <= tx'[e[1]].done
             /\ status'[e] \notin {"none", "open"} <=> Committed(e)'
  <2>1. CASE e = x
    BY <1>2, <2>1, TxFields DEF Running, Committed
  <2>2. CASE e # x /\ e[1] = t
    <3>1. e[2] # x[2]
      BY <1>2, <2>2, EventParts
    <3>2. e[2] <= tx'[e[1]].done <=> e[2] <= tx[e[1]].done
      BY <1>2, <2>2, <3>1, TxFields, EventParts
    <3>3. QED
      BY <1>2, <2>2, <3>2, StatusFacts DEF Running, Committed
  <2>3. CASE e # x /\ e[1] # t
    <3>1. tx'[e[1]] = tx[e[1]] /\ status'[e] = status[e]
      BY <1>2, <2>3, EventParts
    <3>2. QED
      BY <3>1, StatusFacts DEF Running, Committed
  <2>4. QED
    BY <2>1, <2>2, <2>3
<1>6. QED
  BY <1>2, <1>3, <1>4, <1>5 DEF TypeOK, Enqueue

LEMMA EnqueueKeepsTable ==
  ASSUME Table, NEW t \in Tx, Enqueue(t)
  PROVE  Table'
<1> USE DEF Table
<1>1. PICK x : x = <<t, tx[t].done + 1>>
  OBVIOUS
<1>2. /\ x \in Event /\ x[1] = t /\ x[2] = tx[t].done + 1 /\ status[x] = "none"
      /\ tx'[t].done = tx[t].done + 1 /\ tx'[t].at = "run"
      /\ tx[t].at = "run" /\ tx'[t].body = tx[t].body
      /\ \A u \in Tx \ {t} : tx'[u] = tx[u]
      /\ status'[x] = "open" /\ \A e \in Event \ {x} : status'[e] = status[e]
      /\ older'[x] = Rows /\ \A e \in Event \ {x} : older'[e] = older[e]
      /\ KeyOf(x) = NextKey(t)
  BY <1>1, EnqueueEffect
<1>3. TypeOK'
  BY EnqueueTyped
<1>4. \A e \in Event : KeyOf(e)' = KeyOf(e)
  BY <1>2, EventParts DEF KeyOf
<1>5. Rows' = Rows \cup {x} /\ x \notin Rows
  BY <1>2 DEF Rows
<1>6. RowsOrdered'
  <2>1. IsFiniteSet(Rows')
    BY <1>5, FS_AddElement DEF RowsOrdered
  <2>2. ASSUME NEW e \in Event
        PROVE  older'[e] \subseteq Rows' \ {e}
    <3>1. CASE e = x
      BY <1>2, <1>5, <3>1
    <3>2. CASE e # x
      BY <1>2, <1>5, <3>2 DEF RowsOrdered
    <3>3. QED
      BY <3>1, <3>2
  <2>3. ASSUME NEW e \in Event, e \notin Rows'
        PROVE  older'[e] = {}
    BY <1>2, <1>5, <2>3 DEF RowsOrdered
  <2>4. ASSUME NEW e \in Event, NEW f \in older'[e]
        PROVE  older'[f] \subseteq older'[e]
    <3>1. f \in Rows /\ f \in Event /\ f # x
      BY <1>2, <1>5, <2>4 DEF RowsOrdered, Rows
    <3>2. older'[f] = older[f] /\ older[f] \subseteq Rows
      BY <1>2, <3>1 DEF RowsOrdered
    <3>3. CASE e = x
      BY <1>2, <3>2, <3>3
    <3>4. CASE e # x
      BY <1>2, <2>4, <3>2, <3>4 DEF RowsOrdered
    <3>5. QED
      BY <3>3, <3>4
  <2>5. QED
    BY <2>1, <2>2, <2>3, <2>4 DEF RowsOrdered
<1>7. ASSUME NEW f \in Event, status[f] = "open", KeyOf(f) = KeyOf(x)
      PROVE  f[1] = t
  <2>1. f[1] \in Tx /\ Running(f[1]) /\ f[2] <= tx[f[1]].done /\ f[2] \in 1..MaxBody /\ f = <<f[1], f[2]>>
    BY <1>7, StatusFacts, EventParts
  <2>2. f[2] \in 1..tx[f[1]].done
    BY <2>1, TxFields
  <2>3. f \in Enqueued(f[1])
    BY <2>1, <2>2 DEF Enqueued
  <2>4. NextKey(t) \in Locks(f[1])
    BY <1>2, <1>7, <2>1, <2>3 DEF Locks
  <2>5. Blockers(t, NextKey(t)) = {}
    BY DEF Enqueue
  <2>6. QED
    BY <2>1, <2>4, <2>5 DEF Blockers
<1>8. KeyHeld'
  <2>1. ASSUME NEW e \in Event, NEW f \in Event, status'[e] = "open", status'[f] = "open",
               KeyOf(e) = KeyOf(f)
        PROVE  e[1] = f[1]
    <3>1. CASE e = x
      BY <1>2, <1>7, <2>1, <3>1
    <3>2. CASE f = x
      BY <1>2, <1>7, <2>1, <3>2
    <3>3. CASE e # x /\ f # x
      BY <1>2, <2>1, <3>3 DEF KeyHeld
    <3>4. QED
      BY <3>1, <3>2, <3>3
  <2>2. QED
    BY <1>4, <2>1 DEF KeyHeld
<1>9. OpenBehind'
  <2>1. ASSUME NEW e \in Event, NEW f \in Event, status'[e] = "open", status'[f] = "pending",
               KeyOf(f) = KeyOf(e)
        PROVE  f \in older'[e]
    <3>1. f # x /\ status[f] = "pending" /\ f \in Rows
      BY <1>2, <2>1 DEF Rows
    <3>2. QED
      BY <1>2, <2>1, <3>1 DEF OpenBehind
  <2>2. ASSUME NEW e \in Event, NEW f \in Event, status'[e] = "open", f[1] = e[1], f[2] < e[2]
        PROVE  f \in older'[e]
    <3>1. CASE e = x
      <4>1. f[2] <= tx[t].done /\ Running(f[1]) /\ f[1] = t
        BY <1>2, <2>2, <3>1, TxFields, EventParts DEF Running
      <4>2. status[f] = "open"
        BY <4>1, StatusFacts
      <4>3. QED
        BY <1>2, <3>1, <4>2 DEF Rows
    <3>2. CASE e # x
      BY <1>2, <2>2, <3>2 DEF OpenBehind
    <3>3. QED
      BY <3>1, <3>2
  <2>3. QED
    BY <1>4, <2>1, <2>2 DEF OpenBehind
<1>10. PendingBehind'
  <2>1. ASSUME NEW e \in Event, NEW f \in Event, status'[e] = "pending", status'[f] = "pending",
               f \in Prior(e)
        PROVE  f \in older'[e]
    <3>1. e # x /\ f # x
      BY <1>2, <2>1
    <3>2. QED
      BY <1>2, <2>1, <3>1 DEF PendingBehind
  <2>2. QED
    BY <2>1, HistoryKept, EnqueueQuiet DEF PendingBehind
<1>11. CommitsOrdered' /\ CommitsKnown'
  <2>1. before' = before /\ before \in [Tx -> SUBSET Tx]
    BY DEF Enqueue, TypeOK
  <2>2. \A u \in Tx : tx'[u].at = "done" <=> tx[u].at = "done"
    BY <1>2
  <2>3. QED
    BY <2>1, <2>2 DEF CommitsOrdered, CommitsKnown
<1>12. QED
  BY <1>3, <1>6, <1>8, <1>9, <1>10, <1>11

-----------------------------------------------------------------------------
(* Commit turns the open rows of a transaction pending, and puts it last in  *)
(* the order of commits.                                                     *)
LEMMA CommitEffect ==
  ASSUME TypeOK, NEW t \in Tx, Commit(t)
  PROVE  /\ tx[t].at = "run" /\ tx'[t].at = "done" /\ tx'[t].done = tx[t].done
         /\ \A u \in Tx : tx'[u].body = tx[u].body
         /\ tx' \in [Tx -> TxRec] /\ \A u \in Tx \ {t} : tx'[u] = tx[u]
         /\ \A e \in Event : status'[e] = IF e[1] = t /\ status[e] = "open" THEN "pending" ELSE status[e]
         /\ before'[t] = {u \in Tx : tx[u].at = "done"}
         /\ \A u \in Tx \ {t} : before'[u] = before[u]
<1> DEFINE m == [tx[t] EXCEPT !.at = "done"]
           n == [m EXCEPT !.tries = 0]
<1>1. tx \in [Tx -> TxRec] /\ tx[t] \in TxRec
  BY DEF TypeOK
<1>2. n \in TxRec /\ n.at = "done" /\ n.done = tx[t].done /\ n.body = tx[t].body
  <2>1. m \in TxRec /\ m.at = "done" /\ m.done = tx[t].done /\ m.body = tx[t].body
    BY <1>1 DEF TxRec
  <2> HIDE DEF m
  <2>2. 0 \in 0..MaxTries
    BY BoundAssumption
  <2>3. n \in TxRec /\ n.at = m.at /\ n.done = m.done /\ n.body = m.body
    BY <2>1, <2>2 DEF TxRec
  <2>4. QED
    BY <2>1, <2>3
<1>3. tx' = [tx EXCEPT ![t] = n]
  BY <1>1 DEF Commit
<1> HIDE DEF n
<1>4. tx' \in [Tx -> TxRec] /\ tx'[t] = n /\ \A u \in Tx \ {t} : tx'[u] = tx[u]
  BY <1>1, <1>2, <1>3
<1>5. tx[t].at = "run"
  BY DEF Commit, Running
<1>6. ASSUME NEW e \in Event
      PROVE  status'[e] = IF e[1] = t /\ status[e] = "open" THEN "pending" ELSE status[e]
  <2>1. e \in Enqueued(t) <=> e[1] = t /\ e[2] <= tx[t].done
    <3>1. ASSUME e \in Enqueued(t)
          PROVE  e[1] = t /\ e[2] <= tx[t].done
      BY <3>1, TxFields DEF Enqueued
    <3>2. ASSUME e[1] = t, e[2] <= tx[t].done
          PROVE  e \in Enqueued(t)
      <4>1. e = <<t, e[2]>> /\ e[2] \in 1..tx[t].done
        BY <3>2, EventParts, TxFields
      <4>2. QED
        BY <4>1 DEF Enqueued
    <3>3. QED
      BY <3>1, <3>2
  <2>2. e \in Enqueued(t) <=> e[1] = t /\ status[e] = "open"
    BY <1>5, <2>1, StatusFacts DEF Running
  <2>3. QED
    BY <2>2 DEF Commit
<1>7. /\ before'[t] = {u \in Tx : tx[u].at = "done"}
      /\ \A u \in Tx \ {t} : before'[u] = before[u]
  BY DEF Commit, TypeOK
<1>8. QED
  BY <1>2, <1>4, <1>5, <1>6, <1>7

LEMMA CommitTyped ==
  ASSUME TypeOK, NEW t \in Tx, Commit(t)
  PROVE  TypeOK'
<1>1. /\ tx[t].at = "run" /\ tx'[t].at = "done" /\ tx'[t].done = tx[t].done
      /\ \A u \in Tx : tx'[u].body = tx[u].body
      /\ tx' \in [Tx -> TxRec] /\ \A u \in Tx \ {t} : tx'[u] = tx[u]
      /\ \A e \in Event : status'[e] = IF e[1] = t /\ status[e] = "open" THEN "pending" ELSE status[e]
  BY CommitEffect
<1>2. status' \in [Event -> Status]
  BY DEF Commit, TypeOK, Status
<1>3. before' \in [Tx -> SUBSET Tx]
  BY DEF Commit, TypeOK
<1>4. ASSUME NEW u \in Tx
      PROVE  IF tx'[u].at \in {"run", "done"}
               THEN tx'[u].body \in Body /\ tx'[u].done <= Len(tx'[u].body)
               ELSE tx'[u].done = 0
  <2>1. CASE u = t
    BY <1>1, <2>1, BodyFields
  <2>2. CASE u # t
    BY <1>1, <2>2 DEF TypeOK
  <2>3. QED
    BY <2>1, <2>2
<1>5. ASSUME NEW e \in Event
      PROVE  /\ status'[e] = "open" <=> Running(e[1])' /\ e[2] <= tx'[e[1]].done
             /\ status'[e] \notin {"none", "open"} <=> Committed(e)'
  <2>1. CASE e[1] = t
    BY <1>1, <2>1, StatusFacts DEF Running, Committed
  <2>2. CASE e[1] # t
    <3>1. tx'[e[1]] = tx[e[1]] /\ status'[e] = status[e]
      BY <1>1, <2>2, EventParts
    <3>2. QED
      BY <3>1, StatusFacts DEF Running, Committed
  <2>3. QED
    BY <2>1, <2>2
<1>6. QED
  BY <1>1, <1>2, <1>3, <1>4, <1>5 DEF TypeOK, Commit

(* What was committed before keeps its place. *)
LEMMA CommitHistory ==
  ASSUME Table, NEW t \in Tx, Commit(t)
  PROVE  /\ \A e \in Event : KeyOf(e)' = KeyOf(e) /\ TopicForEvent(e)' = TopicForEvent(e)
         /\ \A e \in Event : Committed(e)' <=> Committed(e) \/ (e[1] = t /\ status[e] = "open")
         /\ \A e \in Event : Committed(e) => e[1] # t /\ Prior(e)' = Prior(e)
<1> USE DEF Table
<1>1. /\ tx[t].at = "run" /\ tx'[t].at = "done" /\ tx'[t].done = tx[t].done
      /\ \A u \in Tx : tx'[u].body = tx[u].body
      /\ \A u \in Tx \ {t} : tx'[u] = tx[u]
      /\ \A u \in Tx \ {t} : before'[u] = before[u]
  BY CommitEffect
<1>2. ASSUME NEW e \in Event
      PROVE  KeyOf(e)' = KeyOf(e) /\ TopicForEvent(e)' = TopicForEvent(e)
  BY <1>1, EventParts DEF KeyOf, TopicForEvent
<1>3. ASSUME NEW e \in Event
      PROVE  Committed(e)' <=> Committed(e) \/ (e[1] = t /\ status[e] = "open")
  <2>1. CASE e[1] = t
    BY <1>1, <2>1, StatusFacts DEF Committed, Running
  <2>2. CASE e[1] # t
    BY <1>1, <2>2, EventParts DEF Committed
  <2>3. QED
    BY <2>1, <2>2
<1>4. ASSUME NEW e \in Event, Committed(e)
      PROVE  e[1] # t /\ Prior(e)' = Prior(e)
  <2>1. e[1] # t /\ e[1] \in Tx
    BY <1>1, <1>4, EventParts DEF Committed
  <2>2. before'[e[1]] = before[e[1]] /\ t \notin before[e[1]]
    BY <1>1, <2>1 DEF CommitsKnown
  <2>3. ASSUME NEW f \in Event
        PROVE  f \in Prior(e)' <=> f \in Prior(e)
    <3>1. CASE f[1] = t
      BY <2>1, <2>2, <3>1 DEF Prior
    <3>2. CASE f[1] # t
      BY <1>2, <1>3, <1>4, <2>1, <2>2, <3>2 DEF Prior
    <3>3. QED
      BY <3>1, <3>2
  <2>4. Prior(e)' \subseteq Event /\ Prior(e) \subseteq Event
    BY DEF Prior
  <2>5. QED
    BY <2>1, <2>3, <2>4
<1>5. QED
  BY <1>2, <1>3, <1>4

LEMMA CommitKeepsTable ==
  ASSUME Table, NEW t \in Tx, Commit(t)
  PROVE  Table'
<1> USE DEF Table
<1>1. /\ tx[t].at = "run" /\ tx'[t].at = "done"
      /\ \A u \in Tx \ {t} : tx'[u] = tx[u]
      /\ \A e \in Event : status'[e] = IF e[1] = t /\ status[e] = "open" THEN "pending" ELSE status[e]
      /\ before'[t] = {u \in Tx : tx[u].at = "done"}
      /\ \A u \in Tx \ {t} : before'[u] = before[u]
  BY CommitEffect
<1>2. /\ \A e \in Event : KeyOf(e)' = KeyOf(e)
      /\ \A e \in Event : Committed(e)' <=> Committed(e) \/ (e[1] = t /\ status[e] = "open")
      /\ \A e \in Event : Committed(e) => e[1] # t /\ Prior(e)' = Prior(e)
  BY CommitHistory
<1>3. TypeOK'
  BY CommitTyped
<1>4. older' = older
  BY DEF Commit
<1>5. RowsOrdered'
  <2>1. Rows' = Rows
    BY <1>1 DEF Rows
  <2>2. QED
    BY <1>4, <2>1 DEF RowsOrdered
<1>6. ASSUME NEW e \in Event, status'[e] = "open"
      PROVE  status[e] = "open" /\ e[1] # t
  BY <1>1, <1>6
<1>7. KeyHeld'
  BY <1>2, <1>6 DEF KeyHeld
<1>8. OpenBehind'
  <2>1. ASSUME NEW e \in Event, NEW f \in Event, status'[e] = "open", status'[f] = "pending",
               KeyOf(f) = KeyOf(e)
        PROVE  f \in older[e]
    <3>1. status[e] = "open" /\ e[1] # t
      BY <1>6, <2>1
    <3>2. status[f] # "open"
      BY <1>1, <2>1, <3>1 DEF KeyHeld
    <3>3. QED
      BY <1>1, <2>1, <3>1, <3>2 DEF OpenBehind
  <2>2. QED
    BY <1>2, <1>4, <1>6, <2>1 DEF OpenBehind
<1>9. PendingBehind'
  <2>1. ASSUME NEW e \in Event, NEW f \in Event, status'[e] = "pending", status'[f] = "pending",
               f \in Prior(e)'
        PROVE  f \in older[e]
    <3>1. CASE Committed(e)
      <4>1. status[e] = "pending" /\ f \in Prior(e)
        BY <1>1, <1>2, <2>1, <3>1
      <4>2. Committed(f)
        BY <4>1 DEF Prior
      <4>3. status[f] = "pending"
        BY <1>1, <1>2, <2>1, <4>2
      <4>4. QED
        BY <4>1, <4>3 DEF PendingBehind
    <3>2. CASE ~Committed(e)
      <4>1. e[1] = t /\ status[e] = "open"
        BY <1>1, <2>1, <3>2, StatusFacts
      <4>2. KeyOf(f) = KeyOf(e) /\ (f[1] \in before'[t] \/ (f[1] = t /\ f[2] < e[2]))
        BY <1>2, <2>1, <4>1 DEF Prior
      <4>3. CASE f[1] = t /\ f[2] < e[2]
        BY <4>1, <4>3 DEF OpenBehind
      <4>4. CASE f[1] \in before'[t]
        <5>1. status[f] = "pending"
          BY <1>1, <2>1, <4>4
        <5>2. QED
          BY <4>1, <4>2, <5>1 DEF OpenBehind
      <4>5. QED
        BY <4>2, <4>3, <4>4
    <3>3. QED
      BY <3>1, <3>2
  <2>2. QED
    BY <1>4, <2>1 DEF PendingBehind
<1>10. ASSUME NEW u \in Tx
       PROVE  tx'[u].at = "done" <=> u = t \/ tx[u].at = "done"
  BY <1>1
<1>11. before \in [Tx -> SUBSET Tx]
  BY DEF TypeOK
<1>12. CommitsKnown'
  <2>1. ASSUME NEW v \in Tx, NEW u \in before'[v]
        PROVE  tx'[v].at = "done" /\ tx'[u].at = "done"
    <3>1. CASE v = t
      BY <1>1, <1>10, <2>1, <3>1
    <3>2. CASE v # t
      <4>1. u \in before[v] /\ u \in Tx
        BY <1>1, <1>11, <2>1, <3>2
      <4>2. QED
        BY <1>10, <4>1 DEF CommitsKnown
    <3>3. QED
      BY <3>1, <3>2
  <2>2. QED
    BY <2>1 DEF CommitsKnown
<1>13. CommitsOrdered'
  <2>1. ASSUME NEW v \in Tx
        PROVE  t \notin before[v]
    BY <1>1 DEF CommitsKnown
  <2>2. ASSUME NEW v \in Tx, NEW u \in Tx, tx'[v].at = "done", tx'[u].at = "done"
        PROVE  /\ v \notin before'[v]
               /\ v # u => (v \in before'[u] <=> u \notin before'[v])
               /\ v \in before'[u] => before'[v] \subseteq before'[u]
    <3>1. CASE v # t /\ u # t
      BY <1>1, <1>10, <2>2, <3>1 DEF CommitsOrdered
    <3>2. CASE v = t
      <4>1. t \notin before'[t] /\ (u # t => u \in before'[t])
        BY <1>1, <1>10, <2>2
      <4>2. u # t => t \notin before'[u]
        BY <1>1, <2>1
      <4>3. QED
        BY <3>2, <4>1, <4>2
    <3>3. CASE v # t /\ u = t
      <4>1. v \in before'[t] /\ t \notin before'[v] /\ before'[v] = before[v]
        BY <1>1, <1>10, <2>1, <2>2, <3>3
      <4>2. v \notin before[v]
        BY <1>10, <2>2, <3>3 DEF CommitsOrdered
      <4>3. before[v] \subseteq before'[t]
        BY <1>1, <1>11 DEF CommitsKnown
      <4>4. QED
        BY <3>3, <4>1, <4>2, <4>3
    <3>4. QED
      BY <3>1, <3>2, <3>3
  <2>3. QED
    BY <2>2 DEF CommitsOrdered
<1>14. QED
  BY <1>3, <1>5, <1>7, <1>8, <1>9, <1>12, <1>13

-----------------------------------------------------------------------------
(* The other steps only shrink the table. *)
Typed ==
  /\ runner \in RunnerRec /\ attempts \in [Event -> 0..(MaxAttempts - 1)]
  /\ phase \in {"up", "draining", "flushing", "closing", "down"} /\ clean \in BOOLEAN
  /\ out \in SUBSET Event

LEMMA TypedHolds ==
  ASSUME TypeOK
  PROVE  Typed
BY DEF TypeOK, Typed

LEMMA BeginShrinks ==
  ASSUME Table, NEW t \in Tx, Begin(t)
  PROVE  TypeOK' /\ Shrinks
<1> USE DEF Table
<1>1. PICK b \in BodyOf[t] : tx' = [tx EXCEPT ![t] = [at |-> "run", body |-> b, done |-> 0, tries |-> 1]]
  BY DEF Begin
<1> DEFINE n == [at |-> "run", body |-> b, done |-> 0, tries |-> 1]
<1>1a. b \in Body
  BY BodyOfAssumption
<1>2. n \in TxRec /\ n.at = "run" /\ n.body = b /\ n.done = 0
  BY <1>1a, BoundAssumption DEF TxRec
<1>3. tx \in [Tx -> TxRec] /\ tx' = [tx EXCEPT ![t] = n]
  BY <1>1 DEF TypeOK
<1> HIDE DEF n
<1>4. tx' \in [Tx -> TxRec] /\ tx'[t] = n /\ \A u \in Tx \ {t} : tx'[u] = tx[u]
  BY <1>2, <1>3
<1>5. tx[t].at = "idle" /\ older' = older /\ status' = status /\ before' = before
  BY DEF Begin
<1>6. tx[t].done = 0
  BY <1>5 DEF TypeOK
<1>7. ASSUME NEW e \in Event, e[1] = t
      PROVE  status[e] = "none"
  BY <1>5, <1>7, StatusFacts DEF Running, Committed
<1>8. b \in Body /\ 0 <= Len(b)
  <2>1. b \in Seq([key : Key, topic : {"membership", "tenant"}])
    BY <1>1a, BodyAssumption
  <2>2. Len(b) \in Nat
    BY <2>1, LenFacts
  <2>3. QED
    BY <1>1a, <2>2
<1>9. ASSUME NEW u \in Tx
      PROVE  IF tx'[u].at \in {"run", "done"}
               THEN tx'[u].body \in Body /\ tx'[u].done <= Len(tx'[u].body)
               ELSE tx'[u].done = 0
  <2>1. CASE u = t
    BY <1>2, <1>4, <1>8, <2>1
  <2>2. CASE u # t
    BY <1>4, <2>2 DEF TypeOK
  <2>3. QED
    BY <2>1, <2>2
<1>10. ASSUME NEW e \in Event
       PROVE  /\ status'[e] = "open" <=> Running(e[1])' /\ e[2] <= tx'[e[1]].done
              /\ status'[e] \notin {"none", "open"} <=> Committed(e)'
  <2>1. CASE e[1] = t
    <3>1. ~(e[2] <= tx'[e[1]].done)
      BY <1>2, <1>4, <2>1, EventParts
    <3>2. QED
      BY <1>5, <1>7, <2>1, <3>1 DEF Committed
  <2>2. CASE e[1] # t
    <3>1. tx'[e[1]] = tx[e[1]] /\ status'[e] = status[e]
      BY <1>4, <1>5, <2>2, EventParts
    <3>2. QED
      BY <3>1, StatusFacts DEF Running, Committed
  <2>3. QED
    BY <2>1, <2>2
<1>11. TypeOK'
  BY <1>4, <1>9, <1>10 DEF TypeOK, Begin
<1>12. HistoryQuiet
  BY <1>2, <1>4, <1>5 DEF HistoryQuiet
<1>13. ASSUME NEW e \in Event
       PROVE  /\ status'[e] # "none" => status[e] # "none" /\ tx'[e[1]].body = tx[e[1]].body
              /\ status'[e] \in {"open", "pending"} => status'[e] = status[e]
              /\ older'[e] = IF status'[e] = "none" THEN {} ELSE older[e] \cap Rows'
  <2>1. Rows' = Rows
    BY <1>5 DEF Rows
  <2>2. older[e] \subseteq Rows /\ (status[e] = "none" => older[e] = {})
    BY DEF RowsOrdered, Rows
  <2>3. older'[e] = IF status'[e] = "none" THEN {} ELSE older[e] \cap Rows'
    BY <1>5, <2>1, <2>2
  <2>4. QED
    BY <1>4, <1>5, <1>7, <2>3, EventParts
<1>14. QED
  BY <1>11, <1>12, <1>13 DEF Shrinks

LEMMA RollbackShrinks ==
  ASSUME Table, NEW T \in SUBSET Tx, RolledBack(T), Typed',
         before' = before, tx' \in [Tx -> TxRec],
         \A u \in Tx :
           IF u \in T /\ Running(u)
             THEN /\ tx'[u].done = 0 /\ tx'[u].at \in {"run", "failed"}
                  /\ tx'[u].at = "run" => tx'[u].body = tx[u].body
             ELSE tx'[u] = tx[u]
  PROVE  /\ TypeOK' /\ Shrinks
         /\ \A e \in Event : status'[e] = status[e] \/ (status[e] = "open" /\ status'[e] = "none")
<1> USE DEF Table
<1>1. ASSUME NEW e \in Event
      PROVE  /\ status'[e] = IF e[1] \in T /\ Running(e[1]) THEN "none" ELSE status[e]
             /\ older'[e] = IF e[1] \in T /\ Running(e[1]) THEN {}
                            ELSE older[e] \ {f \in Event : f[1] \in T /\ Running(f[1])}
  BY DEF RolledBack
<1>2. ASSUME NEW e \in Event, e[1] \in T, Running(e[1])
      PROVE  status[e] \in {"none", "open"} /\ status'[e] = "none"
  BY <1>1, <1>2, StatusFacts DEF Running, Committed
<1>3. older' \in [Event -> SUBSET Event] /\ status' \in [Event -> Status]
  BY DEF RolledBack, TypeOK, Status
<1>4. ASSUME NEW u \in Tx
      PROVE  IF tx'[u].at \in {"run", "done"}
               THEN tx'[u].body \in Body /\ tx'[u].done <= Len(tx'[u].body)
               ELSE tx'[u].done = 0
  <2>1. CASE u \in T /\ Running(u)
    <3>1. tx[u].body \in Body /\ 0 <= Len(tx[u].body)
      BY <2>1, BodyFields DEF Running
    <3>2. QED
      BY <2>1, <3>1
  <2>2. CASE ~(u \in T /\ Running(u))
    BY <2>2 DEF TypeOK
  <2>3. QED
    BY <2>1, <2>2
<1>5. ASSUME NEW e \in Event
      PROVE  /\ status'[e] = "open" <=> Running(e[1])' /\ e[2] <= tx'[e[1]].done
             /\ status'[e] \notin {"none", "open"} <=> Committed(e)'
  <2>1. CASE e[1] \in T /\ Running(e[1])
    <3>1. ~(e[2] <= tx'[e[1]].done)
      BY <2>1, EventParts
    <3>2. QED
      BY <1>2, <2>1, <3>1 DEF Committed
  <2>2. CASE ~(e[1] \in T /\ Running(e[1]))
    <3>1. tx'[e[1]] = tx[e[1]] /\ status'[e] = status[e]
      BY <1>1, <2>2, EventParts
    <3>2. QED
      BY <3>1, StatusFacts DEF Running, Committed
  <2>3. QED
    BY <2>1, <2>2
<1>6. TypeOK'
  BY <1>3, <1>4, <1>5 DEF TypeOK, Typed
<1>7. HistoryQuiet
  BY DEF HistoryQuiet, Running
<1>8. ASSUME NEW e \in Event
      PROVE  /\ status'[e] # "none" => status[e] # "none" /\ tx'[e[1]].body = tx[e[1]].body
             /\ status'[e] \in {"open", "pending"} => status'[e] = status[e]
             /\ older'[e] = IF status'[e] = "none" THEN {} ELSE older[e] \cap Rows'
  <2>1. older[e] \subseteq Rows /\ (status[e] = "none" => older[e] = {})
    BY DEF RowsOrdered, Rows
  <2>2. Rows' = Rows \ {f \in Event : f[1] \in T /\ Running(f[1])}
    BY <1>1 DEF Rows
  <2>3. older'[e] = IF status'[e] = "none" THEN {} ELSE older[e] \cap Rows'
    BY <1>1, <2>1, <2>2
  <2>4. QED
    BY <1>1, <2>3, EventParts
<1>9. \A e \in Event : status'[e] = status[e] \/ (status[e] = "open" /\ status'[e] = "none")
  BY <1>1, <1>2
<1>10. QED
  BY <1>6, <1>7, <1>8, <1>9 DEF Shrinks

(* The runner, pruning and the phases do not touch open rows. *)
LEMMA SettleShrinks ==
  ASSUME Table, Typed', tx' = tx, older' = older, before' = before,
         status' \in [Event -> Status],
         \A e \in Event : status'[e] = status[e]
                          \/ (/\ status[e] \notin {"none", "open"}
                             /\ status'[e] \notin {"none", "open", "pending"})
  PROVE  TypeOK' /\ Shrinks
<1> USE DEF Table
<1>1. ASSUME NEW e \in Event
      PROVE  /\ status'[e] = "open" <=> Running(e[1])' /\ e[2] <= tx'[e[1]].done
             /\ status'[e] \notin {"none", "open"} <=> Committed(e)'
  BY StatusFacts DEF Running, Committed
<1>2. TypeOK'
  BY <1>1 DEF TypeOK, Typed
<1>3. Rows' = Rows
  BY DEF Rows
<1>4. ASSUME NEW e \in Event
      PROVE  older'[e] = IF status'[e] = "none" THEN {} ELSE older[e] \cap Rows'
  <2>1. older[e] \subseteq Rows /\ (status[e] = "none" => older[e] = {})
    BY DEF RowsOrdered, Rows
  <2>2. QED
    BY <1>3, <2>1
<1>5. HistoryQuiet
  BY DEF HistoryQuiet
<1>6. ASSUME NEW e \in Event
      PROVE  /\ status'[e] # "none" => status[e] # "none" /\ tx'[e[1]].body = tx[e[1]].body
             /\ status'[e] \in {"open", "pending"} => status'[e] = status[e]
  OBVIOUS
<1>7. QED
  BY <1>2, <1>4, <1>5, <1>6 DEF Shrinks

-----------------------------------------------------------------------------
(* What the runner relies on survives what others do, and a restart. *)
LEMMA OthersKeepDelivery ==
  ASSUME Table, Delivery, runner' = runner \/ runner' = RunnerIdle, out' = out,
         \A e \in Event : Committed(e) =>
           /\ Committed(e)' /\ TopicForEvent(e)' = TopicForEvent(e) /\ Prior(e)' = Prior(e)
           /\ status[e] \in {"pending", "dead"} => status'[e] = status[e],
         \A e \in Event : status'[e] \in {"published", "pruned"} => status[e] \in {"published", "pruned"}
  PROVE  Delivery'
<1> USE DEF Table, Delivery
<1>1. ASSUME NEW e \in runner.batch
      PROVE  /\ e \in Event /\ Committed(e) /\ status'[e] = "pending"
             /\ \A f \in Prior(e)' : Resolved(f)'
  <2>1. e \in Event /\ status[e] = "pending"
    BY RunnerFields DEF Claimed
  <2>2. Committed(e)
    BY <2>1, StatusFacts
  <2>3. ASSUME NEW f \in Prior(e)'
        PROVE  Resolved(f)'
    <3>1. f \in Prior(e) /\ f \in Event /\ Committed(f)
      BY <2>1, <2>2, <2>3 DEF Prior
    <3>2. Resolved(f)
      BY <3>1 DEF Claimed
    <3>3. QED
      BY <3>1, <3>2 DEF Resolved, Sent
  <2>4. QED
    BY <2>1, <2>2, <2>3
<1>2. Claimed'
  BY <1>1, IdleFields DEF Claimed
<1>3. LanesSent'
  <2>1. CASE runner' = RunnerIdle
    BY <2>1, IdleFields DEF LanesSent
  <2>2. CASE runner' = runner
    <3>1. Lane("membership")' = Lane("membership")
      BY <1>1, <2>2 DEF Lane
    <3>2. QED
      BY <2>2, <3>1 DEF LanesSent
  <2>3. QED
    BY <2>1, <2>2
<1>4. OutCommitted'
  <2>1. out \subseteq Event
    BY DEF TypeOK
  <2>2. QED
    BY <2>1 DEF OutCommitted
<1>5. PublishedWasSent'
  BY DEF PublishedWasSent, Sent
<1>6. QED
  BY <1>2, <1>3, <1>4, <1>5

(* The head of a key is next in its log. *)
LEMMA HeadIsNext ==
  ASSUME Table, PublishedWasSent, NEW e \in Heads
  PROVE  /\ e \in Event /\ status[e] = "pending"
         /\ \A f \in Prior(e) : Resolved(f)
<1> USE DEF Table
<1>1. e \in Event /\ status[e] = "pending"
  BY DEF Heads
<1>2. ASSUME NEW f \in Prior(e)
      PROVE  Resolved(f)
  <2>1. f \in Event /\ Committed(f) /\ KeyOf(f) = KeyOf(e)
    BY DEF Prior
  <2>2. status[f] # "pending"
    <3>1. ASSUME status[f] = "pending"
          PROVE  FALSE
      <4>1. f \in older[e]
        BY <1>1, <2>1, <3>1 DEF PendingBehind
      <4>2. QED
        BY <2>1, <3>1, <4>1 DEF Heads
    <3>2. QED
      BY <3>1
  <2>3. status[f] \in {"published", "dead", "pruned"}
    BY <2>1, <2>2, StatusFacts DEF Status
  <2>4. QED
    BY <2>1, <2>3 DEF PublishedWasSent, Resolved
<1>3. QED
  BY <1>1, <1>2

LEMMA ClaimStep ==
  ASSUME Table, Delivery, Claim
  PROVE  Table' /\ Delivery'
<1> USE DEF Table, Delivery
<1> DEFINE n == [at |-> "membership", batch |-> Heads, failed |-> {}, retry |-> {}]
<1>1. runner' = n /\ UNCHANGED <<tx, older, status, attempts, phase, clean, before, out>>
  BY DEF Claim
<1>2. Heads \subseteq Event
  BY DEF Heads
<1>3. n \in RunnerRec /\ n.at = "membership" /\ n.batch = Heads /\ n.failed = {}
  BY <1>2 DEF RunnerRec
<1> HIDE DEF n
<1>4. Typed'
  BY <1>1, <1>3, TypedHolds DEF Typed
<1>5. TypeOK' /\ Shrinks
  BY <1>1, <1>4, SettleShrinks DEF TypeOK
<1>6. Table'
  BY <1>5, ShrinkKeepsTable
<1>7. \A e \in Event : (Committed(e)' <=> Committed(e)) /\ Prior(e)' = Prior(e)
  BY <1>5, HistoryKept DEF Shrinks
<1>8. Claimed'
  <2>1. ASSUME NEW e \in Heads
        PROVE  status'[e] = "pending" /\ \A f \in Prior(e)' : Resolved(f)'
    <3>1. e \in Event /\ status[e] = "pending" /\ \A f \in Prior(e) : Resolved(f)
      BY HeadIsNext
    <3>2. QED
      BY <1>1, <1>7, <3>1 DEF Resolved, Sent
  <2>2. QED
    BY <1>1, <1>3, <2>1 DEF Claimed
<1>9. LanesSent'
  BY <1>1, <1>3 DEF LanesSent
<1>10. OutCommitted' /\ PublishedWasSent'
  <2>1. out \subseteq Event
    BY DEF TypeOK
  <2>2. QED
    BY <1>1, <1>7, <2>1 DEF OutCommitted, PublishedWasSent, Sent
<1>11. QED
  BY <1>6, <1>8, <1>9, <1>10

(* A lane is published: what SNS takes is committed, and what it does not    *)
(* take is listed.                                                           *)
LEMMA LaneStep ==
  ASSUME Table, Delivery, NEW topic \in {"membership", "tenant"},
         NEW next \in {"tenant", "mark"}, NEW outage \in BOOLEAN,
         PublishLane(topic, next, outage), runner.at # "idle",
         UNCHANGED <<tx, older, status, attempts, phase, clean, before>>
  PROVE  /\ Table' /\ HistoryQuiet
         /\ Claimed' /\ OutCommitted' /\ PublishedWasSent'
         /\ runner'.at = next /\ runner'.batch = runner.batch /\ runner.failed \subseteq runner'.failed
         /\ Lane(topic) \ runner'.failed \subseteq out' /\ out \subseteq out'
         /\ out' \subseteq out \cup runner.batch
<1> USE DEF Table, Delivery
<1>1. PICK S \in SUBSET Lane(topic) :
        /\ Taken(S)
        /\ \E err \in LaneErrors(topic, S) :
             runner' = [runner EXCEPT !.at = next, !.failed = @ \cup err.failed,
                                      !.retry = @ \cup Retryable(err)]
  BY DEF PublishLane
<1>1a. PICK err \in LaneErrors(topic, S) :
         runner' = [runner EXCEPT !.at = next, !.failed = @ \cup err.failed,
                                  !.retry = @ \cup Retryable(err)]
  BY <1>1
<1>1b. PICK F : F = err.failed
  OBVIOUS
<1>1c. PICK R : R = Retryable(err)
  OBVIOUS
<1>2. /\ Lane(topic) \subseteq runner.batch /\ Lane(topic) \ S \subseteq F /\ F \subseteq runner.batch
      /\ R \subseteq F
  <2>1. Lane(topic) \subseteq runner.batch
    BY DEF Lane
  <2>2. /\ err.failed = Lane(topic) \ S \/ err.failed = Lane(topic)
        /\ err.transient \subseteq err.failed
    BY <1>1a DEF LaneErrors
  <2>3. QED
    BY <1>1b, <1>1c, <2>1, <2>2 DEF Retryable
<1>3. /\ runner \in RunnerRec /\ runner.batch \subseteq Event /\ runner.failed \subseteq runner.batch
      /\ runner.retry \subseteq Event
  BY RunnerFields DEF Claimed
<1> DEFINE n == [at |-> next, batch |-> runner.batch, failed |-> runner.failed \cup F,
                 retry |-> runner.retry \cup R]
<1>5. runner' = n
  BY <1>1a, <1>1b, <1>1c, <1>3 DEF RunnerRec
<1>6. runner.failed \cup F \in SUBSET Event /\ runner.retry \cup R \in SUBSET Event
  BY <1>2, <1>3
<1>7. n \in RunnerRec /\ n.at = next /\ n.batch = runner.batch /\ n.failed = runner.failed \cup F
  BY <1>3, <1>6 DEF RunnerRec
<1> HIDE DEF n
<1>8. out' = out \cup S
  BY <1>1 DEF Taken
<1>9. out \subseteq Event /\ S \subseteq runner.batch
  BY <1>1, <1>2 DEF TypeOK
<1>10. Typed'
  BY <1>3, <1>5, <1>7, <1>8, <1>9, TypedHolds DEF Typed
<1>11. TypeOK' /\ Shrinks
  BY <1>10, SettleShrinks DEF TypeOK
<1>12. Table'
  BY <1>11, ShrinkKeepsTable
<1>13. \A e \in Event : (Committed(e)' <=> Committed(e)) /\ Prior(e)' = Prior(e)
  BY <1>11, HistoryKept DEF Shrinks
<1>14. Claimed'
  <2>1. ASSUME NEW e \in runner.batch
        PROVE  status'[e] = "pending" /\ \A f \in Prior(e)' : Resolved(f)'
    <3>1. e \in Event /\ status[e] = "pending" /\ \A f \in Prior(e) : Resolved(f)
      BY <1>3 DEF Claimed
    <3>2. QED
      BY <1>8, <1>13, <3>1 DEF Resolved, Sent
  <2>2. runner'.failed \subseteq runner'.batch /\ runner'.at # "idle"
    BY <1>2, <1>3, <1>5, <1>7
  <2>3. QED
    BY <1>5, <1>7, <2>1, <2>2 DEF Claimed
<1>15. OutCommitted'
  <2>1. ASSUME NEW e \in out'
        PROVE  Committed(e)'
    <3>1. CASE e \in out
      BY <1>9, <1>13, <3>1 DEF OutCommitted
    <3>2. CASE e \in S
      <4>1. e \in Event /\ status[e] = "pending"
        BY <1>3, <1>9, <3>2 DEF Claimed
      <4>2. QED
        BY <1>13, <4>1, StatusFacts
    <3>3. QED
      BY <1>8, <3>1, <3>2
  <2>2. QED
    BY <2>1 DEF OutCommitted
<1>16. PublishedWasSent'
  BY <1>8 DEF PublishedWasSent, Sent
<1>17. Lane(topic) \ runner'.failed \subseteq out' /\ out' \subseteq out \cup runner.batch
  BY <1>2, <1>5, <1>7, <1>8, <1>9
<1>18. HistoryQuiet
  BY <1>11 DEF Shrinks
<1>19. QED
  BY <1>5, <1>7, <1>8, <1>12, <1>14, <1>15, <1>16, <1>17, <1>18

LEMMA MembershipStep ==
  ASSUME Table, Delivery, NEW outage \in BOOLEAN, PublishMembership(outage)
  PROVE  Table' /\ Delivery'
<1>1. runner.at = "membership" /\ PublishLane("membership", "tenant", outage)
      /\ UNCHANGED <<tx, older, status, attempts, phase, clean, before>>
  BY DEF PublishMembership
<1>2. /\ Table' /\ Claimed' /\ OutCommitted' /\ PublishedWasSent'
      /\ runner'.at = "tenant" /\ runner'.batch = runner.batch
      /\ Lane("membership") \ runner'.failed \subseteq out'
  BY <1>1, LaneStep
<1>3. Lane("membership")' = Lane("membership")
  BY <1>1, <1>2 DEF Lane, TopicForEvent
<1>4. LanesSent'
  BY <1>2, <1>3 DEF LanesSent
<1>5. QED
  BY <1>2, <1>4 DEF Delivery

LEMMA TenantStep ==
  ASSUME Table, Delivery, NEW outage \in BOOLEAN, PublishTenant(outage)
  PROVE  Table' /\ Delivery'
<1>1. runner.at = "tenant" /\ PublishLane("tenant", "mark", outage)
      /\ UNCHANGED <<tx, older, status, attempts, phase, clean, before>>
  BY DEF PublishTenant
<1>2. /\ Table' /\ Claimed' /\ OutCommitted' /\ PublishedWasSent'
      /\ runner'.at = "mark" /\ runner'.batch = runner.batch
      /\ runner.failed \subseteq runner'.failed /\ out \subseteq out'
      /\ Lane("tenant") \ runner'.failed \subseteq out'
  BY <1>1, LaneStep
<1>3. Lane("membership") \ runner.failed \subseteq out
  BY <1>1 DEF Delivery, LanesSent
<1>4. runner.batch \subseteq Lane("membership") \cup Lane("tenant")
  <2>1. ASSUME NEW e \in runner.batch
        PROVE  TopicForEvent(e) \in {"membership", "tenant"}
    <3>1. e \in Event /\ status[e] = "pending"
      BY RunnerFields DEF Table, Delivery, Claimed
    <3>2. Committed(e)
      BY <3>1, StatusFacts DEF Table
    <3>3. QED
      BY <3>1, <3>2, CommittedFields DEF Table
  <2>2. QED
    BY <2>1 DEF Lane
<1>5. runner'.batch \ runner'.failed \subseteq out'
  BY <1>2, <1>3, <1>4
<1>6. LanesSent'
  BY <1>2, <1>5 DEF LanesSent
<1>7. QED
  BY <1>2, <1>6 DEF Delivery

(* The dead-letter and the published rows leave the batch. *)
LEMMA MarkEffect ==
  ASSUME Table, Delivery, Mark
  PROVE  /\ \A e \in Event :
              \/ status'[e] = status[e]
              \/ status'[e] = "published" /\ e \in runner.batch \ runner.failed
              \/ status'[e] = "dead" /\ e \in runner.failed
         /\ status' \in [Event -> Status]
         /\ attempts' \in [Event -> 0..(MaxAttempts - 1)]
<1> USE DEF Table, Delivery
<1>1. PICK counted \in {runner.failed \ runner.retry, runner.failed} :
        LET dead == {e \in counted : attempts[e] + 1 = MaxAttempts}
            sent == runner.batch \ runner.failed
        IN /\ status' = [e \in Event |-> IF e \in sent THEN "published"
                                         ELSE IF e \in dead THEN "dead" ELSE status[e]]
           /\ attempts' = [e \in Event |-> IF e \in sent \cup dead THEN 0
                             ELSE IF e \in counted THEN attempts[e] + 1 ELSE attempts[e]]
  BY DEF Mark
<1> DEFINE dead == {e \in counted : attempts[e] + 1 = MaxAttempts}
           sent == runner.batch \ runner.failed
<1>2. /\ status' = [e \in Event |-> IF e \in sent THEN "published"
                                    ELSE IF e \in dead THEN "dead" ELSE status[e]]
      /\ attempts' = [e \in Event |-> IF e \in sent \cup dead THEN 0
                        ELSE IF e \in counted THEN attempts[e] + 1 ELSE attempts[e]]
  BY <1>1
<1>3. dead \subseteq runner.failed
  BY <1>1
<1>4. ASSUME NEW e \in Event
      PROVE  attempts'[e] \in 0..(MaxAttempts - 1)
  <2>1. attempts[e] \in 0..(MaxAttempts - 1) /\ MaxAttempts \in Nat \ {0}
    BY BoundAssumption DEF TypeOK
  <2>2. CASE e \in sent \cup dead
    <3>1. attempts'[e] = 0
      BY <1>2, <2>2
    <3>2. QED
      BY <2>1, <3>1
  <2>3. CASE e \notin sent \cup dead /\ e \in counted
    <3>1. attempts[e] + 1 # MaxAttempts
      BY <2>3
    <3>2. attempts'[e] = attempts[e] + 1
      BY <1>2, <2>3
    <3>3. QED
      BY <2>1, <3>1, <3>2
  <2>4. CASE e \notin sent \cup dead /\ e \notin counted
    <3>1. attempts'[e] = attempts[e]
      BY <1>2, <2>4
    <3>2. QED
      BY <2>1, <3>1
  <2>5. QED
    BY <2>2, <2>3, <2>4
<1>5. attempts' \in [Event -> 0..(MaxAttempts - 1)]
  BY <1>2, <1>4
<1>6. status' \in [Event -> Status]
  BY <1>2 DEF TypeOK, Status
<1>7. ASSUME NEW e \in Event
      PROVE  \/ status'[e] = status[e]
             \/ status'[e] = "published" /\ e \in runner.batch \ runner.failed
             \/ status'[e] = "dead" /\ e \in runner.failed
  BY <1>2, <1>3
<1>8. QED
  BY <1>5, <1>6, <1>7

LEMMA MarkStep ==
  ASSUME Table, Delivery, Mark
  PROVE  Table' /\ HistoryQuiet /\ Delivery'
<1> USE DEF Table, Delivery
<1>1. /\ \A e \in Event :
           \/ status'[e] = status[e]
           \/ status'[e] = "published" /\ e \in runner.batch \ runner.failed
           \/ status'[e] = "dead" /\ e \in runner.failed
      /\ status' \in [Event -> Status]
      /\ attempts' \in [Event -> 0..(MaxAttempts - 1)]
  BY MarkEffect
<1>2. /\ runner.at = "mark" /\ runner' = RunnerIdle
      /\ UNCHANGED <<tx, older, phase, clean, before, out>>
  BY DEF Mark
<1>3. \A e \in runner.batch : e \in Event /\ status[e] = "pending"
  BY RunnerFields DEF Claimed
<1>4. runner.failed \subseteq runner.batch /\ runner.batch \ runner.failed \subseteq out
  BY <1>2 DEF Claimed, LanesSent
<1>5. Typed'
  BY <1>1, <1>2, IdleFields, TypedHolds DEF Typed
<1>6. TypeOK' /\ Shrinks
  BY <1>1, <1>2, <1>3, <1>4, <1>5, SettleShrinks
<1>7. Table'
  BY <1>6, ShrinkKeepsTable
<1>8. \A e \in Event : Committed(e)' <=> Committed(e)
  BY <1>6, HistoryKept DEF Shrinks
<1>9. Claimed' /\ LanesSent'
  BY <1>2, IdleFields DEF Claimed, LanesSent
<1>10. OutCommitted'
  <2>1. out \subseteq Event
    BY DEF TypeOK
  <2>2. QED
    BY <1>2, <1>8, <2>1 DEF OutCommitted
<1>11. PublishedWasSent'
  <2>1. ASSUME NEW e \in Event, status'[e] \in {"published", "pruned"}
        PROVE  e \in out
    BY <1>1, <1>4, <2>1 DEF PublishedWasSent, Sent
  <2>2. QED
    BY <1>2, <2>1 DEF PublishedWasSent, Sent
<1>12. QED
  BY <1>6, <1>7, <1>9, <1>10, <1>11 DEF Shrinks

(* Steps that leave the runner alone or stop it. *)
LEMMA OtherStep ==
  ASSUME Table, Delivery, TypeOK', Shrinks, runner' = runner \/ runner' = RunnerIdle, out' = out,
         \A e \in Event :
           /\ status[e] \in {"pending", "dead"} => status'[e] = status[e]
           /\ status'[e] \in {"published", "pruned"} => status[e] \in {"published", "pruned"}
  PROVE  Table' /\ Delivery'
<1>1. Table'
  BY ShrinkKeepsTable
<1>2. \A e \in Event : Committed(e) =>
        Committed(e)' /\ TopicForEvent(e)' = TopicForEvent(e) /\ Prior(e)' = Prior(e)
  BY HistoryKept DEF Shrinks
<1>3. Delivery'
  BY <1>2, OthersKeepDelivery
<1>4. QED
  BY <1>1, <1>3

LEMMA BeginStep ==
  ASSUME Table, Delivery, NEW t \in Tx, Begin(t)
  PROVE  Table' /\ HistoryQuiet /\ Delivery'
<1>1. TypeOK' /\ Shrinks
  BY BeginShrinks
<1>2. status' = status /\ runner' = runner /\ out' = out
  BY DEF Begin
<1>3. QED
  BY <1>1, <1>2, OtherStep DEF Shrinks

LEMMA EnqueueStep ==
  ASSUME Table, Delivery, NEW t \in Tx, Enqueue(t)
  PROVE  Table' /\ HistoryQuiet /\ Delivery'
<1>1. Table' /\ HistoryQuiet
  BY EnqueueKeepsTable, EnqueueQuiet DEF Table
<1>2. PICK x : x = <<t, tx[t].done + 1>>
  OBVIOUS
<1>3. /\ x \in Event /\ status[x] = "none"
      /\ status'[x] = "open" /\ \A e \in Event \ {x} : status'[e] = status[e]
  BY <1>2, EnqueueEffect DEF Table
<1>4. \A e \in Event : Committed(e) =>
        Committed(e)' /\ TopicForEvent(e)' = TopicForEvent(e) /\ Prior(e)' = Prior(e)
  BY <1>1, HistoryKept
<1>5. \A e \in Event :
        /\ status[e] \in {"pending", "dead"} => status'[e] = status[e]
        /\ status'[e] \in {"published", "pruned"} => status[e] \in {"published", "pruned"}
  BY <1>3
<1>6. runner' = runner /\ out' = out
  BY DEF Enqueue
<1>7. Delivery'
  BY <1>4, <1>5, <1>6, OthersKeepDelivery
<1>8. QED
  BY <1>1, <1>7

LEMMA CommitStep ==
  ASSUME Table, Delivery, NEW t \in Tx, Commit(t)
  PROVE  Table' /\ Delivery'
<1>1. Table'
  BY CommitKeepsTable
<1>2. \A e \in Event : Committed(e) =>
        Committed(e)' /\ TopicForEvent(e)' = TopicForEvent(e) /\ Prior(e)' = Prior(e)
  BY CommitHistory
<1>3. \A e \in Event : status'[e] = IF e[1] = t /\ status[e] = "open" THEN "pending" ELSE status[e]
  BY CommitEffect DEF Table
<1>4. \A e \in Event :
        /\ status[e] \in {"pending", "dead"} => status'[e] = status[e]
        /\ status'[e] \in {"published", "pruned"} => status[e] \in {"published", "pruned"}
  BY <1>3
<1>5. runner' = runner /\ out' = out
  BY DEF Commit
<1>6. Delivery'
  BY <1>2, <1>4, <1>5, OthersKeepDelivery
<1>7. QED
  BY <1>1, <1>6

(* Every rollback: of one transaction, or of all. *)
LEMMA RollbackStep ==
  ASSUME Table, Delivery, NEW T \in SUBSET Tx, RolledBack(T), Typed',
         before' = before, tx' \in [Tx -> TxRec], out' = out,
         runner' = runner \/ runner' = RunnerIdle,
         \A u \in Tx :
           IF u \in T /\ Running(u)
             THEN /\ tx'[u].done = 0 /\ tx'[u].at \in {"run", "failed"}
                  /\ tx'[u].at = "run" => tx'[u].body = tx[u].body
             ELSE tx'[u] = tx[u]
  PROVE  /\ Table' /\ HistoryQuiet /\ Delivery'
         /\ \A e \in Event : status'[e] = status[e] \/ (status[e] = "open" /\ status'[e] = "none")
<1>1. /\ TypeOK' /\ Shrinks
      /\ \A e \in Event : status'[e] = status[e] \/ (status[e] = "open" /\ status'[e] = "none")
  BY RollbackShrinks
<1>2. Table' /\ Delivery'
  BY <1>1, OtherStep
<1>3. QED
  BY <1>1, <1>2 DEF Shrinks

LEMMA RejectStep ==
  ASSUME Table, Delivery, NEW t \in Tx, Reject(t)
  PROVE  /\ Table' /\ HistoryQuiet /\ Delivery'
         /\ \A e \in Event : status'[e] = status[e] \/ (status[e] = "open" /\ status'[e] = "none")
<1>1. /\ Running(t) /\ RolledBack({t}) /\ tx' = [tx EXCEPT ![t] = TxFailed]
      /\ UNCHANGED <<attempts, runner, phase, clean, before, out>>
  BY DEF Reject, Unfinished
<1>2. tx' \in [Tx -> TxRec] /\ tx'[t] = TxFailed /\ \A u \in Tx \ {t} : tx'[u] = tx[u]
  BY <1>1, FailedFields DEF Table, TypeOK
<1>3. Typed'
  BY <1>1, TypedHolds DEF Table, Typed
<1>4. {t} \in SUBSET Tx
  OBVIOUS
<1>5. \A u \in Tx :
        IF u \in {t} /\ Running(u)
          THEN /\ tx'[u].done = 0 /\ tx'[u].at \in {"run", "failed"}
               /\ tx'[u].at = "run" => tx'[u].body = tx[u].body
          ELSE tx'[u] = tx[u]
  BY <1>1, <1>2, FailedFields
<1>6. QED
  BY <1>1, <1>2, <1>3, <1>4, <1>5, RollbackStep

LEMMA RetryStep ==
  ASSUME Table, Delivery, NEW t \in Tx, Retry(t)
  PROVE  /\ Table' /\ HistoryQuiet /\ Delivery'
         /\ \A e \in Event : status'[e] = status[e] \/ (status[e] = "open" /\ status'[e] = "none")
<1> DEFINE m == [tx[t] EXCEPT !.done = 0]
           n == [m EXCEPT !.tries = tx[t].tries + 1]
           r == IF tx[t].tries < MaxTries THEN n ELSE TxFailed
<1>1. /\ Running(t) /\ RolledBack({t})
      /\ UNCHANGED <<attempts, runner, phase, clean, before, out>>
  BY DEF Retry
<1>2. tx \in [Tx -> TxRec] /\ tx[t] \in TxRec /\ tx[t].at = "run"
  BY <1>1 DEF Table, TypeOK, Running
<1>3. m \in TxRec /\ m.at = "run" /\ m.body = tx[t].body /\ m.done = 0 /\ m.tries = tx[t].tries
  BY <1>2, BoundAssumption DEF TxRec
<1>4. tx' = [tx EXCEPT ![t] = r]
  BY <1>2 DEF Retry, TxRec
<1> HIDE DEF m
<1>5. tx[t].tries < MaxTries =>
        n \in TxRec /\ n.at = "run" /\ n.body = tx[t].body /\ n.done = 0
  <2>1. ASSUME tx[t].tries < MaxTries
        PROVE  n \in TxRec /\ n.at = "run" /\ n.body = tx[t].body /\ n.done = 0
    <3>1. tx[t].tries + 1 \in 0..MaxTries
      BY <1>2, <1>3, <2>1, BoundAssumption DEF TxRec
    <3>2. QED
      BY <1>3, <3>1 DEF TxRec
  <2>2. QED
    BY <2>1
<1> HIDE DEF n
<1>6. /\ r \in TxRec /\ r.done = 0 /\ r.at \in {"run", "failed"}
      /\ r.at = "run" => r.body = tx[t].body
  BY <1>5, FailedFields
<1> HIDE DEF r
<1>7. tx' \in [Tx -> TxRec] /\ tx'[t] = r /\ \A u \in Tx \ {t} : tx'[u] = tx[u]
  BY <1>2, <1>4, <1>6
<1>8. Typed'
  BY <1>1, TypedHolds DEF Table, Typed
<1>9. {t} \in SUBSET Tx
  OBVIOUS
<1>10. \A u \in Tx :
         IF u \in {t} /\ Running(u)
           THEN /\ tx'[u].done = 0 /\ tx'[u].at \in {"run", "failed"}
                /\ tx'[u].at = "run" => tx'[u].body = tx[u].body
           ELSE tx'[u] = tx[u]
  BY <1>1, <1>6, <1>7
<1>11. QED
  BY <1>1, <1>7, <1>8, <1>9, <1>10, RollbackStep

LEMMA EndedStep ==
  ASSUME Table, Delivery, Closed \/ Crash
  PROVE  /\ Table' /\ HistoryQuiet /\ Delivery'
         /\ \A e \in Event : status'[e] = status[e] \/ (status[e] = "open" /\ status'[e] = "none")
         /\ \A t \in Tx : ~Running(t)'
<1>1. /\ phase' = "down" /\ RolledBack(Tx) /\ runner' = RunnerIdle
      /\ tx' = [t \in Tx |-> IF Running(t) THEN TxFailed ELSE tx[t]]
      /\ UNCHANGED <<attempts, before, out>> /\ clean' \in {clean, FALSE}
  BY DEF Closed, Crash, Ended
<1>2. Typed'
  BY <1>1, IdleFields, TypedHolds DEF Table, Typed
<1>3. tx' \in [Tx -> TxRec] /\ Tx \in SUBSET Tx
  BY <1>1, FailedFields DEF Table, TypeOK
<1>4. \A u \in Tx :
        IF u \in Tx /\ Running(u)
          THEN /\ tx'[u].done = 0 /\ tx'[u].at \in {"run", "failed"}
               /\ tx'[u].at = "run" => tx'[u].body = tx[u].body
          ELSE tx'[u] = tx[u]
  BY <1>1, FailedFields
<1>5. \A t \in Tx : ~Running(t)'
  BY <1>1, FailedFields DEF Running
<1>6. QED
  BY <1>1, <1>2, <1>3, <1>4, <1>5, RollbackStep

LEMMA PruneStep ==
  ASSUME Table, Delivery, Prune
  PROVE  Table' /\ HistoryQuiet /\ Delivery'
<1>1. /\ status' = [e \in Event |-> IF status[e] = "published" THEN "pruned" ELSE status[e]]
      /\ UNCHANGED <<tx, older, attempts, runner, phase, clean, before, out>>
  BY DEF Prune
<1>2. status' \in [Event -> Status]
  BY <1>1 DEF Table, TypeOK, Status
<1>3. Typed'
  BY <1>1, TypedHolds DEF Table, Typed
<1>4. TypeOK' /\ Shrinks
  BY <1>1, <1>2, <1>3, SettleShrinks
<1>5. \A e \in Event :
        /\ status[e] \in {"pending", "dead"} => status'[e] = status[e]
        /\ status'[e] \in {"published", "pruned"} => status[e] \in {"published", "pruned"}
  BY <1>1
<1>6. QED
  BY <1>1, <1>4, <1>5, OtherStep DEF Shrinks

LEMMA PhaseStep ==
  ASSUME Table, Delivery, Sigterm \/ Drained \/ Flushed \/ Restart \/ UNCHANGED vars
  PROVE  Table' /\ HistoryQuiet /\ Delivery'
<1>1. /\ UNCHANGED <<tx, older, status, attempts, before, out>>
      /\ runner' = runner \/ runner' = RunnerIdle
  BY DEF Sigterm, Drained, Flushed, Restart, vars
<1>2. Typed'
  BY <1>1, IdleFields, TypedHolds DEF Table, Typed, Sigterm, Drained, Flushed, Restart, vars
<1>3. TypeOK' /\ Shrinks
  BY <1>1, <1>2, SettleShrinks DEF Table, TypeOK
<1>4. QED
  BY <1>1, <1>3, OtherStep DEF Shrinks

-----------------------------------------------------------------------------
(* The oldest pending row is a head. *)
LEMMA SomeHead ==
  ASSUME Table, NEW p \in Event, status[p] = "pending"
  PROVE  Heads # {}
<1> USE DEF Table
<1> DEFINE P == {older[e] : e \in {d \in Event : status[d] = "pending"}}
<1>1. P \subseteq SUBSET Rows /\ P # {}
  BY DEF RowsOrdered
<1>2. IsWellFoundedOn(StrictSubsetOrdering(Rows), SUBSET Rows)
  <2>1. IsFiniteSet(Rows)
    BY DEF RowsOrdered
  <2>2. QED
    BY <2>1, FS_StrictSubsetOrderingWellFounded, FS_FiniteSubsetsOfFinite
<1>3. PICK x \in P : \A y \in P : <<y, x>> \notin StrictSubsetOrdering(Rows)
  <2> HIDE DEF P
  <2>1. QED
    BY <1>1, <1>2, WFMin
<1>4. PICK e \in Event : status[e] = "pending" /\ x = older[e]
  OBVIOUS
<1>5. ASSUME NEW f \in older[e], status[f] = "pending"
      PROVE  FALSE
  <2>1. f \in Event /\ older[f] \subseteq older[e] /\ f \notin older[f]
    BY DEF RowsOrdered, Rows
  <2>2. older[f] \in P /\ older[f] # older[e]
    BY <1>5, <2>1
  <2>3. older[f] \in SUBSET Rows /\ older[e] \in SUBSET Rows
    BY <2>1 DEF RowsOrdered
  <2>4. <<older[f], older[e]>> \in StrictSubsetOrdering(Rows)
    BY <2>1, <2>2, <2>3 DEF StrictSubsetOrdering
  <2>5. QED
    BY <1>3, <1>4, <2>2, <2>4
<1>6. e \in Heads
  BY <1>4, <1>5 DEF Heads
<1>7. QED
  BY <1>6

(* Nothing runs and there is no head: nothing is open or pending. *)
LEMMA NothingLeft ==
  ASSUME Table, Heads = {}, \A t \in Tx : ~Running(t), NEW e \in Event
  PROVE  status[e] \notin {"open", "pending"}
<1>1. status[e] # "pending"
  BY SomeHead
<1>2. status[e] # "open"
  BY StatusFacts, EventParts DEF Table
<1>3. QED
  BY <1>1, <1>2

(* While the process is up or draining, Shutdown says nothing. *)
LEMMA UpStep ==
  ASSUME phase' \in {"up", "draining"}
  PROVE  Shutdown'
BY DEF Shutdown, DrainedOut, FlushedOut

(* A step of a transaction finds the process up or draining, or its drain    *)
(* was cut short.                                                            *)
LEMMA TxStepShutdown ==
  ASSUME Table, Shutdown, NEW t \in Tx, Begin(t) \/ TxStep(t)
  PROVE  Shutdown'
<1>1. phase' = phase /\ clean' = clean /\ (phase = "up" \/ Running(t))
  BY DEF Begin, TxStep, Enqueue, Commit, Reject, Retry, Unfinished
<1>2. phase \in {"up", "draining"} \/ (phase # "down" /\ ~clean)
  BY <1>1 DEF Table, TypeOK, Shutdown, DrainedOut
<1>3. QED
  BY <1>1, <1>2, UpStep DEF Shutdown, DrainedOut, FlushedOut

(* The runner settles rows, and never opens one. *)
LEMMA RunnerShutdown ==
  ASSUME Shutdown, UNCHANGED <<tx, phase, clean>>,
         \A e \in Event : status'[e] \in {"open", "pending"} => status'[e] = status[e]
  PROVE  Shutdown'
BY DEF Shutdown, DrainedOut, FlushedOut, Running

LEMMA PhaseShutdown ==
  ASSUME Table, Delivery, Shutdown, Sigterm \/ Drained \/ Flushed \/ Closed \/ Crash \/ Restart
  PROVE  Shutdown'
<1>1. CASE Sigterm \/ Restart
  BY <1>1, UpStep DEF Sigterm, Restart
<1>2. CASE Drained
  <2>1. phase' = "flushing" /\ tx' = tx /\ (clean' => \A t \in Tx : ~Running(t))
    BY <1>2 DEF Drained
  <2>2. QED
    BY <2>1 DEF Shutdown, DrainedOut, FlushedOut, Running
<1>3. CASE Crash
  <2>1. clean' = FALSE /\ \A t \in Tx : ~Running(t)'
    BY <1>3, EndedStep DEF Crash
  <2>2. QED
    BY <2>1 DEF Shutdown, DrainedOut, FlushedOut
<1>4. CASE Closed
  <2>1. phase = "closing" /\ clean' = clean
    BY <1>4 DEF Closed
  <2>2. /\ \A t \in Tx : ~Running(t)'
        /\ \A e \in Event : status'[e] = status[e] \/ (status[e] = "open" /\ status'[e] = "none")
    BY <1>4, EndedStep
  <2>3. QED
    BY <2>1, <2>2 DEF Shutdown, DrainedOut, FlushedOut
<1>5. CASE Flushed
  <2>1. /\ phase = "flushing" /\ phase' = "closing" /\ tx' = tx /\ status' = status
        /\ clean' => clean /\ Heads = {}
    BY <1>5 DEF Flushed
  <2>2. clean' => \A t \in Tx : ~Running(t)
    BY <2>1 DEF Shutdown, DrainedOut
  <2>3. clean' => \A e \in Event : status'[e] \notin {"open", "pending"}
    BY <2>1, <2>2, NothingLeft
  <2>4. QED
    BY <2>1, <2>2, <2>3 DEF Shutdown, DrainedOut, FlushedOut, Running
<1>6. QED
  BY <1>1, <1>2, <1>3, <1>4, <1>5

-----------------------------------------------------------------------------
LEMMA InductiveInit == Init => Inductive
<1> SUFFICES ASSUME Init PROVE Inductive
  OBVIOUS
<1> DEFINE idle == TxIdle
<1>1. idle \in TxRec /\ idle.at = "idle" /\ idle.done = 0
  BY BoundAssumption DEF TxIdle, TxRec
<1>2. /\ tx = [t \in Tx |-> idle] /\ older = [e \in Event |-> {}]
      /\ status = [e \in Event |-> "none"] /\ attempts = [e \in Event |-> 0]
      /\ runner = RunnerIdle /\ phase = "up" /\ clean = TRUE
      /\ before = [t \in Tx |-> {}] /\ out = {}
  BY DEF Init
<1> HIDE DEF idle
<1>3. \A t \in Tx : tx[t].at = "idle" /\ tx[t].done = 0
  BY <1>1, <1>2
<1>4. \A e \in Event : ~Running(e[1]) /\ ~Committed(e)
  BY <1>3, EventParts DEF Running, Committed
<1>5. 0 \in 0..(MaxAttempts - 1)
  BY BoundAssumption
<1>6. TypeOK
  <2>1. tx \in [Tx -> TxRec]
    BY <1>1, <1>2
  <2>2. \A e \in Event : status[e] = "none"
    BY <1>2
  <2>3. /\ status \in [Event -> Status] /\ attempts \in [Event -> 0..(MaxAttempts - 1)]
        /\ before \in [Tx -> SUBSET Tx] /\ older \in [Event -> SUBSET Event] /\ out \in SUBSET Event
    BY <1>2, <1>5 DEF Status
  <2>4. QED
    BY <1>2, <1>3, <1>4, <2>1, <2>2, <2>3, IdleFields DEF TypeOK
<1>7. RowsOrdered
  <2>1. Rows = {}
    BY <1>2 DEF Rows
  <2>2. QED
    BY <1>2, <2>1, FS_EmptySet DEF RowsOrdered
<1>8. KeyHeld /\ OpenBehind /\ PendingBehind
  BY <1>2 DEF KeyHeld, OpenBehind, PendingBehind
<1>9. CommitsOrdered /\ CommitsKnown
  BY <1>2, <1>3 DEF CommitsOrdered, CommitsKnown
<1>10. Claimed /\ LanesSent /\ OutCommitted /\ PublishedWasSent
  BY <1>2, IdleFields DEF Claimed, LanesSent, OutCommitted, PublishedWasSent
<1>11. Shutdown
  BY <1>2 DEF Shutdown, DrainedOut, FlushedOut
<1>12. QED
  BY <1>6, <1>7, <1>8, <1>9, <1>10, <1>11 DEF Inductive, Table, Delivery

LEMMA InductiveStep == Inductive /\ [Next]_vars => Inductive'
<1> SUFFICES ASSUME Inductive, [Next]_vars PROVE Inductive'
  OBVIOUS
<1> USE DEF Inductive
<1>1. ASSUME NEW t \in Tx, Begin(t) \/ TxStep(t)
      PROVE  Inductive'
  <2>1. Table' /\ Delivery'
    BY <1>1, BeginStep, EnqueueStep, CommitStep, RejectStep, RetryStep DEF TxStep
  <2>2. QED
    BY <1>1, <2>1, TxStepShutdown
<1>2. CASE Claim
  BY <1>2, ClaimStep, RunnerShutdown DEF Claim
<1>3. ASSUME NEW outage \in BOOLEAN, PublishMembership(outage)
      PROVE  Inductive'
  BY <1>3, MembershipStep, RunnerShutdown DEF PublishMembership
<1>4. ASSUME NEW outage \in BOOLEAN, PublishTenant(outage)
      PROVE  Inductive'
  BY <1>4, TenantStep, RunnerShutdown DEF PublishTenant
<1>5. CASE Mark
  <2>1. \A e \in Event : status'[e] \in {"open", "pending"} => status'[e] = status[e]
    BY <1>5, MarkEffect
  <2>2. QED
    BY <1>5, <2>1, MarkStep, RunnerShutdown DEF Mark
<1>6. CASE Prune
  <2>1. \A e \in Event : status'[e] \in {"open", "pending"} => status'[e] = status[e]
    BY <1>6 DEF Prune
  <2>2. QED
    BY <1>6, <2>1, PruneStep, RunnerShutdown DEF Prune
<1>7. CASE Sigterm \/ Drained \/ Flushed \/ Closed \/ Crash \/ Restart
  BY <1>7, PhaseStep, EndedStep, PhaseShutdown
<1>8. CASE UNCHANGED vars
  BY <1>8, PhaseStep, RunnerShutdown DEF vars
<1>9. QED
  BY <1>1, <1>2, <1>3, <1>4, <1>5, <1>6, <1>7, <1>8 DEF Next

LEMMA InductiveHolds == Spec => []Inductive
BY InductiveInit, InductiveStep, PTL DEF Spec

-----------------------------------------------------------------------------
(* Every variable has its type; an event is open exactly while its           *)
(* transaction runs, and one that is to be published again has fewer than    *)
(* OUTBOX_MAX_ATTEMPTS counted failures.                                     *)
THEOREM TypeCorrect == Spec => []TypeOK
<1>1. Inductive => TypeOK
  BY DEF Inductive, Table
<1>2. QED
  BY <1>1, InductiveHolds, PTL

(* What the runner marks published SNS has taken: RoutingPublisher loses no  *)
(* failure when it merges the outcomes of its two lanes.                     *)
THEOREM PublishedIsSent == Spec => []PublishedWasSent
<1>1. Inductive => PublishedWasSent
  BY DEF Inductive, Delivery
<1>2. QED
  BY <1>1, InductiveHolds, PTL

(* The order of the shutdown in main.go: when every drain ended in its       *)
(* budget, no event is left to be committed or published.                    *)
THEOREM StopIsClean == Spec => []CleanStop
<1>1. Inductive => CleanStop
  BY DEF Inductive, Shutdown, FlushedOut, CleanStop
<1>2. QED
  BY <1>1, InductiveHolds, PTL

-----------------------------------------------------------------------------
(* The log of a key is in an order. *)
LEMMA LogOrdered == Table => Log!Ordered
<1> SUFFICES ASSUME Table PROVE Log!Ordered
  OBVIOUS
<1> USE DEF Table
<1>1. ASSUME NEW e \in Event, Committed(e)
      PROVE  e[1] \in Tx /\ tx[e[1]].at = "done" /\ e[2] \in Nat /\ e[1] \notin before[e[1]]
  BY <1>1, EventParts DEF Committed, CommitsOrdered
<1>2. ASSUME NEW k \in Key, NEW e \in LogOf(k)
      PROVE  Prior(e) \subseteq LogOf(k) \ {e}
  BY <1>1, <1>2 DEF LogOf, Prior
<1>3. ASSUME NEW k \in Key, NEW e \in LogOf(k), NEW f \in LogOf(k) \ {e}
      PROVE  e \in Prior(f) <=> f \notin Prior(e)
  <2>1. /\ e \in Event /\ f \in Event /\ Committed(e) /\ Committed(f)
        /\ KeyOf(e) = KeyOf(f) /\ e # f
    BY <1>3 DEF LogOf
  <2>2. CASE e[1] = f[1]
    <3>1. e[2] # f[2]
      BY <2>1, <2>2, EventParts
    <3>2. e[2] < f[2] <=> ~(f[2] < e[2])
      BY <1>1, <2>1, <3>1
    <3>3. QED
      BY <1>1, <2>1, <2>2, <3>2 DEF Prior
  <2>3. CASE e[1] # f[1]
    <3>1. e[1] \in before[f[1]] <=> f[1] \notin before[e[1]]
      BY <1>1, <2>1, <2>3 DEF CommitsOrdered
    <3>2. QED
      BY <2>1, <2>3, <3>1 DEF Prior
  <2>4. QED
    BY <2>2, <2>3
<1>4. ASSUME NEW e \in Event, NEW f \in Prior(e), NEW g \in Prior(f)
      PROVE  g \in Prior(e)
  <2>1. /\ f \in Event /\ g \in Event /\ Committed(e) /\ Committed(f) /\ Committed(g)
        /\ KeyOf(f) = KeyOf(e) /\ KeyOf(g) = KeyOf(f)
        /\ f[1] \in before[e[1]] \/ (f[1] = e[1] /\ f[2] < e[2])
        /\ g[1] \in before[f[1]] \/ (g[1] = f[1] /\ g[2] < f[2])
    BY <1>4 DEF Prior
  <2>2. f[1] \in before[e[1]] => before[f[1]] \subseteq before[e[1]]
    BY <1>1, <2>1 DEF CommitsOrdered
  <2>3. f[2] < e[2] /\ g[2] < f[2] => g[2] < e[2]
    BY <1>1, <2>1
  <2>4. g[1] \in before[e[1]] \/ (g[1] = e[1] /\ g[2] < e[2])
    BY <2>1, <2>2, <2>3
  <2>5. QED
    BY <2>1, <2>4 DEF Prior
<1>5. \A k \in Key : [i \in Key |-> LogOf(i)][k] = LogOf(k) /\ LogOf(k) \subseteq Event
  BY DEF LogOf
<1>6. \A e \in Event : [d \in Event |-> Prior(d)][e] = Prior(e) /\ Prior(e) \subseteq Event
  BY DEF Prior
<1>7. ASSUME NEW k \in Key, NEW e \in LogOf(k)
      PROVE  /\ [d \in Event |-> Prior(d)][e] \subseteq LogOf(k) \ {e}
             /\ \A f \in LogOf(k) \ {e} :
                  e \in [d \in Event |-> Prior(d)][f] <=> f \notin [d \in Event |-> Prior(d)][e]
             /\ \A f \in [d \in Event |-> Prior(d)][e] :
                  [d \in Event |-> Prior(d)][f] \subseteq [d \in Event |-> Prior(d)][e]
  <2>1. e \in Event
    BY <1>5
  <2>2. \A f \in Prior(e) : f \in Event /\ Prior(f) \subseteq Prior(e)
    BY <1>4, <1>6, <2>1
  <2>3. \A f \in LogOf(k) \ {e} : f \in Event /\ (e \in Prior(f) <=> f \notin Prior(e))
    BY <1>3, <1>5
  <2>4. Prior(e) \subseteq LogOf(k) \ {e}
    BY <1>2
  <2>5. QED
    BY <1>6, <2>1, <2>2, <2>3, <2>4
<1>8. QED
  BY <1>5, <1>7 DEF Log!Ordered

LEMMA LogInit == Init => Log!Init
<1> SUFFICES ASSUME Init PROVE Log!Init
  OBVIOUS
<1>1. \A e \in Event : ~Committed(e) /\ status[e] # "dead"
  BY EventParts DEF Init, TxIdle, Committed
<1>2. /\ \A k \in Key : LogOf(k) = {}
      /\ \A e \in Event : Prior(e) = {}
      /\ {e \in Event : status[e] = "dead" /\ ~Sent(e)} = {}
  BY <1>1 DEF LogOf, Prior
<1>3. out = {}
  BY DEF Init
<1>4. [k \in Key |-> LogOf(k)] = [k \in Key |-> {}] /\ [e \in Event |-> Prior(e)] = [e \in Event |-> {}]
  BY <1>2
<1>5. QED
  BY <1>2, <1>3, <1>4 DEF Log!Init

(* Steps that neither commit, nor publish, nor give up. *)
LEMMA LogStutter ==
  ASSUME HistoryQuiet, out' = out, \A e \in Event : status'[e] = "dead" <=> status[e] = "dead"
  PROVE  UNCHANGED Log!vars
<1>1. /\ \A k \in Key : LogOf(k)' = LogOf(k)
      /\ \A e \in Event : Prior(e)' = Prior(e)
  BY HistoryKept
<1>2. /\ [k \in Key |-> LogOf(k)]' = [k \in Key |-> LogOf(k)]
      /\ [e \in Event |-> Prior(e)]' = [e \in Event |-> Prior(e)]
  BY <1>1
<1>3. {e \in Event : status[e] = "dead" /\ ~Sent(e)}' = {e \in Event : status[e] = "dead" /\ ~Sent(e)}
  BY DEF Sent
<1>4. QED
  BY <1>2, <1>3 DEF Log!vars

(* What the runner claimed and has not been published is due. *)
LEMMA ClaimedIsDue ==
  ASSUME Table, Delivery, NEW e \in runner.batch, e \notin out
  PROVE  Log!Due(e)
<1> USE DEF Table, Delivery
<1>1. e \in Event /\ status[e] = "pending" /\ \A f \in Prior(e) : Resolved(f)
  BY RunnerFields DEF Claimed
<1>2. Committed(e)
  BY <1>1, StatusFacts
<1>3. KeyOf(e) \in Key /\ e \in [k \in Key |-> LogOf(k)][KeyOf(e)]
  BY <1>1, <1>2, CommittedFields DEF LogOf
<1>4. e \notin out \cup {f \in Event : status[f] = "dead" /\ ~Sent(f)}
  BY <1>1
<1>5. [d \in Event |-> Prior(d)][e] \subseteq out \cup {f \in Event : status[f] = "dead" /\ ~Sent(f)}
  BY <1>1 DEF Prior, Resolved, Sent
<1>6. QED
  BY <1>3, <1>4, <1>5 DEF Log!Due

LEMMA LanePublishes ==
  ASSUME Table, Delivery, NEW outage \in BOOLEAN,
         PublishMembership(outage) \/ PublishTenant(outage)
  PROVE  Log!Next
<1>1. /\ HistoryQuiet /\ out \subseteq out' /\ out' \subseteq out \cup runner.batch /\ status' = status
  <2>1. CASE PublishMembership(outage)
    BY <2>1, LaneStep DEF PublishMembership
  <2>2. CASE PublishTenant(outage)
    BY <2>2, LaneStep DEF PublishTenant
  <2>3. QED
    BY <2>1, <2>2
<1>2. PICK S : S = out' \ out
  OBVIOUS
<1>3. runner.batch \subseteq Event /\ \A e \in runner.batch : status[e] = "pending"
  BY RunnerFields DEF Table, Delivery, Claimed
<1>4. S \in SUBSET Event /\ out' = out \cup S /\ \A e \in S : Log!Due(e)
  BY <1>1, <1>2, <1>3, ClaimedIsDue
<1>5. /\ [k \in Key |-> LogOf(k)]' = [k \in Key |-> LogOf(k)]
      /\ [e \in Event |-> Prior(e)]' = [e \in Event |-> Prior(e)]
  BY <1>1, HistoryKept
<1>6. {e \in Event : status[e] = "dead" /\ ~Sent(e)}' = {e \in Event : status[e] = "dead" /\ ~Sent(e)}
  BY <1>1, <1>3 DEF Sent
<1>7. Log!Publish(S)
  BY <1>4, <1>5, <1>6 DEF Log!Publish
<1>8. QED
  BY <1>4, <1>7 DEF Log!Next

LEMMA MarkGivesUp ==
  ASSUME Table, Delivery, Mark
  PROVE  Log!Next
<1>1. \A e \in Event :
        \/ status'[e] = status[e]
        \/ status'[e] = "published" /\ e \in runner.batch \ runner.failed
        \/ status'[e] = "dead" /\ e \in runner.failed
  BY MarkEffect
<1>2. HistoryQuiet /\ out' = out
  BY MarkStep DEF Mark
<1>3. /\ runner.failed \subseteq runner.batch
      /\ \A e \in runner.batch : e \in Event /\ status[e] = "pending"
  BY RunnerFields DEF Table, Delivery, Claimed
<1>4. PICK S : S = {e \in Event : status'[e] = "dead" /\ status[e] # "dead" /\ e \notin out}
  OBVIOUS
<1>5. S \in SUBSET Event /\ \A e \in S : Log!Due(e)
  <2>1. \A e \in S : e \in runner.batch /\ e \notin out
    BY <1>1, <1>3, <1>4
  <2>2. QED
    BY <1>4, <2>1, ClaimedIsDue
<1>6. {e \in Event : status[e] = "dead" /\ ~Sent(e)}'
        = {e \in Event : status[e] = "dead" /\ ~Sent(e)} \cup S
  <2>1. \A e \in Event : status[e] = "dead" => status'[e] = "dead"
    BY <1>1, <1>3
  <2>2. QED
    BY <1>2, <1>4, <2>1 DEF Sent
<1>7. /\ [k \in Key |-> LogOf(k)]' = [k \in Key |-> LogOf(k)]
      /\ [e \in Event |-> Prior(e)]' = [e \in Event |-> Prior(e)]
  BY <1>2, HistoryKept
<1>8. Log!GiveUp(S)
  BY <1>2, <1>5, <1>6, <1>7 DEF Log!GiveUp
<1>9. QED
  BY <1>5, <1>8 DEF Log!Next

LEMMA CommitAppends ==
  ASSUME Table, Delivery, NEW t \in Tx, Commit(t)
  PROVE  Log!Next
<1>1. /\ \A e \in Event : KeyOf(e)' = KeyOf(e)
      /\ \A e \in Event : Committed(e) => Committed(e)' /\ Prior(e)' = Prior(e)
  BY CommitHistory
<1>2. \A e \in Event : status'[e] = "dead" <=> status[e] = "dead"
  BY CommitEffect DEF Table
<1>3. out' = out
  BY DEF Commit
<1>4. Table'
  BY CommitKeepsTable
<1>5. Log!Ordered'
  <2>1. Table' => Log!Ordered'
    BY LogOrdered, PTL
  <2>2. QED
    BY <1>4, <2>1
<1>6. ASSUME NEW k \in Key
      PROVE  /\ [i \in Key |-> LogOf(i)][k] \subseteq [i \in Key |-> LogOf(i)]'[k]
             /\ \A e \in [i \in Key |-> LogOf(i)][k] :
                  [d \in Event |-> Prior(d)]'[e] = [d \in Event |-> Prior(d)][e]
  <2>1. LogOf(k) \subseteq LogOf(k)' /\ \A e \in LogOf(k) : e \in Event /\ Prior(e)' = Prior(e)
    BY <1>1 DEF LogOf
  <2>2. QED
    BY <2>1
<1>7. {e \in Event : status[e] = "dead" /\ ~Sent(e)}' = {e \in Event : status[e] = "dead" /\ ~Sent(e)}
  BY <1>2, <1>3 DEF Sent
<1>8. Log!Commit
  BY <1>3, <1>5, <1>6, <1>7 DEF Log!Commit
<1>9. QED
  BY <1>8 DEF Log!Next

LEMMA LogStep == Inductive /\ [Next]_vars => [Log!Next]_(Log!vars)
<1> SUFFICES ASSUME Inductive, [Next]_vars PROVE Log!Next \/ UNCHANGED Log!vars
  OBVIOUS
<1> USE DEF Inductive
<1>1. ASSUME NEW t \in Tx, Begin(t) \/ TxStep(t)
      PROVE  Log!Next \/ UNCHANGED Log!vars
  <2>1. CASE Begin(t)
    BY <2>1, BeginStep, LogStutter DEF Begin
  <2>2. CASE Enqueue(t)
    <3>1. PICK x : x = <<t, tx[t].done + 1>>
      OBVIOUS
    <3>2. /\ x \in Event /\ status[x] = "none"
          /\ status'[x] = "open" /\ \A e \in Event \ {x} : status'[e] = status[e]
      BY <2>2, <3>1, EnqueueEffect DEF Table
    <3>3. \A e \in Event : status'[e] = "dead" <=> status[e] = "dead"
      BY <3>2
    <3>4. QED
      BY <2>2, <3>3, EnqueueStep, LogStutter DEF Enqueue
  <2>3. CASE Commit(t)
    BY <2>3, CommitAppends
  <2>4. CASE Reject(t)
    <3>1. HistoryQuiet /\ \A e \in Event : status'[e] = "dead" <=> status[e] = "dead"
      BY <2>4, RejectStep
    <3>2. QED
      BY <2>4, <3>1, LogStutter DEF Reject
  <2>5. CASE Retry(t)
    <3>1. HistoryQuiet /\ \A e \in Event : status'[e] = "dead" <=> status[e] = "dead"
      BY <2>5, RetryStep
    <3>2. QED
      BY <2>5, <3>1, LogStutter DEF Retry
  <2>6. QED
    BY <1>1, <2>1, <2>2, <2>3, <2>4, <2>5 DEF TxStep
<1>2. CASE Claim
  BY <1>2, LogStutter DEF Claim, HistoryQuiet
<1>3. ASSUME NEW outage \in BOOLEAN, PublishMembership(outage) \/ PublishTenant(outage)
      PROVE  Log!Next \/ UNCHANGED Log!vars
  BY <1>3, LanePublishes
<1>4. CASE Mark
  BY <1>4, MarkGivesUp
<1>5. CASE Prune
  <2>1. \A e \in Event : status'[e] = "dead" <=> status[e] = "dead"
    BY <1>5 DEF Prune
  <2>2. QED
    BY <1>5, <2>1, LogStutter DEF Prune, HistoryQuiet
<1>6. CASE Closed \/ Crash
  <2>1. HistoryQuiet /\ \A e \in Event : status'[e] = "dead" <=> status[e] = "dead"
    BY <1>6, EndedStep
  <2>2. out' = out
    BY <1>6 DEF Closed, Crash
  <2>3. QED
    BY <2>1, <2>2, LogStutter
<1>7. CASE Sigterm \/ Drained \/ Flushed \/ Restart \/ UNCHANGED vars
  BY <1>7, LogStutter DEF Sigterm, Drained, Flushed, Restart, vars, HistoryQuiet
<1>8. QED
  BY <1>1, <1>2, <1>3, <1>4, <1>5, <1>6, <1>7 DEF Next

(* The outbox implements EventLog: whatever deadlocks, failed lanes, lost    *)
(* answers, crashes and shutdowns come in between, the first publications of *)
(* the events of one ordering key follow the order of their commits, and an  *)
(* event is passed over only when it was dead-lettered.                      *)
THEOREM OutboxImplementsLog == Spec => OrderedPublication
BY InductiveHolds, LogInit, LogStep, PTL DEF Spec, OrderedPublication, Log!Spec

=============================================================================
