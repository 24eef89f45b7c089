-------------------------- MODULE OutboxDelivery ----------------------------
(***************************************************************************)
(* The way of a domain event out of the service: TxRunner.RunInTx with the *)
(* events that Publisher.Enqueue writes into outbox_events, the outbox     *)
(* runner of platform-events (external) that publishes them, the           *)
(* RoutingPublisher that splits a batch over the two SNS topics, the job   *)
(* outbox-prune, and the shutdown of the process.                          *)
(*                                                                         *)
(* Enqueue locks the ordering key of the event until the transaction ends, *)
(* so that the rows of one key become visible in the order in which they   *)
(* were inserted.  Two transactions that lock two keys in opposite order   *)
(* deadlock; Postgres aborts one and RunInTx runs it again.                *)
(***************************************************************************)
EXTENDS Integers, FiniteSets, Sequences

CONSTANTS Key,          \* ordering keys: tenant and subject
          Tx,           \* transactions
          Body,         \* what transactions enqueue: events, each of a key and a topic
          BodyOf,       \* of these, the ones that a transaction may have
          MaxBody,      \* bound on the events of a transaction
          MaxTries,     \* writeRetryOpts.MaxAttempts
          MaxAttempts   \* OUTBOX_MAX_ATTEMPTS

ASSUME BodyAssumption ==
  \A b \in Body : /\ b \in Seq([key : Key, topic : {"membership", "tenant"}])
                  /\ Len(b) <= MaxBody
ASSUME BodyOfAssumption == \A t \in Tx : BodyOf[t] \subseteq Body
ASSUME BoundAssumption == {MaxBody, MaxTries, MaxAttempts} \subseteq Nat \ {0}

VARIABLES
  tx,         \* the transactions
  older,      \* the rows of outbox_events: for each, those inserted before it
  status,     \* of the event of a row: see Status
  attempts,   \* failed publications of an unsettled event
  runner,     \* the outbox runner
  phase,      \* of the process: up, draining, flushing, closing, down
  clean,      \* the shutdown was not cut short
  before,     \* history: the transactions that committed before a transaction
  out         \* history: the published events

vars == <<tx, older, status, attempts, runner, phase, clean, before, out>>

(* An event is a transaction and the place of the event in its body.  Every  *)
(* event the services build has a subject, hence an ordering key.            *)
Event == Tx \X (1..MaxBody)
KeyOf(e) == tx[e[1]].body[e[2]].key
TopicForEvent(e) == tx[e[1]].body[e[2]].topic

(* none: not inserted; open: inserted, not committed; dead: moved to         *)
(* outbox_dead_letters; pruned: published, and deleted after the retention.  *)
Status == {"none", "open", "pending", "published", "dead", "pruned"}

TxIdle == [at |-> "idle", body |-> <<>>, done |-> 0, tries |-> 0]
TxFailed == [TxIdle EXCEPT !.at = "failed"]
RunnerIdle == [at |-> "idle", batch |-> {}, failed |-> {}, retry |-> {}]

Running(t) == tx[t].at = "run"
Enqueued(t) == {<<t, n>> : n \in 1..tx[t].done}
Unfinished(t) == Running(t) /\ tx[t].done < Len(tx[t].body)

Committed(e) == tx[e[1]].at = "done" /\ e[2] <= tx[e[1]].done
Sent(e) == e \in out

-----------------------------------------------------------------------------
(* The keys whose advisory lock t holds: taken by Enqueue, kept to the end.  *)
Locks(t) == IF Running(t) THEN {KeyOf(e) : e \in Enqueued(t)} ELSE {}

(* A faulty variant: no lock on the ordering key.                            *)
Unlocked(t, k) == {}

(* The transactions that t waits for when it enqueues an event of key k.     *)
Blockers(t, k) == {u \in Tx \ {t} : k \in Locks(u)}

NextKey(t) == tx[t].body[tx[t].done + 1].key

(* A request or a consumed message opens a transaction. *)
Begin(t) ==
  /\ phase = "up" /\ tx[t].at = "idle"
  /\ \E b \in BodyOf[t] : tx' = [tx EXCEPT ![t] = [at |-> "run", body |-> b, done |-> 0, tries |-> 1]]
  /\ UNCHANGED <<older, status, attempts, runner, phase, clean, before, out>>

(* Publisher.Enqueue: validate, lock the ordering key, insert. *)
Enqueue(t) ==
  /\ Unfinished(t) /\ Blockers(t, NextKey(t)) = {}
  /\ tx' = [tx EXCEPT ![t].done = @ + 1]
  /\ older' = [older EXCEPT ![<<t, tx[t].done + 1>>] = {e \in Event : status[e] # "none"}]
  /\ status' = [status EXCEPT ![<<t, tx[t].done + 1>>] = "open"]
  /\ UNCHANGED <<attempts, runner, phase, clean, before, out>>

(* COMMIT: the rows become visible. *)
Commit(t) ==
  /\ Running(t) /\ ~Unfinished(t)
  /\ tx' = [tx EXCEPT ![t].at = "done", ![t].tries = 0]
  /\ status' = [e \in Event |-> IF e \in Enqueued(t) THEN "pending" ELSE status[e]]
  /\ before' = [before EXCEPT ![t] = {u \in Tx : tx[u].at = "done"}]
  /\ UNCHANGED <<older, attempts, runner, phase, clean, out>>

RolledBack(T) ==
  LET lost == {e \in Event : e[1] \in T /\ Running(e[1])}
  IN /\ older' = [e \in Event |-> IF e \in lost THEN {} ELSE older[e] \ lost]
     /\ status' = [e \in Event |-> IF e \in lost THEN "none" ELSE status[e]]

(* The payload does not fit its schema (ValidatingCodec fails closed), or    *)
(* the transaction fails otherwise: nothing of it stays.                     *)
Reject(t) ==
  /\ Unfinished(t)
  /\ RolledBack({t})
  /\ tx' = [tx EXCEPT ![t] = TxFailed]
  /\ UNCHANGED <<attempts, runner, phase, clean, before, out>>

(* Deadlocked transactions wait for each other. *)
Deadlocked(t) ==
  \E T \in SUBSET Tx :
    t \in T /\ \A u \in T : Unfinished(u) /\ Blockers(u, NextKey(u)) \cap T # {}

(* 40P01: Postgres aborts one of them, and RunInTxWithRetryOpts runs its     *)
(* function again, up to MaxTries times.                                     *)
Retry(t) ==
  /\ Running(t) /\ Deadlocked(t)
  /\ RolledBack({t})
  /\ tx' = [tx EXCEPT ![t] =
       IF tx[t].tries < MaxTries THEN [tx[t] EXCEPT !.done = 0, !.tries = tx[t].tries + 1]
                                 ELSE TxFailed]
  /\ UNCHANGED <<attempts, runner, phase, clean, before, out>>

-----------------------------------------------------------------------------
(* External, as the comments of publisher.go state it: the runner publishes  *)
(* the records of one key one at a time, in enqueue order.                   *)
Heads ==
  {e \in Event :
     /\ status[e] = "pending"
     /\ \A f \in older[e] : status[f] = "pending" => KeyOf(f) # KeyOf(e)}

(* The runner claims a batch and hands it to PublishBatch. *)
Claim ==
  /\ phase \notin {"closing", "down"} /\ runner.at = "idle" /\ Heads # {}
  /\ runner' = [at |-> "membership", batch |-> Heads, failed |-> {}, retry |-> {}]
  /\ UNCHANGED <<tx, older, status, attempts, phase, clean, before, out>>

Lane(topic) == {e \in runner.batch : TopicForEvent(e) = topic}

(* SNS takes the events of S: the first time, subscribers learn of them.     *)
Taken(S) == out' = out \cup S

(* What the publisher of a lane may answer when SNS took the events S: the   *)
(* failures one by one, some of them transient (a BatchError), or one error  *)
(* for the whole lane, transient or not, be it that SNS took some of it.     *)
LaneErrors(topic, S) ==
  {[failed |-> Lane(topic) \ S, transient |-> T] : T \in SUBSET (Lane(topic) \ S)}
    \cup {[failed |-> Lane(topic), transient |-> T] : T \in {{}, Lane(topic)}}

(* A faulty variant: whatever fails is reported as transient.                *)
AllRetryable(err) == err.failed

(* appendLaneFailures: the failures it reports with Retryable set.           *)
Retryable(err) == err.transient

(* publishLane and appendLaneFailures; outage says whether a failure of this *)
(* lane is transient (throttling, a timeout) or none is.                     *)
PublishLane(topic, then, outage) ==
  \E S \in SUBSET Lane(topic) : \E err \in LaneErrors(topic, S) :
    /\ outage <=> err.transient # {}
    /\ Taken(S)
    /\ runner' = [runner EXCEPT !.at = then, !.failed = @ \cup err.failed,
                                !.retry = @ \cup Retryable(err)]

(* RoutingPublisher.PublishBatch: the membership topic, *)
PublishMembership(outage) ==
  /\ runner.at = "membership"
  /\ PublishLane("membership", "tenant", outage)
  /\ UNCHANGED <<tx, older, status, attempts, phase, clean, before>>

(* A faulty variant: the first lane's error is returned at once.             *)
PublishTenantUnlessFailed(outage) ==
  /\ runner.at = "tenant"
  /\ IF runner.failed # {}
       THEN runner' = [runner EXCEPT !.at = "mark"] /\ UNCHANGED out
       ELSE PublishLane("tenant", "mark", outage)
  /\ UNCHANGED <<tx, older, status, attempts, phase, clean, before>>

(* then the tenant topic, whatever became of the first. *)
PublishTenant(outage) ==
  /\ runner.at = "tenant"
  /\ PublishLane("tenant", "mark", outage)
  /\ UNCHANGED <<tx, older, status, attempts, phase, clean, before>>

(* External: a record of the batch that the BatchError does not list is      *)
(* published.  A failure counts an attempt; a retryable one does not by the  *)
(* runbook of the outbox backlog, and does by the LLD's failure table, so it *)
(* may or may not.  MaxAttempts of them dead-letter the record.              *)
Mark ==
  /\ runner.at = "mark"
  /\ \E counted \in {runner.failed \ runner.retry, runner.failed} :
       LET dead == {e \in counted : attempts[e] + 1 = MaxAttempts}
           sent == runner.batch \ runner.failed
       IN /\ status' = [e \in Event |-> IF e \in sent THEN "published"
                                        ELSE IF e \in dead THEN "dead" ELSE status[e]]
          /\ attempts' = [e \in Event |-> IF e \in sent \cup dead THEN 0
                            ELSE IF e \in counted THEN attempts[e] + 1 ELSE attempts[e]]
  /\ runner' = RunnerIdle
  /\ UNCHANGED <<tx, older, phase, clean, before, out>>

(* outbox-prune: PrunePublished until a batch comes back short. *)
Prune ==
  /\ \E e \in Event : status[e] = "published"
  /\ status' = [e \in Event |-> IF status[e] = "published" THEN "pruned" ELSE status[e]]
  /\ UNCHANGED <<tx, older, attempts, runner, phase, clean, before, out>>

-----------------------------------------------------------------------------
(* SIGTERM: HTTP Shutdown and the Stop of every consumer let what is under   *)
(* way finish and start nothing new.                                         *)
Sigterm ==
  /\ phase = "up"
  /\ phase' = "draining"
  /\ UNCHANGED <<tx, older, status, attempts, runner, clean, before, out>>

(* A faulty variant: the outbox stops first.                                 *)
DrainAfterFlush ==
  /\ phase = "draining" /\ runner.at = "idle" /\ Heads = {}
  /\ phase' = "flushing"
  /\ UNCHANGED <<tx, older, status, attempts, runner, clean, before, out>>

(* drain.Wait: every request and handler has ended, or a drain timed out and *)
(* what it waited for goes on.                                               *)
Drained ==
  /\ phase = "draining"
  /\ phase' = "flushing"
  /\ \E ended \in BOOLEAN :
       /\ ended => \A t \in Tx : ~Running(t)
       /\ clean' = (clean /\ ended)
  /\ UNCHANGED <<tx, older, status, attempts, runner, before, out>>

(* outboxRunner.Stop: nothing committed is left to publish, or it timed out. *)
Flushed ==
  /\ phase = "flushing"
  /\ phase' = "closing"
  /\ \E ended \in BOOLEAN :
       /\ ended => Heads = {} /\ runner.at = "idle"
       /\ clean' = (clean /\ ended)
  /\ runner' = RunnerIdle
  /\ UNCHANGED <<tx, older, status, attempts, before, out>>

(* The end of the process: open transactions roll back, a claim runs out.    *)
Ended ==
  /\ phase' = "down"
  /\ RolledBack(Tx)
  /\ tx' = [t \in Tx |-> IF Running(t) THEN TxFailed ELSE tx[t]]
  /\ runner' = RunnerIdle

(* DrainAndClose of the pools: the transactions that still run have ended in *)
(* the meantime, or are cut off.                                             *)
Closed ==
  /\ phase = "closing"
  /\ Ended
  /\ UNCHANGED <<attempts, clean, before, out>>

(* The process is killed. *)
Crash ==
  /\ phase # "down"
  /\ Ended /\ clean' = FALSE
  /\ UNCHANGED <<attempts, before, out>>

(* Kubernetes starts it again. *)
Restart ==
  /\ phase = "down"
  /\ phase' = "up" /\ clean' = TRUE
  /\ UNCHANGED <<tx, older, status, attempts, runner, before, out>>

-----------------------------------------------------------------------------
Init ==
  /\ tx = [t \in Tx |-> TxIdle] /\ older = [e \in Event |-> {}]
  /\ status = [e \in Event |-> "none"] /\ attempts = [e \in Event |-> 0]
  /\ runner = RunnerIdle /\ phase = "up" /\ clean = TRUE
  /\ before = [t \in Tx |-> {}] /\ out = {}

TxStep(t) == Enqueue(t) \/ Commit(t) \/ Reject(t) \/ Retry(t)

Next ==
  \/ \E t \in Tx : Begin(t) \/ TxStep(t)
  \/ \E outage \in BOOLEAN : PublishMembership(outage) \/ PublishTenant(outage)
  \/ Claim \/ Mark \/ Prune
  \/ Sigterm \/ Drained \/ Flushed \/ Closed \/ Crash \/ Restart

Spec == Init /\ [][Next]_vars

(* Postgres makes progress, the runner polls, the process comes back (the    *)
(* drain of the pools has a budget), and SNS is not out for ever: time and   *)
(* again a batch meets no transient failure, and the process is not killed   *)
(* in the middle of every such batch.                                        *)
Undisturbed == runner.retry = {}

Fairness ==
  /\ \A t \in Tx : WF_vars(TxStep(t))
  /\ WF_vars(Closed \/ Restart) /\ SF_vars(Claim)
  /\ WF_vars(\E outage \in BOOLEAN : PublishTenant(outage)) /\ WF_vars(Mark)
  /\ SF_vars(PublishMembership(FALSE))
  /\ SF_vars(Undisturbed /\ PublishTenant(FALSE)) /\ SF_vars(Undisturbed /\ Mark)

FairSpec == Spec /\ Fairness

-----------------------------------------------------------------------------
TxRec == [at : {"idle", "run", "done", "failed"}, body : Body \cup {<<>>},
          done : 0..MaxBody, tries : 0..MaxTries]
RunnerRec == [at : {"idle", "membership", "tenant", "mark"},
              batch : SUBSET Event, failed : SUBSET Event, retry : SUBSET Event]

(* Types; an event is open while its transaction runs, and has one of the    *)
(* committed states from the commit on.                                      *)
TypeOK ==
  /\ tx \in [Tx -> TxRec] /\ runner \in RunnerRec
  /\ older \in [Event -> SUBSET Event]
  /\ status \in [Event -> Status] /\ attempts \in [Event -> 0..(MaxAttempts - 1)]
  /\ phase \in {"up", "draining", "flushing", "closing", "down"} /\ clean \in BOOLEAN
  /\ before \in [Tx -> SUBSET Tx] /\ out \in SUBSET Event
  /\ \A t \in Tx : IF tx[t].at \in {"run", "done"}
                     THEN tx[t].body \in Body /\ tx[t].done <= Len(tx[t].body)
                     ELSE tx[t].done = 0
  /\ \A e \in Event : /\ status[e] = "open" <=> Running(e[1]) /\ e[2] <= tx[e[1]].done
                      /\ status[e] \notin {"none", "open"} <=> Committed(e)

(* A record is marked published, and later pruned, only when SNS took it:    *)
(* the outcomes of the two lanes are merged without losing an event.         *)
PublishedWasSent ==
  \A e \in Event : status[e] \in {"published", "pruned"} => Sent(e)

(* A shutdown that ran within its budgets leaves no committed event to wait  *)
(* for the next start.                                                       *)
CleanStop ==
  phase = "down" /\ clean =>
    \A e \in Event : status[e] \notin {"open", "pending"}

Resolved(e) == Sent(e) \/ status[e] = "dead"

(* The log of a key, and what precedes an event in it. *)
LogOf(k) == {e \in Event : Committed(e) /\ KeyOf(e) = k}
Prior(e) ==
  {f \in Event : /\ Committed(e) /\ Committed(f) /\ KeyOf(f) = KeyOf(e)
                 /\ f[1] \in before[e[1]] \/ (f[1] = e[1] /\ f[2] < e[2])}

Log == INSTANCE EventLog WITH
  log <- [k \in Key |-> LogOf(k)],
  prior <- [e \in Event |-> Prior(e)],
  gone <- {e \in Event : status[e] = "dead" /\ ~Sent(e)}

(* The publication order of one key is its commit order (publisher.go,       *)
(* orderingKey): the outbox implements EventLog.                             *)
OrderedPublication == Log!Spec

(* Committed events are published or dead-lettered in the end, across        *)
(* crashes, failed lanes, outages that pass and deadlocks: an event that SNS *)
(* refuses for good does not hold back its key for ever, be the transient    *)
(* failures counted or not.                                                  *)
Unsettled == \E e \in Event : status[e] = "pending" /\ ~Resolved(e)
EventsSettle == Unsettled ~> ~Unsettled
=============================================================================
