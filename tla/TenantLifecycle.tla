-------------------------- MODULE TenantLifecycle ---------------------------
(***************************************************************************)
(* One tenant, from its first lifecycle event to its deletion: the two     *)
(* SQS queues, the event consumer's transaction with its dedup claim and   *)
(* recency guard, I-1 (TrialSignup, called by the BFF and by the           *)
(* TenantIdentityProvisioned backstop), the store of parked events with    *)
(* its two replayers, I-2 (SetRealmFields) and the trial-cleanup job.      *)
(*                                                                         *)
(* Postgres runs at READ COMMITTED, so a transaction is one step only from *)
(* the point where it holds the row lock it needs until its commit; before *)
(* that every statement is a step of its own.                              *)
(***************************************************************************)
EXTENDS TenantProjection, Sequences, FiniteSets

CONSTANTS Worker,       \* goroutines that handle queue messages
          Signup,       \* callers of I-1
          Backstop,     \* the callers that are the backstop handler
          Sweep,        \* the parked-events-replay job
          NoEvent,      \* no message in hand
          Nobody,       \* nobody holds the provisioning lock
          Types,        \* event types the producers emit in this instance
          RealmWrites,  \* realm types Realm Provisioner writes through I-2
          MaxEvents,    \* bound on the number of events published
          MaxReceives,  \* SQS_MAX_RECEIVE_COUNT
          Skew,         \* the future-time tolerance of EVT-15
          Faults        \* which of the environment's faults may happen

ASSUME ProcessAssumption ==
  /\ Backstop \subseteq Signup
  /\ Worker \cap Signup = {}
  /\ Sweep \notin Signup
  /\ Nobody \notin Worker \cup Signup
ASSUME BoundAssumption ==
  /\ MaxEvents \in Nat
  /\ MaxReceives \in Nat \ {0}
  /\ Skew \in Nat
  /\ Faults \subseteq {"corruptTime", "lostDelete", "dlqReplay", "prune"}
  /\ Types \subseteq EventType
  /\ RealmWrites \subseteq RealmType
  /\ Seats # {}

VARIABLES
  tenant,       \* the tenants row, or NoTenant
  processed,    \* processed_events of this consumer
  parked,       \* pending_tenant_events
  log,          \* times of the events projected on this row, in commit order
  relays,       \* TenantStateChanged events enqueued for it, in commit order
  purged,       \* was TenantMembershipsPurged enqueued for this row?
  children,     \* does the tenant have child rows (members, roles, ...)?
  sent,         \* every event ever published
  acked,        \* messages deleted from their queue
  dlq,          \* messages moved to the dead-letter queue
  receives,     \* receive count of each message
  clock,        \* the producers' and the consumer's time
  producer,     \* the lifecycle state Realm Provisioner and Billing hold
  handler,      \* the message each worker handles and how far it got
  signup,       \* how far each I-1 call got
  provLock,     \* holder of the tenant's provisioning advisory lock
  replay,       \* the snapshot each replayer still has to go through
  cleanup       \* has trial-cleanup listed this tenant?

dbVars == <<tenant, processed, parked, log, relays, purged, children>>
sqsVars == <<sent, acked, dlq, receives>>
producerVars == <<clock, producer>>
processVars == <<handler, signup, provLock, replay>>
vars == <<dbVars, sqsVars, producerVars, processVars, cleanup>>

NoTenant == [status |-> "none"]

Live == tenant # NoTenant /\ ~ tenant.deleted
SoftDeleted == tenant # NoTenant /\ tenant.deleted

Queue == sent \ (acked \cup dlq)

Replayer == Signup \cup {Sweep}

HandlerPc == {"idle", "begin", "probe", "waitLock", "recheck", "park"}
SignupPc == {"idle", "waitLock", "tx", "replay"}

Relay == [from : Status, to : Status, fromPlan : Plan, toPlan : Plan]

IdleHandler == [pc |-> "idle", ev |-> NoEvent, days |-> 0]
IdleReplay == [todo |-> {}, peeked |-> FALSE, days |-> 0]

Init ==
  /\ tenant = NoTenant
  /\ processed = {} /\ parked = {}
  /\ log = <<>> /\ relays = <<>> /\ purged = FALSE /\ children = FALSE
  /\ sent = {} /\ acked = {} /\ dlq = {}
  /\ receives = [i \in 1..MaxEvents |-> 0]
  /\ clock = 0
  /\ producer = [status |-> "trial", paid |-> FALSE]
  /\ handler = [w \in Worker |-> IdleHandler]
  /\ signup = [s \in Signup |-> "idle"]
  /\ provLock = Nobody
  /\ replay = [r \in Replayer |-> IdleReplay]
  /\ cleanup = "idle"

-----------------------------------------------------------------------------
(* The producers (external): Realm Provisioner and Billing walk the          *)
(* documented lifecycle and publish one event per transition.                *)

MayEmit(type, source) ==
  LET st == producer.status IN
  CASE type = "TenantRealmReady" -> producer.paid /\ st # "offboarded"
    [] type = "TenantConverted" ->
         ~ producer.paid /\ st \in {"trial", "trial_expired"}
    [] type = "DirectPaidSignup" -> ~ producer.paid /\ st = "trial"
    [] type = "TrialExpired" -> ~ producer.paid /\ st = "trial"
    [] type = "TrialReactivated" -> st = "trial_expired"
    [] type = "TenantSuspended" ->
         IF source = "operator" THEN st \in {"trial", "active", "past_due"}
                                ELSE st = "cancelled"
    [] type = "TenantOffboarded" -> st = "suspended"
    [] type \in {"TenantPlanChanged", "TenantSeatsChanged"} ->
         producer.paid /\ st # "offboarded"
    [] type = "TenantPaymentPastDue" -> st = "active"
    [] type = "TenantSubscriptionCancelled" -> st \in {"active", "past_due"}
    [] OTHER -> st \in {"cancelled", "suspended"}

ProducerAfter(type) ==
  CASE type \in {"TenantConverted", "DirectPaidSignup"} ->
         [status |-> "active", paid |-> TRUE]
    [] type = "TrialExpired" -> [producer EXCEPT !.status = "trial_expired"]
    [] type = "TrialReactivated" -> [producer EXCEPT !.status = "trial"]
    [] type = "TenantSuspended" -> [producer EXCEPT !.status = "suspended"]
    [] type = "TenantOffboarded" -> [producer EXCEPT !.status = "offboarded"]
    [] type = "TenantPaymentPastDue" -> [producer EXCEPT !.status = "past_due"]
    [] type = "TenantSubscriptionCancelled" ->
         [producer EXCEPT !.status = "cancelled"]
    [] type = "TenantReactivated" ->
         [producer EXCEPT !.status = IF producer.paid THEN "active"
                                                      ELSE "trial"]
    [] OTHER -> producer

(* The payload fields an event type carries; the others have a fixed value. *)
Payloads(type) ==
  [plan : IF type \in {"TenantConverted", "DirectPaidSignup",
                       "TenantPlanChanged"}
          THEN Plan \cup {NoPlan} ELSE {NoPlan},
   seats : IF type = "TenantSeatsChanged"
           THEN Seats ELSE {CHOOSE n \in Seats : TRUE},
   source : IF type = "TenantSuspended"
            THEN {"billing_lapse", "operator"} ELSE {"none"}]

Publish(type, payload, ahead) ==
  /\ clock < MaxEvents
  /\ MayEmit(type, payload.source)
  /\ clock' = clock + 1
  /\ sent' = sent \cup {[id |-> clock + 1, type |-> type,
                         time |-> clock + 1 + ahead, plan |-> payload.plan,
                         seats |-> payload.seats, source |-> payload.source]}
  /\ producer' = ProducerAfter(type)
  /\ UNCHANGED <<dbVars, acked, dlq, receives, processVars, cleanup>>

-----------------------------------------------------------------------------
(* The projection of one event on the locked live row: the recency guard,   *)
(* the patch, the high-water mark, the relay and, on offboarding, the wipe  *)
(* of the child rows with its purge signal.                                 *)

(* Faulty variant: an event as old as the high-water mark is not stale. *)
StaleStrict(e) == e.time < tenant.lastEventAt

Stale(e) == e.time <= tenant.lastEventAt

SkipStale(e) ==
  /\ Stale(e)
  /\ UNCHANGED <<tenant, log, relays, purged, children>>

(* Faulty variant: the relay is emitted for every event. *)
StateChangedAlways(e) == e \in Event

StateChanged(e) ==
  \/ ReportedStatus(tenant, e) # tenant.status
  \/ ReportedPlan(tenant, e) # tenant.plan

(* Faulty variant: the wipe expects to find the tenant suspended. *)
OffboardsSuspended(e) ==
  ReportedStatus(tenant, e) = "offboarded" /\ tenant.status = "suspended"

Offboards(e) ==
  ReportedStatus(tenant, e) = "offboarded" /\ tenant.status # "offboarded"

Project(e, days) ==
  \/ SkipStale(e)
  \/ /\ ~ Stale(e)
     /\ ChecksHold(Patched(tenant, e, days))
     /\ tenant' = [Patched(tenant, e, days) EXCEPT !.lastEventAt = e.time]
     /\ log' = Append(log, e.time)
     /\ relays' =
          IF StateChanged(e)
          THEN Append(relays, [from |-> tenant.status,
                               to |-> ReportedStatus(tenant, e),
                               fromPlan |-> tenant.plan,
                               toPlan |-> ReportedPlan(tenant, e)])
          ELSE relays
     /\ purged' = IF Offboards(e) THEN TRUE ELSE purged
     /\ children' = IF Offboards(e) THEN FALSE ELSE children

(* The trial length read before the transaction; 0 when it is not needed or *)
(* the tenant is absent.                                                    *)
PeekTrialDays(e) ==
  IF e.type = "TrialReactivated" /\ Live THEN TrialDays[tenant.plan] ELSE 0

-----------------------------------------------------------------------------
(* The consumer.  Receive takes a message off a queue, at least once and in *)
(* any order: the visibility timeout may expire, so two workers may hold    *)
(* the same message.                                                        *)

(* Faulty variant: no future clamp. *)
FutureTimeUnchecked(e) == e \notin Event

FutureTime(e) == e.time > clock + Skew

Receive(w, e) ==
  /\ handler[w].pc = "idle"
  /\ e \in Queue
  /\ receives[e.id] < MaxReceives
  /\ ~ FutureTime(e)
  /\ receives' = [receives EXCEPT ![e.id] = @ + 1]
  /\ handler' = [handler EXCEPT ![w] = [pc |-> "begin", ev |-> e,
                                        days |-> PeekTrialDays(e)]]
  /\ UNCHANGED <<dbVars, sent, acked, dlq, producerVars, signup, provLock,
                 replay, cleanup>>

(* EVT-15: a far-future message goes straight to the DLQ. *)
RejectFuture(w, e) ==
  /\ handler[w].pc = "idle"
  /\ e \in Queue
  /\ FutureTime(e)
  /\ dlq' = dlq \cup {e}
  /\ UNCHANGED <<dbVars, sent, acked, receives, producerVars, processVars,
                 cleanup>>

(* Faulty variant: the redrive count is off by one. *)
RedriveOver(e) ==
  /\ e \in Queue
  /\ receives[e.id] > MaxReceives
  /\ dlq' = dlq \cup {e}
  /\ UNCHANGED <<dbVars, sent, acked, receives, producerVars, processVars,
                 cleanup>>

(* A message received MaxReceives times without being deleted is moved to   *)
(* the DLQ by the queue.                                                    *)
Redrive(e) ==
  /\ e \in Queue
  /\ receives[e.id] = MaxReceives
  /\ \A w \in Worker : handler[w].ev # e
  /\ dlq' = dlq \cup {e}
  /\ UNCHANGED <<dbVars, sent, acked, receives, producerVars, processVars,
                 cleanup>>

(* An operator replays a dead-lettered message, per the runbook. *)
ReplayDlq(e) ==
  /\ "dlqReplay" \in Faults
  /\ e \in dlq
  /\ dlq' = dlq \ {e}
  /\ receives' = [receives EXCEPT ![e.id] = 0]
  /\ UNCHANGED <<dbVars, sent, acked, producerVars, processVars, cleanup>>

(* processed-events-prune: its retention outlives any queued message. *)
Prune(e) ==
  /\ "prune" \in Faults
  /\ e \in processed
  /\ e \notin Queue
  /\ processed' = processed \ {e}
  /\ UNCHANGED <<tenant, parked, log, relays, purged, children, sqsVars,
                 producerVars, processVars, cleanup>>

(* Does another worker's open transaction hold the claim on this event?  The *)
(* claim is the transaction's first statement, so a duplicate waits for it.  *)
Claimable(w) ==
  \A v \in Worker \ {w} :
    handler[v].ev = handler[w].ev => handler[v].pc \in {"idle", "begin"}

Claims(w) ==
  /\ handler[w].pc = "begin"
  /\ Claimable(w)
  /\ handler[w].ev \notin processed

Release(w) == provLock' = IF provLock = w THEN Nobody ELSE provLock

(* The handler returns nil: the message is deleted, or the deletion is lost  *)
(* and the message comes back.                                               *)
Return(w) ==
  /\ handler' = [handler EXCEPT ![w] = IdleHandler]
  /\ \/ acked' = acked \cup {handler[w].ev}
     \/ "lostDelete" \in Faults /\ acked' = acked

(* The transaction commits with its claim, and the handler returns. *)
Commit(w) ==
  /\ processed' = processed \cup {handler[w].ev}
  /\ Return(w)
  /\ Release(w)
  /\ UNCHANGED <<sent, dlq, receives, producerVars, signup, replay, cleanup>>

Duplicate(w) ==
  /\ handler[w].pc = "begin"
  /\ Claimable(w)
  /\ handler[w].ev \in processed
  /\ Return(w)
  /\ UNCHANGED <<dbVars, sent, dlq, receives, producerVars, signup, provLock,
                 replay, cleanup>>

ApplyLive(w) ==
  /\ Claims(w)
  /\ Live
  /\ Project(handler[w].ev, handler[w].days)
  /\ Commit(w)
  /\ UNCHANGED parked

(* A TenantOffboarded with nothing to offboard is dropped. *)
DropOffboarded(w) ==
  /\ Claims(w)
  /\ ~ Live
  /\ handler[w].ev.type = "TenantOffboarded"
  /\ Commit(w)
  /\ UNCHANGED <<tenant, parked, log, relays, purged, children>>

HandlerStep(w, pc) ==
  /\ handler' = [handler EXCEPT ![w].pc = pc]
  /\ UNCHANGED <<dbVars, sqsVars, producerVars, signup, replay, cleanup>>

(* LockForProjection found no live row. *)
Miss(w) ==
  /\ Claims(w)
  /\ ~ Live
  /\ handler[w].ev.type # "TenantOffboarded"
  /\ HandlerStep(w, "probe")
  /\ UNCHANGED provLock

(* FindByIDIncludingDeleted, a later statement with its own snapshot: a row, *)
(* taken to be soft-deleted, makes the event be recorded and dropped.        *)
DropFound(w) ==
  /\ handler[w].pc = "probe"
  /\ tenant # NoTenant
  /\ Commit(w)
  /\ UNCHANGED <<tenant, parked, log, relays, purged, children>>

ProbeMissing(w) ==
  /\ handler[w].pc = "probe"
  /\ tenant = NoTenant
  /\ HandlerStep(w, "waitLock")
  /\ UNCHANGED provLock

(* Faulty variant: the second look at the row takes no lock. *)
LockSkipped(w) ==
  /\ handler[w].pc = "waitLock"
  /\ HandlerStep(w, "recheck")
  /\ UNCHANGED provLock

(* Faulty variant: the lock is taken after the last look at the row. *)
LockAfterLook(w) ==
  /\ handler[w].pc = "waitLock"
  /\ provLock = Nobody
  /\ provLock' = w
  /\ HandlerStep(w, "park")

LockTenantProvisioning(w) ==
  /\ handler[w].pc = "waitLock"
  /\ provLock = Nobody
  /\ provLock' = w
  /\ HandlerStep(w, "recheck")

(* Faulty variant: a row found by the second look is taken for deleted. *)
RecheckFoundDrops(w) ==
  /\ handler[w].pc = "recheck"
  /\ Live
  /\ Commit(w)
  /\ UNCHANGED <<tenant, parked, log, relays, purged, children>>

RecheckFound(w) ==
  /\ handler[w].pc = "recheck"
  /\ Live
  /\ handler[w].ev.type # "TrialReactivated"
  /\ Project(handler[w].ev, handler[w].days)
  /\ Commit(w)
  /\ UNCHANGED parked

RecheckMissing(w) ==
  /\ handler[w].pc = "recheck"
  /\ ~ Live
  /\ HandlerStep(w, "park")
  /\ UNCHANGED provLock

Park(w) ==
  /\ handler[w].pc = "park"
  /\ parked' = parked \cup {handler[w].ev}
  /\ Commit(w)
  /\ UNCHANGED <<tenant, log, relays, purged, children>>

(* The transaction rolls back and the message stays on the queue: a failed  *)
(* CHECK, a TrialReactivated whose duration must be recomputed, an          *)
(* unreachable catalog or database, or a crash of the process.              *)
HandlerFail(w) ==
  /\ handler[w].pc # "idle"
  /\ handler' = [handler EXCEPT ![w] = IdleHandler]
  /\ Release(w)
  /\ UNCHANGED <<dbVars, sqsVars, producerVars, signup, replay, cleanup>>

-----------------------------------------------------------------------------
(* I-1.  The backstop first looks for a row of any kind and does nothing     *)
(* when there is one.                                                        *)

SignupStart(s) ==
  /\ signup[s] = "idle"
  /\ s \in Backstop => tenant = NoTenant
  /\ signup' = [signup EXCEPT ![s] = "waitLock"]
  /\ UNCHANGED <<dbVars, sqsVars, producerVars, handler, provLock, replay,
                 cleanup>>

SignupLock(s) ==
  /\ signup[s] = "waitLock"
  /\ provLock = Nobody
  /\ provLock' = s
  /\ signup' = [signup EXCEPT ![s] = "tx"]
  /\ UNCHANGED <<dbVars, sqsVars, producerVars, handler, replay, cleanup>>

(* Faulty variant: the insert overwrites a soft-deleted row. *)
SignupRevives(s) ==
  /\ signup[s] = "tx"
  /\ ~ Live
  /\ tenant' = FreshRow /\ children' = TRUE /\ purged' = FALSE
  /\ log' = <<>> /\ relays' = <<>>
  /\ provLock' = Nobody
  /\ signup' = [signup EXCEPT ![s] = "replay"]
  /\ UNCHANGED <<processed, parked, sqsVars, producerVars, handler, replay,
                 cleanup>>

(* The insert is a no-op on an existing live row (I-1 is idempotent) and     *)
(* fails on a soft-deleted one.  After its commit I-1 lists the parked       *)
(* events and replays them.                                                  *)
SignupCommit(s) ==
  /\ signup[s] = "tx"
  /\ ~ SoftDeleted
  /\ IF tenant = NoTenant
     THEN /\ tenant' = FreshRow /\ children' = TRUE /\ purged' = FALSE
          /\ log' = <<>> /\ relays' = <<>>
     ELSE UNCHANGED <<tenant, children, purged, log, relays>>
  /\ provLock' = Nobody
  /\ signup' = [signup EXCEPT ![s] = "replay"]
  /\ UNCHANGED <<processed, parked, sqsVars, producerVars, handler, replay,
                 cleanup>>

(* A soft-deleted row, an email hash another tenant holds, a crash. *)
SignupFail(s) ==
  /\ signup[s] \in {"waitLock", "tx"}
  /\ signup' = [signup EXCEPT ![s] = "idle"]
  /\ Release(s)
  /\ UNCHANGED <<dbVars, sqsVars, producerVars, handler, replay, cleanup>>

-----------------------------------------------------------------------------
(* replayParked: a snapshot of the parked events, then one transaction per   *)
(* event in occurred_at order.                                               *)

(* Faulty variant: only I-1 replays, there is no sweep. *)
ListParkedOnce(r) ==
  /\ r \in Signup
  /\ replay[r].todo = {}
  /\ signup[r] = "replay" /\ signup' = [signup EXCEPT ![r] = "idle"]
  /\ replay' = [replay EXCEPT ![r] = [IdleReplay EXCEPT !.todo = parked]]
  /\ UNCHANGED <<dbVars, sqsVars, producerVars, handler, provLock, cleanup>>

ListParked(r) ==
  /\ replay[r].todo = {}
  /\ IF r = Sweep
     THEN tenant # NoTenant /\ parked # {} /\ UNCHANGED signup
     ELSE signup[r] = "replay" /\ signup' = [signup EXCEPT ![r] = "idle"]
  /\ replay' = [replay EXCEPT ![r] = [IdleReplay EXCEPT !.todo = parked]]
  /\ UNCHANGED <<dbVars, sqsVars, producerVars, handler, provLock, cleanup>>

Heads(r) ==
  {e \in replay[r].todo : \A f \in replay[r].todo : e.time <= f.time}

(* The trial length is read before the transaction of the event. *)
ReplayPeek(r, e) ==
  /\ e \in Heads(r)
  /\ e.type = "TrialReactivated"
  /\ ~ replay[r].peeked
  /\ replay' = [replay EXCEPT ![r].peeked = TRUE,
                              ![r].days = PeekTrialDays(e)]
  /\ UNCHANGED <<dbVars, sqsVars, producerVars, handler, signup, provLock,
                 cleanup>>

ReplayReady(r, e) ==
  e \in Heads(r) /\ (e.type = "TrialReactivated" => replay[r].peeked)

ReplayNext(r, e) ==
  replay' = [replay EXCEPT ![r] = [IdleReplay EXCEPT
                                     !.todo = replay[r].todo \ {e}]]

ReplayFrame ==
  UNCHANGED <<processed, sqsVars, producerVars, handler, signup, provLock,
              cleanup>>

(* Another replayer claimed the event first. *)
ReplayClaimed(r, e) ==
  /\ ReplayReady(r, e)
  /\ e \notin parked
  /\ ReplayNext(r, e)
  /\ UNCHANGED <<tenant, parked, log, relays, purged, children>>
  /\ ReplayFrame

(* Claim (DELETE) and projection commit together. *)
ReplayApply(r, e) ==
  /\ ReplayReady(r, e)
  /\ e \in parked
  /\ Live
  /\ Project(e, replay[r].days)
  /\ parked' = parked \ {e}
  /\ ReplayNext(r, e)
  /\ ReplayFrame

(* The tenant was offboarded since: the event is dropped. *)
ReplayDrop(r, e) ==
  /\ ReplayReady(r, e)
  /\ e \in parked
  /\ SoftDeleted
  /\ parked' = parked \ {e}
  /\ ReplayNext(r, e)
  /\ UNCHANGED <<tenant, log, relays, purged, children>>
  /\ ReplayFrame

(* Faulty variant: the claim commits although the projection failed. *)
ReplayStopClaims(r) ==
  /\ replay[r].todo # {}
  /\ replay' = [replay EXCEPT ![r] = IdleReplay]
  /\ parked' = parked \ Heads(r)
  /\ UNCHANGED <<tenant, log, relays, purged, children>>
  /\ ReplayFrame

(* A failed CHECK, a row that is gone, an unreachable catalog, a crash: the  *)
(* claim rolls back and the replay stops, so that no later event overtakes.  *)
ReplayStop(r) ==
  /\ replay[r].todo # {}
  /\ replay' = [replay EXCEPT ![r] = IdleReplay]
  /\ UNCHANGED <<tenant, parked, log, relays, purged, children>>
  /\ ReplayFrame

-----------------------------------------------------------------------------
(* I-2: Realm Provisioner rewrites the realm fields, of a soft-deleted row   *)
(* too, because it cleans the realm up after the offboarding.  A call with   *)
(* another record_version than the row's changes nothing.                    *)
SetRealmFields(type) ==
  /\ tenant # NoTenant
  /\ tenant' = [tenant EXCEPT !.realm = type]
  /\ UNCHANGED <<processed, parked, log, relays, purged, children, sqsVars,
                 producerVars, processVars, cleanup>>

(* trial-cleanup lists expired trials past their grace, then hard-deletes    *)
(* each listed id in a transaction of its own.                               *)

(* Time passes; it is only ever looked at while the trial is expired. *)
GraceElapses ==
  /\ Live
  /\ tenant.status = "trial_expired" /\ ~ tenant.graceOver
  /\ tenant' = [tenant EXCEPT !.graceOver = TRUE]
  /\ UNCHANGED <<processed, parked, log, relays, purged, children, sqsVars,
                 producerVars, processVars, cleanup>>

ListExpiredTrial ==
  /\ cleanup = "idle"
  /\ Live
  /\ tenant.status = "trial_expired" /\ tenant.graceOver
  /\ cleanup' = "listed"
  /\ UNCHANGED <<dbVars, sqsVars, producerVars, processVars>>

(* The purge signal is enqueued whatever the DELETE found. *)
HardDeleteTenant ==
  /\ cleanup = "listed"
  /\ cleanup' = "idle"
  /\ tenant' = NoTenant
  /\ children' = FALSE
  /\ purged' = TRUE
  /\ UNCHANGED <<processed, parked, log, relays, sqsVars, producerVars,
                 processVars>>

-----------------------------------------------------------------------------
ProducerNext ==
  \E type \in Types :
    \E payload \in Payloads(type) :
      \E ahead \in {0} \cup (IF "corruptTime" \in Faults THEN {Skew + 1} ELSE {}) :
        Publish(type, payload, ahead)

QueueNext ==
  \/ \E e \in sent : Redrive(e) \/ ReplayDlq(e) \/ Prune(e)
  \/ \E w \in Worker, e \in sent : Receive(w, e) \/ RejectFuture(w, e)

HandlerNext(w) ==
  \/ Duplicate(w) \/ ApplyLive(w) \/ DropOffboarded(w) \/ Miss(w)
  \/ DropFound(w) \/ ProbeMissing(w) \/ LockTenantProvisioning(w)
  \/ RecheckFound(w) \/ RecheckMissing(w) \/ Park(w) \/ HandlerFail(w)

SignupNext(s) ==
  SignupStart(s) \/ SignupLock(s) \/ SignupCommit(s) \/ SignupFail(s)

ReplayStep(r, e) ==
  \/ ReplayPeek(r, e) \/ ReplayClaimed(r, e)
  \/ ReplayApply(r, e) \/ ReplayDrop(r, e)

ReplayerNext(r) ==
  \/ ListParked(r) \/ ReplayStop(r)
  \/ \E e \in sent : ReplayStep(r, e)

(* The steps that reach the row without an event. *)
RowNext ==
  \/ GraceElapses \/ ListExpiredTrial \/ HardDeleteTenant
  \/ \E type \in RealmWrites : SetRealmFields(type)

Next ==
  \/ ProducerNext
  \/ QueueNext
  \/ \E w \in Worker : HandlerNext(w)
  \/ \E s \in Signup : SignupNext(s)
  \/ \E r \in Replayer : ReplayerNext(r)
  \/ RowNext

Spec == Init /\ [][Next]_vars

-----------------------------------------------------------------------------
DbType ==
  /\ tenant \in Row \cup {NoTenant}
  /\ tenant # NoTenant => ChecksHold(tenant)
  /\ processed \subseteq Event /\ parked \subseteq Event
  /\ log \in Seq(Nat) /\ relays \in Seq(Relay)
  /\ purged \in BOOLEAN /\ children \in BOOLEAN

QueueType ==
  /\ sent \subseteq Event
  /\ \A e \in sent : e.id \in 1..MaxEvents
  /\ acked \subseteq Event /\ dlq \subseteq Event
  /\ receives \in [1..MaxEvents -> 0..MaxReceives]
  /\ clock \in 0..MaxEvents
  /\ producer \in [status : Status, paid : BOOLEAN]

ProcessType ==
  /\ handler \in [Worker -> [pc : HandlerPc, ev : Event \cup {NoEvent},
                             days : Nat]]
  /\ \A w \in Worker : handler[w].pc # "idle" => handler[w].ev \in Event
  /\ signup \in [Signup -> SignupPc]
  /\ provLock \in Worker \cup Signup \cup {Nobody}
  /\ replay \in [Replayer -> [todo : SUBSET Event, peeked : BOOLEAN,
                              days : Nat]]
  /\ cleanup \in {"idle", "listed"}

(* Every variable has its type, and the row satisfies the table's CHECKs     *)
(* whatever the order in which the consumer projects events.                 *)
TypeOK == DbType /\ QueueType /\ ProcessType

(* EVT-14 with the dedup claim: whatever is redelivered, reordered, pruned   *)
(* from processed_events, parked or replayed, the events projected on a row  *)
(* have strictly increasing times, so none is ever projected twice, and the  *)
(* high-water mark covers them all.                                          *)
AppliedInOrder ==
  /\ \A i, j \in 1..Len(log) : i < j => log[i] < log[j]
  /\ tenant # NoTenant => \A i \in 1..Len(log) : log[i] <= tenant.lastEventAt

(* EVT-16: a consumer that only sees TenantStateChanged can rebuild the      *)
(* tenant's status and plan: each relay starts where the one before ended,   *)
(* none is a no-op, and the last one (or, before any, what I-1 wrote) is     *)
(* what the row holds.                                                       *)
RelayChain ==
  tenant # NoTenant =>
    /\ \A i \in 1..Len(relays) :
         /\ <<relays[i].from, relays[i].fromPlan>>
              # <<relays[i].to, relays[i].toPlan>>
         /\ IF i = 1
            THEN relays[i].from = "trial" /\ relays[i].fromPlan = SignupPlan
            ELSE /\ relays[i].from = relays[i - 1].to
                 /\ relays[i].fromPlan = relays[i - 1].toPlan
    /\ IF relays = <<>>
       THEN tenant.status = "trial" /\ tenant.plan = SignupPlan
       ELSE /\ tenant.status = relays[Len(relays)].to
            /\ tenant.plan = relays[Len(relays)].toPlan

(* EVT-15: a corrupt producer timestamp never moves the high-water mark      *)
(* further than the tolerated skew ahead of the clock, not even by way of    *)
(* the parked events, so later events are not all taken for stale.           *)
HighWaterBounded == tenant # NoTenant => tenant.lastEventAt <= clock + Skew

(* The wipe and its signal go together: a live tenant has its child rows and *)
(* nobody was told to purge it; an offboarded one has none and everybody     *)
(* was; without a row there are no child rows.                               *)
PurgeSignalled ==
  /\ Live => children /\ ~ purged
  /\ SoftDeleted => ~ children /\ purged
  /\ tenant = NoTenant => ~ children

(* EVT-18: an event is never parked once the tenant is live, because the     *)
(* consumer holds the provisioning lock from its second look at the row to   *)
(* its commit and I-1 holds it while it creates the row.                     *)
NoParkWhileLive == [][parked' \subseteq parked \/ ~ Live]_vars

(* Why: the lock is held by the one transaction that is past its second look *)
(* or inside I-1's insert, and the row stays absent until that one commits.  *)
ProvisioningExclusive ==
  /\ \A w \in Worker : handler[w].pc \in {"recheck", "park"} => provLock = w
  /\ \A s \in Signup : signup[s] = "tx" => provLock = s
  /\ \A w \in Worker : handler[w].pc = "park" => ~ Live

(* EVT-18: a parked event of a live tenant leaves the store only together    *)
(* with its projection, or because a newer event was already projected.      *)
ParkedSettled ==
  [][\A e \in parked \ parked' : Live' => e.time <= tenant'.lastEventAt]_vars

Probing(e) == \E w \in Worker : handler[w].pc = "probe" /\ handler[w].ev = e

(* An event that is recorded as processed while the tenant is live was       *)
(* projected, superseded by a newer one, or parked for replay; the one       *)
(* exception is the drop decided by the second look-up of tenantAbsent.      *)
AckSettlesUnlessProbing ==
  [][\A e \in processed' \ processed :
       Live' /\ ~ Probing(e)
         => e.time <= tenant'.lastEventAt \/ e \in parked']_vars

(* PAID-1: nothing transitions a tenant out of offboarded: no event, parked  *)
(* or late, no replay and no I-1 touches the row again.  Only its realm      *)
(* fields may still be rewritten, by I-2, and it may be hard-deleted.        *)
OffboardedTerminal ==
  [][SoftDeleted => \/ tenant' = NoTenant
                    \/ \E type \in RealmType :
                         tenant' = [tenant EXCEPT !.realm = type]]_vars

-----------------------------------------------------------------------------
(* Fairness.  SQS delivers a message that stays on a queue again and again   *)
(* and the workers are shared (strong: a worker is free only at times); no   *)
(* handler or I-1 call hangs, every one ends at its deadline; the queue      *)
(* moves an exhausted message to the DLQ; the sweep runs every five minutes  *)
(* and does not crash at the same point for ever.                            *)

ReceiveId(i) ==
  \E w \in Worker, e \in sent :
    e.id = i /\ (Receive(w, e) \/ RejectFuture(w, e))

RedriveId(i) == \E e \in sent : e.id = i /\ Redrive(e)

SweepStep == \E e \in sent : ReplayStep(Sweep, e)

Fairness ==
  /\ \A i \in 1..MaxEvents : SF_vars(ReceiveId(i)) /\ SF_vars(RedriveId(i))
  /\ \A w \in Worker : WF_vars(HandlerNext(w))
  /\ WF_vars(ListParked(Sweep))
  /\ SF_vars(SweepStep)

FairSpec == Spec /\ Fairness

Published(i) == \E e \in sent : e.id = i
Settled(i) == \E e \in processed \cup dlq : e.id = i
IsParked(i) == \E e \in parked : e.id = i

(* Every published event ends up recorded or in the DLQ, never redelivered   *)
(* for ever: no worker waits for a lock nobody releases.                     *)
MessagesSettle == \A i \in 1..MaxEvents : Published(i) ~> Settled(i)

(* EVT-18: once the tenant is there, the events parked for it do not stay    *)
(* parked, even if I-1 crashed before its own replay.                        *)
ParkedReplayed ==
  \A i \in 1..MaxEvents : IsParked(i) /\ Live ~> ~ IsParked(i) \/ ~ Live
=============================================================================
