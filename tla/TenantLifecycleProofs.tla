----------------------- MODULE TenantLifecycleProofs ------------------------
(***************************************************************************)
(* Theorems about TenantLifecycle, for every set of workers and I-1        *)
(* callers, every number of events and every combination of faults.        *)
(***************************************************************************)
EXTENDS TenantLifecycle, TLAPS

(* A patch of execLifecyclePatch turns a row into a row. *)
LEMMA PatchedType ==
  ASSUME NEW r \in Row, NEW e \in Event, NEW days \in Nat
  PROVE  Patched(r, e, days) \in Row
<1>1. PayloadPlan(e, r.plan) \in Plan
  BY DEF PayloadPlan, Event, Row
<1>2. PayloadSource(e) \in SuspensionSource
  BY DEF PayloadSource, SuspensionSource
<1>3. CASE e.type = "TenantRealmReady"
  BY <1>3 DEF Patched, SetRealm, Row, RealmType
<1>4. CASE e.type \in {"TenantConverted", "DirectPaidSignup"}
  BY <1>1, <1>4 DEF Patched, ActivatePaid, Row, Status, SuspensionSource
<1>5. CASE e.type \in {"TrialExpired", "TenantPaymentPastDue"}
  BY <1>5 DEF Patched, SetStatusClearSuspension, Row, Status, SuspensionSource
<1>6. CASE e.type = "TrialReactivated"
  <2>1. Patched(r, e, days) = TrialReactivate(r, days)
    BY <1>6 DEF Patched
  <2>2. CASE MayReactivateTrial(r)
    <3> DEFINE q == SetStatusClearSuspension(r, "trial")
               n == q.reactivations + 1
    <3>1. q \in Row
      BY DEF SetStatusClearSuspension, Row, Status, SuspensionSource
    <3>2. n \in Nat
      BY <3>1 DEF Row
    <3>3. [q EXCEPT !.trialDays = days] \in Row
      BY <3>1 DEF Row
    <3>4. \A p \in Row : [p EXCEPT !.graceOver = FALSE] \in Row
      BY DEF Row
    <3>5. \A p \in Row : [p EXCEPT !.reactivations = n] \in Row
      BY <3>2 DEF Row
    <3>6. TrialReactivate(r, days) =
            [q EXCEPT !.trialDays = days, !.graceOver = FALSE,
                      !.reactivations = n]
      BY <2>2 DEF TrialReactivate
    <3> HIDE DEF q, n
    <3> QED
      BY <2>1, <3>3, <3>4, <3>5, <3>6
  <2>3. CASE ~ MayReactivateTrial(r)
    BY <2>1, <2>3 DEF TrialReactivate
  <2> QED
    BY <2>2, <2>3
<1>7. CASE e.type = "TenantSuspended"
  BY <1>2, <1>7 DEF Patched, Suspend, Row, Status
<1>8. CASE e.type \in {"TenantOffboarded", "TenantSubscriptionCancelled"}
  BY <1>8 DEF Patched, Offboard, Cancel, Row, Status, SuspensionSource
<1>9. CASE e.type = "TenantPlanChanged"
  BY <1>1, <1>9 DEF Patched, SetPlan, Row
<1>10. CASE e.type = "TenantReactivated"
  BY <1>10 DEF Patched, Reactivate, Row, Status, SuspensionSource
<1>11. CASE e.type = "TenantSeatsChanged"
  BY <1>11 DEF Patched, SetLicensedSeats, Row, Event
<1> QED
  BY <1>3, <1>4, <1>5, <1>6, <1>7, <1>8, <1>9, <1>10, <1>11
     DEF Event, EventType

(* What applyProjection reports is a status and a plan. *)
LEMMA ReportedType ==
  ASSUME NEW r \in Row, NEW e \in Event
  PROVE  ReportedStatus(r, e) \in Status /\ ReportedPlan(r, e) \in Plan
<1>1. ReportedPlan(r, e) \in Plan
  BY DEF ReportedPlan, PayloadPlan, Event, Row
<1>2. ReportedStatus(r, e) \in Status
  BY DEF ReportedStatus, Event, EventType, Row, Status
<1> QED
  BY <1>1, <1>2

(* The CHECKs do not look at last_event_at. *)
LEMMA ChecksIgnoreRecency ==
  ASSUME NEW r \in Row, NEW t \in Nat, ChecksHold(r)
  PROVE  ChecksHold([r EXCEPT !.lastEventAt = t])
BY DEF ChecksHold, SubscriptionStartedRequired, CancelledAtRequired,
       SuspensionSourceRequired, Row

(* project keeps the row, the history and the relays well typed. *)
LEMMA ProjectType ==
  ASSUME DbType, Live, NEW e \in Event, NEW days \in Nat, Project(e, days)
  PROVE  /\ tenant' \in Row
         /\ ChecksHold(tenant')
         /\ log' \in Seq(Nat) /\ relays' \in Seq(Relay)
         /\ purged' \in BOOLEAN /\ children' \in BOOLEAN
<1>1. tenant \in Row /\ ChecksHold(tenant)
  BY DEF DbType, Live
<1>2. CASE SkipStale(e)
  BY <1>1, <1>2 DEF SkipStale, DbType
<1>3. CASE ~ SkipStale(e)
  <2> DEFINE p == Patched(tenant, e, days)
  <2>1. /\ ChecksHold(p)
        /\ tenant' = [p EXCEPT !.lastEventAt = e.time]
        /\ log' = Append(log, e.time)
        /\ relays' = IF StateChanged(e)
                     THEN Append(relays, [from |-> tenant.status,
                                          to |-> ReportedStatus(tenant, e),
                                          fromPlan |-> tenant.plan,
                                          toPlan |-> ReportedPlan(tenant, e)])
                     ELSE relays
        /\ purged' = IF Offboards(e) THEN TRUE ELSE purged
        /\ children' = IF Offboards(e) THEN FALSE ELSE children
    BY <1>3 DEF Project
  <2>2. e.time \in Nat
    BY DEF Event
  <2>3. p \in Row
    BY <1>1, PatchedType
  <2>4. tenant' \in Row
    <3> HIDE DEF p
    <3> QED
      BY <2>1, <2>2, <2>3 DEF Row
  <2>5. ChecksHold(tenant')
    BY <2>1, <2>2, <2>3, ChecksIgnoreRecency
  <2>6. log' \in Seq(Nat)
    BY <2>1, <2>2 DEF DbType
  <2>7. [from |-> tenant.status, to |-> ReportedStatus(tenant, e),
         fromPlan |-> tenant.plan, toPlan |-> ReportedPlan(tenant, e)]
          \in Relay
    BY <1>1, ReportedType DEF Relay, Row
  <2>8. relays' \in Seq(Relay)
    BY <2>1, <2>7 DEF DbType
  <2>9. purged' \in BOOLEAN /\ children' \in BOOLEAN
    BY <2>1 DEF DbType
  <2> QED
    BY <2>4, <2>5, <2>6, <2>8, <2>9
<1> QED
  BY <1>2, <1>3

(* A committing handler records a known event and goes idle. *)
LEMMA CommitType ==
  ASSUME TypeOK, NEW w \in Worker, handler[w].pc # "idle", Commit(w)
  PROVE  processed' \subseteq Event /\ QueueType' /\ ProcessType'
<1> USE DEF TypeOK
<1>1. handler[w].ev \in Event
  BY DEF ProcessType
<1>2. processed' \subseteq Event
  BY <1>1 DEF Commit, DbType
<1>3. QueueType'
  BY <1>1 DEF Commit, Return, QueueType, producerVars
<1>4. ProcessType'
  <2>1. handler' = [handler EXCEPT ![w] = IdleHandler]
    BY DEF Commit, Return
  <2>2. provLock' \in Worker \cup Signup \cup {Nobody}
    BY DEF Commit, Release, ProcessType
  <2>3. signup' = signup /\ replay' = replay /\ cleanup' = cleanup
    BY DEF Commit
  <2>4. IdleHandler \in [pc : HandlerPc, ev : Event \cup {NoEvent}, days : Nat]
    BY DEF IdleHandler, HandlerPc
  <2> QED
    BY <2>1, <2>2, <2>3, <2>4 DEF ProcessType, IdleHandler
<1> QED
  BY <1>2, <1>3, <1>4

(* A handler step that only moves the program counter. *)
LEMMA HandlerStepType ==
  ASSUME TypeOK, NEW w \in Worker, NEW pc \in HandlerPc,
         handler[w].pc # "idle", HandlerStep(w, pc),
         provLock' \in {provLock, w}
  PROVE  TypeOK'
<1> USE DEF TypeOK
<1>1. DbType'
  BY DEF HandlerStep, DbType, dbVars
<1>2. QueueType'
  BY DEF HandlerStep, QueueType, sqsVars, producerVars
<1>3. ProcessType'
  BY DEF HandlerStep, ProcessType
<1> QED
  BY <1>1, <1>2, <1>3

(* The actions of the message handlers keep the types. *)
LEMMA HandlerType ==
  ASSUME TypeOK, NEW w \in Worker, HandlerNext(w)
  PROVE  TypeOK'
<1> USE DEF TypeOK
<1>1. handler[w].days \in Nat
  BY DEF ProcessType
<1>2. handler[w].pc # "idle" => handler[w].ev \in Event
  BY DEF ProcessType
<1>3. CASE Duplicate(w)
  <2>1. handler[w].ev \in Event
    BY <1>2, <1>3 DEF Duplicate
  <2>2. DbType'
    BY <1>3 DEF Duplicate, DbType, dbVars
  <2>3. QueueType'
    BY <1>3, <2>1 DEF Duplicate, Return, QueueType, producerVars
  <2>4. IdleHandler \in [pc : HandlerPc, ev : Event \cup {NoEvent}, days : Nat]
    BY DEF IdleHandler, HandlerPc
  <2>5. ProcessType'
    BY <1>3, <2>4 DEF Duplicate, Return, ProcessType, IdleHandler
  <2> QED
    BY <2>2, <2>3, <2>5
<1>4. CASE ApplyLive(w) \/ RecheckFound(w)
  <2>1. /\ handler[w].pc # "idle"
        /\ Live
        /\ Project(handler[w].ev, handler[w].days)
        /\ Commit(w)
        /\ parked' = parked
    BY <1>4 DEF ApplyLive, Claims, RecheckFound
  <2>2. processed' \subseteq Event /\ QueueType' /\ ProcessType'
    BY <2>1, CommitType
  <2>3. /\ tenant' \in Row
        /\ ChecksHold(tenant')
        /\ log' \in Seq(Nat) /\ relays' \in Seq(Relay)
        /\ purged' \in BOOLEAN /\ children' \in BOOLEAN
    BY <1>1, <1>2, <2>1, ProjectType
  <2>4. DbType'
    BY <2>1, <2>2, <2>3 DEF DbType
  <2> QED
    BY <2>2, <2>4
<1>5. CASE DropOffboarded(w) \/ DropFound(w)
  <2>1. /\ handler[w].pc # "idle"
        /\ Commit(w)
        /\ UNCHANGED <<tenant, parked, log, relays, purged, children>>
    BY <1>5 DEF DropOffboarded, Claims, DropFound
  <2>2. processed' \subseteq Event /\ QueueType' /\ ProcessType'
    BY <2>1, CommitType
  <2>3. DbType'
    BY <2>1, <2>2 DEF DbType
  <2> QED
    BY <2>2, <2>3
<1>6. CASE Park(w)
  <2>1. handler[w].pc # "idle" /\ handler[w].ev \in Event /\ Commit(w)
    BY <1>2, <1>6 DEF Park
  <2>2. processed' \subseteq Event /\ QueueType' /\ ProcessType'
    BY <2>1, CommitType
  <2>3. DbType'
    BY <1>6, <2>1, <2>2 DEF Park, DbType
  <2> QED
    BY <2>2, <2>3
<1>7. CASE Miss(w) \/ ProbeMissing(w) \/ LockTenantProvisioning(w)
           \/ RecheckMissing(w)
  <2>1. PICK pc \in HandlerPc : /\ handler[w].pc # "idle"
                                /\ HandlerStep(w, pc)
                                /\ provLock' \in {provLock, w}
    BY <1>7 DEF Miss, Claims, ProbeMissing, LockTenantProvisioning,
                RecheckMissing, HandlerPc
  <2> QED
    BY <2>1, HandlerStepType
<1>8. CASE HandlerFail(w)
  <2>1. DbType'
    BY <1>8 DEF HandlerFail, DbType, dbVars
  <2>2. QueueType'
    BY <1>8 DEF HandlerFail, QueueType, sqsVars, producerVars
  <2>3. IdleHandler \in [pc : HandlerPc, ev : Event \cup {NoEvent}, days : Nat]
    BY DEF IdleHandler, HandlerPc
  <2>4. provLock' \in Worker \cup Signup \cup {Nobody}
    BY <1>8 DEF HandlerFail, Release, ProcessType
  <2>5. ProcessType'
    BY <1>8, <2>3, <2>4 DEF HandlerFail, ProcessType, IdleHandler
  <2> QED
    BY <2>1, <2>2, <2>5
<1> QED
  BY <1>3, <1>4, <1>5, <1>6, <1>7, <1>8 DEF HandlerNext

(* The producers and the queues keep the types. *)
LEMMA QueueStepType ==
  ASSUME TypeOK, ProducerNext \/ QueueNext
  PROVE  TypeOK'
<1> USE DEF TypeOK
<1>1. CASE ProducerNext
  <2>a. PICK type \in Types :
          \E payload \in Payloads(type) :
            \E ahead \in {0} \cup (IF "corruptTime" \in Faults
                                 THEN {Skew + 1} ELSE {}) :
              Publish(type, payload, ahead)
    BY <1>1 DEF ProducerNext
  <2>b. PICK payload \in Payloads(type) :
          \E ahead \in {0} \cup (IF "corruptTime" \in Faults
                               THEN {Skew + 1} ELSE {}) :
            Publish(type, payload, ahead)
    BY <2>a
  <2>1. PICK ahead \in Nat : Publish(type, payload, ahead)
    BY <2>b, BoundAssumption
  <2>2. type \in EventType
    BY <2>1, BoundAssumption
  <2>3. /\ payload.plan \in Plan \cup {NoPlan}
        /\ payload.seats \in Seats
        /\ payload.source \in SuspensionSource
    <3>1. (CHOOSE n \in Seats : TRUE) \in Seats
      BY BoundAssumption
    <3> QED
      BY <2>1, <3>1 DEF Payloads, SuspensionSource
  <2>4. clock \in Nat /\ clock + 1 \in 1..MaxEvents
        /\ clock + 1 + ahead \in Nat \ {0}
    BY <2>1, BoundAssumption DEF Publish, QueueType
  <2> DEFINE e == [id |-> clock + 1, type |-> type,
                   time |-> clock + 1 + ahead, plan |-> payload.plan,
                   seats |-> payload.seats, source |-> payload.source]
  <2>5. e \in Event /\ e.id \in 1..MaxEvents
    BY <2>2, <2>3, <2>4 DEF Event
  <2>6. sent' = sent \cup {e} /\ clock' = clock + 1
        /\ producer' = ProducerAfter(type)
        /\ UNCHANGED <<dbVars, acked, dlq, receives, processVars, cleanup>>
    BY <2>1 DEF Publish
  <2>7. producer' \in [status : Status, paid : BOOLEAN]
    BY <2>2, <2>6 DEF ProducerAfter, QueueType, Status, EventType
  <2>8. QueueType'
    <3> HIDE DEF e
    <3> QED
      BY <2>4, <2>5, <2>6, <2>7 DEF QueueType
  <2>9. DbType'
    BY <2>6 DEF DbType, dbVars
  <2>10. ProcessType'
    BY <2>6 DEF ProcessType, processVars
  <2> QED
    BY <2>8, <2>9, <2>10
<1>2. ASSUME NEW e \in sent, Redrive(e) \/ ReplayDlq(e) \/ Prune(e)
      PROVE  TypeOK'
  <2>1. e \in Event /\ e.id \in 1..MaxEvents
    BY <1>2 DEF QueueType
  <2>2. CASE Redrive(e)
    BY <2>1, <2>2 DEF Redrive, DbType, dbVars, QueueType, producerVars,
                      ProcessType, processVars
  <2>3. CASE ReplayDlq(e)
    BY <2>1, <2>3, BoundAssumption DEF ReplayDlq, DbType, dbVars, QueueType, producerVars,
                      ProcessType, processVars
  <2>4. CASE Prune(e)
    BY <2>1, <2>4 DEF Prune, DbType, QueueType, sqsVars, producerVars,
                      ProcessType, processVars
  <2> QED
    BY <1>2, <2>2, <2>3, <2>4
<1>3. ASSUME NEW w \in Worker, NEW e \in sent,
             Receive(w, e) \/ RejectFuture(w, e)
      PROVE  TypeOK'
  <2>1. e \in Event /\ e.id \in 1..MaxEvents
    BY <1>3 DEF QueueType
  <2>2. CASE Receive(w, e)
    <3>1. PeekTrialDays(e) \in Nat
      BY TrialDaysAssumption DEF PeekTrialDays, Live, DbType, Row
    <3>2. receives[e.id] + 1 \in 0..MaxReceives
      BY <2>1, <2>2, BoundAssumption DEF Receive, QueueType
    <3>3. QueueType'
      BY <2>1, <2>2, <3>2 DEF Receive, QueueType, producerVars
    <3>4. DbType'
      BY <2>2 DEF Receive, DbType, dbVars
    <3>5. ProcessType'
      BY <2>1, <2>2, <3>1 DEF Receive, ProcessType, HandlerPc
    <3> QED
      BY <3>3, <3>4, <3>5
  <2>3. CASE RejectFuture(w, e)
    BY <2>1, <2>3 DEF RejectFuture, DbType, dbVars, QueueType, producerVars,
                      ProcessType, processVars
  <2> QED
    BY <1>3, <2>2, <2>3
<1> QED
  BY <1>1, <1>2, <1>3 DEF QueueNext

(* I-1 keeps the types; the row it inserts satisfies the CHECKs. *)
LEMMA SignupType ==
  ASSUME TypeOK, NEW s \in Signup, SignupNext(s)
  PROVE  TypeOK'
<1> USE DEF TypeOK
<1>1. FreshRow \in Row /\ ChecksHold(FreshRow)
  <2>1. TrialDays[SignupPlan] \in Nat
    BY PlanAssumption, TrialDaysAssumption
  <2>2. FreshRow \in Row
    BY <2>1, PlanAssumption
       DEF FreshRow, Row, Status, SuspensionSource, RealmType
  <2>3. ChecksHold(FreshRow)
    BY DEF FreshRow, ChecksHold, SubscriptionStartedRequired,
           CancelledAtRequired, SuspensionSourceRequired, DefaultTrialSeats
  <2> QED
    BY <2>2, <2>3
<1>2. CASE SignupStart(s)
  BY <1>2 DEF SignupStart, DbType, dbVars, QueueType, sqsVars, producerVars,
              ProcessType, SignupPc
<1>3. CASE SignupLock(s)
  BY <1>3 DEF SignupLock, DbType, dbVars, QueueType, sqsVars, producerVars,
              ProcessType, SignupPc
<1>4. CASE SignupCommit(s)
  <2>1. DbType'
    <3>1. CASE tenant = NoTenant
      <4>1. /\ tenant' = FreshRow /\ children' = TRUE /\ purged' = FALSE
            /\ log' = <<>> /\ relays' = <<>>
            /\ processed' = processed /\ parked' = parked
        BY <1>4, <3>1 DEF SignupCommit
      <4>2. log' \in Seq(Nat) /\ relays' \in Seq(Relay)
        BY <4>1
      <4> QED
        BY <1>1, <4>1, <4>2 DEF DbType
    <3>2. CASE tenant # NoTenant
      BY <1>4, <3>2 DEF SignupCommit, DbType
    <3> QED
      BY <3>1, <3>2
  <2>2. QueueType' /\ ProcessType'
    BY <1>4 DEF SignupCommit, QueueType, sqsVars, producerVars, ProcessType,
                SignupPc
  <2> QED
    BY <2>1, <2>2
<1>5. CASE SignupFail(s)
  BY <1>5 DEF SignupFail, Release, DbType, dbVars, QueueType, sqsVars,
              producerVars, ProcessType, SignupPc
<1> QED
  BY <1>2, <1>3, <1>4, <1>5 DEF SignupNext

(* The replayers keep the types. *)
LEMMA ReplayType ==
  ASSUME TypeOK, NEW r \in Replayer, ReplayerNext(r)
  PROVE  TypeOK'
<1> USE DEF TypeOK
<1> DEFINE T == [todo : SUBSET Event, peeked : BOOLEAN, days : Nat]
<1>1. IdleReplay \in T /\ replay[r] \in T
  BY DEF IdleReplay, ProcessType
<1>2. \A q \in SUBSET Event : [IdleReplay EXCEPT !.todo = q] \in T
  BY DEF IdleReplay
<1>3. ASSUME NEW q \in T, replay' = [replay EXCEPT ![r] = q],
             UNCHANGED <<handler, provLock, cleanup>>,
             signup' \in [Signup -> SignupPc]
      PROVE  ProcessType'
  BY <1>3 DEF ProcessType
<1>4. CASE ListParked(r)
  <2>1. signup' \in [Signup -> SignupPc]
    BY <1>4 DEF ListParked, ProcessType, SignupPc
  <2>2. [IdleReplay EXCEPT !.todo = parked] \in T
    BY <1>2 DEF DbType
  <2>3. replay' = [replay EXCEPT ![r] = [IdleReplay EXCEPT !.todo = parked]]
        /\ UNCHANGED <<handler, provLock, cleanup>>
    BY <1>4 DEF ListParked
  <2>4. ProcessType'
    BY <1>3, <2>1, <2>2, <2>3
  <2>5. DbType' /\ QueueType'
    BY <1>4 DEF ListParked, DbType, dbVars, QueueType, sqsVars, producerVars
  <2> QED
    BY <2>4, <2>5
<1>5. CASE ReplayStop(r)
  <2>1. ProcessType'
    BY <1>1, <1>3, <1>5 DEF ReplayStop, ReplayFrame, ProcessType
  <2>2. DbType' /\ QueueType'
    BY <1>5 DEF ReplayStop, ReplayFrame, DbType, QueueType, sqsVars,
                producerVars
  <2> QED
    BY <2>1, <2>2
<1>6. ASSUME NEW e \in sent, ReplayStep(r, e)
      PROVE  TypeOK'
  <2>1. e \in Event
    BY <1>6 DEF QueueType
  <2>2. CASE ReplayPeek(r, e)
    <3>1. PeekTrialDays(e) \in Nat
      BY TrialDaysAssumption DEF PeekTrialDays, Live, DbType, Row
    <3>2. ProcessType'
      BY <1>1, <2>2, <3>1 DEF ReplayPeek, ProcessType
    <3>3. DbType' /\ QueueType'
      BY <2>2 DEF ReplayPeek, DbType, dbVars, QueueType, sqsVars, producerVars
    <3> QED
      BY <3>2, <3>3
  <2>3. ASSUME ReplayNext(r, e), ReplayFrame
        PROVE  QueueType' /\ ProcessType'
    <3>1. [IdleReplay EXCEPT !.todo = replay[r].todo \ {e}] \in T
      BY <1>1, <1>2
    <3>2. ProcessType'
      BY <1>3, <2>3, <3>1 DEF ReplayNext, ReplayFrame, ProcessType
    <3>3. QueueType'
      BY <2>3 DEF ReplayFrame, QueueType, sqsVars, producerVars
    <3> QED
      BY <3>2, <3>3
  <2>4. CASE ReplayClaimed(r, e) \/ ReplayDrop(r, e)
    <3>1. QueueType' /\ ProcessType'
      BY <2>3, <2>4 DEF ReplayClaimed, ReplayDrop
    <3>2. DbType'
      BY <2>4 DEF ReplayClaimed, ReplayDrop, ReplayFrame, DbType
    <3> QED
      BY <3>1, <3>2
  <2>5. CASE ReplayApply(r, e)
    <3>1. QueueType' /\ ProcessType'
      BY <2>3, <2>5 DEF ReplayApply
    <3>2. /\ tenant' \in Row
          /\ ChecksHold(tenant')
          /\ log' \in Seq(Nat) /\ relays' \in Seq(Relay)
          /\ purged' \in BOOLEAN /\ children' \in BOOLEAN
      BY <1>1, <2>1, <2>5, ProjectType DEF ReplayApply
    <3>3. DbType'
      BY <2>5, <3>2 DEF ReplayApply, ReplayFrame, DbType
    <3> QED
      BY <3>1, <3>3
  <2> QED
    BY <1>6, <2>2, <2>4, <2>5 DEF ReplayStep
<1> QED
  BY <1>4, <1>5, <1>6 DEF ReplayerNext

(* trial-cleanup and I-2 keep the types. *)
LEMMA RowType ==
  ASSUME TypeOK, RowNext
  PROVE  TypeOK'
<1> USE DEF TypeOK
<1>1. CASE GraceElapses
  <2>1. tenant \in Row /\ ChecksHold(tenant)
    BY <1>1 DEF GraceElapses, Live, DbType
  <2>2. tenant' \in Row
    BY <1>1, <2>1 DEF GraceElapses, Row
  <2>3. ChecksHold(tenant')
    BY <1>1, <2>1 DEF GraceElapses, ChecksHold, Row,
       SubscriptionStartedRequired, CancelledAtRequired,
       SuspensionSourceRequired
  <2> QED
    BY <1>1, <2>2, <2>3 DEF GraceElapses, DbType, QueueType, sqsVars,
       producerVars, ProcessType, processVars
<1>2. CASE ListExpiredTrial
  BY <1>2 DEF ListExpiredTrial, DbType, dbVars, QueueType, sqsVars,
     producerVars, ProcessType, processVars
<1>3. CASE HardDeleteTenant
  BY <1>3 DEF HardDeleteTenant, DbType, QueueType, sqsVars, producerVars,
     ProcessType, processVars
<1>4. ASSUME NEW type \in RealmWrites, SetRealmFields(type) PROVE TypeOK'
  <2>1. tenant \in Row /\ ChecksHold(tenant) /\ type \in RealmType
    BY <1>4, BoundAssumption DEF SetRealmFields, DbType
  <2>2. tenant' \in Row
    BY <1>4, <2>1 DEF SetRealmFields, Row
  <2>3. ChecksHold(tenant')
    BY <1>4, <2>1 DEF SetRealmFields, ChecksHold, Row,
       SubscriptionStartedRequired, CancelledAtRequired,
       SuspensionSourceRequired
  <2> QED
    BY <1>4, <2>2, <2>3 DEF SetRealmFields, DbType, QueueType, sqsVars,
       producerVars, ProcessType, processVars
<1> QED
  BY <1>1, <1>2, <1>3, <1>4 DEF RowNext

(* The types are an inductive invariant. *)
LEMMA TypeStep == TypeOK /\ [Next]_vars => TypeOK'
<1> SUFFICES ASSUME TypeOK, [Next]_vars PROVE TypeOK'
  OBVIOUS
<1>1. CASE Next
  BY <1>1, HandlerType, QueueStepType, SignupType, ReplayType, RowType
     DEF Next
<1>2. CASE UNCHANGED vars
  BY <1>2 DEF vars, TypeOK, DbType, dbVars, QueueType, sqsVars, producerVars,
     ProcessType, processVars
<1> QED
  BY <1>1, <1>2

(* The initial state is well typed. *)
LEMMA TypeInit == Init => TypeOK
<1> SUFFICES ASSUME Init PROVE TypeOK
  OBVIOUS
<1>1. DbType
  <2>1. log \in Seq(Nat) /\ relays \in Seq(Relay)
    BY DEF Init
  <2> QED
    BY <2>1 DEF Init, DbType
<1>2. QueueType
  BY BoundAssumption DEF Init, QueueType, Status
<1>3. ProcessType
  BY DEF Init, ProcessType, IdleHandler, IdleReplay, HandlerPc, SignupPc
<1> QED
  BY <1>1, <1>2, <1>3 DEF TypeOK

(* Type correctness: in particular every row the consumer and I-1 write       *)
(* satisfies the CHECK constraints of the tenants table.                      *)
THEOREM TypeCorrect == Spec => []TypeOK
<1>1. Init => TypeOK
  BY TypeInit
<1>2. TypeOK /\ [Next]_vars => TypeOK'
  BY TypeStep
<1> QED
  BY <1>1, <1>2, PTL DEF Spec

-----------------------------------------------------------------------------
(* Recency. *)

(* One projection extends the history in order and raises the mark. *)
LEMMA ProjectInOrder ==
  ASSUME DbType, AppliedInOrder, Live, NEW e \in Event, NEW days \in Nat,
         Project(e, days)
  PROVE  AppliedInOrder'
<1>1. tenant \in Row /\ tenant.lastEventAt \in Nat /\ e.time \in Nat
      /\ log \in Seq(Nat)
  BY DEF DbType, Live, Row, Event
<1>2. CASE SkipStale(e)
  BY <1>2 DEF SkipStale, AppliedInOrder
<1>3. CASE ~ SkipStale(e)
  <2>1. /\ ~ Stale(e)
        /\ tenant' = [Patched(tenant, e, days) EXCEPT !.lastEventAt = e.time]
        /\ log' = Append(log, e.time)
    BY <1>3 DEF Project
  <2>2. Patched(tenant, e, days) \in Row
    BY <1>1, PatchedType
  <2>3. tenant'.lastEventAt = e.time
    BY <2>1, <2>2 DEF Row
  <2>4. \A i \in 1..Len(log) : log[i] \in Nat /\ log[i] < e.time
    <3>1. tenant.lastEventAt < e.time
      BY <1>1, <2>1 DEF Stale
    <3>2. \A i \in 1..Len(log) : log[i] \in Nat
      BY <1>1
    <3>3. \A i \in 1..Len(log) : log[i] <= tenant.lastEventAt
      BY DEF AppliedInOrder, Live
    <3> QED
      BY <1>1, <3>1, <3>2, <3>3
  <2>5. /\ Len(log) \in Nat
        /\ Len(log') = Len(log) + 1
        /\ log'[Len(log) + 1] = e.time
        /\ \A i \in 1..Len(log) : log'[i] = log[i]
    BY <1>1, <2>1
  <2>6. \A i, j \in 1..Len(log) : i < j => log[i] < log[j]
    BY DEF AppliedInOrder
  <2>7. ASSUME NEW i \in 1..Len(log'), NEW j \in 1..Len(log'), i < j
        PROVE  log'[i] < log'[j]
    <3>1. i \in 1..Len(log) /\ (j \in 1..Len(log) \/ j = Len(log) + 1)
      BY <2>5, <2>7
    <3> QED
      BY <2>4, <2>5, <2>6, <2>7, <3>1
  <2>8. ASSUME NEW i \in 1..Len(log')
        PROVE  log'[i] <= e.time
    <3>1. i \in 1..Len(log) \/ i = Len(log) + 1
      BY <2>5
    <3> QED
      BY <1>1, <2>4, <2>5, <3>1
  <2> QED
    BY <2>3, <2>7, <2>8 DEF AppliedInOrder
<1> QED
  BY <1>2, <1>3

(* The row is written by the clock or by I-2, neither of which is an event.  *)
Touch == GraceElapses \/ \E type \in RealmWrites : SetRealmFields(type)

(* The only steps that touch the row or its history: a projection, the       *)
(* creation of the row, the passing of the grace, a write of the realm       *)
(* fields, and the hard delete.                                              *)
LEMMA RowSteps ==
  ASSUME TypeOK, Next
  PROVE  \/ \E e \in Event, days \in Nat : Live /\ Project(e, days)
         \/ \E s \in Signup : SignupCommit(s)
         \/ Touch
         \/ HardDeleteTenant
         \/ UNCHANGED <<tenant, log, relays, purged, children>>
<1> USE DEF dbVars
<1>1. CASE ProducerNext
  BY <1>1 DEF ProducerNext, Publish
<1>2. CASE QueueNext
  BY <1>2 DEF QueueNext, Redrive, ReplayDlq, Prune, Receive, RejectFuture
<1>3. ASSUME NEW w \in Worker, HandlerNext(w)
      PROVE  \/ \E e \in Event, days \in Nat : Live /\ Project(e, days)
             \/ UNCHANGED <<tenant, log, relays, purged, children>>
  <2>1. CASE ApplyLive(w) \/ RecheckFound(w)
    <3>1. handler[w].pc # "idle" /\ Live
          /\ Project(handler[w].ev, handler[w].days)
      BY <2>1 DEF ApplyLive, RecheckFound, Claims
    <3>2. handler[w].ev \in Event /\ handler[w].days \in Nat
      BY <3>1 DEF TypeOK, ProcessType
    <3> QED
      BY <3>1, <3>2
  <2>2. CASE ~ (ApplyLive(w) \/ RecheckFound(w))
    BY <1>3, <2>2 DEF HandlerNext, Duplicate, DropOffboarded, Miss, DropFound,
       ProbeMissing, LockTenantProvisioning, RecheckMissing, Park,
       HandlerFail, HandlerStep
  <2> QED
    BY <2>1, <2>2
<1>4. ASSUME NEW s \in Signup, SignupNext(s), ~ SignupCommit(s)
      PROVE  UNCHANGED <<tenant, log, relays, purged, children>>
  BY <1>4 DEF SignupNext, SignupStart, SignupLock, SignupFail
<1>5. ASSUME NEW r \in Replayer, ReplayerNext(r)
      PROVE  \/ \E e \in Event, days \in Nat : Live /\ Project(e, days)
             \/ UNCHANGED <<tenant, log, relays, purged, children>>
  <2>1. CASE ListParked(r) \/ ReplayStop(r)
    BY <2>1 DEF ListParked, ReplayStop
  <2>2. ASSUME NEW e \in sent, ReplayStep(r, e)
        PROVE  \/ Live /\ Project(e, replay[r].days)
               \/ UNCHANGED <<tenant, log, relays, purged, children>>
    BY <2>2 DEF ReplayStep, ReplayPeek, ReplayClaimed, ReplayApply, ReplayDrop
  <2>3. replay[r].days \in Nat /\ sent \subseteq Event
    BY DEF TypeOK, ProcessType, QueueType
  <2> QED
    BY <1>5, <2>1, <2>2, <2>3 DEF ReplayerNext
<1>6. CASE ListExpiredTrial
  BY <1>6 DEF ListExpiredTrial
<1> QED
  BY <1>1, <1>2, <1>3, <1>4, <1>5, <1>6 DEF Next, RowNext, Touch

(* A row is not the absence of a row. *)
LEMMA RowExists == NoTenant \notin Row
<1>1. NoTenant.status = "none"
  BY DEF NoTenant
<1>2. \A r \in Row : r.status # "none"
  BY DEF Row, Status
<1> QED
  BY <1>1, <1>2

(* Neither changes anything that anybody was told, nor revives a row.        *)
LEMMA TouchFrame ==
  ASSUME TypeOK, Touch
  PROVE  /\ tenant \in Row /\ tenant # NoTenant /\ tenant' # NoTenant
         /\ tenant'.deleted = tenant.deleted
         /\ tenant'.status = tenant.status /\ tenant'.plan = tenant.plan
         /\ tenant'.lastEventAt = tenant.lastEventAt
         /\ UNCHANGED <<log, relays, purged, children, clock, handler, parked>>
<1>1. CASE GraceElapses
  <2>1. tenant \in Row /\ tenant # NoTenant /\ tenant' = [tenant EXCEPT !.graceOver = TRUE]
        /\ UNCHANGED <<log, relays, purged, children, clock, handler, parked>>
    BY <1>1 DEF GraceElapses, Live, TypeOK, DbType, producerVars, processVars
  <2> QED
    BY <2>1, RowExists DEF Row
<1>2. ASSUME NEW type \in RealmWrites, SetRealmFields(type)
      PROVE  /\ tenant \in Row /\ tenant # NoTenant /\ tenant' # NoTenant
             /\ tenant'.deleted = tenant.deleted
             /\ tenant'.status = tenant.status /\ tenant'.plan = tenant.plan
             /\ tenant'.lastEventAt = tenant.lastEventAt
             /\ UNCHANGED <<log, relays, purged, children, clock, handler, parked>>
  <2>1. tenant \in Row /\ tenant # NoTenant /\ tenant' = [tenant EXCEPT !.realm = type]
        /\ UNCHANGED <<log, relays, purged, children, clock, handler, parked>>
    BY <1>2 DEF SetRealmFields, TypeOK, DbType, producerVars, processVars
  <2>2. tenant' \in Row
    BY <1>2, <2>1, BoundAssumption DEF Row
  <2> QED
    BY <2>1, <2>2, RowExists DEF Row
<1> QED
  BY <1>1, <1>2 DEF Touch

(* No step of any process breaks the order of the projected events. *)
LEMMA InOrderStep == TypeOK /\ AppliedInOrder /\ [Next]_vars => AppliedInOrder'
<1> SUFFICES ASSUME TypeOK, AppliedInOrder, [Next]_vars
             PROVE  AppliedInOrder'
  OBVIOUS
<1>1. CASE UNCHANGED <<tenant, log, relays, purged, children>>
  BY <1>1 DEF AppliedInOrder
<1>2. ASSUME NEW e \in Event, NEW days \in Nat, Live, Project(e, days)
      PROVE  AppliedInOrder'
  BY <1>2, ProjectInOrder DEF TypeOK
<1>3. ASSUME NEW s \in Signup, SignupCommit(s)
      PROVE  AppliedInOrder'
  <2>1. CASE tenant = NoTenant
    <3>1. log' = <<>>
      BY <1>3, <2>1 DEF SignupCommit
    <3>2. 1..Len(log') = {}
      BY <3>1
    <3> QED
      BY <3>2 DEF AppliedInOrder
  <2>2. CASE tenant # NoTenant
    BY <1>3, <2>2 DEF SignupCommit, AppliedInOrder
  <2> QED
    BY <2>1, <2>2
<1>4. CASE Touch
  BY <1>4, TouchFrame DEF AppliedInOrder
<1>5. CASE HardDeleteTenant
  BY <1>5 DEF HardDeleteTenant, AppliedInOrder
<1>6. CASE Next
  BY <1>1, <1>2, <1>3, <1>4, <1>5, <1>6, RowSteps
<1>7. CASE UNCHANGED vars
  BY <1>1, <1>7 DEF vars, dbVars
<1> QED
  BY <1>6, <1>7

(* EVT-14: on every row, whatever is duplicated, reordered, pruned, parked or *)
(* dead-lettered, projected events have strictly increasing times; no event   *)
(* is projected twice.                                                        *)
THEOREM ProjectedInOrder == Spec => []AppliedInOrder
<1>1. Init => AppliedInOrder
  <2>1. Init => log = <<>> /\ tenant = NoTenant
    BY DEF Init
  <2>2. log = <<>> => 1..Len(log) = {}
    OBVIOUS
  <2> QED
    BY <2>1, <2>2 DEF AppliedInOrder
<1>2. TypeOK /\ AppliedInOrder /\ [Next]_vars => AppliedInOrder'
  BY InOrderStep
<1> QED
  BY <1>1, <1>2, TypeCorrect, PTL DEF Spec

-----------------------------------------------------------------------------
(* Parking. *)

(* A row becomes live only by I-1's commit. *)
LEMMA BirthOnlyBySignup ==
  ASSUME TypeOK, Next, ~ Live, Live'
  PROVE  \E s \in Signup : SignupCommit(s)
<1>1. ~ \E e \in Event, days \in Nat : Live /\ Project(e, days)
  OBVIOUS
<1>2. ~ Touch
  BY TouchFrame DEF Live
<1>3. ~ HardDeleteTenant
  BY DEF HardDeleteTenant, Live
<1>4. tenant' # tenant
  BY DEF Live
<1> QED
  BY <1>1, <1>2, <1>3, <1>4, RowSteps

(* Everything but the steps of the lock's users leaves the lock alone. *)
LEMMA LockFrame ==
  ASSUME TypeOK,
         ProducerNext \/ QueueNext
           \/ (\E r \in Replayer : ReplayerNext(r)) \/ RowNext
  PROVE  /\ provLock' = provLock
         /\ \A w \in Worker : handler'[w].pc \in {"recheck", "park"}
                              => handler'[w] = handler[w]
         /\ \A s \in Signup : signup'[s] = "tx" => signup[s] = "tx"
<1> USE DEF processVars
<1>1. CASE ProducerNext
  BY <1>1 DEF ProducerNext, Publish
<1>2. CASE QueueNext
  <2>1. ASSUME NEW w \in Worker, NEW e \in sent, Receive(w, e)
        PROVE  /\ provLock' = provLock /\ signup' = signup
               /\ \A v \in Worker : handler'[v].pc \in {"recheck", "park"}
                                    => handler'[v] = handler[v]
    BY <2>1 DEF Receive, TypeOK, ProcessType
  <2>2. CASE \A w \in Worker, e \in sent : ~ Receive(w, e)
    BY <1>2, <2>2 DEF QueueNext, Redrive, ReplayDlq, Prune, RejectFuture
  <2> QED
    BY <2>1, <2>2
<1>3. ASSUME NEW r \in Replayer, ReplayerNext(r)
      PROVE  /\ provLock' = provLock /\ handler' = handler
             /\ \A s \in Signup : signup'[s] = "tx" => signup[s] = "tx"
  <2>1. CASE ListParked(r)
    BY <2>1 DEF ListParked, TypeOK, ProcessType
  <2>2. CASE ~ ListParked(r)
    BY <1>3, <2>2 DEF ReplayerNext, ReplayStop, ReplayStep, ReplayPeek,
       ReplayClaimed, ReplayApply, ReplayDrop, ReplayFrame
  <2> QED
    BY <2>1, <2>2
<1>4. CASE RowNext
  BY <1>4 DEF RowNext, GraceElapses, ListExpiredTrial, HardDeleteTenant,
     SetRealmFields
<1> QED
  BY <1>1, <1>2, <1>3, <1>4

(* No step lets a second transaction past the provisioning lock. *)
LEMMA ExclusiveStep ==
  TypeOK /\ ProvisioningExclusive /\ [Next]_vars => ProvisioningExclusive'
<1> SUFFICES ASSUME TypeOK, ProvisioningExclusive, [Next]_vars
             PROVE  ProvisioningExclusive'
  OBVIOUS
<1> USE ProcessAssumption
<1>1. ASSUME UNCHANGED provLock, Live' => Live,
             \A w \in Worker : handler'[w].pc \in {"recheck", "park"}
                              => handler'[w] = handler[w],
             \A s \in Signup : signup'[s] = "tx" => signup[s] = "tx"
      PROVE  ProvisioningExclusive'
  BY <1>1 DEF ProvisioningExclusive
<1>2. ASSUME NEW w \in Worker, HandlerNext(w)
      PROVE  ProvisioningExclusive'
  <2>1. Live' => Live
    <3>1. Next
      BY <1>2 DEF Next
    <3>2. signup' = signup
      BY <1>2 DEF HandlerNext, Duplicate, ApplyLive, DropOffboarded, Miss,
         DropFound, ProbeMissing, LockTenantProvisioning, RecheckFound,
         RecheckMissing, Park, HandlerFail, HandlerStep, Commit
    <3>3. \A s \in Signup : ~ SignupCommit(s)
      <4> SUFFICES ASSUME NEW s \in Signup, SignupCommit(s) PROVE FALSE
        OBVIOUS
      <4> QED
        BY <3>2 DEF SignupCommit, TypeOK, ProcessType
    <3> QED
      BY <3>1, <3>3, BirthOnlyBySignup
  <2>2. CASE LockTenantProvisioning(w)
    BY <2>1, <2>2 DEF LockTenantProvisioning, HandlerStep,
       ProvisioningExclusive, TypeOK, ProcessType
  <2>3. CASE RecheckMissing(w)
    <3>1. handler[w].pc = "recheck" /\ ~ Live /\ provLock' = provLock
          /\ signup' = signup
          /\ handler' = [handler EXCEPT ![w].pc = "park"]
      BY <2>3 DEF RecheckMissing, HandlerStep
    <3>2. \A v \in Worker \ {w} : handler'[v] = handler[v]
      BY <3>1 DEF TypeOK, ProcessType
    <3> QED
      BY <2>1, <3>1, <3>2 DEF ProvisioningExclusive
  <2>4. CASE Miss(w) \/ ProbeMissing(w)
    <3>1. /\ provLock' = provLock /\ signup' = signup
          /\ \A v \in Worker \ {w} : handler'[v] = handler[v]
          /\ handler'[w].pc \notin {"recheck", "park"}
      BY <2>4 DEF Miss, ProbeMissing, HandlerStep, TypeOK, ProcessType
    <3> QED
      BY <1>1, <2>1, <3>1
  <2>5. CASE Duplicate(w)
    <3>1. /\ provLock' = provLock /\ signup' = signup
          /\ \A v \in Worker \ {w} : handler'[v] = handler[v]
          /\ handler'[w].pc \notin {"recheck", "park"}
      BY <2>5 DEF Duplicate, Return, IdleHandler, TypeOK, ProcessType
    <3> QED
      BY <1>1, <2>1, <3>1
  <2>6. CASE Commit(w) \/ HandlerFail(w)
    <3>1. /\ Release(w) /\ signup' = signup
          /\ \A v \in Worker \ {w} : handler'[v] = handler[v]
          /\ handler'[w].pc = "idle"
      BY <2>6 DEF Commit, Return, HandlerFail, IdleHandler, TypeOK,
         ProcessType
    <3> QED
      BY <2>1, <3>1 DEF ProvisioningExclusive, Release
  <2> QED
    BY <1>2, <2>2, <2>3, <2>4, <2>5, <2>6 DEF HandlerNext, ApplyLive,
       DropOffboarded, DropFound, RecheckFound, Park
<1>3. ASSUME NEW s \in Signup, SignupNext(s)
      PROVE  ProvisioningExclusive'
  <2>1. handler' = handler
    BY <1>3 DEF SignupNext, SignupStart, SignupLock, SignupCommit, SignupFail
  <2>2. \A t \in Signup \ {s} : signup'[t] = signup[t]
    BY <1>3 DEF SignupNext, SignupStart, SignupLock, SignupCommit, SignupFail,
       TypeOK, ProcessType
  <2>3. CASE SignupStart(s)
    BY <2>1, <2>2, <2>3 DEF SignupStart, ProvisioningExclusive, dbVars, Live,
       TypeOK, ProcessType
  <2>4. CASE SignupLock(s)
    BY <2>1, <2>2, <2>4 DEF SignupLock, ProvisioningExclusive, dbVars, Live,
       TypeOK, ProcessType
  <2>5. CASE SignupCommit(s)
    <3>1. provLock = s /\ signup'[s] = "replay"
      BY <2>5 DEF SignupCommit, ProvisioningExclusive, TypeOK, ProcessType
    <3>2. \A w \in Worker : handler[w].pc \notin {"recheck", "park"}
      BY <3>1 DEF ProvisioningExclusive
    <3>3. \A t \in Signup : signup'[t] # "tx"
      BY <2>2, <3>1 DEF ProvisioningExclusive
    <3> QED
      BY <2>1, <3>2, <3>3 DEF ProvisioningExclusive
  <2>6. CASE SignupFail(s)
    <3>1. signup'[s] = "idle" /\ Release(s) /\ tenant' = tenant
      BY <2>6 DEF SignupFail, dbVars, TypeOK, ProcessType
    <3> QED
      BY <2>1, <2>2, <3>1 DEF ProvisioningExclusive, Release, Live
  <2> QED
    BY <1>3, <2>3, <2>4, <2>5, <2>6 DEF SignupNext
<1>4. ASSUME ProducerNext \/ QueueNext
             \/ (\E r \in Replayer : ReplayerNext(r)) \/ RowNext
      PROVE  ProvisioningExclusive'
  <2>1. /\ provLock' = provLock
        /\ \A w \in Worker : handler'[w].pc \in {"recheck", "park"}
                              => handler'[w] = handler[w]
        /\ \A s \in Signup : signup'[s] = "tx" => signup[s] = "tx"
    BY <1>4, LockFrame
  <2>2. Next
    BY <1>4 DEF Next
  <2>3. \A s \in Signup : ~ SignupCommit(s)
    <3> SUFFICES ASSUME NEW s \in Signup, SignupCommit(s) PROVE FALSE
      OBVIOUS
    <3>1. provLock = s /\ provLock' = Nobody
      BY DEF SignupCommit, ProvisioningExclusive
    <3> QED
      BY <2>1, <3>1
  <2>4. Live' => Live
    BY <2>2, <2>3, BirthOnlyBySignup
  <2> QED
    BY <1>1, <2>1, <2>4
<1>5. CASE UNCHANGED vars
  BY <1>5 DEF vars, dbVars, processVars, ProvisioningExclusive, Live
<1> QED
  BY <1>2, <1>3, <1>4, <1>5 DEF Next

(* EVT-18: the provisioning lock works: it is held by the one transaction    *)
(* that is between its second look at the row and its commit, or inside      *)
(* I-1's insert, and no row appears in between.                              *)
THEOREM ProvisioningIsExclusive == Spec => []ProvisioningExclusive
<1>1. Init => ProvisioningExclusive
  BY DEF Init, ProvisioningExclusive, IdleHandler
<1>2. TypeOK /\ ProvisioningExclusive /\ [Next]_vars => ProvisioningExclusive'
  BY ExclusiveStep
<1> QED
  BY <1>1, <1>2, TypeCorrect, PTL DEF Spec

(* EVT-18: no event is ever parked for a live tenant, so none is left behind *)
(* by the replay that I-1 runs after its commit.                             *)
THEOREM NeverParkedWhileLive == Spec => NoParkWhileLive
<1>1. ProvisioningExclusive /\ [Next]_vars
        => [parked' \subseteq parked \/ ~ Live]_vars
  <2> SUFFICES ASSUME ProvisioningExclusive, [Next]_vars
               PROVE  parked' \subseteq parked \/ ~ Live
    OBVIOUS
  <2>1. ASSUME NEW w \in Worker, Park(w) PROVE ~ Live
    BY <2>1 DEF Park, ProvisioningExclusive
  <2>2. ASSUME NEW w \in Worker, HandlerNext(w), ~ Park(w)
        PROVE  parked' = parked
    BY <2>2 DEF HandlerNext, Duplicate, ApplyLive, DropOffboarded, Miss,
       DropFound, ProbeMissing, LockTenantProvisioning, RecheckFound,
       RecheckMissing, HandlerFail, HandlerStep, dbVars
  <2>3. ASSUME NEW r \in Replayer, ReplayerNext(r)
        PROVE  parked' \subseteq parked
    BY <2>3 DEF ReplayerNext, ListParked, ReplayStop, ReplayStep, ReplayPeek,
       ReplayClaimed, ReplayApply, ReplayDrop, dbVars
  <2>4. ASSUME NEW s \in Signup, SignupNext(s)
        PROVE  parked' = parked
    BY <2>4 DEF SignupNext, SignupStart, SignupLock, SignupCommit, SignupFail,
       dbVars
  <2>5. CASE ProducerNext \/ QueueNext \/ RowNext
    BY <2>5 DEF ProducerNext, Publish, QueueNext, Redrive, ReplayDlq, Prune,
       Receive, RejectFuture, RowNext, GraceElapses, ListExpiredTrial,
       HardDeleteTenant, SetRealmFields, dbVars
  <2>6. CASE UNCHANGED vars
    BY <2>6 DEF vars, dbVars
  <2> QED
    BY <2>1, <2>2, <2>3, <2>4, <2>5, <2>6 DEF Next
<1> QED
  BY <1>1, ProvisioningIsExclusive, PTL DEF Spec, NoParkWhileLive

-----------------------------------------------------------------------------
(* The wipe, the relay and the high-water mark.                              *)

(* What a patch does to the columns that others are told of: the status and  *)
(* the plan become what applyProjection reports, and only an offboarding     *)
(* deletes.                                                                  *)
LEMMA PatchedReports ==
  ASSUME NEW r \in Row, ~ r.deleted, ChecksHold(r), NEW e \in Event, NEW days \in Nat
  PROVE  LET p == Patched(r, e, days) IN
         /\ p.status = ReportedStatus(r, e)
         /\ p.plan = ReportedPlan(r, e)
         /\ p.deleted <=> ReportedStatus(r, e) = "offboarded"
<1> DEFINE p == Patched(r, e, days)
<1>1. r.status # "offboarded" /\ r.deleted = FALSE
  BY DEF ChecksHold, Row
<1> USE DEF ReportedStatus, ReportedPlan
<1>2. CASE e.type = "TenantRealmReady"
  BY <1>1, <1>2 DEF Patched, SetRealm, Row
<1>3. CASE e.type \in {"TenantConverted", "DirectPaidSignup"}
  BY <1>1, <1>3 DEF Patched, ActivatePaid, Row
<1>4. CASE e.type \in {"TrialExpired", "TenantPaymentPastDue"}
  BY <1>1, <1>4 DEF Patched, SetStatusClearSuspension, Row
<1>5. CASE e.type = "TrialReactivated"
  BY <1>1, <1>5 DEF Patched, TrialReactivate, SetStatusClearSuspension, Row
<1>6. CASE e.type = "TenantSuspended"
  BY <1>1, <1>6 DEF Patched, Suspend, Row
<1>7. CASE e.type \in {"TenantOffboarded", "TenantSubscriptionCancelled"}
  BY <1>1, <1>7 DEF Patched, Offboard, Cancel, Row
<1>8. CASE e.type = "TenantPlanChanged"
  BY <1>1, <1>8 DEF Patched, SetPlan, Row
<1>9. CASE e.type = "TenantReactivated"
  BY <1>1, <1>9 DEF Patched, Reactivate, Row
<1>10. CASE e.type = "TenantSeatsChanged"
  BY <1>1, <1>10 DEF Patched, SetLicensedSeats, Row
<1> QED
  BY <1>2, <1>3, <1>4, <1>5, <1>6, <1>7, <1>8, <1>9, <1>10 DEF Event, EventType

(* A projection that is not skipped, in terms of what it reports.            *)
LEMMA ProjectReports ==
  ASSUME DbType, Live, NEW e \in Event, NEW days \in Nat, Project(e, days),
         ~ SkipStale(e)
  PROVE  /\ tenant \in Row /\ tenant' \in Row
         /\ tenant'.status = ReportedStatus(tenant, e)
         /\ tenant'.plan = ReportedPlan(tenant, e)
         /\ tenant'.deleted <=> Offboards(e)
         /\ tenant'.lastEventAt = e.time
<1>1. tenant \in Row /\ ChecksHold(tenant) /\ ~ tenant.deleted
  BY DEF DbType, Live
<1> DEFINE p == Patched(tenant, e, days)
<1>2. tenant' = [p EXCEPT !.lastEventAt = e.time]
  BY DEF Project
<1>3. p \in Row
  BY <1>1, PatchedType
<1>4. /\ p.status = ReportedStatus(tenant, e)
      /\ p.plan = ReportedPlan(tenant, e)
      /\ p.deleted <=> ReportedStatus(tenant, e) = "offboarded"
  BY <1>1, PatchedReports
<1>5. tenant.status # "offboarded"
  BY <1>1 DEF ChecksHold
<1>6. e.time \in Nat
  BY DEF Event
<1> HIDE DEF p
<1>7. /\ tenant'.status = p.status /\ tenant'.plan = p.plan
      /\ tenant'.deleted = p.deleted /\ tenant'.lastEventAt = e.time
      /\ tenant' \in Row
  BY <1>2, <1>3, <1>6 DEF Row
<1> QED
  BY <1>1, <1>4, <1>5, <1>7 DEF Offboards

(* I-1 inserts the fresh row or finds a live one. *)
LEMMA SignupRow ==
  ASSUME NEW s \in Signup, SignupCommit(s)
  PROVE  \/ /\ tenant = NoTenant /\ tenant' = FreshRow
            /\ children' = TRUE /\ purged' = FALSE /\ relays' = <<>> /\ log' = <<>>
         \/ Live /\ UNCHANGED <<tenant, children, purged, log, relays>>
BY DEF SignupCommit, SoftDeleted, Live

(* The wipe, its signal and the row change together. *)
LEMMA PurgeStep == TypeOK /\ PurgeSignalled /\ [Next]_vars => PurgeSignalled'
<1> SUFFICES ASSUME TypeOK, PurgeSignalled, [Next]_vars
             PROVE  PurgeSignalled'
  OBVIOUS
<1>1. CASE UNCHANGED <<tenant, log, relays, purged, children>>
  BY <1>1 DEF PurgeSignalled, Live, SoftDeleted
<1>2. ASSUME NEW e \in Event, NEW days \in Nat, Live, Project(e, days)
      PROVE  PurgeSignalled'
  <2>1. CASE SkipStale(e)
    BY <1>1, <2>1 DEF SkipStale
  <2>2. CASE ~ SkipStale(e)
    <3>1. tenant' \in Row /\ (tenant'.deleted <=> Offboards(e))
      BY <1>2, <2>2, ProjectReports DEF TypeOK
    <3>2. /\ purged' = IF Offboards(e) THEN TRUE ELSE purged
          /\ children' = IF Offboards(e) THEN FALSE ELSE children
      BY <1>2, <2>2 DEF Project
    <3> QED
      BY <1>2, <3>1, <3>2, RowExists DEF PurgeSignalled, Live, SoftDeleted
  <2> QED
    BY <2>1, <2>2
<1>3. ASSUME NEW s \in Signup, SignupCommit(s)
      PROVE  PurgeSignalled'
  <2>1. CASE tenant' = FreshRow /\ children' = TRUE /\ purged' = FALSE
    <3>1. tenant' # NoTenant /\ ~ tenant'.deleted
      BY <2>1 DEF FreshRow, NoTenant
    <3> QED
      BY <2>1, <3>1 DEF PurgeSignalled, Live, SoftDeleted
  <2> QED
    BY <1>1, <1>3, <2>1, SignupRow
<1>4. CASE Touch
  BY <1>4, TouchFrame DEF PurgeSignalled, Live, SoftDeleted
<1>5. CASE HardDeleteTenant
  BY <1>5 DEF HardDeleteTenant, PurgeSignalled, Live, SoftDeleted
<1>6. CASE Next
  BY <1>1, <1>2, <1>3, <1>4, <1>5, <1>6, RowSteps
<1>7. CASE UNCHANGED vars
  BY <1>1, <1>7 DEF vars, dbVars
<1> QED
  BY <1>6, <1>7

(* GDPR: on every path to offboarding and through the hard delete of a       *)
(* trial, the child rows go exactly when their purge is signalled, and a     *)
(* live tenant keeps them.                                                   *)
THEOREM WipeIsSignalled == Spec => []PurgeSignalled
<1>1. Init => PurgeSignalled
  BY DEF Init, PurgeSignalled, Live, SoftDeleted
<1> QED
  BY <1>1, PurgeStep, TypeCorrect, PTL DEF Spec

(* PAID-1: an offboarded row never changes again, whatever events, replays   *)
(* and I-1 calls are still under way, except for the realm fields that I-2   *)
(* may rewrite; apart from that it can only be deleted.                      *)
THEOREM OffboardingIsFinal == Spec => OffboardedTerminal
<1> DEFINE Kept == \/ tenant' = NoTenant
                   \/ \E type \in RealmType :
                        tenant' = [tenant EXCEPT !.realm = type]
<1>1. TypeOK /\ [Next]_vars => [SoftDeleted => Kept]_vars
  <2> SUFFICES ASSUME TypeOK, [Next]_vars, SoftDeleted PROVE Kept
    OBVIOUS
  <2>1. ~ Live /\ tenant \in Row /\ tenant # NoTenant
    BY DEF Live, SoftDeleted, TypeOK, DbType
  <2>2. tenant' = tenant => Kept
    <3>1. tenant.realm \in RealmType /\ tenant = [tenant EXCEPT !.realm = tenant.realm]
      BY <2>1 DEF Row
    <3> QED
      BY <3>1
  <2>3. Touch => Kept
    BY <2>1, BoundAssumption DEF Touch, GraceElapses, SetRealmFields
  <2>4. HardDeleteTenant => Kept
    BY DEF HardDeleteTenant
  <2>5. \A s \in Signup : ~ SignupCommit(s)
    BY DEF SignupCommit
  <2>6. CASE Next
    BY <2>1, <2>2, <2>3, <2>4, <2>5, <2>6, RowSteps
  <2>7. CASE UNCHANGED vars
    BY <2>2, <2>7 DEF vars, dbVars
  <2> QED
    BY <2>6, <2>7
<1> QED
  BY <1>1, TypeCorrect, PTL DEF Spec, OffboardedTerminal

(* A projection appends a relay exactly when the row's status or plan moves, *)
(* from what the row was to what it becomes.                                 *)
LEMMA ProjectRelays ==
  ASSUME DbType, RelayChain, Live, NEW e \in Event, NEW days \in Nat,
         Project(e, days), ~ SkipStale(e)
  PROVE  RelayChain'
<1>1. /\ tenant \in Row /\ tenant' \in Row
      /\ tenant'.status = ReportedStatus(tenant, e)
      /\ tenant'.plan = ReportedPlan(tenant, e)
  BY ProjectReports
<1> DEFINE x == [from |-> tenant.status, to |-> ReportedStatus(tenant, e),
                 fromPlan |-> tenant.plan, toPlan |-> ReportedPlan(tenant, e)]
           n == Len(relays)
<1>2. relays' = IF StateChanged(e) THEN Append(relays, x) ELSE relays
  BY DEF Project
<1>3. tenant # NoTenant /\ tenant' # NoTenant
  BY <1>1, RowExists DEF Live
<1>4. CASE ~ StateChanged(e)
  <2>1. relays' = relays /\ tenant'.status = tenant.status /\ tenant'.plan = tenant.plan
    BY <1>1, <1>2, <1>4 DEF StateChanged
  <2> QED
    BY <1>3, <2>1 DEF RelayChain
<1>5. CASE StateChanged(e)
  <2>1. /\ x.from = tenant.status /\ x.fromPlan = tenant.plan
        /\ x.to = tenant'.status /\ x.toPlan = tenant'.plan
        /\ <<x.from, x.fromPlan>> # <<x.to, x.toPlan>>
    BY <1>1, <1>5 DEF StateChanged
  <2>2. relays \in Seq(Relay) /\ n \in Nat
    BY DEF DbType
  <2>3. x \in Relay
    BY <1>1, ReportedType DEF Relay, Row
  <2> HIDE DEF x
  <2>4. /\ Len(relays') = n + 1 /\ relays'[n + 1] = x
        /\ \A i \in 1..n : relays'[i] = relays[i]
    BY <1>2, <1>5, <2>2, <2>3
  <2>5. n > 0 => tenant.status = relays[n].to /\ tenant.plan = relays[n].toPlan
    BY <1>3, <2>2 DEF RelayChain
  <2>6. n = 0 => tenant.status = "trial" /\ tenant.plan = SignupPlan
    BY <1>3, <2>2 DEF RelayChain
  <2>7. ASSUME NEW i \in 1..Len(relays')
        PROVE  /\ <<relays'[i].from, relays'[i].fromPlan>>
                    # <<relays'[i].to, relays'[i].toPlan>>
               /\ IF i = 1
                  THEN relays'[i].from = "trial" /\ relays'[i].fromPlan = SignupPlan
                  ELSE /\ relays'[i].from = relays'[i - 1].to
                       /\ relays'[i].fromPlan = relays'[i - 1].toPlan
    <3>1. CASE i \in 1..n
      <4>1. relays'[i] = relays[i] /\ (i # 1 => relays'[i - 1] = relays[i - 1])
        BY <2>2, <2>4, <3>1
      <4> QED
        BY <1>3, <3>1, <4>1 DEF RelayChain
    <3>2. CASE i = n + 1
      <4>1. n > 0 => relays'[n] = relays[n] /\ i - 1 = n /\ i # 1
        BY <2>2, <2>4, <3>2
      <4>2. n = 0 => i = 1
        BY <3>2
      <4> QED
        BY <2>1, <2>2, <2>4, <2>5, <2>6, <3>2, <4>1, <4>2
    <3> QED
      BY <2>2, <2>4, <2>7, <3>1, <3>2
  <2>8. relays' # <<>> /\ relays'[Len(relays')] = x
    BY <2>2, <2>4
  <2> QED
    BY <1>3, <2>1, <2>7, <2>8 DEF RelayChain
<1> QED
  BY <1>4, <1>5

(* Every other step leaves the chain as it is or starts a new one. *)
LEMMA RelayStep == TypeOK /\ RelayChain /\ [Next]_vars => RelayChain'
<1> SUFFICES ASSUME TypeOK, RelayChain, [Next]_vars
             PROVE  RelayChain'
  OBVIOUS
<1>1. CASE UNCHANGED <<tenant, log, relays, purged, children>>
  BY <1>1 DEF RelayChain
<1>2. ASSUME NEW e \in Event, NEW days \in Nat, Live, Project(e, days)
      PROVE  RelayChain'
  <2>1. CASE SkipStale(e)
    BY <1>1, <2>1 DEF SkipStale
  <2>2. CASE ~ SkipStale(e)
    BY <1>2, <2>2, ProjectRelays DEF TypeOK
  <2> QED
    BY <2>1, <2>2
<1>3. ASSUME NEW s \in Signup, SignupCommit(s)
      PROVE  RelayChain'
  <2>1. CASE relays' = <<>> /\ tenant' = FreshRow
    <3>1. 1..Len(relays') = {} /\ tenant'.status = "trial" /\ tenant'.plan = SignupPlan
      BY <2>1 DEF FreshRow
    <3> QED
      BY <2>1, <3>1 DEF RelayChain
  <2> QED
    BY <1>1, <1>3, <2>1, SignupRow
<1>4. CASE Touch
  BY <1>4, TouchFrame DEF RelayChain
<1>5. CASE HardDeleteTenant
  BY <1>5 DEF HardDeleteTenant, RelayChain
<1>6. CASE Next
  BY <1>1, <1>2, <1>3, <1>4, <1>5, <1>6, RowSteps
<1>7. CASE UNCHANGED vars
  BY <1>1, <1>7 DEF vars, dbVars
<1> QED
  BY <1>6, <1>7

(* EVT-16: for any number of events in any order, a consumer that sees only  *)
(* TenantStateChanged can rebuild the tenant's status and plan.              *)
THEOREM RelaysAreChained == Spec => []RelayChain
<1>1. Init => RelayChain
  BY DEF Init, RelayChain
<1> QED
  BY <1>1, RelayStep, TypeCorrect, PTL DEF Spec

-----------------------------------------------------------------------------
(* The high-water mark, and what becomes of a message.                       *)

(* A projection leaves a row whose mark covers the event, and moves the mark *)
(* to the time of the event or not at all.                                   *)
LEMMA ProjectRecency ==
  ASSUME DbType, Live, NEW e \in Event, NEW days \in Nat, Project(e, days)
  PROVE  /\ tenant' # NoTenant
         /\ e.time <= tenant'.lastEventAt
         /\ tenant'.lastEventAt \in {tenant.lastEventAt, e.time}
<1>1. CASE SkipStale(e)
  BY <1>1 DEF SkipStale, Stale, Live
<1>2. CASE ~ SkipStale(e)
  BY <1>2, ProjectReports, RowExists DEF Event
<1> QED
  BY <1>1, <1>2

(* Who puts an event into processed_events, and in what state of the row.    *)
LEMMA ProcessedSteps ==
  ASSUME TypeOK, [Next]_vars, NEW e \in processed' \ processed
  PROVE  \E w \in Worker :
           /\ handler[w].pc # "idle" /\ e = handler[w].ev /\ e \in Event
           /\ \/ Live /\ Project(e, handler[w].days) /\ parked' = parked
              \/ ~ Live /\ tenant' = tenant
              \/ handler[w].pc = "probe"
              \/ e \in parked'
<1>1. ASSUME NEW w \in Worker, HandlerNext(w)
      PROVE  /\ Commit(w) /\ handler[w].pc # "idle"
             /\ \/ /\ Live /\ Project(handler[w].ev, handler[w].days)
                   /\ parked' = parked
                \/ ~ Live /\ tenant' = tenant
                \/ handler[w].pc = "probe"
                \/ handler[w].ev \in parked'
  <2>1. ~ (UNCHANGED processed)
    OBVIOUS
  <2> QED
    BY <1>1, <2>1 DEF HandlerNext, Duplicate, ApplyLive, DropOffboarded, Miss,
       DropFound, ProbeMissing, LockTenantProvisioning, RecheckFound,
       RecheckMissing, Park, HandlerFail, HandlerStep, Claims, dbVars
<1>2. \E w \in Worker : HandlerNext(w)
  <2>1. ASSUME NEW r \in Replayer, ReplayerNext(r) PROVE FALSE
    BY <2>1 DEF ReplayerNext, ListParked, ReplayStop, ReplayStep, ReplayPeek,
       ReplayClaimed, ReplayApply, ReplayDrop, ReplayFrame, dbVars
  <2>2. ASSUME NEW s \in Signup, SignupNext(s) PROVE FALSE
    BY <2>2 DEF SignupNext, SignupStart, SignupLock, SignupCommit, SignupFail, dbVars
  <2>3. ~ (ProducerNext \/ QueueNext \/ RowNext \/ UNCHANGED vars)
    BY DEF ProducerNext, Publish, QueueNext, Redrive, ReplayDlq, Prune,
       Receive, RejectFuture, RowNext, GraceElapses, ListExpiredTrial,
       HardDeleteTenant, SetRealmFields, dbVars, vars
  <2> QED
    BY <2>1, <2>2, <2>3 DEF Next
<1>3. PICK w \in Worker : HandlerNext(w)
  BY <1>2
<1>4. e = handler[w].ev /\ handler[w].ev \in Event
  BY <1>1, <1>3 DEF Commit, TypeOK, ProcessType
<1> QED
  BY <1>1, <1>3, <1>4

(* Who takes an event out of pending_tenant_events.                          *)
LEMMA ParkedSteps ==
  ASSUME TypeOK, [Next]_vars, NEW e \in parked \ parked'
  PROVE  /\ e \in Event
         /\ \/ \E r \in Replayer : Live /\ Project(e, replay[r].days)
            \/ ~ Live /\ tenant' = tenant
<1>1. ASSUME NEW r \in Replayer, NEW f \in sent, ReplayStep(r, f)
      PROVE  \/ Live /\ Project(e, replay[r].days)
             \/ ~ Live /\ tenant' = tenant
  <2>1. ReplayApply(r, f) \/ ReplayDrop(r, f)
    BY <1>1 DEF ReplayStep, ReplayPeek, ReplayClaimed, dbVars
  <2>2. f = e
    BY <2>1 DEF ReplayApply, ReplayDrop
  <2> QED
    BY <2>1, <2>2 DEF ReplayApply, ReplayDrop, Live, SoftDeleted
<1>2. \E r \in Replayer : \E f \in sent : ReplayStep(r, f)
  <2>1. ASSUME NEW w \in Worker, HandlerNext(w) PROVE FALSE
    BY <2>1 DEF HandlerNext, Duplicate, ApplyLive, DropOffboarded, Miss,
       DropFound, ProbeMissing, LockTenantProvisioning, RecheckFound,
       RecheckMissing, Park, HandlerFail, HandlerStep, dbVars
  <2>2. ASSUME NEW s \in Signup, SignupNext(s) PROVE FALSE
    BY <2>2 DEF SignupNext, SignupStart, SignupLock, SignupCommit, SignupFail, dbVars
  <2>3. ~ (ProducerNext \/ QueueNext \/ RowNext \/ UNCHANGED vars)
    BY DEF ProducerNext, Publish, QueueNext, Redrive, ReplayDlq, Prune,
       Receive, RejectFuture, RowNext, GraceElapses, ListExpiredTrial,
       HardDeleteTenant, SetRealmFields, dbVars, vars
  <2>4. ASSUME NEW r \in Replayer, ListParked(r) \/ ReplayStop(r) PROVE FALSE
    BY <2>4 DEF ListParked, ReplayStop, dbVars
  <2> QED
    BY <2>1, <2>2, <2>3, <2>4 DEF Next, ReplayerNext
<1>3. e \in Event
  BY DEF TypeOK, DbType
<1> QED
  BY <1>1, <1>2, <1>3

(* EVT-18: for any number of replayers, an event of a live tenant leaves     *)
(* pending_tenant_events only with its projection, or superseded.            *)
THEOREM ParkedAreSettled == Spec => ParkedSettled
<1>1. TypeOK /\ [Next]_vars
        => [\A e \in parked \ parked' : Live' => e.time <= tenant'.lastEventAt]_vars
  <2> SUFFICES ASSUME TypeOK, [Next]_vars, NEW e \in parked \ parked', Live'
               PROVE  e.time <= tenant'.lastEventAt
    OBVIOUS
  <2>1. CASE ~ Live /\ tenant' = tenant
    BY <2>1 DEF Live
  <2>2. ASSUME NEW r \in Replayer, Live, Project(e, replay[r].days)
        PROVE  e.time <= tenant'.lastEventAt
    BY <2>2, ParkedSteps, ProjectRecency DEF TypeOK, ProcessType
  <2> QED
    BY <2>1, <2>2, ParkedSteps
<1> QED
  BY <1>1, TypeCorrect, PTL DEF Spec, ParkedSettled

(* For any workers and faults: an event recorded as processed while the      *)
(* tenant is live was projected, superseded or parked, but for the drop      *)
(* between the two look-ups of tenantAbsent.                                 *)
THEOREM AcksSettle == Spec => AckSettlesUnlessProbing
<1>1. TypeOK /\ [Next]_vars
        => [\A e \in processed' \ processed :
              Live' /\ ~ Probing(e)
                => e.time <= tenant'.lastEventAt \/ e \in parked']_vars
  <2> SUFFICES ASSUME TypeOK, [Next]_vars, NEW e \in processed' \ processed,
                      Live', ~ Probing(e)
               PROVE  e.time <= tenant'.lastEventAt \/ e \in parked'
    OBVIOUS
  <2>1. PICK w \in Worker :
          /\ handler[w].pc # "idle" /\ e = handler[w].ev /\ e \in Event
          /\ \/ Live /\ Project(e, handler[w].days) /\ parked' = parked
             \/ ~ Live /\ tenant' = tenant
             \/ handler[w].pc = "probe"
             \/ e \in parked'
    BY ProcessedSteps
  <2>2. CASE Live /\ Project(e, handler[w].days)
    BY <2>1, <2>2, ProjectRecency DEF TypeOK, ProcessType
  <2>3. CASE ~ Live /\ tenant' = tenant
    BY <2>3 DEF Live
  <2>4. handler[w].pc # "probe"
    BY <2>1 DEF Probing
  <2> QED
    BY <2>1, <2>2, <2>3, <2>4
<1> QED
  BY <1>1, TypeCorrect, PTL DEF Spec, AckSettlesUnlessProbing

(* No corrupt time got past the clamp: neither in a worker's hands nor in    *)
(* the store of parked events.                                               *)
ClampHolds ==
  /\ \A w \in Worker : handler[w].pc # "idle" => handler[w].ev.time <= clock + Skew
  /\ \A e \in parked : e.time <= clock + Skew

(* The clock of the producers does not go back. *)
LEMMA ClockStep == TypeOK /\ [Next]_vars => clock \in Nat /\ clock' \in {clock, clock + 1}
<1> SUFFICES ASSUME TypeOK, [Next]_vars
             PROVE  clock \in Nat /\ clock' \in {clock, clock + 1}
  OBVIOUS
<1> USE DEF producerVars
<1>1. clock \in Nat
  BY BoundAssumption DEF TypeOK, QueueType
<1>2. ASSUME ProducerNext PROVE clock' = clock + 1
  BY ONLY <1>2 DEF ProducerNext, Publish
<1>3. ASSUME QueueNext \/ RowNext \/ UNCHANGED vars PROVE clock' = clock
  BY ONLY <1>3 DEF QueueNext, Redrive, ReplayDlq, Prune, Receive, RejectFuture,
     RowNext, GraceElapses, ListExpiredTrial, HardDeleteTenant, SetRealmFields, vars,
     producerVars
<1>4. ASSUME NEW w \in Worker, HandlerNext(w) PROVE clock' = clock
  BY <1>4 DEF HandlerNext, Duplicate, ApplyLive, DropOffboarded, Miss,
     DropFound, ProbeMissing, LockTenantProvisioning, RecheckFound,
     RecheckMissing, Park, HandlerFail, HandlerStep, Commit
<1>5. ASSUME NEW s \in Signup, SignupNext(s) PROVE clock' = clock
  BY <1>5 DEF SignupNext, SignupStart, SignupLock, SignupCommit, SignupFail
<1>6. ASSUME NEW r \in Replayer, ReplayerNext(r) PROVE clock' = clock
  BY <1>6 DEF ReplayerNext, ListParked, ReplayStop, ReplayStep, ReplayPeek,
     ReplayClaimed, ReplayApply, ReplayDrop, ReplayFrame
<1> QED
  BY <1>1, <1>2, <1>3, <1>4, <1>5, <1>6 DEF Next

(* A worker's event is the one it had, or passed the clamp just now.         *)
LEMMA HandlerEvents ==
  ASSUME TypeOK, [Next]_vars, NEW w \in Worker, handler'[w].pc # "idle"
  PROVE  \/ handler[w].pc # "idle" /\ handler'[w].ev = handler[w].ev
         \/ handler'[w].ev.time <= clock + Skew
<1> USE DEF processVars, IdleHandler, TypeOK, ProcessType
<1>1. CASE UNCHANGED handler
  BY <1>1
<1>2. ASSUME NEW v \in Worker, NEW e \in sent, Receive(v, e)
      PROVE  \/ handler[w].pc # "idle" /\ handler'[w].ev = handler[w].ev
             \/ handler'[w].ev.time <= clock + Skew
  <2>1. clock + Skew \in Nat /\ e.time \in Nat
    BY BoundAssumption DEF QueueType, Event
  <2> QED
    BY <1>2, <2>1 DEF Receive, FutureTime
<1>3. ASSUME NEW v \in Worker, HandlerNext(v)
      PROVE  handler[w].pc # "idle" /\ handler'[w].ev = handler[w].ev
  BY <1>3 DEF HandlerNext, Duplicate, ApplyLive, DropOffboarded, Miss,
     DropFound, ProbeMissing, LockTenantProvisioning, RecheckFound,
     RecheckMissing, Park, HandlerFail, HandlerStep, Commit, Return, Claims
<1>4. CASE ProducerNext \/ RowNext \/ UNCHANGED vars
  BY <1>1, <1>4 DEF ProducerNext, Publish, RowNext, GraceElapses, ListExpiredTrial,
     HardDeleteTenant, SetRealmFields, vars
<1>5. CASE QueueNext
  BY <1>1, <1>2, <1>5 DEF QueueNext, Redrive, ReplayDlq, Prune, RejectFuture
<1>6. ASSUME NEW s \in Signup, SignupNext(s) PROVE UNCHANGED handler
  BY <1>6 DEF SignupNext, SignupStart, SignupLock, SignupCommit, SignupFail
<1>7. ASSUME NEW r \in Replayer, ReplayerNext(r) PROVE UNCHANGED handler
  BY <1>7 DEF ReplayerNext, ListParked, ReplayStop, ReplayStep, ReplayPeek,
     ReplayClaimed, ReplayApply, ReplayDrop, ReplayFrame
<1> QED
  BY <1>1, <1>3, <1>4, <1>5, <1>6, <1>7 DEF Next

(* An event is parked by the worker that has it in hand.                     *)
LEMMA ParkedEvents ==
  ASSUME TypeOK, [Next]_vars, NEW e \in parked' \ parked
  PROVE  \E w \in Worker : handler[w].pc # "idle" /\ handler[w].ev = e
<1> USE DEF dbVars
<1>1. ASSUME NEW w \in Worker, HandlerNext(w)
      PROVE  handler[w].pc # "idle" /\ handler[w].ev = e
  BY <1>1 DEF HandlerNext, Duplicate, ApplyLive, DropOffboarded, Miss,
     DropFound, ProbeMissing, LockTenantProvisioning, RecheckFound,
     RecheckMissing, Park, HandlerFail, HandlerStep
<1>2. ~ (ProducerNext \/ QueueNext \/ RowNext \/ UNCHANGED vars)
  BY DEF ProducerNext, Publish, QueueNext, Redrive, ReplayDlq, Prune,
     Receive, RejectFuture, RowNext, GraceElapses, ListExpiredTrial,
     HardDeleteTenant, SetRealmFields, vars
<1>3. ASSUME NEW s \in Signup, SignupNext(s) PROVE FALSE
  BY <1>3 DEF SignupNext, SignupStart, SignupLock, SignupCommit, SignupFail
<1>4. ASSUME NEW r \in Replayer, ReplayerNext(r) PROVE FALSE
  BY <1>4 DEF ReplayerNext, ListParked, ReplayStop, ReplayStep, ReplayPeek,
     ReplayClaimed, ReplayApply, ReplayDrop
<1> QED
  BY <1>1, <1>2, <1>3, <1>4 DEF Next

(* The events that can be projected are those a worker has in hand and those *)
(* that are parked.                                                          *)
LEMMA ProjectedEvents ==
  ASSUME TypeOK, Next
  PROVE  \/ \E w \in Worker : /\ handler[w].pc # "idle" /\ Live
                              /\ Project(handler[w].ev, handler[w].days)
         \/ \E r \in Replayer, e \in parked : Live /\ Project(e, replay[r].days)
         \/ \E s \in Signup : SignupCommit(s)
         \/ Touch
         \/ tenant' \in {tenant, NoTenant}
<1> USE DEF dbVars
<1>1. CASE ProducerNext \/ QueueNext \/ RowNext
  BY <1>1 DEF ProducerNext, Publish, QueueNext, Redrive, ReplayDlq, Prune, Receive,
     RejectFuture, RowNext, ListExpiredTrial, HardDeleteTenant, Touch
<1>2. ASSUME NEW w \in Worker, HandlerNext(w)
      PROVE  \/ /\ handler[w].pc # "idle" /\ Live
                /\ Project(handler[w].ev, handler[w].days)
             \/ tenant' = tenant
  BY <1>2 DEF HandlerNext, Duplicate, ApplyLive, DropOffboarded, Miss,
     DropFound, ProbeMissing, LockTenantProvisioning, RecheckFound,
     RecheckMissing, Park, HandlerFail, HandlerStep, Claims
<1>3. ASSUME NEW s \in Signup, SignupNext(s), ~ SignupCommit(s) PROVE tenant' = tenant
  BY <1>3 DEF SignupNext, SignupStart, SignupLock, SignupFail
<1>4. ASSUME NEW r \in Replayer, ReplayerNext(r)
      PROVE  \/ \E e \in parked : Live /\ Project(e, replay[r].days)
             \/ tenant' = tenant
  BY <1>4 DEF ReplayerNext, ListParked, ReplayStop, ReplayStep, ReplayPeek,
     ReplayClaimed, ReplayApply, ReplayDrop
<1> QED
  BY <1>1, <1>2, <1>3, <1>4 DEF Next

(* A bound that is relative to the clock only grows. *)
LEMMA LaterBound ==
  \A n, c, d, k \in Nat : 0 <= d + k /\ (n <= c + k /\ c <= d => n <= d + k)
OBVIOUS

(* The clamp at the queue is enough to keep the mark near the clock. *)
LEMMA HighWaterStep ==
  TypeOK /\ ClampHolds /\ HighWaterBounded /\ [Next]_vars
    => ClampHolds' /\ HighWaterBounded'
<1> SUFFICES ASSUME TypeOK, ClampHolds, HighWaterBounded, [Next]_vars
             PROVE  ClampHolds' /\ HighWaterBounded'
  OBVIOUS
<1>1. /\ clock \in Nat /\ Skew \in Nat
      /\ clock' \in Nat /\ clock <= clock'
  BY BoundAssumption, ClockStep
<1>2. ASSUME NEW n \in Nat, n <= clock + Skew PROVE n <= clock' + Skew
  BY <1>1, <1>2, LaterBound
<1>3. ASSUME NEW e \in Event PROVE e.time \in Nat
  BY DEF Event
<1>4. ASSUME NEW w \in Worker, handler'[w].pc # "idle"
      PROVE  handler'[w].ev.time <= clock' + Skew
  <2>1. handler'[w].ev.time <= clock + Skew
    BY <1>4, HandlerEvents DEF ClampHolds
  <2>2. handler'[w].ev \in Event
    BY <1>4, TypeStep DEF TypeOK, ProcessType
  <2> QED
    BY <1>2, <1>3, <2>1, <2>2
<1>5. ASSUME NEW e \in parked' PROVE e.time <= clock' + Skew
  <2>1. e.time <= clock + Skew
    BY <1>5, ParkedEvents DEF ClampHolds
  <2>2. e \in Event
    BY <1>5, TypeStep DEF TypeOK, DbType
  <2> QED
    BY <1>2, <1>3, <2>1, <2>2
<1>6. ClampHolds'
  BY <1>4, <1>5 DEF ClampHolds
<1>7. ASSUME tenant \in Row, tenant # NoTenant, tenant'.lastEventAt = tenant.lastEventAt
      PROVE  HighWaterBounded'
  <2>1. tenant.lastEventAt \in Nat
    BY <1>7 DEF Row
  <2>2. tenant'.lastEventAt <= clock' + Skew
    BY <1>2, <1>7, <2>1 DEF HighWaterBounded
  <2> QED
    BY <2>2 DEF HighWaterBounded
<1>8. ASSUME NEW e \in Event, NEW days \in Nat, Live, Project(e, days), e.time <= clock + Skew
      PROVE  HighWaterBounded'
  <2>1. /\ tenant'.lastEventAt \in {tenant.lastEventAt, e.time}
        /\ tenant \in Row /\ tenant # NoTenant
    BY <1>8, ProjectRecency DEF TypeOK, DbType, Live
  <2>2. CASE tenant'.lastEventAt = e.time
    <3>1. tenant'.lastEventAt <= clock' + Skew
      BY <1>2, <1>3, <1>8, <2>2
    <3> QED
      BY <3>1 DEF HighWaterBounded
  <2> QED
    BY <1>7, <2>1, <2>2
<1>9. ASSUME tenant' \in {tenant, NoTenant} PROVE HighWaterBounded'
  <2>1. CASE tenant' = tenant /\ tenant # NoTenant
    BY <1>7, <2>1 DEF TypeOK, DbType
  <2>2. CASE tenant' = NoTenant
    BY <2>2 DEF HighWaterBounded
  <2> QED
    BY <1>9, <2>1, <2>2
<1>10. ASSUME NEW s \in Signup, SignupCommit(s) PROVE HighWaterBounded'
  <2>1. CASE tenant' = FreshRow
    <3>1. tenant'.lastEventAt = 0
      BY <2>1 DEF FreshRow
    <3>2. 0 <= clock' + Skew
      BY <1>1, LaterBound
    <3> QED
      BY <3>1, <3>2 DEF HighWaterBounded
  <2> QED
    BY <1>9, <1>10, <2>1, SignupRow
<1>11. CASE Touch
  BY <1>6, <1>7, <1>11, TouchFrame
<1>12. CASE Next
  <2>1. ASSUME NEW w \in Worker, handler[w].pc # "idle", Live,
               Project(handler[w].ev, handler[w].days)
        PROVE  HighWaterBounded'
    BY <1>8, <2>1 DEF ClampHolds, TypeOK, ProcessType
  <2>2. ASSUME NEW r \in Replayer, NEW e \in parked, Live, Project(e, replay[r].days)
        PROVE  HighWaterBounded'
    BY <1>8, <2>2 DEF ClampHolds, TypeOK, ProcessType, DbType
  <2> QED
    <3>1. \/ \E w \in Worker : /\ handler[w].pc # "idle" /\ Live
                                /\ Project(handler[w].ev, handler[w].days)
          \/ \E r \in Replayer, e \in parked : Live /\ Project(e, replay[r].days)
          \/ \E s \in Signup : SignupCommit(s)
          \/ Touch
          \/ tenant' \in {tenant, NoTenant}
      BY <1>12, ProjectedEvents
    <3> QED
      BY <1>6, <1>9, <1>10, <1>11, <2>1, <2>2, <3>1
<1>13. CASE UNCHANGED vars
  <2>1. tenant' = tenant
    BY ONLY <1>13 DEF vars, dbVars
  <2> QED
    BY <1>6, <1>9, <2>1
<1> QED
  BY <1>12, <1>13

(* EVT-15: whatever times a producer stamps on its events, and whichever way *)
(* they take to the row, the high-water mark stays within the tolerated skew *)
(* of the clock.                                                             *)
THEOREM HighWaterIsBounded == Spec => []HighWaterBounded
<1>1. Init => ClampHolds /\ HighWaterBounded
  BY DEF Init, ClampHolds, HighWaterBounded, IdleHandler
<1>2. TypeOK /\ ClampHolds /\ HighWaterBounded /\ [Next]_vars
        => ClampHolds' /\ HighWaterBounded'
  BY HighWaterStep
<1> QED
  BY <1>1, <1>2, TypeCorrect, PTL DEF Spec
=============================================================================
