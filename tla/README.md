# A verification of the Org & Membership service

TLA+ models of `iam-org-membership`, the TLC runs that check them on small
instances, and TLAPS proofs of the most important properties for every instance.
The reference is the code under `src/`; rule names (EVT-14, TM-8, I-5, P-28 ...) are
those of `docs/lld/iam-lld-org-membership-service.md` (the LLD).

## 1. The system

The service is the record of *who belongs to which tenant*. It is a Go process
(several replicas) over one Postgres database at READ COMMITTED, with a Valkey cache,
three inbound SQS queues, a transactional outbox, and a set of CronJobs
(`cmd/reconciler`, `concurrencyPolicy: Forbid`). Concurrency comes from the replicas,
the goroutines of each replica, redelivery, and the jobs; there is no in-memory domain
state. What is atomic is therefore what Postgres makes atomic.

| Component | State | Operations | What is hard | What makes it correct |
|---|---|---|---|---|
| Tenant lifecycle projection (`consumer/membership_event_consumer.go`, `tenant_repository.go`) | `tenants` row, `last_event_at` | 12 consumed event types, relay, GDPR wipe | unordered and repeated events, coupled CHECKs | projected in time order, once; the relay tells the truth; the wipe goes with its signal; offboarded is final but for the realm fields |
| Event consumer and inbox (`consumer/dedup.go`, `sqspipeline`) | `processed_events`, queues, DLQ | receive, claim, clamp, reject, redrive, prune | at-least-once delivery, lost deletes, DLQ replays | every message settles, none applied twice |
| Provisioning I-1, I-2 and backstop (`provisioning_service.go`) | `tenants` row, seeded children, e-mail ledger | TrialSignup from the BFF and from TenantIdentityProvisioned; SetRealmFields | races the consumer for the row; I-2 writes offboarded rows too | one creation, no event lost around it, nothing revived |
| Parked events (`parked_tenant_event_repository.go`, `parked_events_replay.go`) | `pending_tenant_events` | park, list, claim, replay (I-1 and sweep) | crash between I-1 and its replay, two replayers, one event failing | nothing parked for a live tenant, nothing lost, everything replayed |
| Trial clean-up (`trial_cleanup.go`) | - | list, hard delete | acts on an old listing | a paying tenant survives |
| Memberships and roles (`membership_service.go`, `operator_service.go`, `group_mapping_service.go`, I-4/I-5 of `provisioning_service.go`) | `tenant_memberships`, `tenant_roles`, `ownerless_since` | P-7, P-8, P-28, O-7, I-3, I-4, I-5, I-10 | reads outside transactions, partial locking | the last owner is kept; if it cannot be, the tenant is marked; events tell every grant |
| Invitations and seats (`invitation_service.go`, `invitation_expiry.go`, `invitation_kc_cleanup.go`, `seat_overage.go`) | `pending_invitations`, `licensed_seats`, `overage_since` | P-6, P-31, I-3, expiry, Keycloak clean-up, overage | seat cap under concurrency, compensation of a remote call | active + pending <= seats at invitation, shell accounts are deleted, overage is marked |
| Department memberships (`dept_membership_service.go`, `department_service.go`) | `dept_memberships`, `tenant_departments` | assign, remove, eligibility, demotion gate | gate answered before the write | no level lost silently, gates hold |
| Tenant settings and realm sync (`tenant_service.go`, `realm_config_sync.go`) | `tenants` settings, `realm_sync_pending` | P-2, sync job | commit then remote call, which may answer "queued" | the realm converges to the row |
| AuthZ projection and caches (`authz_service.go`, `catalog_service.go`, `catalog_consumer.go`, `valkey`) | Valkey keys, plan generations | I-8, fill, evict, generation bump | eviction between read and fill | staleness bounded, generations retire old plans |
| Outbox and publisher (`eventbus/publisher.go`, `routing_publisher.go`, `postgres/db.go`, `outbox_prune.go`) | `outbox_events`, advisory ordering locks | enqueue, commit, retry, publish to two topics, prune, drain | commit order against insert order, deadlocks, one topic failing, shutdown | first publication per key in commit order, nothing lost |
| HTTP surface (`router.go`, `middleware.go`, `path_tenant.go`, the handlers, `session_context_service.go`) | `app.tenant_id` of a request | 43 routes, 5 route groups, their gates and handler checks | gates read state that changes, two sources of the tenant | a service runs for an admitted caller, bound to the tenant it filters by |
| Clients, metrics, documents | - | - | I/O | see section 8 |

Interactions: producers (Realm Provisioner, Billing) publish to SNS and from there to the two
lifecycle queues; the consumer writes `tenants` and, in the same transaction, the outbox;
I-1 and the consumer share the row and an advisory lock; I-1 and the sweep both replay
parked events; the membership operations, P-6 and I-3 share the `tenants` row lock; jobs act on
listings they made in an earlier transaction; P-2, P-6, P-10, P-11 and P-8 call Realm
Provisioner, Delegation or Workflow before or after their transaction and never inside it; every
mutation enqueues its events in its own transaction, and most evict the caches after it.

## 2. Modules

| Module | Contents |
|---|---|
| `TenantProjection` | The `tenants` row, its CHECK constraints and the twelve projections, as pure operators |
| `TenantLifecycle` | One tenant: producers (external), queues, consumer transaction, I-1, I-2, parked events, two replayers, trial clean-up; extends `TenantProjection` |
| `MCTenantLifecycle` | Instances: the event types of each run |
| `TenantLifecycleProofs` | Theorems of `TenantLifecycle` |
| `MembershipRoles` | Members, elevated roles and the last-owner guard of one tenant |
| `MCMembershipRoles` | Its instances |
| `MembershipRolesProofs` | Its theorems |
| `Invitations` | Invitations, seats and Keycloak shell accounts of one tenant: P-6, I-3, P-31 and three jobs |
| `InvitationsProofs` | Its theorems |
| `DeptMemberships` | The departments of one user: P-10, P-11, I-10, I-3, the cascades of P-8 and I-5, P-24, P-25, P-26, the delegate gates |
| `DeptMembershipsProofs` | Its theorems |
| `TenantSettings` | P-2, O-4, their events, the realm's copy of a setting and its sync job |
| `TenantSettingsProofs` | Its theorems |
| `AuthzCache` | The Valkey keys in front of I-8 and P-1, the plan catalogue and its generations |
| `AuthzCacheProofs` | Its theorems |
| `OutboxDelivery` | Transactions with their outbox rows, the publisher, pruning, shutdown, crash and restart |
| `EventLog` | What subscribers are promised; `OutboxDelivery` implements it (`Log == INSTANCE EventLog WITH ...`) |
| `OutboxDeliveryProofs` | Its theorems, the refinement of `EventLog` included |
| `RequestGates` | The routes, the gates in front of every handler and the checks of the handler |
| `RequestGatesProofs` | Its theorems |
| `MCInvitations`, `MCDeptMemberships`, `MCTenantSettings`, `MCAuthzCache`, `MCOutboxDelivery`, `MCRequestGates` | Their instances |

Definitions whose comment begins "Faulty variant" or "A faulty variant" are not used by any specification.
Each is a plausible mistake in the definition that follows it; substituted for it, it
must make a property fail, which shows that the property depends on that code.

### TenantLifecycle

| Model | Code |
|---|---|
| `tenant`, `children`, `log`, `relays`, `purged` | the row; whether child rows exist; history of what was projected, relayed and signalled on it (the outbox rows commit with the transaction) |
| `processed`, `parked` | `processed_events`, `pending_tenant_events` |
| `sent`, `acked`, `dlq`, `receives` | SQS: a message is queued while sent and neither deleted nor dead-lettered |
| `handler[w]` | one goroutine inside `Handle`: `begin` (before the claim), `probe` (`LockForProjection` found nothing), `waitLock`, `recheck`, `park` (the steps of `tenantAbsent`) |
| `signup[s]`, `provLock` | one I-1 call; the holder of `pg_advisory_xact_lock` |
| `replay[r]` | the listing a replayer still has to go through, and the trial length it read before the transaction |
| `cleanup` | trial-cleanup has listed this tenant |

A transaction is one step from the moment it holds the row lock to its commit, because
no other transaction can touch the row in between. Before that each statement is a
step of its own, since READ COMMITTED gives each a new snapshot: that is what separates
`Miss`, `DropFound`/`ProbeMissing`, `LockTenantProvisioning`, `RecheckFound`/`RecheckMissing` and
`Park`. `HandlerFail`, `SignupFail` and `ReplayStop` are every error, timeout and crash: the
transaction rolls back.

Abstractions. Timestamp columns tested only for NULL are Booleans. `graceOver` stands for
`trial_ends_at < now() - grace`. Child rows are one flag. The producers walk the
documented lifecycle with distinct, increasing times; `corruptTime` adds a time beyond
the tolerated skew. A replay transaction is one step after its claim: its two look-ups
of an absent row can disagree only if the tenant is hard-deleted and created again
between two adjacent statements. Unknown event types and schema rejects change
nothing but `processed_events` or the DLQ and are left out, as is the fallback that
applies when no parked-event store is wired (production always wires one). I-2
(`SetRealmFields`) writes the realm fields of any row, offboarded or not; of its values only the realm
type is kept (`RealmWrites`), and its version conflict changes nothing. The wipe is one
flag: a P-24 that was under way when the tenant was offboarded could still add a
`tenant_departments` row afterwards, which holds no personal data and is not modelled.

### MembershipRoles

| Model | Code |
|---|---|
| `member[u]` | live `tenant_memberships` row with its `record_version`, or `NoMember` |
| `grants` | live `tenant_roles` rows |
| `ownerless` | `tenants.ownerless_since IS NOT NULL` |
| `announced` | what a consumer that applies TenantRoleGranted/Revoked in commit order believes |
| `byWebhook` | history: an I-5 has removed an owner |
| `overlap` | history: two transactions that take an owner overlapped, one of them an I-5, or an I-5 deleted an owner grant made after it had looked up the roles |
| `tenantLock` | the transaction that holds the `tenants` row FOR UPDATE or by an UPDATE |
| `tx[p]` | the request a goroutine serves: what it read and how far it is |

Locks come from how Postgres runs the statements: FOR UPDATE in P-7, P-8, P-28 and
I-3; FOR KEY SHARE on `tenants` by the foreign key of every insert into `tenant_roles`,
which waits for FOR UPDATE but not for an ordinary UPDATE; a unique-index or row wait on
rows an open I-5 has soft-deleted. `Abort` is every refusal, version conflict, deadlock
victim, error and crash. P-7's reactivation and I-4 are one statement each.
I-5 is split at the points where its reads (look-up, count) and its mark may be
separated by the commit of another transaction. Session revocation does not touch this state; department rows and
delegate refusals are in `DeptMemberships`, cache eviction in `AuthzCache`, the invitation of
I-3 in `Invitations`.

### Invitations

| Model | Code |
|---|---|
| `inv[i]` | a row of `pending_invitations`: address, Keycloak user, status, age (inside the cool-down, older, past `expires_at`), `kc_cleanup_pending` |
| `member[p]`, `seats`, `overage` | `tenant_memberships.status`, `licensed_seats`, `overage_since IS NOT NULL` |
| `account[p]` | the Keycloak account: none, shell (created by P-6, never activated), active; `lost` is a shell whose tracking was given up |
| `req[r]` | a request between two of its transactions or remote calls |
| `expiry`, `cleaning` | the rows `invitation-expiry` selected; the row `invitation-kc-cleanup` is working on |
| `ungated` | history: seats taken outside SEAT-1 (plain adds, reactivations, withdrawn seats) |

P-6 is split where the code lets go: preflight and `CreateInvitedUser`, the count under
`LicensedSeatsForUpdate`, the insert, the compensating `DeleteUser`. P-31 is three statements,
each its own transaction. `ExpireOverdue` is a SELECT and an UPDATE in one statement, split because
Postgres re-evaluates only the outer WHERE for a row changed meanwhile. I-5 ends a membership
without the `tenants` lock (`LeaveSeat`). The overage job lists the live tenants with a LIMIT and
no order: `AlwaysListed` (`LiveTenants <= BatchLimit`) says when that surely includes this one.

### DeptMemberships

| Model | Code |
|---|---|
| `member`, `dm[d]`, `td[d]` | the user's membership and which joining it is; the live `dept_memberships` row; the `tenant_departments` row |
| `announced[d]` | the level a consumer of the department events has |
| `retired`, `catalog` | what Catalog Admin has retired, and what `om:departments` or its stale copy shows |
| `delegate` | departments where Delegation and Workflow would report the user (external) |
| `req[r]` | a request: what it read, whether its gate was answered, the rows its statement's snapshot holds |

`KeyLocked` is the advisory lock of `Assign`, `RowLocked` its FOR UPDATE. The soft deletes of
P-11, P-8 and I-5 wait for row locks only, so a snapshot keeps rows that have been replaced
(`Touched`): that is how P-11 can answer 404 for a user who still has the department.

### TenantSettings

`row` has the settings that somebody else holds a copy of, `realm` is Keycloak's
`local_accounts_enabled`, `desired` the value the Realm Provisioner was last given for it, `announced` the
trail of TenantSettingChanged. The client takes any 2xx for success: `Accepts` is an answer of 200
(applied) or 202 (queued; `RealmReconciled` applies it later), `CallFails` any other outcome, with or
without effect. `fresh` stands for
"`record_version` is the one the client sent"; `OtherWrite` is any write of the row by
another path, also between the client's read and P-2's pre-read. P-2 never compares the version it pre-read with
the client's (`tenant_service.go` 252-276); a client that sends a version the row has yet to reach is not modelled.
`drift` is history: it names the cause when nothing will bring the realm back.

### AuthzCache

Versions count the changes of what a key shows. `Kind` groups the writes by what they
touch and evict (`Affects`, `Evicts`, `LeftToTTL`), those that forget a key included: I-5's
`ownerless_since`, the marker P-2 sets after its eviction, the columns the jobs write, the lifecycle
events. `left` is history: the last change of a key nobody was to evict it for. A reader is split at the MGET, the
database read, the catalogue look-up and the SET; the consumer at the two deletes, the generation and
the inbox commit. `raced` and `tainted` are history and record why an entry may be
old. The 24 h TTL of the generation exceeds every entry's and is not expired in the model.

### OutboxDelivery and EventLog

An event is a transaction and a position in its body (`BodyOf`: the bodies a transaction may have). `older` is the insertion order of the
rows (for each, the rows before it), `before` (history) the order of the commits, `out` (history) what
has been published. `Blockers` is the advisory lock of `orderingLockSQL`, `Deadlocked`/`Retry` are
40P01 and `writeRetryOpts`. `Heads`, `Claim` and `Mark` are platform-events' runner (external), as
`publisher.go` and `routing_publisher.go` describe and use it. A lane may answer with a failure per message, some
transient, or with one error for all of it (`LaneErrors`); `Retryable` is the flag `appendLaneFailures` passes on.
`Mark` counts an attempt for each permanent failure, and for a transient one it may or may not, since the
documents disagree (section 3). Every event this service builds has a subject, so the unordered case of
`orderingKey` never occurs and is left out, as is the operator's reprocessing of dead letters
(`runbooks.md` 138), which puts an event at the back of its key.

The shutdown goes through `draining` (`Drained`), `flushing` (`Flushed`) and `closing` (`Closed`, the pools). A drain
that runs out of time does not stop what it waited for: those transactions go on, and may commit while the
runner flushes or after it, until the pools close. `clean` (history) says that no budget ran out.

`EventLog` has four variables: per key the committed events (`log`), per event those before it
(`prior`), the published ones (`out`) and those given up (`gone`). It says: a log grows at its
end only, and an event is published or given up when all before it are. The refinement maps
`log` to `LogOf` (the events of committed transactions, by key), `prior` to `Prior` (commit order, and
within a transaction the order of its body) and `gone` to the dead-lettered events that
were never sent. Orders are sets of predecessors and not sequences so that the
refinement can be proved.

### RequestGates

A route is a record: group, method, role, and the handler's checks in the order of its
early returns. A request carries its roles, the tenant of its token, the tenant it
names and at most one defect. The middlewares that read no state are one step (`Arrive`);
`RequireActiveTenant`, `RequireActiveMembership`, the handler and the service are one each, and
`Change` may come between any two. Roles are those a token can combine. Services are
abstracted to the errors they return; `Problem` is `domainErrorToProblem`.

## 3. Properties and runs

| Run | Instance | Checks | States |
|---|---|---|---|
| `race` | 2 workers (symmetric), 1 I-1 caller, sweep, 2 events, 2 receives; lost deletes, DLQ replay, prune | `AppliedInOrder`, `ProvisioningExclusive`, `NoParkWhileLive`, `ParkedSettled`, `AckSettlesUnlessProbing` | 389 k |
| `history` | 1 worker, 4 events of 6 types (trial, cancellation, suspension, offboarding), clean-up, I-2 with both realm types | `RelayChain`, `PurgeSignalled`, `OffboardedTerminal` | 2.4 M |
| `plans` | 2 plans, 3 events of 7 paid types, I-1 by the backstop, corrupt times | `TypeOK`, `HighWaterBounded`, `RelayChain` | 2.5 M |
| `live` | fair, 1 worker, 2 events, lost deletes | `MessagesSettle`, `ParkedReplayed` | liveness |
| `owners` | 2 users, the owner role, 2 goroutines (symmetric), all 8 operations, versions up to 3 | `OwnerlessOnlyByWebhook`, `GuardHolds`, `UnmarkedOnlyByOverlap`, `GrantsAnnounced` | 1.2 M |
| `seats` | 2 people, 2 rows, 2 goroutines (all symmetric), 2 seats of which 1 taken, hourly ceiling 2 | `TypeOK`, `SeatCap`, `ShellTracked`, `AcceptanceFinal` | 1.9 M |
| `seats_live` | fair; 1 person, 1 row, 1 goroutine, 1 seat taken outside the check, tenants within the job's listing | `InvitationsEnd`, `OverageNoticed` | 4 k |
| `departments` | 1 department, 3 levels, 2 goroutines (symmetric), the user joins twice | `TypeOK`, `LevelsAnnounced`, `OrphanOnlyByRace`, `DelegatesKept` | 352 k |
| `authz` | fair; 1 reader, 1 writer, the consumer, 2 changes | `StaleOnlyByRaceOrTTL`, `GenerationGuards`, `PlanReachesEntry` | 1.2 M |
| `settings` | fair; 2 goroutines | `TypeOK`, `SettingsChained`, `RealmMarked`, `RealmConverges` | 1.4 M |
| `outbox` | fair; 2 transactions, 2 keys in opposite order, 2 tries, 2 attempts, transient and permanent failures | `PublishedWasSent`, `CleanStop`, `OrderedPublication`, `EventsSettle` | 189 k |
| `gates` | 2 tenants, 43 routes, 7 role sets, 8 defects | `TenantBound`, `ServedWasAdmitted` | 508 k |

What they show:

- **Order** (`AppliedInOrder`): with dedup rows pruned and messages replayed from the DLQ,
  the recency guard alone still keeps the projection strictly increasing in time.
- **Relay** (`RelayChain`): `applyProjection` reports the state it meant to write. The chain
  property shows that this is always the state the row has: capped reactivation, empty
  plan field and no-op patches included.
- **Wipe** (`PurgeSignalled`, `OffboardedTerminal`): child rows, deletion and signal stay together
  on every path to offboarding and through a hard delete; I-1 cannot revive the row, and the only
  thing that still changes is what I-2 writes on purpose, the realm fields.
- **Parking** (`NoParkWhileLive`, `ParkedSettled`, `ParkedReplayed`): nothing is parked once the tenant is
  live, a parked event leaves only when applied or superseded, and the sweep makes up
  for an I-1 that crashed.
- **Owners** (`OwnerlessOnlyByWebhook`, `GuardHolds`): counting again under the lock is what
  makes P-7, P-8 and P-28 safe against each other and against grants. I-5 must not refuse; what it
  owes is the mark, and `UnmarkedOnlyByOverlap` shows that it is missing only after an overlap that I-5's
  unlocked count cannot see. A count before the cascade would break it.
- **Seats** (`SeatCap`): two invitations, or an invitation and a late acceptance, cannot both
  take the last seat; what exceeds the licence came past SEAT-1, and no more than that.
- **Shell accounts** (`ShellTracked`, `InvitationsEnd`): outside crashes and answers lost after the
  call, every account P-6 creates is in some request's hands, stood for by an invitation,
  or marked for a job that ends by deleting it.
- **Acceptance** (`AcceptanceFinal`): a sweep that selected the row before it was accepted
  cannot expire it; the CHECK on `accepted_at` is what stops the statement.
- **Departments** (`LevelsAnnounced`): the advisory lock makes the event trail equal to the
  table. `OrphanOnlyByRace` and `DelegatesKept` bound what the reads outside the
  transaction can do: the rows left behind and the delegates lowered are exactly those of
  the named races.
- **Realm** (`RealmMarked`, `RealmConverges`): the marker covers every *error* of the call. It does not
  cover an answer of 202 (then the Realm Provisioner holds the row's setting and has to apply it), a request
  that dies before the marker, or a sync that a later commit overtook.
- **Caches** (`StaleOnlyByRaceOrTTL`, `GenerationGuards`, `PlanReachesEntry`): clearing `om:plans` before the
  generation is what makes the stamp trustworthy; an old entry has one of the recorded causes
  and is gone at the latest with its TTL.
- **Publication** (`OrderedPublication`): the key's lock, held to the commit, makes insertion order
  commit order for a key; retries, partial lanes, crashes and lost answers keep it. `EventsSettle`: an event
  is published or dead-lettered when SNS answers time and again, whether or not transient failures are
  counted, but a failure must not be taken for a transient one.
- **Overage** (`OverageNoticed`): with the tenants within the listing, the job finds every change in the end.
- **Gates** (`TenantBound`, `ServedWasAdmitted`): on each route the tenant of row-level security is the one
  the repositories filter by, and the gates admit only on something that was true during the request.

Bounds. Two events are the least that can be reordered, two receives the least that can be
a duplicate, and with DLQ replay the number of deliveries is unbounded. Four events reach
offboarding from a trial by way of payment, cancellation and suspension, and let
an old event arrive after. Two users and two requests are what every race of the guard
needs (two owners, two removals); versions up to 3 cover a status change between the read and
the write. The instance of `race` with both I-1 callers (2 million states, three minutes)
passes as well and is not kept as a run because the theorems cover any number of callers.

Two people and two rows are what a competition for one seat and a reused address need; a
third only repeats them. In `departments` all interactions are on one (user,
department) key but for the tenant-wide cascade and P-26, which treat departments alike. `authz`
needs two changes for an entry to be older than one that is older than the database.
`outbox` has the smallest deadlock (two keys, two transactions) and events on both topics for one
key; one transaction may have either of two bodies. `gates` enumerates requests completely; one request is enough because requests share
only the state that `Change` changes. `ActorCeiling` and `STRICT_TENANT_PATH_VALIDATION` are off,
as in the default configuration.

`plans` does not check deadlock: when every event has been dead-lettered and the tenant is
provisioned the instance has really come to a stop. The other passing runs check it.

### Where code and documents differ

Found while modelling; in each case the model follows the code, and the properties state the
part that does hold.

Lifecycle and roles:
- LLD 2650 (EVT-14) calls the projection "order-independent". The guard is per row, not per column:
  of two events on different columns the older one is lost when it comes second.
- LLD 2653 (EVT-18): if I-1 committed meanwhile the event is applied at once. Between the two
  look-ups of `tenantAbsent` a row that became live is taken for soft-deleted and the event is
  dropped. `AckSettlesUnlessProbing` shows that this is the only such window.
- `trial_cleanup.go` 13: paid tenants never hard-delete. The DELETE does not look at the status
  again (`tenant_repository.go` 568).
- `membership_event_consumer.go` 526: offboarding works from an operator-suspended tenant. A CHECK
  rejects it for a tenant that never paid.
- LLD 878 (TM-8), README 152: never zero *active* owners. `CountActiveOwners` counts grants, so
  suspended owners count. `OwnerlessOnlyByWebhook` is the part that holds.
- LLD 591 (T-13): `ownerless_since` is set when I-5 removes the last owner. Two concurrent I-5
  calls each see the other's owner. `UnmarkedOnlyByOverlap` is the part that holds.

Departments:
- LLD 1014 (DM-1): an orphan row "can never persist". An assignment that looked the membership up
  before it ended writes one; so does one between a cascade's snapshot and its commit.
- `dept_membership_service.go` 83: without an answer the gate "degrades to tenant-wide impact".
  `demotionGate` takes a Delegation outage for "no delegate". I-10 and I-3 pass no gate.
- P-11 answers 404 for a department the user still has when it races a level change.
- I-13 does not ask whether the department is active, I-19 does.
- The Group Mapping answer for one login's groups is cached per tenant.

Settings and caches:
- A P-2 repeated after a failed marker does not sync the realm again (the value no longer
  changes); an overtaken call leaves the realm behind, unmarked; `ClearRealmSyncPending` is unconditional.
- `http_client.go` 225: "Callers already set realm_sync_pending=true on 202". `PatchRealmConfig` returns nil
  for a 202, P-2 marks only an error, and the job clears the marker on nil: a queued setting is unmarked.
- LLD 2292 (CACHE-3): every local mutation deletes the affected keys after its commit. I-5's
  `ownerless_since` (`provisioning_service.go` 549), P-2's `realm_sync_pending` (`tenant_service.go` 307, after the
  eviction at 295) and the writes of the jobs evict no `om:tenant`.
- `event.go` says TenantSettingChanged is produced only by P-2; O-4 produces it too.
- LLD 2299 (CACHE-11), `authz_service.go` 210: an entry "never outlives" a catalogue change. A
  seed that was fetched before the clear and written after it carries the old plan under
  the new generation; LLD 2249 admits a residual window. An answer during a Catalog outage
  is cached without a plan baseline.
- P-2 and the lifecycle events leave `om:memberships` to its TTL.

Invitations:
- The query of the per-actor ceiling names a column `deleted_at` that `pending_invitations` lacks.
- P-6's compensation may delete the account of a concurrent invitation to the same address; a
  refusal by AUTH-9 and a lost answer leave an untracked account.
- `seat_overage.go` 22 says SEAT-1 mutators handle overage inline; only the job does, and its listing
  (`reconciler_store.go` 26-47) is a LIMIT of 500 (`cmd/reconciler/main.go` 319) without an order or an overage
  predicate, so that with more tenants one may never be looked at.

Outbox: `runbooks.md` 154 says transient SNS failures count no attempt and never dead-letter; LLD 3261 says a
throttled record is dead-lettered after `OUTBOX_MAX_ATTEMPTS`. The runner is not in this repository; the model
allows both, and `EventsSettle` holds with either.

HTTP: `RequireActiveMembership` passes when the membership cannot be read, while
`RequireActiveTenant` refuses.

## 4. Fairness

`FairSpec` (run `live`) assumes: SQS delivers a message that stays on its queue again and
again, though workers are shared (strong fairness of `ReceiveId`, `RedriveId`); no handler
hangs, since `sqsHandlerTimeout` ends it (weak fairness of `HandlerNext`, whose disjunct
`HandlerFail` makes no promise of success); the sweep is a CronJob and runs again and again
(weak fairness of `ListParked(Sweep)`) and does not fail at the same event for ever (strong
fairness of `SweepStep`). Nothing is assumed of I-1: it may crash, or never be called.
Events whose CHECK fails for ever are not among the types of this run: such an event
stays parked or goes to the DLQ.

`Invitations` (run `seats_live`): requests end by their timeout (weak fairness of `Progress`, whose
disjuncts `Crash` and `InviteTxFails` promise no success); the three CronJobs run again and again; a
statement or a call to Realm Provisioner that is tried for ever succeeds some time
(strong fairness of `ExpireOverdue`, `CleanupDelete`, `CleanupClear`). The overage job is assumed to come to this tenant only
if `AlwaysListed`; `OverageNoticed` has the same condition. Callers, Keycloak and Billing
are not assumed to do anything.

`TenantSettings`: the job is scheduled; the Realm Provisioner, another service, does not refuse all of its
calls, and applies in the end what it answered 202 to (weak fairness of `RealmReconciled`). Without the
last, `RealmConverges` fails: after a 202 nothing in this repository looks at the realm again. `AuthzCache`: a request that began ends, and every TTL runs out; neither delivery of
PlanCatalogChanged nor success of an eviction is assumed. `OutboxDelivery`: Postgres makes
progress with a transaction (`Reject` included), the drain of the pools has a budget, Kubernetes restarts the
process, and SNS is not out for ever: time and again a batch meets no transient failure (`Undisturbed`)
and is not killed in the middle. SNS may refuse every event for good, which then is dead-lettered.

## 5. Proofs

Every safety property that a run checks is also a theorem, for arbitrary constants satisfying
the named assumptions of the modules, which TLC evaluates in every run:
`PlanAssumption`, `SeatsAssumption`, `TrialDaysAssumption`, `ProcessAssumption`, `BoundAssumption`
(`TenantLifecycle`); `UserAssumption`, `RoleAssumption`, `ProcAssumption`, `OpsAssumption`; the
finiteness of people, rows and departments and the distinctness of the null values in `Invitations` and
`DeptMemberships`; `ChangesAssumption`; `BodyAssumption`, `BodyOfAssumption` and `BoundAssumption` (`OutboxDelivery`, whose set of transactions may be
infinite); `StrictAssumption`. The inductive invariants were checked by TLC on the instances of
section 3 before they were proved.

`TenantLifecycleProofs`
- `TypeCorrect`: `TypeOK` is inductive. Its content is that the row always satisfies the table's
  CHECKs: `Project` commits only what passes them, and the row I-1 inserts
  and the grace period do not break them.
- `ProjectedInOrder`: `TypeOK /\ AppliedInOrder` is inductive. The second conjunct of
  `AppliedInOrder` (the mark covers the history) carries the first across a projection;
  `RowSteps` shows that every other step keeps the history or starts a new row.
- `ProvisioningIsExclusive`: `TypeOK /\ ProvisioningExclusive` is inductive. `BirthOnlyBySignup`
  shows that a row becomes live only by I-1's commit, which holds the lock, so it cannot
  happen while a consumer transaction holds it.
- `NeverParkedWhileLive`: the action property follows from that invariant, as `Park` is
  the only action that adds to `parked`.
- `WipeIsSignalled`, `RelaysAreChained`: inductive with `TypeOK`, shown projection by projection: a patch
  reaches offboarded only together with the wipe, and the state it reports is the one it writes.
- `OffboardingIsFinal`: the row steps are projections, which need a live row, I-1's insert, the clock
  of the grace period, I-2 and the hard delete; of these I-2 alone writes to an offboarded row, and nothing
  but its realm fields.
- `ParkedAreSettled`, `AcksSettle`: action properties. `ProjectRecency` says that a projection, applied or
  superseded, leaves a mark that covers the event; `ParkedSteps` says who removes from `parked`. In the
  second the exception `Probing` is needed: without it `DropFound` is a counterexample.
- `HighWaterIsBounded`: with `ClampHolds` (what a worker or `parked` holds has passed the
  consumer's clamp) as the second conjunct.

`MembershipRolesProofs`
- `RolesTypeCorrect`: `TypeOK` is inductive; only a step of the other proofs, so no run checks it.
- `LastOwnerKept`, `GuardKept`: the inductive invariant is
  `OwnersInv == TypeOK /\ OwnerlessOnlyByWebhook /\ GuardHolds`. `OwnerlessOnlyByWebhook` alone is
  not inductive: a removal in progress relies on the owner it saw. `GuardHolds` says it may:
  whoever is about to take the owner role holds the `tenants` row, and another owner remains
  as long as no I-5 removed one. `AnotherOwner` (from the finiteness of `User`)
  turns the count into another owner, `GuardedRemoval` is the critical step,
  `EndKeepsGuard`, `QuietStep` and `UnguardedStep` treat the rest.
- `GrantsKnown`: `GrantsAnnounced` for every number of users, roles and requests.
- `OwnerlessIsMarked`: `UnmarkedOnlyByOverlap` needs `MarkInv`: as long as nothing overlapped, P-8 and P-28 while
  they hold the `tenants` row (`LockedLeaves`), and an I-5 that counted owners (`CountedLeaves`), leave another
  owner behind (`TakingKeepsMarking`, `EndKeepsMarking`).

`InvitationsProofs`
- `TypeCorrect`: `TypeOK /\ Carried` is inductive (`Carried`: what a request keeps between two
  transactions); one address never has two pending invitations.
- `AcceptanceIsFinal`: of the writers of a row only `ExpireOverdue` acts on an earlier selection,
  and the CHECK stops it.
- `ShellsAreTracked`: `ShellTracked` is not inductive, as it counts marks that are about to be cleared and
  revocations that will end with 409. `Known` counts neither; it needs `Marked` (no row is marked
  before it ended, the job works on a marked row) and `Revoking` (P-31 between its statements: its row
  is unmarked or expired, and nobody else's).
- `SeatsAreCapped`: the second conjunct is `Reserved`: at most one P-6 is between its count and its
  insert, for it holds the `tenants` row, and the seat it counted is still free.

`DeptMembershipsProofs`
- `TypeCorrect`, `LevelsAreAnnounced`: with `Carried` and `KeyHeld`: the advisory lock admits one writer
  per department, and a row the writer did not find is still not there.
- `OrphansAreRaced`: with `Anchored` (an assignment's membership is the current one, or the assignment
  is recorded as late) and `Swept` (a cascade's snapshot has every row but those written since).
- `DelegatesAreKept`: an action property, from `Asked`: what a gate was told still stands, or the
  request is excused by one of the recorded causes.

`TenantSettingsProofs`
- `SettingsTypeCorrect`: `TypeOK` is inductive.
- `TrailIsChained`: `TypeOK /\ SettingsChained` is inductive. The old value of an event is
  read outside the transaction; the UPDATE's `record_version` predicate makes it the last one announced.
- `RealmIsMarked`: `RealmMarked` is not inductive, since what a request or the job is about to do
  to the realm or the marker depends on what it read earlier. `RealmInv` adds that: a request
  whose version is current and which changes the setting will sync (`SyncKnown`), the value of a
  pending call is the row's or has been overtaken (`SyncsCurrent`, `JobCurrent`), and when the
  job is about to clear the marker, nothing relies on it (`ClearSafe`). It speaks of `desired`, what the Realm
  Provisioner holds; the realm may lag behind that by a queued setting.

`AuthzCacheProofs`
- `TypeCorrect`: no key, copy of the catalogue or generation is ahead of what it was read from.
- `StalenessIsExplained`: with `Behind`: an entry that is behind is marked, or a writer has yet to evict
  it, or the last change it misses is one nobody evicts it for (`EvictedOrLeft` sorts the kinds); what a reader holds between its database read and its SET is behind only when marked.
- `GenerationsGuard`: with `Guarded`. From the moment `om:plans` was cleared for an event, the plans, the
  stale copy and every reader about to seed them are at least that new, or are marked as fetched
  before the clear (`Cleared`). It is kept for the generation, for the consumer between its two
  deletes and its commit, and for the generation each reader of I-8 has seen, because the consumer clears
  before it bumps.

`OutboxDeliveryProofs`
- `TypeCorrect`: an event is open exactly while its transaction runs.
- `PublishedIsSent`: from `Claimed` and `LanesSent`: after the first lane, what it did not list as
  failed is out; after the second, this holds for the batch, as every event has one of two topics.
- `StopIsClean`: after a drain within its budget no transaction runs (`DrainedOut`), and after such a flush no event
  is pending (`FlushedOut`). That the flush may
  stop when there is no head needs `SomeHead`: the rows are finitely many and ordered, so if any
  is pending, an oldest is (a well-foundedness argument on their predecessors).
- `OutboxImplementsLog`: step simulation. `Commit` maps to `EventLog`'s `Commit`, a lane to `Publish`, `Mark` to
  `GiveUp`, all else to a stutter. The heart is `PendingBehind`: among pending rows of a key, commit
  order is insertion order. It is inductive only with `KeyHeld` (the open rows of a key are of one
  transaction: the advisory lock) and `OpenBehind` (an open row is behind the pending ones of its key). From it
  follows that a head is next in its log (`HeadIsNext`), and it stays so in the runner's hands (`Claimed`).

`RequestGatesProofs`
- `ServiceIsBound`: `Gated /\ TenantBound` is inductive. `Gated` says what the gates have
  established before the handler runs; `RouteFacts` sorts the 43 routes into those that bind
  the tenant themselves, those that cross tenants, and the rest.
- `ServedIsAdmitted`: with `Admitted`: behind each gate stands what the gate saw, and `since` has every
  fact that has been true since the request arrived.

Only model-checked: the liveness properties (`MessagesSettle`, `ParkedReplayed`, `InvitationsEnd`,
`OverageNoticed`, `RealmConverges`, `PlanReachesEntry`, `EventsSettle`), since fairness and ENABLED are outside the
prover's reach.

## 6. Hazards

`PROJECT.json` lists what is hard to test, each at its line with the properties that
cover it. Six have none: a starving sweep batch (it needs several tenants), the group
resolution cached per tenant (nobody promises anything about it), a sequence of events that a CHECK
rejects and a record_version that restarts (reachable, and nothing that holds is about them), and two
races of section 3 against which the code does nothing (trial clean-up, suspended owners).

Where the code leaves a window open, a property that covers the hazard names the window as an
exception and shows that there is no other way into the bad state: it bounds the hazard and does not
exclude it. The notes in `PROJECT.json` say where that is so.

## 7. Plan

Done: the lifecycle projection with its consumer, the owner guard, invitations and seats,
departments, settings and realm sync, the AuthZ caches, the outbox with its abstract
specification, the gates, and the proofs of their safety properties. What is left:

1. The safety half of the liveness arguments, as theorems: a parked event of a live tenant is always
   in reach of the sweep, a marked shell account always in reach of its job, an unsettled event
   always behind a head.
2. Compositions: the events of `MembershipRoles` and `DeptMemberships` read through `EventLog`, so that
   "announced in commit order" becomes a consequence of `OutboxImplementsLog`.

## 8. Not modelled

- Platform libraries (outbox runner, SQS client, authentication middleware, connection pool):
  outside the repository, modelled only as this code uses them.
- Field-level decoding, response bodies and the transport of the outbound clients; their
  outcomes are nondeterministic where a model calls them.
- I-13 (assignee override) and I-19 (eligibility): they read and, in I-13, enqueue one event.
- P-34 (MFA reset) and session revocation: one remote call, no state of this service.
- The trial sign-up ledger and role labels: a single statement under a unique index.
- Subscription lapses, tenant resolution, plan-change check: read-only.
- Audit log, metrics, tracing, configuration, start-up, AsyncAPI and Swagger documents.
- Migrations beyond the constraints the models use.

## 9. Running

    tlc -workers 2 -config MCTenantLifecycle_race.cfg MCTenantLifecycle
    tlc -workers 2 -config MCInvitations_seats.cfg MCInvitations
    tlapm TenantLifecycleProofs.tla
    tlapm MembershipRolesProofs.tla
    tlapm TenantSettingsProofs.tla
    tlapm RequestGatesProofs.tla
    tlapm InvitationsProofs.tla
    tlapm DeptMembershipsProofs.tla
    tlapm AuthzCacheProofs.tla
    tlapm OutboxDeliveryProofs.tla

The longest runs (`outbox`, `settings`, `history`) take about two and a quarter minutes on two workers.
