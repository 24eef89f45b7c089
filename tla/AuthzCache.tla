---------------------------- MODULE AuthzCache ------------------------------
(***************************************************************************)
(* The Valkey keys in front of I-8 and P-1 for one user of one tenant:     *)
(* om:memberships (AuthZService), om:tenant (TenantService), the plan      *)
(* catalogue behind the feature flags of I-8 (om:plans, its stale copy,    *)
(* and om:plans:gen), the mutations that evict, and the consumer of        *)
(* PlanCatalogChanged.                                                     *)
(*                                                                         *)
(* A reader misses, reads the database, then fills; a mutation commits,    *)
(* then evicts, best effort.  A catalogue change evicts nothing per user:  *)
(* the consumer clears om:plans and then sets a generation, and an entry   *)
(* stamped with another generation is a miss (CACHE-11).  Some writes of   *)
(* the rows behind a key do not evict it: the key is left to its TTL.      *)
(***************************************************************************)
EXTENDS Integers, FiniteSets

CONSTANTS Reader,      \* goroutines that serve I-8 and P-1
          Writer,      \* goroutines that change what they show
          MaxChanges   \* bound on the changes of the rows and of the catalogue

ASSUME ChangesAssumption == MaxChanges \in Nat

VARIABLES
  row,       \* per key, how often what it shows has changed in the database
  left,      \* history: per key, the last change that nobody was to evict it for
  cache,     \* per key, the cached entry
  cat,       \* version of the plan in the Catalog Service
  plans,     \* om:plans
  stale,     \* om:plans:stale
  gen,       \* om:plans:gen: the id of the event that set it, 0 for none
  queue,     \* PlanCatalogChanged messages on catalog-orgm-q
  inbox,     \* processed_events of the consumer
  con,       \* the consumer
  reader,    \* the read of each goroutine
  writer     \* the mutation of each goroutine

vars == <<row, left, cache, cat, plans, stale, gen, queue, inbox, con, reader, writer>>

Version == 0..MaxChanges
Nothing == -1

Key == {"memberships", "tenant"}

(* The mutations, by what they touch: standing (P-7, P-8, P-10, P-11, P-28,  *)
(* I-3, I-5, I-10), ownerless (I-5 of the last owner, which also sets        *)
(* ownerless_since), owner (O-7, which clears it), flags (O-4), setting      *)
(* (P-2, I-2 and the wipe of an offboarded tenant), marker (P-2 when the     *)
(* realm was not patched, a write after its eviction, and the jobs that      *)
(* clear realm_sync_pending and move overage_since), lifecycle (the billing  *)
(* and realm events).                                                        *)
Kind == {"standing", "ownerless", "owner", "flags", "setting", "marker", "lifecycle"}
Affects(kind) ==
  CASE kind = "standing" -> {"memberships"}
    [] kind = "marker" -> {"tenant"}
    [] OTHER -> Key

(* A faulty variant: O-4 evicts om:tenant alone.                             *)
EvictsTenantOnly(kind) ==
  CASE kind \in {"standing", "ownerless"} -> {"memberships"}
    [] kind = "owner" -> Key
    [] kind \in {"flags", "setting"} -> {"tenant"}
    [] kind \in {"marker", "lifecycle"} -> {}

(* invalidateMember and its likes; invalidateCache; O-4, which looks up all  *)
(* users of the tenant, and O-7.                                             *)
InvalidateMember == {"memberships"}
InvalidateCache == {"tenant"}
InvalidateBoth == {"memberships", "tenant"}

(* What each deletes after its commit. *)
Evicts(kind) ==
  CASE kind \in {"standing", "ownerless"} -> InvalidateMember
    [] kind \in {"owner", "flags"} -> InvalidateBoth
    [] kind = "setting" -> InvalidateCache
    [] kind \in {"marker", "lifecycle"} -> {}

(* What the service leaves to the TTL of the key: P-2, the wipe and the      *)
(* lifecycle events do not look for the users of the tenant, and the writes  *)
(* of the markers in tenants do not think of om:tenant, which shows them.    *)
LeftToTTL(kind) ==
  CASE kind = "setting" -> {"memberships"}
    [] kind \in {"ownerless", "marker"} -> {"tenant"}
    [] kind = "lifecycle" -> Key
    [] OTHER -> {}

(* ver: the version shown; plan, gen: the plan baseline and the generation   *)
(* stamp; raced (overtaken by a mutation that evicts, or not evicted by it)  *)
(* and tainted are history: see the properties.                              *)
NoEntry == [ver |-> Nothing, plan |-> Nothing, gen |-> 0, raced |-> FALSE, tainted |-> FALSE]
NoPlans == [ver |-> Nothing, late |-> FALSE]

(* gen: the generation the MGET returned, Nothing when the MGET failed.      *)
Idle == [at |-> "idle", key |-> "tenant", gen |-> 0, ver |-> Nothing, plan |-> Nothing,
         raced |-> FALSE, tainted |-> FALSE]
WriterIdle == [at |-> "idle", kind |-> "standing"]
ConIdle == [at |-> "idle", id |-> 0]

Finish(r) == reader' = [reader EXCEPT ![r] = Idle]

(* AuthZService.getCached: an entry of another generation is a miss.         *)
Servable == cache["memberships"].ver # Nothing /\ cache["memberships"].gen = gen

Hit(k) == IF k = "memberships" THEN Servable ELSE cache[k].ver # Nothing

-----------------------------------------------------------------------------
(* A miss of I-8 (MGET of the entry and the generations) or of P-1 (GET), or *)
(* a read of Valkey that fails; a hit changes nothing.                       *)
Miss(r) ==
  /\ reader[r].at = "idle"
  /\ \E k \in Key, answered \in BOOLEAN :
       /\ answered => ~Hit(k)
       /\ reader' = [reader EXCEPT ![r] =
                       [Idle EXCEPT !.at = "read", !.key = k,
                                    !.gen = IF k = "tenant" THEN 0
                                            ELSE IF answered THEN gen ELSE Nothing]]
  /\ UNCHANGED <<row, left, cache, cat, plans, stale, gen, queue, inbox, con, writer>>

(* FindMembershipProjection, or FindByID; 404 and 503 end the request.       *)
ReadRow(r) ==
  /\ reader[r].at = "read"
  /\ reader' \in
       {[reader EXCEPT ![r].ver = row[reader[r].key],
                       ![r].at = IF reader[r].key = "memberships" THEN "plan" ELSE "fill"],
        [reader EXCEPT ![r] = Idle]}
  /\ UNCHANGED <<row, left, cache, cat, plans, stale, gen, queue, inbox, con, writer>>

GotPlan(r, version, tainted) ==
  reader' = [reader EXCEPT ![r].plan = version, ![r].tainted = tainted, ![r].at = "fill"]

(* CatalogService.Plans: om:plans, *)
PlansHit(r) ==
  /\ reader[r].at = "plan" /\ plans.ver # Nothing
  /\ GotPlan(r, plans.ver, plans.late)
  /\ UNCHANGED <<row, left, cache, cat, plans, stale, gen, queue, inbox, con, writer>>

(* or the Catalog Service, *)
PlansFetch(r) ==
  /\ reader[r].at = "plan" /\ plans.ver = Nothing
  /\ reader' = [reader EXCEPT ![r].plan = cat, ![r].at = "seed"]
  /\ UNCHANGED <<row, left, cache, cat, plans, stale, gen, queue, inbox, con, writer>>

(* whose answer is written to both keys, *)
PlansSeed(r) ==
  /\ reader[r].at = "seed"
  /\ plans' = [ver |-> reader[r].plan, late |-> reader[r].tainted]
  /\ stale' = plans'
  /\ reader' = [reader EXCEPT ![r].at = "fill"]
  /\ UNCHANGED <<row, left, cache, cat, gen, queue, inbox, con, writer>>

(* or, when it does not answer, the stale copy, and without one I-8 goes on  *)
(* without a plan baseline.                                                  *)
PlansStale(r) ==
  /\ reader[r].at = "plan" /\ plans.ver = Nothing
  /\ GotPlan(r, stale.ver, stale.late \/ stale.ver = Nothing)
  /\ UNCHANGED <<row, left, cache, cat, plans, stale, gen, queue, inbox, con, writer>>

(* setCached: I-8 skips it when the MGET had failed; may fail. *)
Fill(r) ==
  /\ reader[r].at = "fill"
  /\ \E done \in IF reader[r].gen = Nothing THEN {FALSE} ELSE BOOLEAN :
       cache' = IF done
                  THEN [cache EXCEPT ![reader[r].key] =
                          [ver |-> reader[r].ver, plan |-> reader[r].plan, gen |-> reader[r].gen,
                           raced |-> reader[r].raced, tainted |-> reader[r].tainted]]
                  ELSE cache
  /\ Finish(r)
  /\ UNCHANGED <<row, left, cat, plans, stale, gen, queue, inbox, con, writer>>

(* TTL expiry or eviction by Valkey of an entry, *)
ExpireEntry(k) ==
  /\ cache[k].ver # Nothing
  /\ cache' = [cache EXCEPT ![k] = NoEntry]
  /\ UNCHANGED <<row, left, cat, plans, stale, gen, queue, inbox, con, reader, writer>>

(* of om:plans, *)
ExpirePlans ==
  /\ plans.ver # Nothing
  /\ plans' = NoPlans
  /\ UNCHANGED <<row, left, cache, cat, stale, gen, queue, inbox, con, reader, writer>>

(* A faulty variant: the stale copy has no TTL.                              *)
StaleKept ==
  /\ stale.ver # Nothing
  /\ UNCHANGED vars

(* and of the stale copy.  (The generation outlives every entry: 24 h.)      *)
ExpireStale ==
  /\ stale.ver # Nothing
  /\ stale' = NoPlans
  /\ UNCHANGED <<row, left, cache, cat, plans, gen, queue, inbox, con, reader, writer>>

-----------------------------------------------------------------------------
(* The bound on the changes a key shows. *)
Room(k) == cat + row[k] < MaxChanges

(* The transaction of a mutation commits: what is cached and what readers    *)
(* hold falls behind.                                                        *)
Commit(w) ==
  /\ writer[w].at = "idle"
  /\ \E kind \in Kind :
       LET hit == Affects(kind)
       IN /\ \A k \in hit : Room(k)
          /\ row' = [k \in Key |-> IF k \in hit THEN row[k] + 1 ELSE row[k]]
          /\ left' = [k \in Key |-> IF k \in LeftToTTL(kind) THEN row[k] + 1 ELSE left[k]]
          /\ writer' = [writer EXCEPT ![w] = [at |-> "evict", kind |-> kind]]
          /\ reader' = [r \in Reader |->
               IF reader[r].key \in hit \ LeftToTTL(kind) /\ reader[r].ver # Nothing
                 THEN [reader[r] EXCEPT !.raced = TRUE] ELSE reader[r]]
  /\ UNCHANGED <<cache, cat, plans, stale, gen, queue, inbox, con>>

(* The deletes after the commit; each may fail, and the process may stop.    *)
Evict(w) ==
  /\ writer[w].at = "evict"
  /\ \E missed \in SUBSET Evicts(writer[w].kind) :
       cache' = [k \in Key |->
                   IF k \notin Evicts(writer[w].kind) \/ cache[k].ver = Nothing THEN cache[k]
                   ELSE IF k \in missed THEN [cache[k] EXCEPT !.raced = TRUE]
                   ELSE NoEntry]
  /\ writer' = [writer EXCEPT ![w] = WriterIdle]
  /\ UNCHANGED <<row, left, cat, plans, stale, gen, queue, inbox, con, reader>>

-----------------------------------------------------------------------------
(* The Catalog Service changes the plan and publishes; the event may be lost.*)
CatalogChange ==
  /\ \A k \in Key : Room(k)
  /\ cat' = cat + 1
  /\ queue' \in {queue, queue \cup {cat'}}
  /\ UNCHANGED <<row, left, cache, plans, stale, gen, inbox, con, reader, writer>>

(* CatalogConsumer.Handle: a message not yet in processed_events. *)
Receive ==
  /\ con.at = "idle"
  /\ \E id \in queue :
       IF id \in inbox THEN queue' = queue \ {id} /\ UNCHANGED con
       ELSE con' = [at |-> "clear", id |-> id] /\ UNCHANGED queue
  /\ UNCHANGED <<row, left, cache, cat, plans, stale, gen, inbox, reader, writer>>

(* A faulty variant: the stale copy is cleared, om:plans is not.             *)
ClearStaleOnly ==
  /\ con.at = "clear"
  /\ stale' = NoPlans
  /\ con' = [con EXCEPT !.at = "bump"]
  /\ UNCHANGED <<row, left, cache, cat, plans, gen, queue, inbox, reader, writer>>

(* handlePlanChanged: delete om:plans and its stale copy (an answer that was *)
(* fetched before and is written after survives), *)
ClearPlans ==
  /\ con.at = "clear"
  /\ plans' = NoPlans /\ stale' = NoPlans
  /\ con' = [con EXCEPT !.at = "bump"]
  /\ reader' = [r \in Reader |-> IF reader[r].at = "seed"
                                   THEN [reader[r] EXCEPT !.tainted = TRUE] ELSE reader[r]]
  /\ UNCHANGED <<row, left, cache, cat, gen, queue, inbox, writer>>

(* then set the generation to the event's id, *)
Bump ==
  /\ con.at = "bump"
  /\ gen' = con.id
  /\ con' = [con EXCEPT !.at = "commit"]
  /\ UNCHANGED <<row, left, cache, cat, plans, stale, queue, inbox, reader, writer>>

(* then commit the inbox row and acknowledge, *)
CommitInbox ==
  /\ con.at = "commit"
  /\ inbox' = inbox \cup {con.id}
  /\ queue' \in {queue, queue \ {con.id}}
  /\ con' = ConIdle
  /\ UNCHANGED <<row, left, cache, cat, plans, stale, gen, reader, writer>>

(* or fail at any point: the message comes again. *)
ConsumerFails ==
  /\ con.at # "idle"
  /\ con' = ConIdle
  /\ UNCHANGED <<row, left, cache, cat, plans, stale, gen, queue, inbox, reader, writer>>

-----------------------------------------------------------------------------
Init ==
  /\ row = [k \in Key |-> 0] /\ left = [k \in Key |-> 0] /\ cache = [k \in Key |-> NoEntry]
  /\ cat = 0 /\ plans = NoPlans /\ stale = NoPlans /\ gen = 0
  /\ queue = {} /\ inbox = {} /\ con = ConIdle
  /\ reader = [r \in Reader |-> Idle]
  /\ writer = [w \in Writer |-> WriterIdle]

Read(r) == Miss(r) \/ ReadRow(r) \/ PlansHit(r) \/ PlansFetch(r) \/ PlansSeed(r)
           \/ PlansStale(r) \/ Fill(r)

Consume == Receive \/ ClearPlans \/ Bump \/ CommitInbox

Next ==
  \/ \E r \in Reader : Read(r)
  \/ \E w \in Writer : Commit(w) \/ Evict(w)
  \/ \E k \in Key : ExpireEntry(k)
  \/ ExpirePlans \/ ExpireStale \/ CatalogChange \/ Consume \/ ConsumerFails

Spec == Init /\ [][Next]_vars

(* A request that was begun ends, and every TTL runs out.                    *)
Fairness ==
  /\ \A r \in Reader : WF_vars(reader[r].at # "idle" /\ Read(r))
  /\ \A k \in Key : WF_vars(ExpireEntry(k))
  /\ WF_vars(ExpirePlans) /\ WF_vars(ExpireStale)

LiveSpec == Spec /\ Fairness

-----------------------------------------------------------------------------
(* Types; nothing is cached that was never read: no key, and no copy of the  *)
(* catalogue, is ahead of its source, and no generation of its event.        *)
TypeOK ==
  /\ row \in [Key -> Version] /\ left \in [Key -> Version] /\ cat \in Version /\ gen \in 0..cat
  /\ \A k \in Key : /\ cache[k].ver \in Nothing..row[k]
                    /\ cache[k].plan \in Nothing..cat /\ cache[k].gen \in 0..cat
                    /\ {cache[k].raced, cache[k].tainted} \subseteq BOOLEAN
  /\ plans.ver \in Nothing..cat /\ stale.ver \in Nothing..cat
  /\ queue \subseteq 1..cat /\ inbox \subseteq 1..cat
  /\ con.at \in {"idle", "clear", "bump", "commit"} /\ con.id \in 0..cat
  /\ \A r \in Reader : /\ reader[r].at \in {"idle", "read", "plan", "seed", "fill"}
                       /\ reader[r].key \in Key
                       /\ reader[r].ver \in Nothing..row[reader[r].key]
                       /\ reader[r].plan \in Nothing..cat /\ reader[r].gen \in Nothing..cat
  /\ writer \in [Writer -> [at : {"idle", "evict"}, kind : Kind]]

(* CACHE-3, CACHE-6, as far as the code keeps them: an entry that is out of  *)
(* date, with no mutation between its commit and its eviction, was filled    *)
(* from a read older than the eviction, or its eviction failed, or it is     *)
(* older than a write that evicts nothing for it (the lifecycle events and,  *)
(* against CACHE-3, P-2 for om:memberships, and I-5's ownerless_since, P-2's *)
(* realm_sync_pending and the jobs' markers for om:tenant).                  *)
StaleOnlyByRaceOrTTL ==
  \A k \in Key :
    (cache[k].ver \notin {Nothing, row[k]} /\ \A w \in Writer : writer[w].at = "idle")
      => cache[k].raced \/ cache[k].ver < left[k]

(* CACHE-11: an entry I-8 would serve was built from a catalogue at least as *)
(* new as the event that set the generation, unless the Catalog did not      *)
(* answer, or its answer was fetched before om:plans was cleared and written *)
(* after.                                                                    *)
GenerationGuards ==
  Servable /\ cache["memberships"].plan < gen => cache["memberships"].tainted

(* A catalogue change is seen in the end whether or not its event arrives:   *)
(* no entry keeps an older plan baseline for ever.                           *)
PlanReachesEntry ==
  <>[](cache["memberships"].plan \in {Nothing, cat})
=============================================================================
