-------------------------- MODULE AuthzCacheProofs --------------------------
(***************************************************************************)
(* Theorems of AuthzCache, for any readers, writers and number of changes. *)
(***************************************************************************)
EXTENDS AuthzCache, TLAPS

Entry == [ver : Int, plan : Int, gen : Int, raced : BOOLEAN, tainted : BOOLEAN]
Plans == [ver : Int, late : BOOLEAN]
Reading == [at : {"idle", "read", "plan", "seed", "fill"}, key : Key, gen : Int, ver : Int,
            plan : Int, raced : BOOLEAN, tainted : BOOLEAN]

-----------------------------------------------------------------------------
(* The inductive invariants.                                                 *)

(* The records.                                                              *)
Shape ==
  /\ cache \in [Key -> Entry] /\ reader \in [Reader -> Reading]
  /\ plans \in Plans /\ stale \in Plans
  /\ con \in [at : {"idle", "clear", "bump", "commit"}, id : Int]
  /\ con.at # "idle" => con.id >= 1

(* The bound on changes is kept for every key.                               *)
Counted == \A k \in Key : cat + row[k] <= MaxChanges

(* An entry that is behind is known to be, or is older than a write that     *)
(* evicts nothing for it, or its eviction is still to come; what a reader    *)
(* holds is behind only when a commit overtook it.                           *)
Overdue(k) == \E w \in Writer : writer[w].at = "evict" /\ k \in Evicts(writer[w].kind)
EntryBehind(k) == cache[k].ver \notin {Nothing, row[k]} => cache[k].raced \/ cache[k].ver < left[k] \/ Overdue(k)
ReaderBehind(r) ==
  reader[r].ver \notin {Nothing, row[reader[r].key]}
    => reader[r].raced \/ reader[r].ver < left[reader[r].key]
Behind == (\A k \in Key : EntryBehind(k)) /\ (\A r \in Reader : ReaderBehind(r))

(* Since the consumer cleared om:plans for event g, what om:plans, the stale *)
(* copy and the answers on their way to them have is at least as new as g,   *)
(* or was fetched before.                                                    *)
PlansNew(p, g) == p.ver = Nothing \/ p.ver >= g \/ p.late
SeedNew(r, g) == reader[r].at = "seed" => reader[r].plan >= g \/ reader[r].tainted
Cleared(g) ==
  /\ g <= cat /\ PlansNew(plans, g) /\ PlansNew(stale, g)
  /\ \A r \in Reader : SeedNew(r, g)

(* That is so for the generation in force, for the one about to be set, and  *)
(* for the one each reader of I-8 has seen; a reader that has its plan has   *)
(* one as new as the generation it will stamp, and so has the entry.         *)
ReaderGuarded(r) ==
  reader[r].key = "memberships" =>
    /\ reader[r].at \in {"read", "plan", "seed"} => Cleared(reader[r].gen)
    /\ reader[r].at = "fill" => reader[r].plan >= reader[r].gen \/ reader[r].tainted
EntryGuarded ==
  LET e == cache["memberships"] IN e.ver # Nothing => e.plan >= e.gen \/ e.tainted
Guarded ==
  /\ Cleared(gen) /\ (con.at \in {"bump", "commit"} => Cleared(con.id))
  /\ \A r \in Reader : ReaderGuarded(r)
  /\ EntryGuarded

Inductive == Shape /\ TypeOK /\ Counted /\ Behind /\ Guarded

-----------------------------------------------------------------------------
(* Constants, and what a reader does to its own record.                      *)

LEMMA Constants ==
  /\ Nothing \in Int /\ Nothing = -1 /\ "memberships" \in Key /\ "tenant" \in Key
  /\ \A k \in Key : k = "memberships" \/ k = "tenant"
  BY DEF Nothing, Key

LEMMA IdleFields ==
  /\ Idle \in Reading /\ Idle.at = "idle" /\ Idle.key = "tenant" /\ Idle.gen = 0
  /\ Idle.ver = Nothing /\ Idle.plan = Nothing
  BY DEF Idle, Reading, Key, Nothing

LEMMA NoEntryFields ==
  /\ NoEntry \in Entry /\ NoEntry.ver = Nothing /\ NoEntry.plan = Nothing /\ NoEntry.gen = 0
  BY DEF NoEntry, Entry, Nothing

LEMMA NoPlansFields == NoPlans \in Plans /\ NoPlans.ver = Nothing
  BY DEF NoPlans, Plans, Nothing

(* What TypeOK says of one record.                                           *)
EntryOK(e, k) ==
  e.ver \in Nothing..row[k] /\ e.plan \in Nothing..cat /\ e.gen \in 0..cat
ReaderOK(r) ==
  /\ reader[r].ver \in Nothing..row[reader[r].key]
  /\ reader[r].plan \in Nothing..cat /\ reader[r].gen \in Nothing..cat

LEMMA Parts ==
  ASSUME Shape, TypeOK
  PROVE  /\ \A r \in Reader : reader[r] \in Reading /\ ReaderOK(r) /\ reader[r].key \in Key
         /\ \A k \in Key : cache[k] \in Entry /\ EntryOK(cache[k], k) /\ row[k] \in Int /\ row[k] >= 0
         /\ row \in [Key -> Int] /\ cat \in Int /\ gen \in Int /\ 0 <= gen /\ gen <= cat
         /\ plans.ver \in Int /\ stale.ver \in Int /\ con.id \in Int /\ con.id <= cat
         /\ plans.ver <= cat /\ stale.ver <= cat
<1>1. row \in [Key -> Int] /\ cat \in Int /\ \A k \in Key : row[k] \in Int /\ row[k] >= 0
  BY DEF TypeOK, Version
<1>2. \A r \in Reader : reader[r] \in Reading /\ ReaderOK(r) /\ reader[r].key \in Key
  BY DEF Shape, TypeOK, ReaderOK
<1>3. \A k \in Key : cache[k] \in Entry /\ EntryOK(cache[k], k)
  BY DEF Shape, TypeOK, EntryOK
<1>4. gen \in Int /\ 0 <= gen /\ gen <= cat
  BY <1>1 DEF TypeOK
<1>5. plans.ver \in Int /\ stale.ver \in Int /\ con.id \in Int
  BY DEF Shape, Plans
<1>6. con.id <= cat /\ plans.ver <= cat /\ stale.ver <= cat
  BY <1>1, <1>5, Constants DEF TypeOK
<1> QED BY <1>1, <1>2, <1>3, <1>4, <1>5, <1>6

(* Only the read of r has moved, to x.                                       *)
Moved(r, x) ==
  reader' \in [Reader -> Reading] /\ reader'[r] = x /\ \A q \in Reader \ {r} : reader'[q] = reader[q]

LEMMA OnlyMoves ==
  ASSUME Shape, NEW r \in Reader, NEW x \in Reading, reader' = [reader EXCEPT ![r] = x]
  PROVE  Moved(r, x)
  BY DEF Shape, Moved

backend == <<row, left, cache, cat, plans, stale, gen, queue, inbox, con, writer>>

LEMMA MissEffect ==
  ASSUME Shape, TypeOK, NEW r \in Reader, Miss(r)
  PROVE  /\ UNCHANGED backend
         /\ \E x \in Reading : /\ Moved(r, x) /\ x.at = "read" /\ x.ver = Nothing /\ x.plan = Nothing
                               /\ \/ x.gen = gen
                                  \/ x.gen = Nothing
                                  \/ x.gen = 0 /\ x.key = "tenant"
<1>1. PICK k \in Key, answered \in BOOLEAN :
        reader' = [reader EXCEPT ![r] =
                     [Idle EXCEPT !.at = "read", !.key = k,
                                  !.gen = IF k = "tenant" THEN 0
                                          ELSE IF answered THEN gen ELSE Nothing]]
  BY DEF Miss
<1> DEFINE g == IF k = "tenant" THEN 0 ELSE IF answered THEN gen ELSE Nothing
           x == [Idle EXCEPT !.at = "read", !.key = k, !.gen = g]
<1>2. UNCHANGED backend
  BY DEF Miss, backend
<1>3. g = gen \/ g = Nothing \/ (g = 0 /\ k = "tenant")
  OBVIOUS
<1>4. reader' = [reader EXCEPT ![r] = x]
  BY <1>1
<1>5. gen \in Int
  BY Parts
<1> HIDE DEF g
<1>6. g \in Int
  BY <1>3, <1>5, Constants
<1>7. /\ x \in Reading /\ x.at = "read" /\ x.ver = Nothing /\ x.plan = Nothing /\ x.gen = g
      /\ x.key = k
  BY <1>6, IdleFields DEF Reading
<1> HIDE DEF x
<1>8. Moved(r, x)
  BY <1>4, <1>7, OnlyMoves
<1> QED BY <1>2, <1>3, <1>7, <1>8

LEMMA ReadRowEffect ==
  ASSUME Shape, TypeOK, NEW r \in Reader, ReadRow(r)
  PROVE  /\ UNCHANGED backend /\ reader[r].at = "read"
         /\ \/ Moved(r, Idle)
            \/ \E x \in Reading :
                 /\ Moved(r, x) /\ x.at \in {"plan", "fill"} /\ x.key = reader[r].key
                 /\ x.at = "fill" => x.key = "tenant"
                 /\ x.ver = row[reader[r].key] /\ x.plan = reader[r].plan /\ x.gen = reader[r].gen
<1>1. UNCHANGED backend /\ reader[r].at = "read" /\ reader \in [Reader -> Reading]
  BY DEF ReadRow, backend, Shape
<1> DEFINE key == reader[r].key
           at == IF key = "memberships" THEN "plan" ELSE "fill"
           x == [reader[r] EXCEPT !.ver = row[key], !.at = at]
<1>2. \/ reader' = [reader EXCEPT ![r].ver = row[key], ![r].at = at]
      \/ reader' = [reader EXCEPT ![r] = Idle]
  BY DEF ReadRow
<1>3. CASE reader' = [reader EXCEPT ![r] = Idle]
  BY <1>1, <1>3, IdleFields, OnlyMoves
<1>4. CASE reader' = [reader EXCEPT ![r].ver = row[key], ![r].at = at]
  <2>1. row[key] \in Int /\ key \in Key /\ reader[r] \in Reading
    BY Parts
  <2>2. at \in {"plan", "fill"} /\ (at = "fill" => key = "tenant")
    BY <2>1, Constants
  <2>3. reader' = [reader EXCEPT ![r] = x]
    BY <1>1, <1>4
  <2> HIDE DEF at
  <2>4. /\ x \in Reading /\ x.at = at /\ x.key = reader[r].key /\ x.ver = row[reader[r].key]
        /\ x.plan = reader[r].plan /\ x.gen = reader[r].gen
    BY <2>1, <2>2 DEF Reading
  <2> HIDE DEF x
  <2>5. Moved(r, x)
    BY <2>3, <2>4, OnlyMoves
  <2> QED BY <1>1, <2>2, <2>4, <2>5
<1> QED BY <1>2, <1>3, <1>4

LEMMA GotPlanEffect ==
  ASSUME Shape, NEW r \in Reader, NEW version \in Int, NEW tainted \in BOOLEAN,
         GotPlan(r, version, tainted)
  PROVE  \E x \in Reading :
           /\ Moved(r, x) /\ x.at = "fill" /\ x.key = reader[r].key /\ x.ver = reader[r].ver
           /\ x.raced = reader[r].raced
           /\ x.plan = version /\ x.gen = reader[r].gen /\ x.tainted = tainted
<1> DEFINE x == [reader[r] EXCEPT !.plan = version, !.tainted = tainted, !.at = "fill"]
<1>1. reader \in [Reader -> Reading] /\ reader[r] \in Reading
  BY DEF Shape
<1>2. reader' = [reader EXCEPT ![r] = x]
  BY <1>1 DEF GotPlan
<1>3. /\ x \in Reading /\ x.at = "fill" /\ x.key = reader[r].key /\ x.ver = reader[r].ver
      /\ x.raced = reader[r].raced
      /\ x.plan = version /\ x.gen = reader[r].gen /\ x.tainted = tainted
  BY <1>1 DEF Reading
<1> HIDE DEF x
<1>4. Moved(r, x)
  BY <1>2, <1>3, OnlyMoves
<1> QED BY <1>3, <1>4

LEMMA FetchEffect ==
  ASSUME Shape, TypeOK, NEW r \in Reader, PlansFetch(r)
  PROVE  /\ UNCHANGED backend /\ reader[r].at = "plan"
         /\ \E x \in Reading :
              /\ Moved(r, x) /\ x.at = "seed" /\ x.key = reader[r].key /\ x.ver = reader[r].ver
              /\ x.raced = reader[r].raced /\ x.plan = cat /\ x.gen = reader[r].gen
<1> DEFINE x == [reader[r] EXCEPT !.plan = cat, !.at = "seed"]
<1>1. reader \in [Reader -> Reading] /\ reader[r] \in Reading /\ cat \in Int
  BY Parts DEF Shape
<1>2. reader' = [reader EXCEPT ![r] = x] /\ UNCHANGED backend /\ reader[r].at = "plan"
  BY <1>1 DEF PlansFetch, backend
<1>3. /\ x \in Reading /\ x.at = "seed" /\ x.key = reader[r].key /\ x.ver = reader[r].ver
      /\ x.raced = reader[r].raced /\ x.plan = cat /\ x.gen = reader[r].gen
  BY <1>1 DEF Reading
<1> HIDE DEF x
<1>4. Moved(r, x)
  BY <1>2, <1>3, OnlyMoves
<1> QED BY <1>2, <1>3, <1>4

LEMMA SeedEffect ==
  ASSUME Shape, TypeOK, NEW r \in Reader, PlansSeed(r)
  PROVE  /\ UNCHANGED <<row, left, cache, cat, gen, queue, inbox, con, writer>>
         /\ reader[r].at = "seed" /\ plans' \in Plans /\ stale' = plans'
         /\ plans'.ver = reader[r].plan /\ plans'.late = reader[r].tainted
         /\ \E x \in Reading :
              /\ Moved(r, x) /\ x.at = "fill" /\ x.key = reader[r].key /\ x.ver = reader[r].ver
              /\ x.raced = reader[r].raced /\ x.tainted = reader[r].tainted
              /\ x.plan = reader[r].plan /\ x.gen = reader[r].gen
<1> DEFINE x == [reader[r] EXCEPT !.at = "fill"]
<1>1. reader \in [Reader -> Reading] /\ reader[r] \in Reading
  BY DEF Shape
<1>2. /\ reader' = [reader EXCEPT ![r] = x] /\ reader[r].at = "seed"
      /\ UNCHANGED <<row, left, cache, cat, gen, queue, inbox, con, writer>>
      /\ plans' = [ver |-> reader[r].plan, late |-> reader[r].tainted] /\ stale' = plans'
  BY <1>1 DEF PlansSeed
<1>3. plans' \in Plans /\ plans'.ver = reader[r].plan /\ plans'.late = reader[r].tainted
  BY <1>1, <1>2 DEF Reading, Plans
<1>4. /\ x \in Reading /\ x.at = "fill" /\ x.key = reader[r].key /\ x.ver = reader[r].ver
      /\ x.raced = reader[r].raced /\ x.tainted = reader[r].tainted
      /\ x.plan = reader[r].plan /\ x.gen = reader[r].gen
  BY <1>1 DEF Reading
<1> HIDE DEF x
<1>5. Moved(r, x)
  BY <1>2, <1>4, OnlyMoves
<1> QED BY <1>2, <1>3, <1>4, <1>5

(* An entry is filled from what the reader holds.                            *)
LEMMA FillEffect ==
  ASSUME Shape, TypeOK, NEW r \in Reader, Fill(r)
  PROVE  LET k == reader[r].key IN
         /\ UNCHANGED <<row, left, cat, plans, stale, gen, queue, inbox, con, writer>>
         /\ reader[r].at = "fill" /\ Moved(r, Idle)
         /\ \/ cache' = cache
            \/ /\ cache' \in [Key -> Entry] /\ reader[r].gen # Nothing
               /\ \A j \in Key \ {k} : cache'[j] = cache[j]
               /\ cache'[k].ver = reader[r].ver /\ cache'[k].plan = reader[r].plan
               /\ cache'[k].gen = reader[r].gen /\ cache'[k].raced = reader[r].raced
               /\ cache'[k].tainted = reader[r].tainted
<1> DEFINE k == reader[r].key
           e == [ver |-> reader[r].ver, plan |-> reader[r].plan, gen |-> reader[r].gen,
                 raced |-> reader[r].raced, tainted |-> reader[r].tainted]
<1>1. /\ UNCHANGED <<row, left, cat, plans, stale, gen, queue, inbox, con, writer>>
      /\ reader[r].at = "fill" /\ reader' = [reader EXCEPT ![r] = Idle]
  BY DEF Fill, Finish
<1>2. Moved(r, Idle)
  BY <1>1, OnlyMoves, IdleFields
<1>3. cache' = cache \/ (reader[r].gen # Nothing /\ cache' = [cache EXCEPT ![k] = e])
  BY DEF Fill
<1>4. reader[r] \in Reading /\ k \in Key /\ cache \in [Key -> Entry]
  BY Parts DEF Shape
<1>5. /\ e \in Entry /\ e.ver = reader[r].ver /\ e.plan = reader[r].plan
      /\ e.gen = reader[r].gen /\ e.raced = reader[r].raced /\ e.tainted = reader[r].tainted
  BY <1>4 DEF Reading, Entry
<1> HIDE DEF e
<1>6. CASE cache' = cache
  BY <1>1, <1>2, <1>6
<1>7. CASE reader[r].gen # Nothing /\ cache' = [cache EXCEPT ![k] = e]
  <2>1. cache' \in [Key -> Entry] /\ cache'[k] = e /\ \A j \in Key \ {k} : cache'[j] = cache[j]
    BY <1>4, <1>5, <1>7
  <2> QED BY <1>1, <1>2, <1>5, <1>7, <2>1
<1> QED BY <1>3, <1>6, <1>7

-----------------------------------------------------------------------------
(* How the invariants carry over.                                            *)

(* What was cleared stays cleared.                                           *)
Keeps == \A g \in Int : Cleared(g) => Cleared(g)'

LEMMA GuardKept ==
  ASSUME Shape, TypeOK, Keeps, NEW q \in Reader, ReaderGuarded(q),
         reader'[q].at = reader[q].at, reader'[q].key = reader[q].key,
         reader'[q].gen = reader[q].gen, reader'[q].plan = reader[q].plan,
         reader[q].tainted => reader'[q].tainted
  PROVE  ReaderGuarded(q)'
<1>1. reader[q].gen \in Int
  BY Parts DEF Reading
<1>2. PICK g \in Int : g = reader[q].gen
  BY <1>1
<1>3. Cleared(g) => Cleared(g)'
  BY DEF Keeps
<1>4. reader[q].key = "memberships" /\ reader[q].at \in {"read", "plan", "seed"} => Cleared(g)
  BY <1>2 DEF ReaderGuarded
<1>5. reader'[q].gen = g
  BY <1>2
<1>6. Cleared(g)' => Cleared(reader[q].gen)'
  BY <1>5 DEF Cleared, SeedNew, PlansNew
<1> QED BY <1>3, <1>4, <1>6 DEF ReaderGuarded

(* The reader of r moves on, and nothing else happens.                       *)
LEMMA ReaderStep ==
  ASSUME Inductive, NEW r \in Reader, NEW x \in Reading, Moved(r, x), UNCHANGED backend,
         x.ver \in Nothing..row[x.key], x.plan \in Nothing..cat, x.gen \in Nothing..cat,
         x.ver \notin {Nothing, row[x.key]} => x.raced \/ x.ver < left[x.key],
         x.at = "seed" => x.plan = cat,
         x.key = "memberships" =>
           /\ x.at \in {"read", "plan", "seed"} => Cleared(x.gen)
           /\ x.at = "fill" => x.plan >= x.gen \/ x.tainted
  PROVE  Inductive'
<1> USE DEF Inductive
<1>1. UNCHANGED <<row, left, cache, cat, plans, stale, gen, queue, inbox, con, writer>>
  BY DEF backend
<1>2. /\ reader' \in [Reader -> Reading] /\ reader'[r] = x
      /\ \A q \in Reader \ {r} : reader'[q] = reader[q]
  BY DEF Moved
<1>3. Shape' /\ Counted'
  BY <1>1, <1>2 DEF Shape, Counted
<1>4. TypeOK'
  <2>1. \A q \in Reader : reader'[q] \in Reading
    BY <1>2
  <2>2. \A q \in Reader : ReaderOK(q)'
    BY <1>1, <1>2, Parts DEF ReaderOK
  <2> QED BY <1>1, <2>1, <2>2 DEF TypeOK, ReaderOK, Reading
<1>5. Behind'
  <2>1. \A k \in Key : EntryBehind(k)'
    BY <1>1 DEF Behind, EntryBehind, Overdue
  <2>2. \A q \in Reader : ReaderBehind(q)'
    BY <1>1, <1>2 DEF Behind, ReaderBehind
  <2> QED BY <2>1, <2>2 DEF Behind
<1>6. Keeps
  <2> SUFFICES ASSUME NEW g \in Int, Cleared(g) PROVE Cleared(g)'
    BY DEF Keeps
  <2>1. g <= cat
    BY DEF Cleared
  <2>2. \A q \in Reader : SeedNew(q, g)'
    <3>1. cat \in Int
      BY Parts
    <3>2. SeedNew(r, g)'
      BY <1>2, <2>1, <3>1 DEF SeedNew
    <3>3. \A q \in Reader \ {r} : SeedNew(q, g)'
      BY <1>2 DEF Cleared, SeedNew
    <3> QED BY <3>2, <3>3
  <2> QED BY <1>1, <2>2 DEF Cleared, PlansNew
<1>7. Guarded'
  <2>1. gen \in Int /\ con.id \in Int /\ x.gen \in Int
    BY Parts DEF Reading
  <2>2. Cleared(gen)'
    <3>1. PICK g \in Int : g = gen
      BY <2>1
    <3>2. Cleared(g)'
      BY <1>6, <3>1 DEF Keeps, Guarded
    <3> QED BY <1>1, <3>1, <3>2 DEF Cleared, SeedNew, PlansNew
  <2>3. con.at \in {"bump", "commit"} => Cleared(con.id)'
    <3>1. PICK g \in Int : g = con.id
      BY <2>1
    <3>2. con.at \in {"bump", "commit"} => Cleared(g)'
      BY <1>6, <3>1 DEF Keeps, Guarded
    <3> QED BY <1>1, <3>1, <3>2 DEF Cleared, SeedNew, PlansNew
  <2>4. \A q \in Reader \ {r} : ReaderGuarded(q)'
    <3> SUFFICES ASSUME NEW q \in Reader \ {r} PROVE ReaderGuarded(q)'
      OBVIOUS
    <3>1. ReaderGuarded(q)
      BY DEF Guarded
    <3> QED BY <1>2, <1>6, <3>1, GuardKept
  <2>5. ReaderGuarded(r)'
    <3>1. PICK g \in Int : g = x.gen
      BY <2>1
    <3>2. x.key = "memberships" /\ x.at \in {"read", "plan", "seed"} => Cleared(g)'
      BY <1>6, <3>1 DEF Keeps
    <3>3. Cleared(g)' => Cleared(reader[r].gen)'
      BY <1>2, <3>1 DEF Cleared, SeedNew, PlansNew
    <3> QED BY <1>2, <3>2, <3>3 DEF ReaderGuarded
  <2>6. EntryGuarded'
    BY <1>1 DEF Guarded, EntryGuarded
  <2> QED BY <1>1, <2>2, <2>3, <2>4, <2>5, <2>6 DEF Guarded
<1> QED BY <1>3, <1>4, <1>5, <1>7

LEMMA MissStep ==
  ASSUME Inductive, NEW r \in Reader, Miss(r)
  PROVE  Inductive'
<1> USE DEF Inductive
<1>1. UNCHANGED backend
  BY MissEffect
<1>2. PICK x \in Reading : /\ Moved(r, x) /\ x.at = "read" /\ x.ver = Nothing /\ x.plan = Nothing
                           /\ \/ x.gen = gen
                              \/ x.gen = Nothing
                              \/ x.gen = 0 /\ x.key = "tenant"
  BY MissEffect
<1>3. gen \in Int /\ cat \in Int /\ 0 <= gen /\ gen <= cat /\ Nothing = -1 /\ x.key \in Key /\ row[x.key] \in Int
      /\ row[x.key] >= 0
  BY Parts, Constants DEF Reading
<1>4. x.ver \in Nothing..row[x.key] /\ x.plan \in Nothing..cat /\ x.gen \in Nothing..cat
  BY <1>2, <1>3
<1>5. x.gen = Nothing => Cleared(x.gen)
  <2>1. /\ plans.ver \in Int /\ stale.ver \in Int /\ plans.ver >= Nothing /\ stale.ver >= Nothing
    BY <1>3, Parts DEF TypeOK
  <2>2. \A q \in Reader : reader[q].plan \in Int /\ reader[q].plan >= Nothing
    BY <1>3, Parts DEF ReaderOK
  <2> QED BY <1>3, <2>1, <2>2 DEF Cleared, PlansNew, SeedNew
<1>6. x.gen = gen => Cleared(x.gen)
  BY DEF Guarded
<1> QED BY <1>1, <1>2, <1>4, <1>5, <1>6, ReaderStep

LEMMA ReadRowStep ==
  ASSUME Inductive, NEW r \in Reader, ReadRow(r)
  PROVE  Inductive'
<1> USE DEF Inductive
<1>1. UNCHANGED backend /\ reader[r].at = "read"
  BY ReadRowEffect
<1>2. cat \in Int /\ 0 <= cat /\ Nothing = -1 /\ ReaderOK(r) /\ reader[r].key \in Key
      /\ row[reader[r].key] \in Int /\ row[reader[r].key] >= 0 /\ row["tenant"] \in Int /\ row["tenant"] >= 0
  BY Parts, Constants
<1>3. CASE Moved(r, Idle)
  <2>1. Idle.ver \in Nothing..row[Idle.key] /\ Idle.plan \in Nothing..cat /\ Idle.gen \in Nothing..cat
    BY <1>2, IdleFields
  <2> QED BY <1>1, <1>3, <2>1, IdleFields, ReaderStep
<1>4. ASSUME NEW x \in Reading, Moved(r, x), x.at \in {"plan", "fill"}, x.key = reader[r].key,
             x.at = "fill" => x.key = "tenant", x.ver = row[reader[r].key],
             x.plan = reader[r].plan, x.gen = reader[r].gen
      PROVE  Inductive'
  <2>1. x.ver \in Nothing..row[x.key] /\ x.plan \in Nothing..cat /\ x.gen \in Nothing..cat
    BY <1>2, <1>4 DEF ReaderOK
  <2>2. x.key = "memberships" => Cleared(x.gen)
    BY <1>1, <1>4 DEF Guarded, ReaderGuarded
  <2> QED BY <1>1, <1>4, <2>1, <2>2, ReaderStep
<1> QED BY <1>3, <1>4, ReadRowEffect

LEMMA PlanStep ==
  ASSUME Inductive, NEW r \in Reader, PlansHit(r) \/ PlansFetch(r) \/ PlansStale(r)
  PROVE  Inductive'
<1> USE DEF Inductive
<1>1. UNCHANGED backend /\ reader[r].at = "plan"
  BY DEF PlansHit, PlansFetch, PlansStale, backend
<1>2. cat \in Int /\ 0 <= cat /\ Nothing = -1 /\ ReaderOK(r) /\ plans.ver \in Int /\ stale.ver \in Int
      /\ plans.ver <= cat /\ stale.ver <= cat /\ reader[r].gen \in Int
  BY Parts, Constants DEF Reading
<1>3. plans.late \in BOOLEAN /\ stale.late \in BOOLEAN /\ plans.ver >= Nothing /\ stale.ver >= Nothing
  BY <1>2 DEF Shape, Plans, TypeOK
<1>4. /\ reader[r].key = "memberships" =>
           Cleared(reader[r].gen) /\ PlansNew(plans, reader[r].gen) /\ PlansNew(stale, reader[r].gen)
      /\ ReaderBehind(r)
  BY <1>1 DEF Guarded, ReaderGuarded, Cleared, Behind
<1>5. ASSUME NEW version \in Int, NEW tainted \in BOOLEAN, GotPlan(r, version, tainted),
             version \in Nothing..cat,
             reader[r].key = "memberships" => version >= reader[r].gen \/ tainted
      PROVE  Inductive'
  <2>1. PICK x \in Reading :
           /\ Moved(r, x) /\ x.at = "fill" /\ x.key = reader[r].key /\ x.ver = reader[r].ver
           /\ x.raced = reader[r].raced
           /\ x.plan = version /\ x.gen = reader[r].gen /\ x.tainted = tainted
    BY <1>5, GotPlanEffect
  <2>2. x.ver \in Nothing..row[x.key] /\ x.plan \in Nothing..cat /\ x.gen \in Nothing..cat
    BY <1>2, <1>5, <2>1 DEF ReaderOK
  <2>3. x.ver \notin {Nothing, row[x.key]} => x.raced \/ x.ver < left[x.key]
    BY <1>4, <2>1 DEF ReaderBehind
  <2>4. x.key = "memberships" => x.plan >= x.gen \/ x.tainted
    BY <1>5, <2>1
  <2> QED BY <1>1, <2>1, <2>2, <2>3, <2>4, ReaderStep
<1>6. CASE PlansHit(r)
  <2>1. plans.ver # Nothing /\ GotPlan(r, plans.ver, plans.late) /\ plans.ver \in Nothing..cat
    BY <1>2, <1>3, <1>6 DEF PlansHit
  <2>2. reader[r].key = "memberships" => plans.ver >= reader[r].gen \/ plans.late
    BY <1>4, <2>1 DEF PlansNew
  <2> QED BY <1>2, <1>3, <1>5, <2>1, <2>2
<1>7. CASE PlansStale(r)
  <2> DEFINE b == stale.late \/ stale.ver = Nothing
  <2>1. GotPlan(r, stale.ver, b) /\ stale.ver \in Nothing..cat /\ b \in BOOLEAN
    BY <1>2, <1>3, <1>7 DEF PlansStale
  <2>2. reader[r].key = "memberships" => stale.ver >= reader[r].gen \/ b
    BY <1>4 DEF PlansNew
  <2> HIDE DEF b
  <2> QED BY <1>2, <1>5, <2>1, <2>2
<1>8. CASE PlansFetch(r)
  <2>1. PICK x \in Reading :
              /\ Moved(r, x) /\ x.at = "seed" /\ x.key = reader[r].key /\ x.ver = reader[r].ver
              /\ x.raced = reader[r].raced /\ x.plan = cat /\ x.gen = reader[r].gen
    BY <1>8, FetchEffect
  <2>2. x.ver \in Nothing..row[x.key] /\ x.plan \in Nothing..cat /\ x.gen \in Nothing..cat
    BY <1>2, <2>1 DEF ReaderOK
  <2>3. x.ver \notin {Nothing, row[x.key]} => x.raced \/ x.ver < left[x.key]
    BY <1>4, <2>1 DEF ReaderBehind
  <2>4. x.key = "memberships" => Cleared(x.gen)
    BY <1>4, <2>1
  <2> QED BY <1>1, <2>1, <2>2, <2>3, <2>4, ReaderStep
<1> QED BY <1>6, <1>7, <1>8

LEMMA GuardsKept ==
  ASSUME Shape, TypeOK, Guarded, Keeps,
         gen' = gen \/ (gen' = con.id /\ con.at \in {"bump", "commit"}),
         con'.at \in {"bump", "commit"} => con'.id = con.id /\ con.at \in {"bump", "commit"},
         \A q \in Reader : ReaderGuarded(q)', EntryGuarded'
  PROVE  Guarded'
<1>1. gen \in Int /\ con.id \in Int
  BY Parts
<1>2. PICK g \in Int : g = gen
  BY <1>1
<1>3. PICK h \in Int : h = con.id
  BY <1>1
<1>4. Cleared(g)' /\ (con.at \in {"bump", "commit"} => Cleared(h)')
  BY <1>2, <1>3 DEF Guarded, Keeps
<1>5. Cleared(gen)'
  <2>1. CASE gen' = g
    BY <1>4, <2>1 DEF Cleared, SeedNew, PlansNew
  <2>2. CASE gen' = h /\ con.at \in {"bump", "commit"}
    BY <1>4, <2>2 DEF Cleared, SeedNew, PlansNew
  <2> QED BY <1>2, <1>3, <2>1, <2>2
<1>6. con'.at \in {"bump", "commit"} => Cleared(con.id)'
  BY <1>3, <1>4 DEF Cleared, SeedNew, PlansNew
<1> QED BY <1>5, <1>6 DEF Guarded

LEMMA SeedStep ==
  ASSUME Inductive, NEW r \in Reader, PlansSeed(r)
  PROVE  Inductive'
<1> USE DEF Inductive
<1>1. /\ UNCHANGED <<row, left, cache, cat, gen, queue, inbox, con, writer>>
      /\ reader[r].at = "seed" /\ plans' \in Plans /\ stale' = plans'
      /\ plans'.ver = reader[r].plan /\ plans'.late = reader[r].tainted
  BY SeedEffect
<1>2. PICK x \in Reading :
              /\ Moved(r, x) /\ x.at = "fill" /\ x.key = reader[r].key /\ x.ver = reader[r].ver
              /\ x.raced = reader[r].raced /\ x.tainted = reader[r].tainted
              /\ x.plan = reader[r].plan /\ x.gen = reader[r].gen
  BY SeedEffect
<1>3. /\ reader' \in [Reader -> Reading] /\ reader'[r] = x
      /\ \A q \in Reader \ {r} : reader'[q] = reader[q]
  BY <1>2 DEF Moved
<1>4. Shape' /\ Counted'
  BY <1>1, <1>3 DEF Shape, Counted
<1>5. TypeOK'
  <2>1. \A q \in Reader : reader'[q] \in Reading
    BY <1>3
  <2>2. \A q \in Reader : ReaderOK(q)'
    BY <1>1, <1>2, <1>3, Parts DEF ReaderOK
  <2>3. reader[r].plan \in Nothing..cat
    BY Parts DEF ReaderOK
  <2> QED BY <1>1, <2>1, <2>2, <2>3 DEF TypeOK, ReaderOK, Reading
<1>6. Behind'
  <2>1. \A k \in Key : EntryBehind(k)'
    BY <1>1 DEF Behind, EntryBehind, Overdue
  <2>2. \A q \in Reader : ReaderBehind(q)'
    BY <1>1, <1>2, <1>3 DEF Behind, ReaderBehind
  <2> QED BY <2>1, <2>2 DEF Behind
<1>7. Keeps
  <2> SUFFICES ASSUME NEW g \in Int, Cleared(g) PROVE Cleared(g)'
    BY DEF Keeps
  <2>1. \A q \in Reader : SeedNew(q, g)'
    BY <1>2, <1>3 DEF Cleared, SeedNew
  <2>2. PlansNew(plans, g)' /\ PlansNew(stale, g)'
    BY <1>1 DEF Cleared, SeedNew, PlansNew
  <2> QED BY <1>1, <2>1, <2>2 DEF Cleared
<1>8. \A q \in Reader : ReaderGuarded(q)'
  <2>1. \A q \in Reader \ {r} : ReaderGuarded(q)'
    BY <1>3, <1>7, GuardKept DEF Guarded
  <2>2. reader[r].key = "memberships" => reader[r].plan >= reader[r].gen \/ reader[r].tainted
    BY <1>1 DEF Guarded, ReaderGuarded, Cleared, SeedNew
  <2>3. ReaderGuarded(r)'
    BY <1>2, <1>3, <2>2 DEF ReaderGuarded
  <2> QED BY <2>1, <2>3
<1>9. EntryGuarded'
  BY <1>1 DEF Guarded, EntryGuarded
<1>10. Guarded'
  BY <1>1, <1>7, <1>8, <1>9, GuardsKept
<1> QED BY <1>4, <1>5, <1>6, <1>10

LEMMA FillStep ==
  ASSUME Inductive, NEW r \in Reader, Fill(r)
  PROVE  Inductive'
<1> USE DEF Inductive
<1>1. /\ UNCHANGED <<row, left, cat, plans, stale, gen, queue, inbox, con, writer>>
      /\ reader[r].at = "fill" /\ Moved(r, Idle)
  BY FillEffect
<1>2. PICK k \in Key : k = reader[r].key
  BY Parts
<1>3. \/ cache' = cache
      \/ /\ cache' \in [Key -> Entry] /\ reader[r].gen # Nothing
         /\ \A j \in Key \ {k} : cache'[j] = cache[j]
         /\ cache'[k].ver = reader[r].ver /\ cache'[k].plan = reader[r].plan
         /\ cache'[k].gen = reader[r].gen /\ cache'[k].raced = reader[r].raced
         /\ cache'[k].tainted = reader[r].tainted
  BY <1>2, FillEffect
<1>4. /\ reader' \in [Reader -> Reading] /\ reader'[r] = Idle
      /\ \A q \in Reader \ {r} : reader'[q] = reader[q]
  BY <1>1 DEF Moved
<1>5. cat \in Int /\ 0 <= cat /\ Nothing = -1 /\ row["tenant"] \in Int /\ row["tenant"] >= 0
      /\ ReaderOK(r) /\ \A j \in Key : cache[j] \in Entry /\ EntryOK(cache[j], j)
  BY Parts, Constants
<1>6. Shape' /\ Counted'
  BY <1>1, <1>3, <1>4 DEF Shape, Counted
<1>7. \A j \in Key : EntryOK(cache[j], j)'
  <2>1. CASE cache' = cache
    BY <1>1, <1>5, <2>1 DEF EntryOK
  <2>2. ASSUME reader[r].gen # Nothing, \A j \in Key \ {k} : cache'[j] = cache[j],
               cache'[k].ver = reader[r].ver, cache'[k].plan = reader[r].plan,
               cache'[k].gen = reader[r].gen
        PROVE  \A j \in Key : EntryOK(cache[j], j)'
    <3>1. EntryOK(cache[k], k)'
      BY <1>1, <1>2, <1>5, <2>2 DEF EntryOK, ReaderOK
    <3>2. \A j \in Key \ {k} : EntryOK(cache[j], j)'
      BY <1>1, <1>5, <2>2 DEF EntryOK
    <3> QED BY <3>1, <3>2
  <2> QED BY <1>3, <2>1, <2>2
<1>8. TypeOK'
  <2>1. \A q \in Reader : reader'[q] \in Reading
    BY <1>4
  <2>2. ReaderOK(r)'
    BY <1>1, <1>4, <1>5, IdleFields DEF ReaderOK
  <2>3. \A q \in Reader : ReaderOK(q)'
    BY <1>1, <1>4, <2>2, Parts DEF ReaderOK
  <2>4. \A j \in Key : {cache'[j].raced, cache'[j].tainted} \subseteq BOOLEAN
    BY <1>6 DEF Shape, Entry
  <2> QED BY <1>1, <1>7, <2>1, <2>3, <2>4 DEF TypeOK, ReaderOK, EntryOK, Reading
<1>9. Behind'
  <2>1. ReaderBehind(r) /\ \A j \in Key : EntryBehind(j)
    BY DEF Behind
  <2>2. \A j \in Key : EntryBehind(j)'
    <3>1. CASE cache' = cache
      BY <1>1, <2>1, <3>1 DEF EntryBehind, Overdue
    <3>2. ASSUME \A j \in Key \ {k} : cache'[j] = cache[j],
                 cache'[k].ver = reader[r].ver, cache'[k].raced = reader[r].raced
          PROVE  \A j \in Key : EntryBehind(j)'
      <4>1. EntryBehind(k)'
        BY <1>1, <1>2, <2>1, <3>2 DEF EntryBehind, ReaderBehind
      <4>2. \A j \in Key \ {k} : EntryBehind(j)'
        BY <1>1, <2>1, <3>2 DEF EntryBehind, Overdue
      <4> QED BY <4>1, <4>2
    <3> QED BY <1>3, <3>1, <3>2
  <2>3. \A q \in Reader : ReaderBehind(q)'
    BY <1>1, <1>4, IdleFields DEF Behind, ReaderBehind
  <2> QED BY <2>2, <2>3 DEF Behind
<1>10. Keeps
  <2> SUFFICES ASSUME NEW g \in Int, Cleared(g) PROVE Cleared(g)'
    BY DEF Keeps
  <2>1. \A q \in Reader : SeedNew(q, g)'
    BY <1>4, IdleFields DEF Cleared, SeedNew
  <2> QED BY <1>1, <2>1 DEF Cleared, PlansNew
<1>11. \A q \in Reader : ReaderGuarded(q)'
  <2>1. \A q \in Reader \ {r} : ReaderGuarded(q)'
    BY <1>4, <1>10, GuardKept DEF Guarded
  <2>2. ReaderGuarded(r)'
    BY <1>4, IdleFields DEF ReaderGuarded
  <2> QED BY <2>1, <2>2
<1>12. EntryGuarded'
  <2>1. CASE cache' = cache
    BY <2>1 DEF Guarded, EntryGuarded
  <2>2. ASSUME \A j \in Key \ {k} : cache'[j] = cache[j],
               cache'[k].ver = reader[r].ver, cache'[k].plan = reader[r].plan,
               cache'[k].gen = reader[r].gen, cache'[k].tainted = reader[r].tainted
        PROVE  EntryGuarded'
    <3>1. CASE k = "memberships"
      BY <1>1, <1>2, <2>2, <3>1 DEF Guarded, ReaderGuarded, EntryGuarded
    <3>2. CASE k # "memberships"
      BY <2>2, <3>2, Constants DEF Guarded, EntryGuarded
    <3> QED BY <3>1, <3>2
  <2> QED BY <1>3, <2>1, <2>2
<1>13. Guarded'
  BY <1>1, <1>10, <1>11, <1>12, GuardsKept
<1> QED BY <1>6, <1>8, <1>9, <1>13

(* A mutation leaves to the TTL what it does not evict.                      *)
LEMMA EvictedOrLeft ==
  ASSUME NEW kind \in Kind
  PROVE  /\ LeftToTTL(kind) \subseteq Affects(kind) /\ Affects(kind) \subseteq Key
         /\ \A k \in Affects(kind) : k \in Evicts(kind) \/ k \in LeftToTTL(kind)
<1>1. CASE kind = "standing"
  BY <1>1 DEF Affects, Evicts, LeftToTTL, InvalidateMember, Key
<1>2. CASE kind = "ownerless"
  BY <1>2 DEF Affects, Evicts, LeftToTTL, InvalidateMember, Key
<1>3. CASE kind = "owner"
  BY <1>3 DEF Affects, Evicts, LeftToTTL, InvalidateBoth, Key
<1>4. CASE kind = "flags"
  BY <1>4 DEF Affects, Evicts, LeftToTTL, InvalidateBoth, Key
<1>5. CASE kind = "setting"
  BY <1>5 DEF Affects, Evicts, LeftToTTL, InvalidateCache, Key
<1>6. CASE kind = "marker"
  BY <1>6 DEF Affects, Evicts, LeftToTTL, Key
<1>7. CASE kind = "lifecycle"
  BY <1>7 DEF Affects, Evicts, LeftToTTL, Key
<1> QED BY <1>1, <1>2, <1>3, <1>4, <1>5, <1>6, <1>7 DEF Kind

(* An entry or a read that is marked as overtaken is otherwise as it was.    *)
LEMMA RacedEntry ==
  ASSUME NEW e \in Entry, NEW f, f = [e EXCEPT !.raced = TRUE]
  PROVE  /\ f \in Entry /\ f.ver = e.ver /\ f.plan = e.plan /\ f.gen = e.gen
         /\ f.raced = TRUE /\ f.tainted = e.tainted
  BY DEF Entry

LEMMA RacedReading ==
  ASSUME NEW x \in Reading, NEW y, y = [x EXCEPT !.raced = TRUE]
  PROVE  /\ y \in Reading /\ y.at = x.at /\ y.key = x.key /\ y.gen = x.gen /\ y.ver = x.ver
         /\ y.plan = x.plan /\ y.raced = TRUE /\ y.tainted = x.tainted
  BY DEF Reading

LEMMA TaintedReading ==
  ASSUME NEW x \in Reading, NEW y, y = [x EXCEPT !.tainted = TRUE]
  PROVE  /\ y \in Reading /\ y.at = x.at /\ y.key = x.key /\ y.gen = x.gen /\ y.ver = x.ver
         /\ y.plan = x.plan /\ y.raced = x.raced /\ y.tainted = TRUE
  BY DEF Reading

(* What a step of another process leaves of a read, and of an entry.         *)
SameRead(q) ==
  /\ reader'[q].at = reader[q].at /\ reader'[q].key = reader[q].key
  /\ reader'[q].gen = reader[q].gen /\ reader'[q].ver = reader[q].ver
  /\ reader'[q].plan = reader[q].plan
  /\ (reader[q].raced => reader'[q].raced) /\ (reader[q].tainted => reader'[q].tainted)
SameEntry(k) ==
  /\ cache'[k].ver = cache[k].ver /\ cache'[k].plan = cache[k].plan
  /\ cache'[k].gen = cache[k].gen /\ cache'[k].tainted = cache[k].tainted
  /\ (cache[k].raced => cache'[k].raced)

LEMMA CommitEffect ==
  ASSUME Shape, TypeOK, NEW w \in Writer, Commit(w)
  PROVE  \E kind \in Kind :
           /\ UNCHANGED <<cache, cat, plans, stale, gen, queue, inbox, con>>
           /\ \A k \in Affects(kind) : cat + row[k] < MaxChanges
           /\ writer[w].at = "idle"
           /\ writer' = [writer EXCEPT ![w] = [at |-> "evict", kind |-> kind]]
           /\ row' \in [Key -> Int]
           /\ \A k \in Key : row'[k] = IF k \in Affects(kind) THEN row[k] + 1 ELSE row[k]
           /\ left' = [k \in Key |-> IF k \in LeftToTTL(kind) THEN row[k] + 1 ELSE left[k]]
           /\ reader' \in [Reader -> Reading]
           /\ \A q \in Reader :
                /\ SameRead(q)
                /\ reader[q].key \in Affects(kind) \ LeftToTTL(kind) /\ reader[q].ver # Nothing
                     => reader'[q].raced
<1>1. PICK kind \in Kind :
        /\ \A k \in Affects(kind) : cat + row[k] < MaxChanges
        /\ row' = [k \in Key |-> IF k \in Affects(kind) THEN row[k] + 1 ELSE row[k]]
        /\ writer' = [writer EXCEPT ![w] = [at |-> "evict", kind |-> kind]]
        /\ left' = [k \in Key |-> IF k \in LeftToTTL(kind) THEN row[k] + 1 ELSE left[k]]
        /\ reader' = [r \in Reader |->
             IF reader[r].key \in Affects(kind) \ LeftToTTL(kind) /\ reader[r].ver # Nothing
               THEN [reader[r] EXCEPT !.raced = TRUE] ELSE reader[r]]
  BY DEF Commit, Room
<1>2. UNCHANGED <<cache, cat, plans, stale, gen, queue, inbox, con>> /\ writer[w].at = "idle"
  BY DEF Commit
<1>3. /\ row' \in [Key -> Int]
      /\ \A k \in Key : row'[k] = IF k \in Affects(kind) THEN row[k] + 1 ELSE row[k]
  BY <1>1, Parts
<1>4. ASSUME NEW q \in Reader
      PROVE  /\ reader'[q] \in Reading /\ SameRead(q)
             /\ reader[q].key \in Affects(kind) \ LeftToTTL(kind) /\ reader[q].ver # Nothing
                  => reader'[q].raced
  <2>1. reader[q] \in Reading
    BY Parts
  <2>2. CASE reader[q].key \in Affects(kind) \ LeftToTTL(kind) /\ reader[q].ver # Nothing
    <3>1. reader'[q] = [reader[q] EXCEPT !.raced = TRUE]
      BY <1>1, <2>2
    <3>2. /\ reader'[q] \in Reading /\ reader'[q].at = reader[q].at /\ reader'[q].key = reader[q].key
          /\ reader'[q].gen = reader[q].gen /\ reader'[q].ver = reader[q].ver
          /\ reader'[q].plan = reader[q].plan /\ reader'[q].raced = TRUE
          /\ reader'[q].tainted = reader[q].tainted
      BY <2>1, <3>1, RacedReading
    <3> QED BY <3>2 DEF SameRead
  <2>3. CASE ~ (reader[q].key \in Affects(kind) \ LeftToTTL(kind) /\ reader[q].ver # Nothing)
    <3>1. reader'[q] = reader[q]
      BY <1>1, <2>3
    <3> QED BY <2>1, <2>3, <3>1 DEF SameRead
  <2> QED BY <2>2, <2>3
<1>5. reader' \in [Reader -> Reading]
  BY <1>1, <1>4
<1> QED BY <1>1, <1>2, <1>3, <1>4, <1>5

LEMMA CommitStep ==
  ASSUME Inductive, NEW w \in Writer, Commit(w)
  PROVE  Inductive'
<1> USE DEF Inductive
<1>1. PICK kind \in Kind :
           /\ UNCHANGED <<cache, cat, plans, stale, gen, queue, inbox, con>>
           /\ \A k \in Affects(kind) : cat + row[k] < MaxChanges
           /\ writer[w].at = "idle"
           /\ writer' = [writer EXCEPT ![w] = [at |-> "evict", kind |-> kind]]
           /\ row' \in [Key -> Int]
           /\ \A k \in Key : row'[k] = IF k \in Affects(kind) THEN row[k] + 1 ELSE row[k]
           /\ left' = [k \in Key |-> IF k \in LeftToTTL(kind) THEN row[k] + 1 ELSE left[k]]
           /\ reader' \in [Reader -> Reading]
           /\ \A q \in Reader :
                /\ SameRead(q)
                /\ reader[q].key \in Affects(kind) \ LeftToTTL(kind) /\ reader[q].ver # Nothing
                     => reader'[q].raced
  BY CommitEffect
<1>2. /\ LeftToTTL(kind) \subseteq Affects(kind) /\ Affects(kind) \subseteq Key
      /\ \A k \in Affects(kind) : k \in Evicts(kind) \/ k \in LeftToTTL(kind)
  BY EvictedOrLeft
<1>3. /\ cat \in Int /\ 0 <= cat /\ Nothing = -1 /\ MaxChanges \in Int
      /\ \A k \in Key : row[k] \in Int /\ row[k] >= 0
      /\ "memberships" \in Key /\ "tenant" \in Key /\ \A k \in Key : k = "memberships" \/ k = "tenant"
  BY Parts, Constants, ChangesAssumption
<1>4. \A k \in Key : row'[k] \in Int /\ row[k] <= row'[k]
  BY <1>1, <1>3
<1>5. Counted'
  BY <1>1, <1>2, <1>3 DEF Counted
<1>6. \A k \in Key : row'[k] \in Version /\ left'[k] \in Version
  <2>1. \A k \in Key : row'[k] \in Version
    BY <1>1, <1>3, <1>4, <1>5 DEF Counted, Version
  <2>2. ASSUME NEW k \in Key PROVE left'[k] \in Version
    <3>1. CASE k \in LeftToTTL(kind)
      BY <1>1, <1>2, <2>1, <3>1
    <3>2. CASE k \notin LeftToTTL(kind)
      BY <1>1, <3>2 DEF TypeOK
    <3> QED BY <3>1, <3>2
  <2> QED BY <2>1, <2>2
<1>7. Shape'
  BY <1>1 DEF Shape
<1>8. writer' \in [Writer -> [at : {"idle", "evict"}, kind : Kind]]
  BY <1>1 DEF TypeOK
<1>9. \A k \in Key : EntryOK(cache[k], k)'
  BY <1>1, <1>3, <1>4, Parts DEF EntryOK
<1>10. \A q \in Reader : ReaderOK(q)'
  BY <1>1, <1>3, <1>4, Parts DEF ReaderOK, SameRead
<1>11. TypeOK'
  <2>1. row' \in [Key -> Version] /\ left' \in [Key -> Version]
    BY <1>1, <1>6
  <2>2. \A k \in Key : {cache'[k].raced, cache'[k].tainted} \subseteq BOOLEAN
    BY <1>1 DEF TypeOK
  <2>3. \A q \in Reader : reader'[q] \in Reading
    BY <1>1
  <2> QED BY <1>1, <1>8, <1>9, <1>10, <2>1, <2>2, <2>3 DEF TypeOK, EntryOK, ReaderOK, Reading
<1>12. Behind'
  <2>1. \A k \in Key : Overdue(k) => Overdue(k)'
    <3> SUFFICES ASSUME NEW k \in Key, NEW v \in Writer, writer[v].at = "evict",
                        k \in Evicts(writer[v].kind)
                 PROVE  Overdue(k)'
      BY DEF Overdue
    <3>1. v # w /\ writer'[v] = writer[v]
      BY <1>1 DEF TypeOK
    <3> QED BY <3>1 DEF Overdue, Evicts, InvalidateMember, InvalidateBoth, InvalidateCache
  <2>2. \A k \in Evicts(kind) : Overdue(k)'
    <3>1. writer'[w].at = "evict" /\ writer'[w].kind = kind
      BY <1>1 DEF TypeOK
    <3> QED BY <3>1 DEF Overdue, Evicts, InvalidateMember, InvalidateBoth, InvalidateCache
  <2>3. ASSUME NEW k \in Key PROVE EntryBehind(k)'
    <3>1. cache'[k] = cache[k] /\ EntryBehind(k) /\ cache[k].ver \in Int /\ cache[k].ver <= row[k]
      BY <1>1, <1>3, Parts DEF Behind, EntryOK, Entry
    <3>2. CASE k \in Affects(kind)
      <4>1. CASE k \in Evicts(kind)
        BY <2>2, <4>1 DEF EntryBehind
      <4>2. CASE k \in LeftToTTL(kind)
        BY <1>1, <1>3, <3>1, <4>2 DEF EntryBehind
      <4> QED BY <1>2, <3>2, <4>1, <4>2
    <3>3. CASE k \notin Affects(kind)
      <4>1. row'[k] = row[k] /\ left'[k] = left[k]
        BY <1>1, <1>2, <3>3
      <4> QED BY <2>1, <3>1, <4>1 DEF EntryBehind
    <3> QED BY <3>2, <3>3
  <2>4. ASSUME NEW q \in Reader PROVE ReaderBehind(q)'
    <3>1. /\ SameRead(q) /\ ReaderBehind(q) /\ reader[q].key \in Key
          /\ reader[q].ver \in Int /\ reader[q].ver <= row[reader[q].key]
      BY <1>1, <1>3, Parts DEF Behind, ReaderOK, Reading
    <3>2. CASE reader[q].key \in Affects(kind) \ LeftToTTL(kind)
      BY <1>1, <3>1, <3>2 DEF ReaderBehind, SameRead
    <3>3. CASE reader[q].key \in LeftToTTL(kind)
      BY <1>1, <1>3, <3>1, <3>3 DEF ReaderBehind, SameRead
    <3>4. CASE reader[q].key \notin Affects(kind)
      BY <1>1, <1>2, <3>1, <3>4 DEF ReaderBehind, SameRead
    <3> QED BY <3>2, <3>3, <3>4
  <2> QED BY <2>3, <2>4 DEF Behind
<1>13. Keeps
  BY <1>1 DEF Keeps, Cleared, PlansNew, SeedNew, SameRead
<1>14. \A q \in Reader : ReaderGuarded(q)'
  <2> SUFFICES ASSUME NEW q \in Reader PROVE ReaderGuarded(q)'
    OBVIOUS
  <2>1. SameRead(q) /\ ReaderGuarded(q)
    BY <1>1 DEF Guarded
  <2> QED BY <1>13, <2>1, GuardKept DEF SameRead
<1>15. EntryGuarded'
  BY <1>1 DEF Guarded, EntryGuarded
<1>16. Guarded'
  BY <1>1, <1>13, <1>14, <1>15, GuardsKept
<1> QED BY <1>5, <1>7, <1>11, <1>12, <1>16

(* A step that only empties entries, marks them, or settles a writer.        *)
LEMMA CacheStep ==
  ASSUME Inductive, UNCHANGED <<row, left, cat, plans, stale, gen, queue, inbox, con, reader>>,
         cache' \in [Key -> Entry], writer' \in [Writer -> [at : {"idle", "evict"}, kind : Kind]],
         \A k \in Key : cache'[k] = NoEntry \/ SameEntry(k),
         \A k \in Key : EntryBehind(k)'
  PROVE  Inductive'
<1> USE DEF Inductive
<1>1. Shape' /\ Counted'
  BY DEF Shape, Counted
<1>2. \A k \in Key : EntryOK(cache[k], k)'
  <2> SUFFICES ASSUME NEW k \in Key PROVE EntryOK(cache[k], k)'
    OBVIOUS
  <2>1. EntryOK(cache[k], k) /\ row[k] \in Int /\ row[k] >= 0 /\ cat \in Int /\ 0 <= cat /\ Nothing = -1
    BY Parts, Constants
  <2>2. CASE cache'[k] = NoEntry
    BY <2>1, <2>2, NoEntryFields DEF EntryOK
  <2>3. CASE SameEntry(k)
    BY <2>1, <2>3 DEF EntryOK, SameEntry
  <2> QED BY <2>2, <2>3
<1>3. TypeOK'
  <2>1. \A k \in Key : {cache'[k].raced, cache'[k].tainted} \subseteq BOOLEAN
    BY DEF Entry
  <2> QED BY <1>2, <2>1 DEF TypeOK, EntryOK
<1>4. Behind'
  BY DEF Behind, ReaderBehind
<1>5. Keeps
  BY DEF Keeps, Cleared, PlansNew, SeedNew
<1>6. \A q \in Reader : ReaderGuarded(q)'
  BY <1>5, GuardKept DEF Guarded
<1>7. EntryGuarded'
  <2>1. CASE cache'["memberships"] = NoEntry
    BY <2>1, NoEntryFields DEF EntryGuarded
  <2>2. CASE SameEntry("memberships")
    BY <2>2 DEF Guarded, EntryGuarded, SameEntry
  <2> QED BY <2>1, <2>2, Constants
<1>8. Guarded'
  BY <1>5, <1>6, <1>7, GuardsKept
<1> QED BY <1>1, <1>3, <1>4, <1>8

LEMMA ExpireStep ==
  ASSUME Inductive, NEW j \in Key, ExpireEntry(j)
  PROVE  Inductive'
<1>1. /\ UNCHANGED <<row, left, cat, plans, stale, gen, queue, inbox, con, reader, writer>>
      /\ cache' = [cache EXCEPT ![j] = NoEntry]
  BY DEF ExpireEntry
<1>2. cache \in [Key -> Entry] /\ writer \in [Writer -> [at : {"idle", "evict"}, kind : Kind]]
  BY DEF Inductive, Shape, TypeOK
<1>3. /\ cache' \in [Key -> Entry] /\ cache'[j] = NoEntry
      /\ \A k \in Key \ {j} : cache'[k] = cache[k]
  BY <1>1, <1>2, NoEntryFields
<1>4. \A k \in Key : cache'[k] = NoEntry \/ SameEntry(k)
  BY <1>3 DEF SameEntry
<1>5. \A k \in Key : EntryBehind(k)'
  <2>1. EntryBehind(j)'
    BY <1>3, NoEntryFields DEF EntryBehind
  <2>2. \A k \in Key \ {j} : EntryBehind(k)'
    BY <1>1, <1>3 DEF Inductive, Behind, EntryBehind, Overdue
  <2> QED BY <2>1, <2>2
<1> QED BY <1>1, <1>2, <1>3, <1>4, <1>5, CacheStep

LEMMA EvictStep ==
  ASSUME Inductive, NEW w \in Writer, Evict(w)
  PROVE  Inductive'
<1> DEFINE kind == writer[w].kind
<1>1. PICK missed \in SUBSET Evicts(kind) :
        cache' = [k \in Key |->
                    IF k \notin Evicts(kind) \/ cache[k].ver = Nothing THEN cache[k]
                    ELSE IF k \in missed THEN [cache[k] EXCEPT !.raced = TRUE]
                    ELSE NoEntry]
  BY DEF Evict
<1>2. /\ UNCHANGED <<row, left, cat, plans, stale, gen, queue, inbox, con, reader>>
      /\ writer' = [writer EXCEPT ![w] = WriterIdle]
  BY DEF Evict
<1>3. writer \in [Writer -> [at : {"idle", "evict"}, kind : Kind]] /\ cache \in [Key -> Entry]
  BY DEF Inductive, Shape, TypeOK
<1>4. writer' \in [Writer -> [at : {"idle", "evict"}, kind : Kind]]
  BY <1>2, <1>3 DEF WriterIdle, Kind
<1>5. PICK E : E = Evicts(kind)
  OBVIOUS
<1>6. \A k \in Key : k \notin E /\ Overdue(k) => Overdue(k)'
  <2> SUFFICES ASSUME NEW k \in Key, k \notin E, NEW v \in Writer, writer[v].at = "evict",
                      k \in Evicts(writer[v].kind)
               PROVE  Overdue(k)'
    BY DEF Overdue
  <2>1. v # w /\ writer'[v] = writer[v]
    BY <1>2, <1>3, <1>5
  <2> QED BY <2>1 DEF Overdue, Evicts, InvalidateMember, InvalidateBoth, InvalidateCache
<1>7. ASSUME NEW k \in Key
      PROVE  cache'[k] \in Entry /\ (cache'[k] = NoEntry \/ SameEntry(k)) /\ EntryBehind(k)'
  <2>1. cache[k] \in Entry /\ EntryBehind(k)
    BY <1>3 DEF Inductive, Behind
  <2>2. CASE k \notin E \/ cache[k].ver = Nothing
    <3>1. cache'[k] = cache[k]
      BY <1>1, <1>5, <2>2
    <3>2. EntryBehind(k)'
      BY <1>2, <1>6, <2>1, <2>2, <3>1 DEF EntryBehind
    <3> QED BY <2>1, <3>1, <3>2 DEF SameEntry
  <2>3. CASE k \in E /\ cache[k].ver # Nothing /\ k \in missed
    <3>1. cache'[k] = [cache[k] EXCEPT !.raced = TRUE]
      BY <1>1, <1>5, <2>3
    <3>2. /\ cache'[k] \in Entry /\ cache'[k].ver = cache[k].ver /\ cache'[k].plan = cache[k].plan
          /\ cache'[k].gen = cache[k].gen /\ cache'[k].raced = TRUE
          /\ cache'[k].tainted = cache[k].tainted
      BY <2>1, <3>1, RacedEntry
    <3> QED BY <3>2 DEF SameEntry, EntryBehind
  <2>4. CASE k \in E /\ cache[k].ver # Nothing /\ k \notin missed
    <3>1. cache'[k] = NoEntry
      BY <1>1, <1>5, <2>4
    <3> QED BY <3>1, NoEntryFields DEF EntryBehind
  <2> QED BY <2>2, <2>3, <2>4
<1>8. cache' \in [Key -> Entry]
  BY <1>1, <1>7
<1> QED BY <1>2, <1>4, <1>7, <1>8, CacheStep

(* The steps of the Catalog Service and the consumer, and the TTL of the     *)
(* catalogue: om:plans and its copy may empty, the catalogue may grow.       *)
LEMMA CatalogStep ==
  ASSUME Inductive, UNCHANGED <<row, left, cache, reader, writer>>,
         cat' \in Int, cat <= cat', \A k \in Key : cat' + row[k] <= MaxChanges,
         plans' \in {plans, NoPlans}, stale' \in {stale, NoPlans},
         con' \in [at : {"idle", "clear", "bump", "commit"}, id : Int], con'.id \in 0..cat',
         con'.at # "idle" => con'.id >= 1,
         queue' \subseteq 1..cat', inbox' \subseteq 1..cat',
         gen' = gen \/ (gen' = con.id /\ con.at \in {"bump", "commit"}),
         con'.at \in {"bump", "commit"} => con'.id = con.id /\ con.at \in {"bump", "commit"}
  PROVE  Inductive'
<1> USE DEF Inductive
<1>1. /\ cat \in Int /\ 0 <= cat /\ gen \in 0..cat /\ con.id \in 0..cat /\ Nothing = -1
      /\ (\A k \in Key : row[k] \in Int /\ row[k] >= 0) /\ Key # {} /\ MaxChanges \in Int
      /\ plans.ver \in Nothing..cat /\ stale.ver \in Nothing..cat
  BY Parts, Constants, ChangesAssumption DEF TypeOK
<1>2. plans' \in Plans /\ stale' \in Plans
  BY NoPlansFields DEF Shape
<1>3. plans'.ver \in Nothing..cat' /\ stale'.ver \in Nothing..cat'
  <2>1. plans'.ver \in Nothing..cat'
    <3>1. CASE plans' = plans
      BY <1>1, <3>1
    <3>2. CASE plans' = NoPlans
      BY <1>1, <3>2, NoPlansFields
    <3> QED BY <3>1, <3>2
  <2>2. stale'.ver \in Nothing..cat'
    <3>1. CASE stale' = stale
      BY <1>1, <3>1
    <3>2. CASE stale' = NoPlans
      BY <1>1, <3>2, NoPlansFields
    <3> QED BY <3>1, <3>2
  <2> QED BY <2>1, <2>2
<1>4. Shape'
  BY <1>2 DEF Shape
<1>5. Counted'
  BY DEF Counted
<1>6. \A k \in Key : EntryOK(cache[k], k)'
  BY <1>1, Parts DEF EntryOK
<1>7. \A q \in Reader : ReaderOK(q)'
  BY <1>1, Parts DEF ReaderOK
<1>8. TypeOK'
  <2>1. cat' \in Version /\ gen' \in 0..cat'
    BY <1>1 DEF Version
  <2> QED BY <1>3, <1>6, <1>7, <2>1 DEF TypeOK, EntryOK, ReaderOK
<1>9. Behind'
  BY DEF Behind, EntryBehind, ReaderBehind, Overdue
<1>10. Keeps
  <2> SUFFICES ASSUME NEW g \in Int, Cleared(g) PROVE Cleared(g)'
    BY DEF Keeps
  <2>1. PlansNew(plans, g)' /\ PlansNew(stale, g)'
    BY NoPlansFields DEF Cleared, PlansNew
  <2>2. g <= cat'
    BY <1>1 DEF Cleared
  <2> QED BY <2>1, <2>2 DEF Cleared, SeedNew
<1>11. \A q \in Reader : ReaderGuarded(q)'
  BY <1>10, GuardKept DEF Guarded
<1>12. EntryGuarded'
  BY DEF Guarded, EntryGuarded
<1>13. Guarded'
  BY <1>10, <1>11, <1>12, GuardsKept
<1> QED BY <1>4, <1>5, <1>8, <1>9, <1>13

LEMMA CatalogActions ==
  ASSUME Inductive,
         \/ ExpirePlans \/ ExpireStale \/ CatalogChange \/ Receive \/ Bump \/ CommitInbox
         \/ ConsumerFails \/ UNCHANGED vars
  PROVE  Inductive'
<1>1. /\ cat \in Int /\ 0 <= cat /\ con.id \in 0..cat /\ (\A k \in Key : row[k] \in Int)
      /\ con \in [at : {"idle", "clear", "bump", "commit"}, id : Int]
      /\ (con.at # "idle" => con.id >= 1)
      /\ queue \subseteq 1..cat /\ inbox \subseteq 1..cat /\ MaxChanges \in Int
      /\ \A k \in Key : cat + row[k] <= MaxChanges
  BY Parts, Constants, ChangesAssumption DEF Inductive, TypeOK, Counted, Shape
<1>2. CASE ExpirePlans
  BY <1>1, <1>2, CatalogStep DEF ExpirePlans
<1>3. CASE ExpireStale
  BY <1>1, <1>3, CatalogStep DEF ExpireStale
<1>4. CASE CatalogChange
  <2>1. /\ UNCHANGED <<row, left, cache, plans, stale, gen, inbox, con, reader, writer>> /\ cat' = cat + 1
        /\ (\A k \in Key : cat + row[k] < MaxChanges)
        /\ queue' = queue \/ queue' = queue \cup {cat'}
    BY <1>4 DEF CatalogChange, Room
  <2>2. cat' \in Int /\ cat <= cat' /\ \A k \in Key : cat' + row[k] <= MaxChanges
    BY <1>1, <2>1
  <2>3. queue' \subseteq 1..cat' /\ inbox' \subseteq 1..cat' /\ con'.id \in 0..cat'
    <3>1. 1..cat \subseteq 1..cat' /\ cat' \in 1..cat' /\ 0..cat \subseteq 0..cat'
      BY <1>1, <2>1
    <3> QED BY <1>1, <2>1, <3>1
  <2> QED BY <1>1, <2>1, <2>2, <2>3, CatalogStep
<1>5. CASE Receive
  <2>1. PICK id \in queue : IF id \in inbox THEN queue' = queue \ {id} /\ UNCHANGED con
                            ELSE con' = [at |-> "clear", id |-> id] /\ UNCHANGED queue
    BY <1>5 DEF Receive
  <2>2. /\ UNCHANGED <<row, left, cache, cat, plans, stale, gen, inbox, reader, writer>> /\ con.at = "idle"
    BY <1>5 DEF Receive
  <2>3. id \in Int /\ 1 <= id /\ id <= cat /\ id \in 0..cat
    BY <1>1
  <2>4. queue' \subseteq 1..cat
    BY <1>1, <2>1
  <2>5. CASE id \in inbox
    <3>1. con' = con
      BY <2>1, <2>5
    <3> QED BY <1>1, <2>2, <2>4, <3>1, CatalogStep
  <2>6. CASE id \notin inbox
    <3>1. /\ con' \in [at : {"idle", "clear", "bump", "commit"}, id : Int]
          /\ con'.at = "clear" /\ con'.id = id
      BY <2>1, <2>3, <2>6
    <3> QED BY <1>1, <2>2, <2>3, <2>4, <3>1, CatalogStep
  <2> QED BY <2>5, <2>6
<1>6. CASE Bump
  <2>1. /\ UNCHANGED <<row, left, cache, cat, plans, stale, queue, inbox, reader, writer>>
        /\ con.at = "bump" /\ gen' = con.id /\ con' = [con EXCEPT !.at = "commit"]
    BY <1>6 DEF Bump
  <2>2. con' \in [at : {"idle", "clear", "bump", "commit"}, id : Int] /\ con'.id = con.id
    BY <1>1, <2>1
  <2> QED BY <1>1, <2>1, <2>2, CatalogStep
<1>7. ConIdle \in [at : {"idle", "clear", "bump", "commit"}, id : Int] /\ ConIdle.at = "idle"
      /\ ConIdle.id = 0
  BY DEF ConIdle
<1>8. CASE CommitInbox
  <2>1. /\ UNCHANGED <<row, left, cache, cat, plans, stale, gen, reader, writer>> /\ con.at = "commit"
        /\ con' = ConIdle /\ inbox' = inbox \cup {con.id}
        /\ queue' \subseteq queue
    BY <1>8 DEF CommitInbox
  <2>2. con.id \in 1..cat
    BY <1>1, <2>1
  <2>3. inbox' \subseteq 1..cat /\ queue' \subseteq 1..cat
    BY <1>1, <2>1, <2>2, Zenon
  <2>4. con'.id \in 0..cat
    BY <1>1, <1>7, <2>1
  <2> QED BY <1>1, <1>7, <2>1, <2>3, <2>4, CatalogStep
<1>9. CASE ConsumerFails
  <2>1. /\ UNCHANGED <<row, left, cache, cat, plans, stale, gen, queue, inbox, reader, writer>>
        /\ con' = ConIdle
    BY <1>9 DEF ConsumerFails
  <2> QED BY <1>1, <1>7, <2>1, CatalogStep
<1>10. CASE UNCHANGED vars
  BY <1>1, <1>10, CatalogStep DEF vars
<1> QED BY <1>2, <1>3, <1>4, <1>5, <1>6, <1>8, <1>9, <1>10

LEMMA ClearEffect ==
  ASSUME Shape, TypeOK, ClearPlans
  PROVE  /\ UNCHANGED <<row, left, cache, cat, gen, queue, inbox, writer>>
         /\ con.at = "clear" /\ plans' = NoPlans /\ stale' = NoPlans
         /\ con' \in [at : {"idle", "clear", "bump", "commit"}, id : Int]
         /\ con'.at = "bump" /\ con'.id = con.id
         /\ reader' \in [Reader -> Reading]
         /\ \A q \in Reader : /\ SameRead(q) /\ reader'[q].raced = reader[q].raced
                              /\ reader[q].at = "seed" => reader'[q].tainted
<1>1. /\ UNCHANGED <<row, left, cache, cat, gen, queue, inbox, writer>>
      /\ con.at = "clear" /\ plans' = NoPlans /\ stale' = NoPlans
      /\ con' = [con EXCEPT !.at = "bump"]
      /\ reader' = [r \in Reader |-> IF reader[r].at = "seed"
                                       THEN [reader[r] EXCEPT !.tainted = TRUE] ELSE reader[r]]
  BY DEF ClearPlans
<1>2. /\ con' \in [at : {"idle", "clear", "bump", "commit"}, id : Int]
      /\ con'.at = "bump" /\ con'.id = con.id
  BY <1>1 DEF Shape
<1>3. ASSUME NEW q \in Reader
      PROVE  /\ reader'[q] \in Reading /\ SameRead(q) /\ reader'[q].raced = reader[q].raced
             /\ reader[q].at = "seed" => reader'[q].tainted
  <2>1. reader[q] \in Reading
    BY Parts
  <2>2. CASE reader[q].at = "seed"
    <3>1. reader'[q] = [reader[q] EXCEPT !.tainted = TRUE]
      BY <1>1, <2>2
    <3>2. /\ reader'[q] \in Reading /\ reader'[q].at = reader[q].at /\ reader'[q].key = reader[q].key
          /\ reader'[q].gen = reader[q].gen /\ reader'[q].ver = reader[q].ver
          /\ reader'[q].plan = reader[q].plan /\ reader'[q].raced = reader[q].raced
          /\ reader'[q].tainted = TRUE
      BY <2>1, <3>1, TaintedReading
    <3> QED BY <3>2 DEF SameRead
  <2>3. CASE reader[q].at # "seed"
    <3>1. reader'[q] = reader[q]
      BY <1>1, <2>3
    <3> QED BY <2>1, <2>3, <3>1 DEF SameRead
  <2> QED BY <2>2, <2>3
<1>4. reader' \in [Reader -> Reading]
  BY <1>1, <1>3
<1> QED BY <1>1, <1>2, <1>3, <1>4

LEMMA ClearStep ==
  ASSUME Inductive, ClearPlans
  PROVE  Inductive'
<1> USE DEF Inductive
<1>1. /\ UNCHANGED <<row, left, cache, cat, gen, queue, inbox, writer>>
      /\ con.at = "clear" /\ plans' = NoPlans /\ stale' = NoPlans
      /\ con' \in [at : {"idle", "clear", "bump", "commit"}, id : Int]
      /\ con'.at = "bump" /\ con'.id = con.id
      /\ reader' \in [Reader -> Reading]
      /\ \A q \in Reader : /\ SameRead(q) /\ reader'[q].raced = reader[q].raced
                           /\ reader[q].at = "seed" => reader'[q].tainted
  BY ClearEffect
<1>2. cat \in Int /\ 0 <= cat /\ Nothing = -1 /\ gen \in Int /\ con.id \in Int /\ con.id <= cat
  BY Parts, Constants
<1>3. Shape' /\ Counted'
  BY <1>1, NoPlansFields DEF Shape, Counted
<1>4. TypeOK'
  <2>1. \A q \in Reader : ReaderOK(q)'
    BY <1>1, Parts DEF ReaderOK, SameRead
  <2>2. plans'.ver \in Nothing..cat /\ stale'.ver \in Nothing..cat
    BY <1>1, <1>2, NoPlansFields
  <2>3. \A q \in Reader : reader'[q] \in Reading
    BY <1>1
  <2> QED BY <1>1, <2>1, <2>2, <2>3 DEF TypeOK, ReaderOK, Reading
<1>5. Behind'
  <2>1. \A k \in Key : EntryBehind(k)'
    BY <1>1 DEF Behind, EntryBehind, Overdue
  <2>2. \A q \in Reader : ReaderBehind(q)'
    BY <1>1 DEF Behind, ReaderBehind, SameRead
  <2> QED BY <2>1, <2>2 DEF Behind
<1>6. \A g \in Int : g <= cat => Cleared(g)'
  <2> SUFFICES ASSUME NEW g \in Int, g <= cat PROVE Cleared(g)'
    OBVIOUS
  <2>1. PlansNew(plans, g)' /\ PlansNew(stale, g)'
    BY <1>1, NoPlansFields DEF PlansNew
  <2>2. \A q \in Reader : SeedNew(q, g)'
    BY <1>1 DEF SeedNew, SameRead
  <2> QED BY <1>1, <2>1, <2>2 DEF Cleared
<1>7. Keeps
  BY <1>6 DEF Keeps, Cleared
<1>8. \A q \in Reader : ReaderGuarded(q)'
  <2> SUFFICES ASSUME NEW q \in Reader PROVE ReaderGuarded(q)'
    OBVIOUS
  <2>1. SameRead(q) /\ ReaderGuarded(q)
    BY <1>1 DEF Guarded
  <2> QED BY <1>7, <2>1, GuardKept DEF SameRead
<1>9. EntryGuarded'
  BY <1>1 DEF Guarded, EntryGuarded
<1>10. Cleared(gen)' /\ Cleared(con.id)'
  <2>1. PICK g \in Int, h \in Int : g = gen /\ h = con.id
    BY <1>2
  <2>2. Cleared(g)' /\ Cleared(h)'
    BY <1>2, <1>6, <1>7, <2>1 DEF Keeps, Guarded
  <2> QED BY <1>1, <2>1, <2>2 DEF Cleared, SeedNew, PlansNew
<1>11. Guarded'
  BY <1>8, <1>9, <1>10 DEF Guarded
<1> QED BY <1>3, <1>4, <1>5, <1>11

LEMMA InductiveInit == Init => Inductive
<1> SUFFICES ASSUME Init PROVE Inductive
  OBVIOUS
<1> USE DEF Init
<1>1. \A r \in Reader : reader[r] = Idle
  OBVIOUS
<1>2. \A k \in Key : cache[k] = NoEntry /\ row[k] = 0
  OBVIOUS
<1>3. \A w \in Writer : writer[w] = WriterIdle
  OBVIOUS
<1>4. Nothing = -1 /\ 0 \in Version /\ MaxChanges \in Int /\ 0 <= MaxChanges
  BY ChangesAssumption, Constants DEF Version
<1>5. Shape
  BY IdleFields, NoEntryFields, NoPlansFields DEF Shape, ConIdle
<1>6. TypeOK
  <2>1. \A k \in Key : /\ cache[k].ver \in Nothing..row[k]
                       /\ cache[k].plan \in Nothing..cat /\ cache[k].gen \in 0..cat
                       /\ {cache[k].raced, cache[k].tainted} \subseteq BOOLEAN
    BY <1>2, <1>4, NoEntryFields DEF Entry
  <2>2. \A r \in Reader : /\ reader[r].at \in {"idle", "read", "plan", "seed", "fill"}
                          /\ reader[r].key \in Key
                          /\ reader[r].ver \in Nothing..row[reader[r].key]
                          /\ reader[r].plan \in Nothing..cat /\ reader[r].gen \in Nothing..cat
    BY <1>1, <1>2, <1>4, IdleFields, Constants
  <2>3. writer \in [Writer -> [at : {"idle", "evict"}, kind : Kind]]
    BY DEF WriterIdle, Kind
  <2>4. plans.ver \in Nothing..cat /\ stale.ver \in Nothing..cat
    BY <1>4, NoPlansFields
  <2>5. con.at = "idle" /\ con.id = 0
    BY DEF ConIdle
  <2> QED BY <1>4, <2>1, <2>2, <2>3, <2>4, <2>5 DEF TypeOK
<1>7. Counted
  BY <1>2, <1>4, Constants DEF Counted
<1>8. Behind
  BY <1>1, <1>2, IdleFields, NoEntryFields DEF Behind, EntryBehind, ReaderBehind
<1>9. Guarded
  <2>1. Cleared(gen)
    BY <1>1, IdleFields, NoPlansFields DEF Cleared, PlansNew, SeedNew
  <2>2. con.at = "idle" /\ \A r \in Reader : ReaderGuarded(r)
    BY <1>1, IdleFields DEF ReaderGuarded, ConIdle
  <2>3. EntryGuarded
    BY <1>2, NoEntryFields, Constants DEF EntryGuarded
  <2> QED BY <2>1, <2>2, <2>3 DEF Guarded
<1> QED BY <1>5, <1>6, <1>7, <1>8, <1>9 DEF Inductive

LEMMA InductiveStep ==
  ASSUME Inductive, [Next]_vars
  PROVE  Inductive'
<1>1. ASSUME NEW r \in Reader, Read(r) PROVE Inductive'
  <2>1. CASE Miss(r)
    BY <2>1, MissStep
  <2>2. CASE ReadRow(r)
    BY <2>2, ReadRowStep
  <2>3. CASE PlansHit(r) \/ PlansFetch(r) \/ PlansStale(r)
    BY <2>3, PlanStep
  <2>4. CASE PlansSeed(r)
    BY <2>4, SeedStep
  <2>5. CASE Fill(r)
    BY <2>5, FillStep
  <2> QED BY <1>1, <2>1, <2>2, <2>3, <2>4, <2>5 DEF Read
<1>2. ASSUME NEW w \in Writer, Commit(w) PROVE Inductive'
  BY <1>2, CommitStep
<1>3. ASSUME NEW w \in Writer, Evict(w) PROVE Inductive'
  BY <1>3, EvictStep
<1>4. ASSUME NEW k \in Key, ExpireEntry(k) PROVE Inductive'
  BY <1>4, ExpireStep
<1>5. CASE ClearPlans
  BY <1>5, ClearStep
<1>6. CASE \/ ExpirePlans \/ ExpireStale \/ CatalogChange \/ Receive \/ Bump \/ CommitInbox
           \/ ConsumerFails \/ UNCHANGED vars
  BY <1>6, CatalogActions
<1> QED BY <1>1, <1>2, <1>3, <1>4, <1>5, <1>6 DEF Next, Consume

LEMMA InductiveHolds == Spec => []Inductive
<1> QED BY InductiveInit, InductiveStep, PTL DEF Spec

-----------------------------------------------------------------------------
(* The theorems.                                                             *)

(* Every variable has its type, and no key, no copy of the plan catalogue    *)
(* and no generation is ahead of what it was read from.                      *)
THEOREM TypeCorrect == Spec => []TypeOK
<1>1. Inductive => TypeOK
  BY DEF Inductive
<1> QED BY <1>1, InductiveHolds, PTL

(* Once no mutation is between its commit and its eviction, an entry of      *)
(* om:memberships or om:tenant that is out of date was filled from a read    *)
(* older than the eviction, or its eviction failed, or it is older than a    *)
(* write that evicts nothing for that key and leaves it to its TTL.          *)
THEOREM StalenessIsExplained == Spec => []StaleOnlyByRaceOrTTL
<1>1. Inductive => StaleOnlyByRaceOrTTL
  BY DEF Inductive, Behind, EntryBehind, Overdue, StaleOnlyByRaceOrTTL
<1> QED BY <1>1, InductiveHolds, PTL

(* An entry that I-8 serves shows a plan at least as new as the event that   *)
(* set the generation, unless the catalogue it was built from is known to    *)
(* have been missing or fetched before om:plans was cleared.                 *)
THEOREM GenerationsGuard == Spec => []GenerationGuards
<1>1. Inductive => GenerationGuards
  <2> SUFFICES ASSUME Inductive, Servable, cache["memberships"].plan < gen
               PROVE  cache["memberships"].tainted
    BY DEF GenerationGuards
  <2>1. cache["memberships"] \in Entry
    BY Constants DEF Inductive, Shape
  <2>2. cache["memberships"].plan \in Int /\ cache["memberships"].gen \in Int
    BY <2>1 DEF Entry
  <2> QED BY <2>2 DEF Inductive, Guarded, EntryGuarded, Servable
<1> QED BY <1>1, InductiveHolds, PTL
=============================================================================
