------------------------ MODULE TenantSettingsProofs ------------------------
(***************************************************************************)
(* Theorems of TenantSettings, for any set of concurrent requests.         *)
(***************************************************************************)
EXTENDS TenantSettings, TLAPS

(* What RealmMarked rests on, for the setting the Realm Provisioner holds.   *)
(* A request whose version still matches knows whether its UPDATE changes    *)
(* local_accounts_enabled; a sync that no later commit has overtaken carries *)
(* the setting of the row, and so does the job; a job that is about to clear *)
(* the marker leaves no setting behind that only the marker tells of.        *)
SyncKnown ==
  \A r \in Req :
    req[r].at = "update" /\ req[r].fresh =>
      ("local" \in DOMAIN req[r].body /\ req[r].body["local"] # row["local"] => req[r].sync)

SyncsCurrent ==
  \A r \in Req : req[r].at \in {"realm", "mark"} /\ ~req[r].overtaken =>
    req[r].body["local"] = row["local"]

JobCurrent == job.at # "idle" /\ ~job.overtaken => job.local = row["local"]

Explained ==
  \/ desired = row["local"]
  \/ \E r \in Req : req[r].at \in {"realm", "mark"}
  \/ drift # "none"

MarkedOrExplained == row["pending"] \/ Explained

ClearSafe == job.at = "clear" /\ ~job.overtaken => Explained

RealmInv == SyncKnown /\ SyncsCurrent /\ JobCurrent /\ ClearSafe /\ MarkedOrExplained

-----------------------------------------------------------------------------
(* A body sets some of the three settings, each to a Boolean.                *)
LEMMA BodyFacts ==
  ASSUME NEW b \in Body
  PROVE  /\ DOMAIN b \subseteq {"local", "mode", "flags"}
         /\ \A f \in DOMAIN b : b[f] \in BOOLEAN
  BY DEF Body, PatchBody, FlagsBody, NoBody

LEMMA RowFacts ==
  ASSUME TypeOK
  PROVE  row["local"] \in BOOLEAN /\ row.local = row["local"]
  BY DEF TypeOK, Field

LEMMA PatchedFacts ==
  ASSUME TypeOK, NEW b \in Body
  PROVE  /\ Patched(b) \in [Field -> BOOLEAN]
         /\ Patched(b)["pending"] = row["pending"]
         /\ Patched(b).pending = row.pending
         /\ \A f \in Field : Patched(b)[f] = IF f \in DOMAIN b THEN b[f] ELSE row[f]
  BY BodyFacts DEF TypeOK, Patched, Field

(* The values read before an UPDATE are Booleans.                            *)
LEMMA OldFacts ==
  ASSUME TypeOK, NEW S \in SUBSET Announced
  PROVE  [f \in S |-> row[f]] \in Old
<1>1. [f \in S |-> row[f]] \in [S -> BOOLEAN]
  BY DEF TypeOK, Field, Announced
<1> QED BY <1>1 DEF Old

LEMMA NoBodyFacts == NoBody \in Old /\ NoBody \in Body /\ DOMAIN NoBody = {}
<1>1. NoBody \in [{} -> BOOLEAN]
  BY DEF NoBody
<1>2. {} \in SUBSET Announced
  OBVIOUS
<1>3. [{} -> BOOLEAN] \in {[S -> BOOLEAN] : S \in SUBSET Announced}
  BY <1>2
<1> QED BY <1>1, <1>3 DEF Old, Body, NoBody

LEMMA IdleFacts ==
  /\ Idle \in Request
  /\ Idle.at = "idle" /\ Idle.sync = FALSE /\ Idle.fresh = FALSE /\ Idle.overtaken = FALSE
  /\ Idle.old = NoBody /\ Idle.body = NoBody
  BY NoBodyFacts DEF Idle, Request

(* A change of the Booleans of a request that keeps where it is.             *)
LEMMA TouchedFacts ==
  ASSUME NEW q \in Request
  PROVE  /\ Touched(q) \in Request /\ Passed(q) \in Request
         /\ Touched(q).at = q.at /\ Touched(q).body = q.body /\ Touched(q).old = q.old
         /\ Touched(q).sync = q.sync /\ Touched(q).fresh = FALSE
         /\ Touched(q).overtaken = q.overtaken
         /\ Passed(q).at = q.at /\ Passed(q).body = q.body /\ Passed(q).old = q.old
         /\ Passed(q).sync = q.sync /\ Passed(q).fresh = q.fresh
         /\ q.at \in {"realm", "mark"} => Passed(q).overtaken
         /\ q.overtaken => Passed(q).overtaken
  BY DEF Touched, Passed, Request

-----------------------------------------------------------------------------
(* What TypeOK says of a request beyond its record.                          *)
Shape(q) ==
  /\ DOMAIN q.old = DOMAIN q.body \cap Announced
  /\ q.sync => "local" \in DOMAIN q.body
  /\ q.at \in {"realm", "mark"} => q.sync

LEMMA ReqShape == TypeOK => \A r \in Req : req[r] \in Request /\ Shape(req[r])
  BY DEF TypeOK, Shape, Syncing

LEMMA ShapesSuffice ==
  ASSUME req' \in [Req -> Request], \A r \in Req : Shape(req'[r])
  PROVE  \A r \in Req : /\ DOMAIN req'[r].old = DOMAIN req'[r].body \cap Announced
                        /\ req'[r].sync => "local" \in DOMAIN req'[r].body
                        /\ r \in Syncing' => req'[r].sync
  BY DEF Shape, Syncing

LEMMA IdleShape == Shape(Idle)
  BY IdleFacts, NoBodyFacts DEF Shape

LEMMA PatchReadReq ==
  ASSUME TypeOK, NEW r \in Req, PatchRead(r)
  PROVE  req' \in [Req -> Request] /\ \A q \in Req : Shape(req'[q])
<1>1. PICK body \in PatchBody :
       req' = [req EXCEPT ![r] =
                 [Idle EXCEPT !.at = "update", !.body = body, !.fresh = TRUE,
                              !.old = [f \in DOMAIN body \cap Announced |-> row[f]],
                              !.sync = "local" \in DOMAIN body /\ row.local # body.local]]
  BY DEF PatchRead
<1> DEFINE old == [f \in DOMAIN body \cap Announced |-> row[f]]
           sync == "local" \in DOMAIN body /\ row.local # body.local
           new == [Idle EXCEPT !.at = "update", !.body = body, !.fresh = TRUE,
                               !.old = old, !.sync = sync]
<1>2. body \in Body /\ old \in Old /\ sync \in BOOLEAN
  BY OldFacts DEF Body
<1>3. DOMAIN old = DOMAIN body \cap Announced
  OBVIOUS
<1>4. /\ new \in Request /\ new.old = old /\ new.body = body /\ new.sync = sync
      /\ new.at = "update"
  <2> HIDE DEF old, sync
  <2> QED BY <1>2, IdleFacts DEF Request
<1>5. Shape(new)
  BY <1>3, <1>4 DEF Shape
<1>6. req' = [req EXCEPT ![r] = new]
  BY <1>1
<1> QED
  <2> HIDE DEF new
  <2> QED BY <1>4, <1>5, <1>6, ReqShape DEF TypeOK

LEMMA FlagsReadReq ==
  ASSUME TypeOK, NEW r \in Req, FlagsRead(r)
  PROVE  req' \in [Req -> Request] /\ \A q \in Req : Shape(req'[q])
<1>1. PICK body \in FlagsBody :
       req' = [req EXCEPT ![r] =
                 [Idle EXCEPT !.at = "update", !.body = body, !.fresh = TRUE,
                              !.old = [f \in Announced \cap DOMAIN body |-> row[f]]]]
  BY DEF FlagsRead
<1> DEFINE old == [f \in Announced \cap DOMAIN body |-> row[f]]
           new == [Idle EXCEPT !.at = "update", !.body = body, !.fresh = TRUE, !.old = old]
<1>2. body \in Body /\ old \in Old
  BY OldFacts DEF Body
<1>3. DOMAIN old = DOMAIN body \cap Announced
  OBVIOUS
<1>4. new \in Request /\ new.old = old /\ new.body = body /\ new.sync = FALSE /\ new.at = "update"
  <2> HIDE DEF old
  <2> QED BY <1>2, IdleFacts DEF Request
<1>5. Shape(new)
  BY <1>3, <1>4 DEF Shape
<1>6. req' = [req EXCEPT ![r] = new]
  BY <1>1
<1> QED
  <2> HIDE DEF new
  <2> QED BY <1>4, <1>5, <1>6, ReqShape DEF TypeOK

(* What a successful UPDATE does to the row and to every request.            *)
LEMMA UpdateFacts ==
  ASSUME TypeOK, NEW r \in Req, Update(r), VersionMatches(r)
  PROVE  /\ row' = Patched(req[r].body)
         /\ announced' = [s \in Announced |->
                            IF s \in DOMAIN req[r].body THEN req[r].body[s] ELSE announced[s]]
         /\ desired' = desired /\ realm' = realm
         /\ job' = [job EXCEPT !.overtaken =
                      (job.at # "idle" /\ row'.local # row.local) \/ job.overtaken]
         /\ req' \in [Req -> Request]
         /\ req'[r] = Idle \/ (req'[r] = [req[r] EXCEPT !.at = "realm"] /\ req[r].sync)
         /\ \A q \in Req \ {r} :
              /\ req'[q].at = req[q].at /\ req'[q].body = req[q].body
              /\ req'[q].old = req[q].old /\ req'[q].sync = req[q].sync
              /\ req'[q].fresh => req[q].fresh
              /\ row' # row => req'[q].fresh = FALSE
              /\ row'.local # row.local /\ req[q].at \in {"realm", "mark"} => req'[q].overtaken
              /\ req[q].overtaken => req'[q].overtaken
<1> DEFINE next == IF req[r].sync THEN [req[r] EXCEPT !.at = "realm"] ELSE Idle
           moved == Patched(req[r].body) # row
           passed == Patched(req[r].body).local # row.local
           p(q) == IF passed THEN Passed(req[q]) ELSE req[q]
           n(q) == IF moved THEN Touched(p(q)) ELSE p(q)
<1>1. /\ row' = Patched(req[r].body)
      /\ announced' = [s \in Announced |->
                         IF s \in DOMAIN req[r].body THEN req[r].body[s] ELSE announced[s]]
      /\ desired' = desired /\ realm' = realm
      /\ job' = [job EXCEPT !.overtaken = (job.at # "idle" /\ passed) \/ job.overtaken]
      /\ req' = [q \in Req |-> IF q = r THEN next ELSE n(q)]
  BY DEF Update
<1>2. next \in Request
  BY IdleFacts, ReqShape DEF Request
<1>3. ASSUME NEW q \in Req
      PROVE  /\ p(q) \in Request
             /\ p(q).at = req[q].at /\ p(q).body = req[q].body /\ p(q).old = req[q].old
             /\ p(q).sync = req[q].sync /\ p(q).fresh = req[q].fresh
             /\ passed /\ req[q].at \in {"realm", "mark"} => p(q).overtaken
             /\ req[q].overtaken => p(q).overtaken
  <2>1. req[q] \in Request
    BY ReqShape
  <2> QED BY <2>1, TouchedFacts
<1>4. ASSUME NEW q \in Req
      PROVE  /\ n(q) \in Request
             /\ n(q).at = req[q].at /\ n(q).body = req[q].body /\ n(q).old = req[q].old
             /\ n(q).sync = req[q].sync
             /\ n(q).fresh => req[q].fresh
             /\ moved => n(q).fresh = FALSE
             /\ passed /\ req[q].at \in {"realm", "mark"} => n(q).overtaken
             /\ req[q].overtaken => n(q).overtaken
  <2>1. CASE moved
    <3>1. n(q) = Touched(p(q))
      BY <2>1
    <3>2. p(q) \in Request
      BY <1>3
    <3> HIDE DEF n, p, moved, passed
    <3>3. /\ n(q) \in Request /\ n(q).fresh = FALSE
          /\ n(q).at = p(q).at /\ n(q).body = p(q).body /\ n(q).old = p(q).old
          /\ n(q).sync = p(q).sync /\ n(q).overtaken = p(q).overtaken
      BY <3>1, <3>2 DEF Touched, Request
    <3> QED BY <2>1, <3>3, <1>3
  <2>2. CASE ~moved
    <3>1. n(q) = p(q)
      BY <2>2
    <3> HIDE DEF n, p, moved, passed
    <3> QED BY <2>2, <3>1, <1>3
  <2> QED BY <2>1, <2>2
<1> HIDE DEF next, n
<1>5. /\ req' \in [Req -> Request]
      /\ req'[r] = next
      /\ \A q \in Req \ {r} : req'[q] = n(q)
  BY <1>1, <1>2, <1>4
<1> QED BY <1>1, <1>4, <1>5 DEF next

LEMMA UpdateReq ==
  ASSUME TypeOK, NEW r \in Req, Update(r), VersionMatches(r)
  PROVE  \A q \in Req : Shape(req'[q])
<1>1. Shape(req'[r])
  <2>1. CASE req'[r] = Idle
    BY <2>1, IdleShape
  <2>2. CASE req'[r] = [req[r] EXCEPT !.at = "realm"] /\ req[r].sync
    BY <2>2, ReqShape DEF Shape, Request
  <2> QED BY <2>1, <2>2, UpdateFacts
<1>2. ASSUME NEW q \in Req \ {r} PROVE Shape(req'[q])
  <2>1. /\ req'[q].at = req[q].at /\ req'[q].body = req[q].body
        /\ req'[q].old = req[q].old /\ req'[q].sync = req[q].sync
    BY UpdateFacts
  <2>2. Shape(req[q])
    BY ReqShape
  <2> QED BY <2>1, <2>2 DEF Shape
<1> QED BY <1>1, <1>2

LEMMA FinishReq ==
  ASSUME TypeOK, NEW r \in Req, Finish(r)
  PROVE  req' \in [Req -> Request] /\ \A q \in Req : Shape(req'[q])
  BY IdleFacts, IdleShape, ReqShape DEF Finish, TypeOK

LEMMA ToMarkReq ==
  ASSUME TypeOK, NEW r \in Req, req[r].at = "realm", req' = [req EXCEPT ![r].at = "mark"]
  PROVE  req' \in [Req -> Request] /\ \A q \in Req : Shape(req'[q])
<1>1. req \in [Req -> Request]
  BY DEF TypeOK
<1>2. req' \in [Req -> Request]
  BY <1>1 DEF Request
<1>3. ASSUME NEW q \in Req PROVE Shape(req'[q])
  <2>1. Shape(req[q])
    BY ReqShape
  <2>2. /\ req'[q].old = req[q].old /\ req'[q].body = req[q].body /\ req'[q].sync = req[q].sync
        /\ req'[q].at \in {"realm", "mark"} => req[q].at \in {"realm", "mark"}
    BY <1>1 DEF Request
  <2> QED BY <2>1, <2>2 DEF Shape
<1> QED BY <1>2, <1>3

(* Some requests end, others lose their version.                             *)
LEMMA TouchReq ==
  ASSUME TypeOK, req' \in [Req -> Request],
         \A q \in Req : req'[q] = Idle \/ req'[q] = req[q] \/ req'[q] = Touched(req[q])
  PROVE  \A q \in Req : Shape(req'[q])
<1> SUFFICES ASSUME NEW q \in Req PROVE Shape(req'[q])
  OBVIOUS
<1>1. req[q] \in Request /\ Shape(req[q])
  BY ReqShape
<1>2. CASE req'[q] = Touched(req[q])
  BY <1>1, <1>2 DEF Shape, Touched, Request
<1> QED BY <1>1, <1>2, IdleShape

LEMMA DriftTyped ==
  ASSUME TypeOK, NEW cause \in {"none", "lost", "overtaken"}, Drifts(cause)
  PROVE  drift' \in {"none", "lost", "overtaken"}
  BY DEF Drifts, TypeOK

(* What a request that has to patch the realm sends is a Boolean.            *)
LEMMA SentLocal ==
  ASSUME TypeOK, NEW r \in Req, req[r].at \in {"realm", "mark"}
  PROVE  req[r].body["local"] \in BOOLEAN /\ req[r].body.local = req[r].body["local"]
<1>1. req[r] \in Request /\ Shape(req[r])
  BY ReqShape
<1>2. req[r].body \in Body /\ "local" \in DOMAIN req[r].body
  BY <1>1 DEF Request, Shape
<1> QED BY <1>2, BodyFacts

LEMMA TypeStep == TypeOK /\ [Next]_vars => TypeOK'
<1> SUFFICES ASSUME TypeOK, [Next]_vars PROVE TypeOK'
  OBVIOUS
<1>q. ASSUME req' \in [Req -> Request], \A q \in Req : Shape(req'[q]),
             row' \in [Field -> BOOLEAN], {desired', realm'} \subseteq BOOLEAN, announced' \in [Announced -> BOOLEAN],
             job' \in [at : {"idle", "patch", "clear"}, local : BOOLEAN, overtaken : BOOLEAN],
             job'.at # "idle" => row'.pending,
             drift' \in {"none", "lost", "overtaken"}
      PROVE  TypeOK'
  BY <1>q, ShapesSuffice DEF TypeOK
<1>1. ASSUME NEW r \in Req, PatchRead(r) PROVE TypeOK'
  BY <1>1, <1>q, PatchReadReq DEF PatchRead, TypeOK
<1>2. ASSUME NEW r \in Req, FlagsRead(r) PROVE TypeOK'
  BY <1>2, <1>q, FlagsReadReq DEF FlagsRead, TypeOK
<1>3. ASSUME NEW r \in Req, Update(r) PROVE TypeOK'
  <2>1. drift' \in {"none", "lost", "overtaken"}
    BY <1>3, DriftTyped DEF Update
  <2>2. CASE VersionMatches(r)
    <3>1. req[r].body \in Body
      BY ReqShape DEF Request
    <3>2. /\ req' \in [Req -> Request] /\ \A q \in Req : Shape(req'[q])
          /\ row' = Patched(req[r].body) /\ desired' = desired /\ realm' = realm
      BY <1>3, <2>2, UpdateFacts, UpdateReq
    <3>3. row' \in [Field -> BOOLEAN] /\ row'.pending = row.pending
      BY <3>1, <3>2, PatchedFacts
    <3>4. announced' \in [Announced -> BOOLEAN]
      <4>1. announced' = [s \in Announced |->
                            IF s \in DOMAIN req[r].body THEN req[r].body[s] ELSE announced[s]]
        BY <1>3, <2>2, UpdateFacts
      <4>2. \A s \in DOMAIN req[r].body : req[r].body[s] \in BOOLEAN
        BY <3>1, BodyFacts
      <4>3. announced \in [Announced -> BOOLEAN]
        BY DEF TypeOK
      <4> QED BY <4>1, <4>2, <4>3
    <3>5. job' \in [at : {"idle", "patch", "clear"}, local : BOOLEAN, overtaken : BOOLEAN]
          /\ job'.at = job.at
      BY <1>3, <2>2, UpdateFacts DEF TypeOK
    <3>6. job'.at # "idle" => row'.pending
      BY <3>3, <3>5 DEF TypeOK
    <3>7. {desired', realm'} \subseteq BOOLEAN
      BY <3>2 DEF TypeOK
    <3> QED BY <2>1, <3>2, <3>3, <3>4, <3>5, <3>6, <3>7, <1>q
  <2>3. CASE ~VersionMatches(r)
    BY <1>3, <2>1, <2>3, <1>q, FinishReq DEF Update, TypeOK
  <2> QED BY <2>2, <2>3
<1>4. ASSUME NEW r \in Req, RealmPatched(r) PROVE TypeOK'
  <2>1. drift' \in {"none", "lost", "overtaken"}
    BY <1>4, DriftTyped DEF RealmPatched, Accepts
  <2>2. {desired', realm'} \subseteq BOOLEAN
    BY <1>4, SentLocal DEF RealmPatched, Accepts, TypeOK
  <2> QED BY <1>4, <2>1, <2>2, <1>q, FinishReq DEF RealmPatched, Accepts, TypeOK
<1>5. ASSUME NEW r \in Req, RealmFails(r) PROVE TypeOK'
  <2>1. drift' \in {"none", "lost", "overtaken"}
    BY <1>5, DriftTyped DEF RealmFails, CallFails, Accepts
  <2>2. {desired', realm'} \subseteq BOOLEAN
    BY <1>5, SentLocal DEF RealmFails, CallFails, Accepts, TypeOK
  <2> QED BY <1>5, <2>1, <2>2, <1>q, ToMarkReq DEF RealmFails, CallFails, Accepts, TypeOK
<1>6. ASSUME NEW r \in Req, Mark(r) PROVE TypeOK'
  <2>1. drift' \in {"none", "lost", "overtaken"}
    BY <1>6, DriftTyped DEF Mark
  <2>2. req' \in [Req -> Request]
    BY <1>6, IdleFacts, ReqShape, TouchedFacts DEF Mark
  <2>3. \A q \in Req : req'[q] = Idle \/ req'[q] = req[q] \/ req'[q] = Touched(req[q])
    BY <1>6 DEF Mark
  <2>4. row' \in [Field -> BOOLEAN] /\ row'.pending
    BY <1>6 DEF Mark, TypeOK, Field
  <2>5. job' \in [at : {"idle", "patch", "clear"}, local : BOOLEAN, overtaken : BOOLEAN]
    BY <1>6 DEF Mark, TypeOK
  <2> QED BY <1>6, <2>1, <2>2, <2>3, <2>4, <2>5, <1>q, TouchReq DEF Mark, TypeOK
<1>7. ASSUME NEW r \in Req, MarkFails(r) PROVE TypeOK'
  <2>1. drift' \in {"none", "lost", "overtaken"}
    BY <1>7, DriftTyped DEF MarkFails
  <2> QED BY <1>7, <2>1, <1>q, FinishReq DEF MarkFails, TypeOK
<1>8. ASSUME NEW r \in Req, Dropped(r) PROVE TypeOK'
  <2>1. drift' \in {"none", "lost", "overtaken"}
    BY <1>8, DriftTyped DEF Dropped
  <2> QED BY <1>8, <2>1, <1>q, FinishReq DEF Dropped, TypeOK
<1>9. CASE OtherWrite
  <2>1. req' \in [Req -> Request]
    BY <1>9, ReqShape, TouchedFacts DEF OtherWrite
  <2>2. \A q \in Req : req'[q] = Touched(req[q])
    BY <1>9 DEF OtherWrite
  <2> QED BY <1>9, <2>1, <2>2, <1>q, TouchReq DEF OtherWrite, TypeOK
<1>10. CASE SyncList
  BY <1>10, <1>q, ReqShape, RowFacts DEF SyncList, TypeOK
<1>11. CASE SyncPatch
  BY <1>11, <1>q, ReqShape, DriftTyped DEF SyncPatch, Accepts, TypeOK
<1>12. CASE SyncFails
  BY <1>12, <1>q, ReqShape, DriftTyped DEF SyncFails, CallFails, Accepts, TypeOK, JobIdle
<1>13. CASE SyncClear
  <2>1. drift' \in {"none", "lost", "overtaken"}
    BY <1>13, DriftTyped DEF SyncClear
  <2>2. req' \in [Req -> Request]
    BY <1>13, ReqShape, TouchedFacts DEF SyncClear
  <2>3. \A q \in Req : req'[q] = req[q] \/ req'[q] = Touched(req[q])
    BY <1>13 DEF SyncClear
  <2>4. row' \in [Field -> BOOLEAN] /\ job' = JobIdle
    BY <1>13 DEF SyncClear, TypeOK, Field
  <2> QED BY <1>13, <2>1, <2>2, <2>3, <2>4, <1>q, TouchReq DEF SyncClear, TypeOK, JobIdle
<1>14. CASE SyncAbort
  BY <1>14, <1>q, ReqShape DEF SyncAbort, TypeOK, JobIdle
<1>15. CASE RealmReconciled
  BY <1>15, <1>q, ReqShape DEF RealmReconciled, TypeOK
<1>16. CASE UNCHANGED vars
  BY <1>16, <1>q, ReqShape DEF vars, TypeOK
<1> QED BY <1>1, <1>2, <1>3, <1>4, <1>5, <1>6, <1>7, <1>8, <1>9, <1>10, <1>11, <1>12, <1>13,
           <1>14, <1>15, <1>16 DEF Next

LEMMA TypeInit == Init => TypeOK
<1> SUFFICES ASSUME Init PROVE TypeOK
  OBVIOUS
<1>1. req \in [Req -> Request] /\ \A r \in Req : req[r] = Idle
  BY IdleFacts DEF Init
<1>2. /\ row \in [Field -> BOOLEAN] /\ {desired, realm} \subseteq BOOLEAN /\ announced \in [Announced -> BOOLEAN]
      /\ job = JobIdle /\ drift = "none"
  BY DEF Init, Field, Announced
<1> QED BY <1>1, <1>2, IdleShape, IdleFacts DEF TypeOK, Shape, Syncing, JobIdle

(* Every variable keeps its type; only a request that changes                *)
(* local_accounts_enabled patches the realm, and the job works on a marked   *)
(* row until it clears the marker.                                           *)
THEOREM SettingsTypeCorrect == Spec => []TypeOK
  BY TypeInit, TypeStep, PTL DEF Spec

-----------------------------------------------------------------------------
(* A step that announces nothing, leaves the settings as they are and brings *)
(* no request closer to its UPDATE.                                          *)
LEMMA ChainKept ==
  ASSUME SettingsChained, announced' = announced, \A s \in Announced : row'[s] = row[s],
         \A q \in Req : req'[q].at = "update" /\ req'[q].fresh =>
           req[q].at = "update" /\ req[q].fresh /\ req'[q].old = req[q].old
  PROVE  SettingsChained'
  BY DEF SettingsChained, VersionMatches

(* The request r reads the settings, which consumers hold as the row does.   *)
LEMMA ChainBegun ==
  ASSUME SettingsChained, NEW r \in Req, UNCHANGED <<row, announced>>,
         \A q \in Req \ {r} : req'[q] = req[q],
         NEW S \in SUBSET Announced, req'[r].old = [f \in S |-> row[f]]
  PROVE  SettingsChained'
  BY DEF SettingsChained, VersionMatches

LEMMA ChainUpdate ==
  ASSUME TypeOK, SettingsChained, NEW r \in Req, Update(r), VersionMatches(r)
  PROVE  SettingsChained'
<1> DEFINE b == req[r].body
<1>1. b \in Body
  BY ReqShape DEF Request
<1>2. /\ row' = Patched(b)
      /\ announced' = [s \in Announced |-> IF s \in DOMAIN b THEN b[s] ELSE announced[s]]
  BY UpdateFacts
<1>3. \A f \in Field : Patched(b)[f] = IF f \in DOMAIN b THEN b[f] ELSE row[f]
  BY <1>1, PatchedFacts
<1>4. \A s \in Announced : announced'[s] = row'[s]
  BY <1>2, <1>3 DEF SettingsChained, Announced, Field
<1>5. ASSUME NEW q \in Req, req'[q].at = "update", req'[q].fresh, NEW s \in DOMAIN req'[q].old
      PROVE  req'[q].old[s] = announced'[s]
  <2>1. q # r
    <3>1. req'[r] = Idle \/ req'[r] = [req[r] EXCEPT !.at = "realm"]
      BY UpdateFacts
    <3>2. req[r] \in Request
      BY ReqShape
    <3>3. req'[r].at # "update"
      BY <3>1, <3>2, IdleFacts DEF Request
    <3> QED BY <3>3, <1>5
  <2>2. /\ req[q].at = "update" /\ req[q].fresh /\ req'[q].old = req[q].old
        /\ row' = row
    BY <1>5, <2>1, UpdateFacts
  <2>3. s \in Announced
    BY <2>2, ReqShape DEF Shape
  <2>4. req[q].old[s] = announced[s]
    BY <2>2, <1>5 DEF SettingsChained, VersionMatches
  <2>5. announced[s] = row[s]
    BY <2>3 DEF SettingsChained
  <2> QED BY <1>4, <2>2, <2>3, <2>4, <2>5
<1> QED BY <1>4, <1>5 DEF SettingsChained, VersionMatches

(* A request that ended, changed its place to one that is not the UPDATE, or *)
(* lost its version.                                                         *)
LEMMA Quiet ==
  ASSUME TypeOK, NEW q \in Req,
         \/ req'[q] = Idle
         \/ req'[q] = req[q]
         \/ req'[q] = Touched(req[q])
         \/ req'[q].at = "mark"
  PROVE  req'[q].at = "update" /\ req'[q].fresh =>
           req[q].at = "update" /\ req[q].fresh /\ req'[q].old = req[q].old
<1>1. req[q] \in Request
  BY ReqShape
<1>2. CASE req'[q] = Touched(req[q])
  BY <1>1, <1>2 DEF Touched, Request
<1> QED BY <1>2, IdleFacts

LEMMA ChainStep == TypeOK /\ SettingsChained /\ [Next]_vars => SettingsChained'
<1> SUFFICES ASSUME TypeOK, SettingsChained, [Next]_vars PROVE SettingsChained'
  OBVIOUS
<1>0. req \in [Req -> Request] /\ row \in [Field -> BOOLEAN] /\ Announced \subseteq Field
  BY DEF TypeOK, Announced, Field
<1>q. ASSUME announced' = announced, \A s \in Announced : row'[s] = row[s],
             \A q \in Req : \/ req'[q] = Idle \/ req'[q] = req[q]
                            \/ req'[q] = Touched(req[q]) \/ req'[q].at = "mark"
      PROVE  SettingsChained'
  BY <1>q, Quiet, ChainKept
<1>f. ASSUME NEW r \in Req, Finish(r), UNCHANGED <<row, announced>> PROVE SettingsChained'
  BY <1>f, <1>q, <1>0 DEF Finish
<1>1. ASSUME NEW r \in Req, PatchRead(r) PROVE SettingsChained'
  <2>1. PICK body \in PatchBody :
         req' = [req EXCEPT ![r] =
                   [Idle EXCEPT !.at = "update", !.body = body, !.fresh = TRUE,
                                !.old = [f \in DOMAIN body \cap Announced |-> row[f]],
                                !.sync = "local" \in DOMAIN body /\ row.local # body.local]]
    BY <1>1 DEF PatchRead
  <2>2. req'[r].old = [f \in DOMAIN body \cap Announced |-> row[f]]
    BY <2>1, <1>0, IdleFacts DEF Idle
  <2>3. \A q \in Req \ {r} : req'[q] = req[q]
    BY <2>1, <1>0
  <2>4. DOMAIN body \cap Announced \in SUBSET Announced
    OBVIOUS
  <2> QED BY <1>1, <2>2, <2>3, <2>4, ChainBegun DEF PatchRead
<1>2. ASSUME NEW r \in Req, FlagsRead(r) PROVE SettingsChained'
  <2>1. PICK body \in FlagsBody :
         req' = [req EXCEPT ![r] =
                   [Idle EXCEPT !.at = "update", !.body = body, !.fresh = TRUE,
                                !.old = [f \in Announced \cap DOMAIN body |-> row[f]]]]
    BY <1>2 DEF FlagsRead
  <2>2. req'[r].old = [f \in Announced \cap DOMAIN body |-> row[f]]
    BY <2>1, <1>0, IdleFacts DEF Idle
  <2>3. \A q \in Req \ {r} : req'[q] = req[q]
    BY <2>1, <1>0
  <2>4. Announced \cap DOMAIN body \in SUBSET Announced
    OBVIOUS
  <2> QED BY <1>2, <2>2, <2>3, <2>4, ChainBegun DEF FlagsRead
<1>3. ASSUME NEW r \in Req, Update(r) PROVE SettingsChained'
  <2>1. CASE VersionMatches(r)
    BY <1>3, <2>1, ChainUpdate
  <2>2. CASE ~VersionMatches(r)
    BY <1>3, <2>2, <1>f DEF Update
  <2> QED BY <2>1, <2>2
<1>4. ASSUME NEW r \in Req, RealmPatched(r) \/ MarkFails(r) \/ Dropped(r) PROVE SettingsChained'
  BY <1>4, <1>f DEF RealmPatched, Accepts, MarkFails, Dropped
<1>5. ASSUME NEW r \in Req, RealmFails(r) PROVE SettingsChained'
  <2>1. \A q \in Req : req'[q] = req[q] \/ req'[q].at = "mark"
    BY <1>5, <1>0 DEF RealmFails, Request
  <2> QED BY <1>5, <2>1, <1>q DEF RealmFails, CallFails, Accepts
<1>6. ASSUME NEW r \in Req, Mark(r) PROVE SettingsChained'
  <2>1. \A s \in Announced : row'[s] = row[s]
    BY <1>6, <1>0 DEF Mark, Announced
  <2>2. \A q \in Req : req'[q] = Idle \/ req'[q] = req[q] \/ req'[q] = Touched(req[q])
    BY <1>6 DEF Mark
  <2> QED BY <1>6, <2>1, <2>2, <1>q DEF Mark
<1>7. CASE OtherWrite
  BY <1>7, <1>q DEF OtherWrite
<1>8. CASE SyncClear
  <2>1. \A s \in Announced : row'[s] = row[s]
    BY <1>8, <1>0 DEF SyncClear, Announced
  <2>2. \A q \in Req : req'[q] = req[q] \/ req'[q] = Touched(req[q])
    BY <1>8 DEF SyncClear
  <2> QED BY <1>8, <2>1, <2>2, <1>q DEF SyncClear
<1>9. CASE SyncList \/ SyncPatch \/ SyncFails \/ SyncAbort
  BY <1>9, <1>q DEF SyncList, SyncPatch, SyncFails, SyncAbort
<1>10. CASE UNCHANGED vars \/ RealmReconciled
  BY <1>10, <1>q DEF vars, RealmReconciled
<1> QED BY <1>1, <1>2, <1>3, <1>4, <1>5, <1>6, <1>7, <1>8, <1>9, <1>10 DEF Next

LEMMA ChainInit == Init => SettingsChained
<1> SUFFICES ASSUME Init PROVE SettingsChained
  OBVIOUS
<1>1. \A r \in Req : req[r].at # "update"
  BY IdleFacts DEF Init
<1> QED BY <1>1 DEF Init, SettingsChained

(* TenantSettingChanged is a chain for any number of concurrent P-2 and O-4: *)
(* consumers hold the settings of the row, and the old value about to be     *)
(* announced is the one they hold.                                           *)
THEOREM TrailIsChained == Spec => []SettingsChained
<1>1. TypeOK /\ SettingsChained /\ [Next]_vars => (TypeOK /\ SettingsChained)'
  BY TypeStep, ChainStep
<1> QED BY <1>1, TypeInit, ChainInit, PTL DEF Spec

-----------------------------------------------------------------------------
InSync(q) == q.at \in {"realm", "mark"}

LEMMA Primed ==
  ASSUME row' \in [Field -> BOOLEAN]
  PROVE  row'.local = row'["local"] /\ row'["local"] \in BOOLEAN /\ row'["pending"] \in BOOLEAN
  BY DEF Field

LEMMA DriftEffect ==
  ASSUME NEW cause, Drifts(cause), row' \in [Field -> BOOLEAN]
  PROVE  desired' = row'["local"] \/ drift' = IF cause = "none" THEN drift ELSE cause
  BY Primed DEF Drifts

(* No sync under way is given up, and the drift is forgotten only when the   *)
(* realm agrees with the row.                                                *)
LEMMA ExplainedKept ==
  ASSUME Explained, desired' = desired, row'["local"] = row["local"],
         \A q \in Req : InSync(req[q]) => InSync(req'[q]),
         drift' = drift \/ desired' = row'["local"]
  PROVE  Explained'
  BY DEF Explained, InSync

(* How a request may move while local_accounts_enabled stays as it is.       *)
Calm(q, n) ==
  \/ n = q
  \/ n = Idle
  \/ n = Touched(q)
  \/ n = [q EXCEPT !.at = "mark"] /\ q.at = "realm"

LEMMA RequestsCalm ==
  ASSUME TypeOK, SyncKnown, SyncsCurrent, row'["local"] = row["local"],
         \A q \in Req : Calm(req[q], req'[q])
  PROVE  SyncKnown' /\ SyncsCurrent'
<1>1. ASSUME NEW q \in Req
      PROVE  /\ req'[q].at = "update" /\ req'[q].fresh =>
                  /\ req[q].at = "update" /\ req[q].fresh
                  /\ req'[q].body = req[q].body /\ req'[q].sync = req[q].sync
             /\ InSync(req'[q]) => /\ InSync(req[q]) /\ req'[q].body = req[q].body
                                   /\ req'[q].overtaken = req[q].overtaken
  <2>1. req[q] \in Request
    BY ReqShape
  <2>2. CASE req'[q] = Touched(req[q])
    BY <2>1, <2>2 DEF Touched, Request, InSync
  <2>3. CASE req'[q] = [req[q] EXCEPT !.at = "mark"] /\ req[q].at = "realm"
    BY <2>1, <2>3 DEF Request, InSync
  <2>4. CASE req'[q] = Idle \/ req'[q] = req[q]
    BY <2>4, IdleFacts DEF InSync
  <2> QED BY <2>2, <2>3, <2>4 DEF Calm
<1>2. SyncKnown'
  BY <1>1 DEF SyncKnown
<1>3. SyncsCurrent'
  BY <1>1 DEF SyncsCurrent, InSync
<1> QED BY <1>2, <1>3

(* The request r begins: it is not syncing yet, and knows whether it will.   *)
LEMMA RequestBegun ==
  ASSUME SyncKnown, SyncsCurrent, NEW r \in Req, row' = row,
         \A q \in Req \ {r} : req'[q] = req[q], req'[r].at = "update",
         "local" \in DOMAIN req'[r].body /\ req'[r].body["local"] # row["local"] => req'[r].sync
  PROVE  SyncKnown' /\ SyncsCurrent'
<1>1. SyncKnown'
  BY DEF SyncKnown
<1>2. SyncsCurrent'
  <2> SUFFICES ASSUME NEW q \in Req, req'[q].at \in {"realm", "mark"}, ~req'[q].overtaken
               PROVE  req'[q].body["local"] = row'["local"]
    BY DEF SyncsCurrent
  <2>1. q # r
    OBVIOUS
  <2> QED BY <2>1 DEF SyncsCurrent
<1> QED BY <1>1, <1>2

LEMMA RealmUpdate ==
  ASSUME TypeOK, TypeOK', RealmInv, NEW r \in Req, Update(r), VersionMatches(r)
  PROVE  RealmInv'
<1> DEFINE b == req[r].body
<1>1. req[r] \in Request /\ Shape(req[r]) /\ b \in Body
  BY ReqShape DEF Request
<1>2. row' = Patched(b) /\ desired' = desired /\ row' \in [Field -> BOOLEAN]
  BY UpdateFacts DEF TypeOK
<1>3. /\ row'["local"] = IF "local" \in DOMAIN b THEN b["local"] ELSE row["local"]
      /\ row'["pending"] = row["pending"]
  BY <1>1, <1>2, PatchedFacts DEF Field
<1>4. row'["local"] # row["local"] => req[r].sync
  BY <1>3 DEF RealmInv, SyncKnown, Update, VersionMatches
<1>5. /\ req'[r] = Idle \/ (req'[r].at = "realm" /\ req'[r].body = b /\ req[r].sync)
      /\ req[r].sync => req'[r].at = "realm"
  <2>1. req[r].sync => req'[r] = [req[r] EXCEPT !.at = "realm"]
    BY DEF Update
  <2> QED BY <1>1, <2>1, UpdateFacts DEF Request
<1>6. row'.local = row'["local"] /\ row.local = row["local"]
  BY <1>2, Primed, RowFacts
<1>7. ASSUME NEW q \in Req \ {r}
      PROVE  /\ req'[q].at = req[q].at /\ req'[q].body = req[q].body
             /\ req'[q].sync = req[q].sync
             /\ req'[q].fresh => req[q].fresh /\ row' = row
             /\ ~req'[q].overtaken => ~req[q].overtaken
             /\ ~req'[q].overtaken /\ InSync(req[q]) => row'["local"] = row["local"]
  BY <1>6, UpdateFacts DEF InSync
<1>8. SyncKnown'
  <2> SUFFICES ASSUME NEW q \in Req, req'[q].at = "update", req'[q].fresh,
                      "local" \in DOMAIN req'[q].body, req'[q].body["local"] # row'["local"]
               PROVE  req'[q].sync
    BY DEF SyncKnown
  <2>1. q # r
    BY <1>5, IdleFacts
  <2> QED BY <2>1, <1>7 DEF RealmInv, SyncKnown
<1>9. SyncsCurrent'
  <2> SUFFICES ASSUME NEW q \in Req, req'[q].at \in {"realm", "mark"}, ~req'[q].overtaken
               PROVE  req'[q].body["local"] = row'["local"]
    BY DEF SyncsCurrent
  <2>1. CASE q = r
    BY <2>1, <1>1, <1>3, <1>5, IdleFacts DEF Shape
  <2>2. CASE q # r
    BY <2>2, <1>7 DEF RealmInv, SyncsCurrent, InSync
  <2> QED BY <2>1, <2>2
<1>10. /\ job'.at = job.at /\ job'.local = job.local
       /\ ~job'.overtaken => ~job.overtaken
       /\ ~job'.overtaken /\ job.at # "idle" => row'["local"] = row["local"]
  BY <1>6, UpdateFacts DEF TypeOK
<1>11. JobCurrent'
  BY <1>10 DEF RealmInv, JobCurrent
<1>12. desired' = row'["local"] \/ drift' = drift
  BY <1>2, DriftEffect DEF Update
<1>13. \A q \in Req : InSync(req[q]) => InSync(req'[q])
  BY <1>5, <1>7 DEF InSync, Update
<1>14. row'["local"] # row["local"] => Explained'
  BY <1>4, <1>5 DEF Explained
<1>15. Explained => Explained'
  BY <1>2, <1>12, <1>13, <1>14, ExplainedKept
<1>16. ClearSafe' /\ MarkedOrExplained'
  BY <1>3, <1>10, <1>15 DEF RealmInv, ClearSafe, MarkedOrExplained
<1> QED BY <1>8, <1>9, <1>11, <1>16 DEF RealmInv

LEMMA RealmStep == TypeOK /\ TypeOK' /\ RealmInv /\ [Next]_vars => RealmInv'
<1> SUFFICES ASSUME TypeOK, TypeOK', RealmInv, [Next]_vars PROVE RealmInv'
  OBVIOUS
<1>0. /\ req \in [Req -> Request] /\ row \in [Field -> BOOLEAN] /\ row' \in [Field -> BOOLEAN]
      /\ row.local = row["local"] /\ row'.local = row'["local"]
      /\ job \in [at : {"idle", "patch", "clear"}, local : BOOLEAN, overtaken : BOOLEAN]
  BY RowFacts, Primed DEF TypeOK
<1>i. SyncKnown /\ SyncsCurrent /\ JobCurrent /\ ClearSafe /\ MarkedOrExplained
  BY DEF RealmInv
<1>c. ASSUME row'["local"] = row["local"], \A q \in Req : Calm(req[q], req'[q])
      PROVE  SyncKnown' /\ SyncsCurrent'
  BY <1>c, <1>i, RequestsCalm
<1>e. ASSUME Explained', JobCurrent', SyncKnown', SyncsCurrent' PROVE RealmInv'
  BY <1>e DEF RealmInv, ClearSafe, MarkedOrExplained
<1>k. ASSUME SyncKnown', SyncsCurrent', row' = row, desired' = desired, job' = job,
             \A q \in Req : InSync(req[q]) => InSync(req'[q]),
             drift' = drift \/ desired' = row'["local"]
      PROVE  RealmInv'
  <2>1. Explained => Explained'
    BY <1>k, ExplainedKept
  <2> QED BY <1>i, <1>k, <2>1 DEF RealmInv, JobCurrent, ClearSafe, MarkedOrExplained
<1>1. ASSUME NEW r \in Req, PatchRead(r) PROVE RealmInv'
  <2>1. PICK body \in PatchBody :
         req' = [req EXCEPT ![r] =
                   [Idle EXCEPT !.at = "update", !.body = body, !.fresh = TRUE,
                                !.old = [f \in DOMAIN body \cap Announced |-> row[f]],
                                !.sync = "local" \in DOMAIN body /\ row.local # body.local]]
    BY <1>1 DEF PatchRead
  <2>2. /\ req'[r].at = "update" /\ req'[r].body = body
        /\ req'[r].sync = ("local" \in DOMAIN body /\ row.local # body.local)
    BY <2>1, <1>0 DEF Idle
  <2>3. \A q \in Req \ {r} : req'[q] = req[q]
    BY <2>1, <1>0
  <2>4. body.local = body["local"]
    OBVIOUS
  <2>5. "local" \in DOMAIN req'[r].body /\ req'[r].body["local"] # row["local"] => req'[r].sync
    BY <2>2, <2>4, <1>0
  <2>6. row' = row /\ desired' = desired /\ job' = job /\ drift' = drift /\ req[r].at = "idle"
    BY <1>1 DEF PatchRead
  <2>7. SyncKnown' /\ SyncsCurrent'
    BY <1>i, <2>2, <2>3, <2>5, <2>6, RequestBegun
  <2>8. \A q \in Req : InSync(req[q]) => InSync(req'[q])
    BY <2>3, <2>6 DEF InSync
  <2> QED BY <2>6, <2>7, <2>8, <1>k
<1>2. ASSUME NEW r \in Req, FlagsRead(r) PROVE RealmInv'
  <2>1. PICK body \in FlagsBody :
         req' = [req EXCEPT ![r] =
                   [Idle EXCEPT !.at = "update", !.body = body, !.fresh = TRUE,
                                !.old = [f \in Announced \cap DOMAIN body |-> row[f]]]]
    BY <1>2 DEF FlagsRead
  <2>2. req'[r].at = "update" /\ req'[r].body = body
    BY <2>1, <1>0 DEF Idle
  <2>3. \A q \in Req \ {r} : req'[q] = req[q]
    BY <2>1, <1>0
  <2>4. "local" \notin DOMAIN body
    BY DEF FlagsBody
  <2>5. row' = row /\ desired' = desired /\ job' = job /\ drift' = drift /\ req[r].at = "idle"
    BY <1>2 DEF FlagsRead
  <2>6. SyncKnown' /\ SyncsCurrent'
    BY <1>i, <2>2, <2>3, <2>4, <2>5, RequestBegun
  <2>7. \A q \in Req : InSync(req[q]) => InSync(req'[q])
    BY <2>3, <2>5 DEF InSync
  <2> QED BY <2>5, <2>6, <2>7, <1>k
<1>f. ASSUME NEW r \in Req, Finish(r)
      PROVE  /\ \A q \in Req : Calm(req[q], req'[q])
             /\ ~InSync(req[r]) => \A q \in Req : InSync(req[q]) => InSync(req'[q])
  BY <1>f, <1>0 DEF Finish, Calm
<1>3. ASSUME NEW r \in Req, Update(r) PROVE RealmInv'
  <2>1. CASE VersionMatches(r)
    BY <1>3, <2>1, RealmUpdate
  <2>2. CASE ~VersionMatches(r)
    <3>1. Finish(r) /\ row' = row /\ desired' = desired /\ job' = job /\ ~InSync(req[r])
      BY <1>3, <2>2 DEF Update, InSync
    <3>2. drift' = drift \/ desired' = row'["local"]
      BY <1>3, <1>0, DriftEffect DEF Update
    <3> QED BY <3>1, <3>2, <1>f, <1>c, <1>k
  <2> QED BY <2>1, <2>2
<1>4. ASSUME NEW r \in Req, RealmPatched(r) PROVE RealmInv'
  <2>1. Finish(r) /\ row' = row /\ job' = job /\ desired' = req[r].body.local /\ req[r].at = "realm"
    BY <1>4 DEF RealmPatched, Accepts
  <2>2. ~req[r].overtaken => desired' = row'["local"]
    BY <2>1, <1>i, SentLocal DEF SyncsCurrent
  <2>3. req[r].overtaken => desired' = row'["local"] \/ drift' = "overtaken"
    BY <1>4, <1>0, DriftEffect DEF RealmPatched, Accepts
  <2>4. Explained'
    BY <2>2, <2>3 DEF Explained
  <2> QED BY <2>1, <2>4, <1>f, <1>c, <1>e, <1>i DEF JobCurrent
<1>5. ASSUME NEW r \in Req, RealmFails(r) PROVE RealmInv'
  <2>1. row' = row /\ job' = job /\ req' = [req EXCEPT ![r].at = "mark"] /\ req[r].at = "realm"
    BY <1>5 DEF RealmFails, CallFails, Accepts
  <2>2. req'[r].at = "mark" /\ \A q \in Req : Calm(req[q], req'[q])
    BY <2>1, <1>0 DEF Calm, Request
  <2>3. Explained'
    BY <2>2 DEF Explained
  <2> QED BY <2>1, <2>2, <2>3, <1>c, <1>e, <1>i DEF JobCurrent
<1>6. ASSUME NEW r \in Req, Mark(r) PROVE RealmInv'
  <2>1. row'["local"] = row["local"] /\ row'["pending"]
    BY <1>6, <1>0 DEF Mark, Field
  <2>2. \A q \in Req : Calm(req[q], req'[q])
    BY <1>6 DEF Mark, Calm
  <2>3. job'.at = job.at /\ (job.at # "idle" => job'.overtaken)
    BY <1>6, <1>0 DEF Mark
  <2> QED BY <2>1, <2>2, <2>3, <1>c DEF RealmInv, JobCurrent, ClearSafe, MarkedOrExplained
<1>7. ASSUME NEW r \in Req, MarkFails(r) PROVE RealmInv'
  <2>1. Finish(r) /\ row' = row /\ job' = job
    BY <1>7 DEF MarkFails
  <2>2. Explained'
    BY <1>7, <1>0, DriftEffect DEF MarkFails, Explained
  <2> QED BY <2>1, <2>2, <1>f, <1>c, <1>e, <1>i DEF JobCurrent
<1>8. ASSUME NEW r \in Req, Dropped(r) PROVE RealmInv'
  <2>1. Finish(r) /\ row' = row /\ job' = job /\ desired' = desired
    BY <1>8 DEF Dropped
  <2>2. SyncKnown' /\ SyncsCurrent'
    BY <2>1, <1>f, <1>c
  <2>3. CASE InSync(req[r])
    <3>1. Drifts("lost")
      BY <1>8, <2>3 DEF Dropped, Syncing, InSync
    <3>2. Explained'
      BY <3>1, <1>0, DriftEffect DEF Explained
    <3> QED BY <2>1, <2>2, <3>2, <1>e, <1>i DEF JobCurrent
  <2>4. CASE ~InSync(req[r])
    <3>1. Drifts("none")
      BY <1>8, <2>4 DEF Dropped, Syncing, InSync
    <3>2. drift' = drift \/ desired' = row'["local"]
      BY <3>1, <1>0, DriftEffect
    <3> QED BY <2>1, <2>2, <2>4, <3>2, <1>f, <1>k
  <2> QED BY <2>3, <2>4
<1>9. CASE OtherWrite
  <2>1. row' = row /\ desired' = desired /\ job' = job /\ drift' = drift
    BY <1>9 DEF OtherWrite
  <2>2. \A q \in Req : req'[q] = Touched(req[q])
    BY <1>9 DEF OtherWrite
  <2>3. \A q \in Req : InSync(req[q]) => InSync(req'[q])
    BY <2>2, ReqShape DEF Touched, Request, InSync
  <2> QED BY <2>1, <2>2, <2>3, <1>c, <1>k DEF Calm
<1>j. ASSUME req' = req, row' = row PROVE SyncKnown' /\ SyncsCurrent'
  BY <1>j, <1>c DEF Calm
<1>p. job.at # "idle" => row["pending"]
  BY <1>0 DEF TypeOK
<1>10. CASE SyncList
  <2>1. job'.at = "patch" /\ job'.local = row.local
    BY <1>10 DEF SyncList
  <2>2. req' = req /\ row' = row /\ desired' = desired /\ drift' = drift
    BY <1>10 DEF SyncList
  <2>3. JobCurrent' /\ ClearSafe'
    BY <2>1, <2>2, <1>0 DEF JobCurrent, ClearSafe
  <2>4. MarkedOrExplained'
    BY <2>2, <1>i DEF MarkedOrExplained, Explained
  <2> QED BY <2>2, <2>3, <2>4, <1>j DEF RealmInv
<1>11. CASE SyncPatch
  <2>1. /\ req' = req /\ row' = row /\ desired' = job.local /\ job.at = "patch"
        /\ job'.overtaken = job.overtaken /\ job'.local = job.local
    BY <1>11, <1>0 DEF SyncPatch, Accepts
  <2>2. JobCurrent'
    BY <2>1, <1>i DEF JobCurrent
  <2>3. ClearSafe'
    BY <2>1, <1>i DEF JobCurrent, ClearSafe, Explained
  <2>4. MarkedOrExplained'
    BY <2>1, <1>p DEF MarkedOrExplained
  <2> QED BY <2>1, <2>2, <2>3, <2>4, <1>j DEF RealmInv
<1>12. CASE SyncFails \/ SyncAbort
  <2>1. req' = req /\ row' = row /\ job'.at = "idle" /\ job.at # "idle"
    BY <1>12 DEF SyncFails, SyncAbort, JobIdle
  <2> QED BY <2>1, <1>p, <1>j DEF RealmInv, JobCurrent, ClearSafe, MarkedOrExplained
<1>13. CASE SyncClear
  <2>1. job'.at = "idle" /\ job.at = "clear" /\ desired' = desired
    BY <1>13 DEF SyncClear, JobIdle
  <2>2. row'["local"] = row["local"]
    BY <1>13, <1>0 DEF SyncClear, Field
  <2>3. \A q \in Req : req'[q] = req[q] \/ req'[q] = Touched(req[q])
    BY <1>13 DEF SyncClear
  <2>4. \A q \in Req : InSync(req[q]) => InSync(req'[q])
    BY <2>3, ReqShape DEF Touched, Request, InSync
  <2>5. CASE job.overtaken
    <3>1. Drifts("overtaken")
      BY <1>13, <2>5 DEF SyncClear
    <3>2. Explained'
      BY <3>1, <1>0, DriftEffect DEF Explained
    <3> QED BY <2>1, <2>2, <2>3, <3>2, <1>c, <1>e DEF JobCurrent, Calm
  <2>6. CASE ~job.overtaken
    <3>1. Drifts("none")
      BY <1>13, <2>6 DEF SyncClear
    <3>2. drift' = drift \/ desired' = row'["local"]
      BY <3>1, <1>0, DriftEffect
    <3>3. Explained
      BY <2>1, <2>6, <1>i DEF ClearSafe
    <3>4. Explained'
      BY <2>1, <2>2, <2>4, <3>2, <3>3, ExplainedKept
    <3> QED BY <2>1, <2>2, <2>3, <3>4, <1>c, <1>e DEF JobCurrent, Calm
  <2> QED BY <2>5, <2>6
<1>14. CASE UNCHANGED vars \/ RealmReconciled
  <2>1. req' = req /\ row' = row /\ desired' = desired /\ job' = job /\ drift' = drift
    BY <1>14 DEF vars, RealmReconciled
  <2> QED BY <2>1, <1>j, <1>k
<1> QED BY <1>1, <1>2, <1>3, <1>4, <1>5, <1>6, <1>7, <1>8, <1>9, <1>10, <1>11, <1>12, <1>13,
           <1>14 DEF Next

LEMMA RealmInit == Init => RealmInv
<1> SUFFICES ASSUME Init PROVE RealmInv
  OBVIOUS
<1>1. \A r \in Req : req[r].at = "idle"
  BY IdleFacts DEF Init
<1>2. job.at = "idle" /\ desired = row["local"]
  BY DEF Init, JobIdle, Field
<1> QED BY <1>1, <1>2 DEF RealmInv, SyncKnown, SyncsCurrent, JobCurrent, ClearSafe,
                          MarkedOrExplained, Explained

LEMMA InvMarks == TypeOK /\ RealmInv => RealmMarked
  BY RowFacts DEF RealmInv, MarkedOrExplained, Explained, RealmMarked, Syncing, TypeOK, Field

(* T-15 for any number of concurrent P-2 calls: a realm that differs from    *)
(* the row is marked, about to be patched or marked, or queued at the Realm  *)
(* Provisioner with the setting of the row, or was left behind by one of the *)
(* two recorded causes.                                                      *)
THEOREM RealmIsMarked == Spec => []RealmMarked
<1>1. TypeOK /\ RealmInv /\ [Next]_vars => (TypeOK /\ RealmInv)'
  BY TypeStep, RealmStep
<1>2. Init => TypeOK /\ RealmInv
  BY TypeInit, RealmInit
<1> QED BY <1>1, <1>2, InvMarks, PTL DEF Spec
=============================================================================
