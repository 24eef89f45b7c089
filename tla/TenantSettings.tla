--------------------------- MODULE TenantSettings ---------------------------
(***************************************************************************)
(* The settings of one tenant: P-2 (TenantService.Patch), O-4 (operator    *)
(* feature flags), the TenantSettingChanged events they enqueue, and the   *)
(* copy of local_accounts_enabled that the Realm Provisioner holds for the *)
(* tenant's Keycloak realm.                                                *)
(*                                                                         *)
(* P-2 is local first: it commits the row, then patches the realm, and     *)
(* when that call fails it sets realm_sync_pending for the job             *)
(* realm-config-sync.  The Realm Provisioner answers 200 when it applied   *)
(* the setting and 202 when it queued it; both are success to the client,  *)
(* so a queued setting has no marker.                                      *)
(*                                                                         *)
(* Both endpoints read the old value before their UPDATE and rely on its   *)
(* record_version predicate to know that the value they announce as old is *)
(* the one they replace.                                                   *)
(*                                                                         *)
(* The cached copies of the row (om:tenant) are the subject of AuthzCache. *)
(***************************************************************************)
EXTENDS Integers, FiniteSets

CONSTANTS Req         \* goroutines that serve P-2 and O-4

VARIABLES
  row,        \* the tenants row: settings and realm_sync_pending
  desired,    \* the last local_accounts_enabled the Realm Provisioner took
  realm,      \* local_accounts_enabled in the Keycloak realm
  announced,  \* the settings as a consumer of TenantSettingChanged knows them
  req,        \* the request of each goroutine
  job,        \* the run of realm-config-sync
  drift       \* history: why nothing will bring the realm back to the row

vars == <<row, desired, realm, announced, req, job, drift>>

(* local: local_accounts_enabled; mode: residency_mode = strict; flags:      *)
(* feature_flags.                                                            *)
Field == {"local", "mode", "flags", "pending"}
Announced == {"mode", "flags"}

(* The bodies of P-2 that pass validation and name one of these settings (a  *)
(* P-2 of the name, locale or MFA freshness alone is an OtherWrite).         *)
PatchBody == UNION {[S -> BOOLEAN] : S \in SUBSET {"local", "mode"} \ {{}}}
FlagsBody == [{"flags"} -> BOOLEAN]
NoBody == [f \in {} |-> FALSE]
Body == PatchBody \cup FlagsBody \cup {NoBody}
Old == UNION {[S -> BOOLEAN] : S \in SUBSET Announced}

(* old: the values read before the UPDATE; fresh: record_version is still    *)
(* the one the client sent; overtaken (history): local_accounts_enabled was  *)
(* committed again after this request committed it.                          *)
Idle == [at |-> "idle", body |-> NoBody, old |-> NoBody, sync |-> FALSE, fresh |-> FALSE,
         overtaken |-> FALSE]
Request == [at : {"idle", "update", "realm", "mark"}, body : Body, old : Old,
            sync : BOOLEAN, fresh : BOOLEAN, overtaken : BOOLEAN]
JobIdle == [at |-> "idle", local |-> FALSE, overtaken |-> FALSE]

Finish(r) == req' = [req EXCEPT ![r] = Idle]

(* Requests that still have the realm to patch, or a failed patch to mark.   *)
Syncing == {r \in Req : req[r].at \in {"realm", "mark"}}

(* touch_row: a changed row has a new record_version, so that every UPDATE   *)
(* still to come with the old one finds no row.                              *)
Touched(q) == [q EXCEPT !.fresh = FALSE]

(* A commit of local_accounts_enabled passes the syncs under way.            *)
Passed(q) == [q EXCEPT !.overtaken = q.at \in {"realm", "mark"} \/ q.overtaken]

(* The Realm Provisioner takes a setting: applied (200), or queued until     *)
(* Keycloak answers (202, applied:false); a newer one replaces it.           *)
Accepts(local) == desired' = local /\ realm' \in {realm, local}

(* The call fails or times out, with or without effect.                      *)
CallFails(local) == Accepts(local) \/ UNCHANGED <<desired, realm>>

(* History: cause says why a step may have left the Realm Provisioner with   *)
(* another setting than the row.                                             *)
Drifts(cause) ==
  drift' = IF desired' = row'.local THEN "none" ELSE IF cause = "none" THEN drift ELSE cause

-----------------------------------------------------------------------------
(* TenantService.Patch up to its UPDATE: the pre-read of the old values, and *)
(* whether the realm has to follow.                                          *)
PatchRead(r) ==
  /\ req[r].at = "idle"
  /\ \E body \in PatchBody :
       req' = [req EXCEPT ![r] =
                 [Idle EXCEPT !.at = "update", !.body = body, !.fresh = TRUE,
                              !.old = [f \in DOMAIN body \cap Announced |-> row[f]],
                              !.sync = "local" \in DOMAIN body /\ row.local # body.local]]
  /\ UNCHANGED <<row, desired, realm, announced, job, drift>>

(* OperatorService.SetFeatureFlags up to its transaction. *)
FlagsRead(r) ==
  /\ req[r].at = "idle"
  /\ \E body \in FlagsBody :
       req' = [req EXCEPT ![r] =
                 [Idle EXCEPT !.at = "update", !.body = body, !.fresh = TRUE,
                              !.old = [f \in Announced \cap DOMAIN body |-> row[f]]]]
  /\ UNCHANGED <<row, desired, realm, announced, job, drift>>

(* The row with the fields of the body set. *)
Patched(body) == [f \in Field |-> IF f \in DOMAIN body THEN body[f] ELSE row[f]]

(* A faulty variant: the UPDATE without its record_version predicate.        *)
UpdateUnversioned(r) == TRUE

(* UPDATE tenants ... WHERE record_version = $expected finds the row. *)
VersionMatches(r) == req[r].fresh

(* TenantRepository.Update, or SetFeatureFlags, and the event in the same    *)
(* transaction; 409 when the version is not the expected one.                *)
Update(r) ==
  /\ req[r].at = "update"
  /\ IF VersionMatches(r)
       THEN LET body == req[r].body
                next == IF req[r].sync THEN [req[r] EXCEPT !.at = "realm"] ELSE Idle
                moved == Patched(body) # row
                passed == Patched(body).local # row.local
            IN /\ row' = Patched(body)
               /\ announced' = [s \in Announced |->
                                  IF s \in DOMAIN body THEN body[s] ELSE announced[s]]
               /\ req' = [q \in Req |-> IF q = r THEN next
                                        ELSE LET p == IF passed THEN Passed(req[q]) ELSE req[q]
                                             IN IF moved THEN Touched(p) ELSE p]
               /\ job' = [job EXCEPT !.overtaken = (job.at # "idle" /\ passed) \/ job.overtaken]
       ELSE Finish(r) /\ UNCHANGED <<row, announced, job>>
  /\ UNCHANGED <<desired, realm>>
  /\ Drifts("none")

(* RealmProvisioner.PatchRealmConfig after the commit: any 2xx is nil, and   *)
(* the request ends without a marker.                                        *)
RealmPatched(r) ==
  /\ req[r].at = "realm"
  /\ Accepts(req[r].body.local)
  /\ Finish(r)
  /\ UNCHANGED <<row, announced, job>>
  /\ Drifts(IF req[r].overtaken THEN "overtaken" ELSE "none")

(* A faulty variant: a failed patch of the realm is answered, not marked.    *)
RealmFailsUnmarked(r) ==
  /\ req[r].at = "realm"
  /\ CallFails(req[r].body.local)
  /\ Finish(r)
  /\ UNCHANGED <<row, announced, job>>
  /\ Drifts("none")

(* Anything else is an error, which is to be marked. *)
RealmFails(r) ==
  /\ req[r].at = "realm"
  /\ CallFails(req[r].body.local)
  /\ req' = [req EXCEPT ![r].at = "mark"]
  /\ UNCHANGED <<row, announced, job>>
  /\ Drifts("none")

(* SetRealmSyncPending. *)
Mark(r) ==
  /\ req[r].at = "mark"
  /\ row' = [row EXCEPT !["pending"] = TRUE]
  /\ req' = [q \in Req |-> IF q = r THEN Idle
                           ELSE IF row.pending THEN req[q] ELSE Touched(req[q])]
  /\ job' = [job EXCEPT !.overtaken = (job.at # "idle") \/ job.overtaken]
  /\ UNCHANGED <<desired, realm, announced>>
  /\ Drifts("none")

(* The marker is not written either: its error is dropped.                   *)
MarkFails(r) ==
  /\ req[r].at = "mark"
  /\ Finish(r)
  /\ UNCHANGED <<row, desired, realm, announced, job>>
  /\ Drifts("lost")

(* The process stops, or the client goes away and its context is cancelled.  *)
Dropped(r) ==
  /\ req[r].at # "idle"
  /\ Finish(r)
  /\ UNCHANGED <<row, desired, realm, announced, job>>
  /\ Drifts(IF r \in Syncing THEN "lost" ELSE "none")

(* Any other write of the row before the UPDATE, or before the pre-read but  *)
(* after the client read its version: P-2 of the other fields, the lifecycle *)
(* consumer, the owner marker.                                               *)
OtherWrite ==
  /\ \E r \in Req : req[r].fresh
  /\ req' = [r \in Req |-> Touched(req[r])]
  /\ UNCHANGED <<row, desired, realm, announced, job, drift>>

-----------------------------------------------------------------------------
(* A faulty variant: the disables that go first are the only ones listed.    *)
SyncListDisables ==
  /\ job.at = "idle" /\ row.pending /\ ~row.local
  /\ job' = [at |-> "patch", local |-> row.local, overtaken |-> FALSE]
  /\ UNCHANGED <<row, desired, realm, announced, req, drift>>

(* realm-config-sync: ListRealmSyncPending, *)
SyncList ==
  /\ job.at = "idle" /\ row.pending
  /\ job' = [at |-> "patch", local |-> row.local, overtaken |-> FALSE]
  /\ UNCHANGED <<row, desired, realm, announced, req, drift>>

(* A faulty variant: the marker goes before the patch.                       *)
SyncPatchClears ==
  /\ job.at = "patch"
  /\ Accepts(job.local)
  /\ job' = [job EXCEPT !.at = "clear"]
  /\ row' = [row EXCEPT !["pending"] = FALSE]
  /\ UNCHANGED <<announced, req>>
  /\ Drifts("none")

(* PatchRealmConfig with the setting that was read (nil for a 202 too), *)
SyncPatch ==
  /\ job.at = "patch"
  /\ Accepts(job.local)
  /\ job' = [job EXCEPT !.at = "clear"]
  /\ UNCHANGED <<row, announced, req>>
  /\ Drifts("none")

(* which may fail, with or without effect, and leaves the marker, *)
SyncFails ==
  /\ job.at = "patch"
  /\ CallFails(job.local)
  /\ job' = JobIdle
  /\ UNCHANGED <<row, announced, req>>
  /\ Drifts("none")

(* ClearRealmSyncPending: whatever the row says by now, and whether or not   *)
(* the realm has the setting.                                                *)
SyncClear ==
  /\ job.at = "clear"
  /\ job' = JobIdle
  /\ row' = [row EXCEPT !["pending"] = FALSE]
  /\ req' = [q \in Req |-> IF row.pending THEN Touched(req[q]) ELSE req[q]]
  /\ UNCHANGED <<desired, realm, announced>>
  /\ Drifts(IF job.overtaken THEN "overtaken" ELSE "none")

(* The clear fails, or the job's process stops. *)
SyncAbort ==
  /\ job.at # "idle"
  /\ job' = JobIdle
  /\ UNCHANGED <<row, desired, realm, announced, req, drift>>

(* The Realm Provisioner applies what it queued. *)
RealmReconciled ==
  /\ realm # desired
  /\ realm' = desired
  /\ UNCHANGED <<row, desired, announced, req, job, drift>>

-----------------------------------------------------------------------------
Init ==
  /\ row \in [Field -> BOOLEAN] /\ ~row.mode /\ ~row.flags /\ ~row.pending
  /\ desired = row.local /\ realm = row.local
  /\ announced = [s \in Announced |-> row[s]]
  /\ req = [r \in Req |-> Idle]
  /\ job = JobIdle
  /\ drift = "none"

Next ==
  \/ \E r \in Req : PatchRead(r) \/ FlagsRead(r) \/ Update(r) \/ RealmPatched(r)
                    \/ RealmFails(r) \/ Mark(r) \/ MarkFails(r) \/ Dropped(r)
  \/ OtherWrite
  \/ SyncList \/ SyncPatch \/ SyncFails \/ SyncClear \/ SyncAbort
  \/ RealmReconciled

Spec == Init /\ [][Next]_vars

(* The job runs on its schedule.  Of the Realm Provisioner, which is another *)
(* service: it does not refuse every call of the job, and it applies in the  *)
(* end what it answered 202 to.                                              *)
Fairness ==
  /\ WF_vars(SyncList) /\ SF_vars(SyncPatch) /\ SF_vars(SyncClear)
  /\ WF_vars(RealmReconciled)

LiveSpec == Spec /\ Fairness

-----------------------------------------------------------------------------
(* Types; only a request that changes local_accounts_enabled syncs the       *)
(* realm, and the job works on a marked row until it clears the marker.      *)
TypeOK ==
  /\ row \in [Field -> BOOLEAN] /\ {desired, realm} \subseteq BOOLEAN
  /\ announced \in [Announced -> BOOLEAN]
  /\ req \in [Req -> Request]
  /\ \A r \in Req : /\ DOMAIN req[r].old = DOMAIN req[r].body \cap Announced
                    /\ req[r].sync => "local" \in DOMAIN req[r].body
                    /\ r \in Syncing => req[r].sync
  /\ job \in [at : {"idle", "patch", "clear"}, local : BOOLEAN, overtaken : BOOLEAN]
  /\ job.at # "idle" => row.pending
  /\ drift \in {"none", "lost", "overtaken"}

(* The trail of TenantSettingChanged is a chain: consumers hold the settings *)
(* of the row, and the old value a transaction is about to announce is the   *)
(* one they hold, although P-2 and O-4 read it before they write.            *)
SettingsChained ==
  /\ \A s \in Announced : announced[s] = row[s]
  /\ \A r \in Req : req[r].at = "update" /\ VersionMatches(r) =>
       \A s \in DOMAIN req[r].old : req[r].old[s] = announced[s]

(* T-15: a realm that differs from the row is one some request is about to   *)
(* patch or mark, or the job will find by its marker, or the Realm           *)
(* Provisioner has a setting queued for it (nothing marks a 202), or one of  *)
(* two recorded causes left it behind: the request ended between its commit  *)
(* and its marker, or a sync overtaken by a later commit wrote, or cleared,  *)
(* last.  What is queued is the setting of the row, with the same exceptions.*)
RealmMarked ==
  realm # row.local \/ desired # row.local =>
    \/ row.pending \/ Syncing # {} \/ drift # "none"
    \/ realm # desired /\ desired = row.local

(* T-15, reconcile: once no request is under way, the marker goes and the    *)
(* Realm Provisioner holds the setting of the row, which the realm then      *)
(* gets, unless the realm was left behind.                                   *)
RealmConverges ==
  (<>[](\A r \in Req : req[r].at = "idle"))
     => <>[](~row.pending /\ (realm = row.local \/ drift # "none"))
=============================================================================
