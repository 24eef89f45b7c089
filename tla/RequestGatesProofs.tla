------------------------- MODULE RequestGatesProofs -------------------------
(***************************************************************************)
(* Theorems of RequestGates, for any set of tenants.                       *)
(***************************************************************************)
EXTENDS RequestGates, TLAPS

(* Routes whose handler binds the tenant that the request names.             *)
Rebinding == {SetFeatureFlags, ReassignOwner, GetMemberships, ProvisionTenant}

(* Before its handler a request is bound to the tenant of its group's gates, *)
(* and the gate of the tenant routes has compared the two tenants.           *)
Gated ==
  at \in {"tenant_gate", "member_gate", "handler"} =>
    /\ req.route \in Routes
    /\ bound = GatedTenant(req)
    /\ req.route.group = "tenants" => req.header = req.named

-----------------------------------------------------------------------------
LEMMA TenantRouteGroups == \A rt \in TenantRoutes : rt.group = "tenants"
  BY DEF TenantRoutes, TenantGet, TenantPatch, DepartmentList, DepartmentActivate,
         DepartmentPatch, MembershipList, MembershipGet, Invite, MembershipPatch,
         MembershipRemove, RemovalResolution, ReconcileRoles, ResetMFA, SeatUsage,
         DeptMembershipList, DeptMembershipAssign, DeptMembershipRemove, RoleLabelList,
         RoleLabelPatch, InvitationList, InvitationRevoke, Route

LEMMA RebindingGroups == \A rt \in Rebinding : rt.group \in {"operator", "internal"}
  BY DEF Rebinding, SetFeatureFlags, ReassignOwner, GetMemberships, ProvisionTenant, Route

LEMMA SystemRouteGroups ==
  \A rt \in SystemRoutes :
    \/ rt \in Rebinding
    \/ rt \in {ListSubscriptionLapses, CheckTrialEligibility}
    \/ rt.group = "scoped"
  BY DEF SystemRoutes, Rebinding, PatchTenantRealm, AddMember, AssignFromGroups,
         PatchMemberLifecycle, DeleteMember, GetLocale, GetMFAFreshness, GetSeatUsage,
         AssigneeOverride, CheckMemberExists, GetPlanContext, PlanChangeCheck,
         CheckAssigneeEligibility, ListDepartments, Route

(* The table of routes: who rebinds, who crosses tenants, and the groups of  *)
(* all others.                                                               *)
LEMMA RouteFacts ==
  ASSUME NEW rt \in Routes
  PROVE  \/ rt \in Rebinding /\ rt.group \in {"operator", "internal"}
         \/ rt \in {ListSubscriptionLapses, CheckTrialEligibility, ResolveTenant}
         \/ rt \notin Rebinding /\ rt.group \in {"tenants", "me", "scoped"}
<1>1. SessionContext.group = "me"
  BY DEF SessionContext, Route
<1> QED BY <1>1, TenantRouteGroups, SystemRouteGroups, RebindingGroups DEF Routes

-----------------------------------------------------------------------------
(* What the gates of Arrive let through.                                     *)
LEMMA ArriveGates ==
  ASSUME NEW q \in Request, q.route.group = "tenants", GroupGate(q) = "none"
  PROVE  q.header = q.named
  BY DEF GroupGate, RequirePathTenantMatch

LEMMA ArriveStep ==
  ASSUME Arrive
  PROVE  at' = "idle" \/ (Gated' /\ at' # "service")
<1>1. PICK q \in Request :
        LET refused == IF q.route.group = "public" THEN "none"
                       ELSE IF Unbridged(q) # "none" THEN Unbridged(q) ELSE GroupGate(q)
        IN IF refused # "none"
             THEN Refuse(refused)
             ELSE /\ req' = q /\ at' = Stage(q) /\ bound' = GatedTenant(q)
                  /\ answer' = 0 /\ unread' = FALSE
                  /\ since' = IF Watched(q) THEN Facts(status, member) ELSE {}
                  /\ UNCHANGED <<status, member>>
  BY DEF Arrive
<1> DEFINE refused == IF q.route.group = "public" THEN "none"
                      ELSE IF Unbridged(q) # "none" THEN Unbridged(q) ELSE GroupGate(q)
<1>2. CASE refused # "none"
  BY <1>1, <1>2 DEF Refuse, Ended
<1>3. CASE refused = "none"
  <2>1. req' = q /\ at' = Stage(q) /\ bound' = GatedTenant(q)
    BY <1>1, <1>3
  <2>2. q.route \in Routes
    BY DEF Request
  <2>3. q.route.group = "tenants" => q.header = q.named
    BY <1>3, ArriveGates
  <2>4. at' \in {"tenant_gate", "handler"}
    BY <2>1 DEF Stage
  <2> QED BY <2>1, <2>2, <2>3, <2>4 DEF Gated, GatedTenant
<1> QED BY <1>2, <1>3

(* The handler completes what the gates began.                               *)
LEMMA HandleStep ==
  ASSUME Gated, Handle
  PROVE  at' = "idle" \/ (at' = "service" /\ TenantBound')
<1>1. CASE at' = "idle"
  BY <1>1
<1>2. CASE at' # "idle"
  <2>1. at = "handler" /\ at' = "service" /\ bound' = HandlerTenant(req) /\ req' = req
    BY <1>2 DEF Handle, Refuse, Ended
  <2>2. /\ req.route \in Routes /\ bound = GatedTenant(req)
        /\ req.route.group = "tenants" => req.header = req.named
    BY <2>1 DEF Gated
  <2>3. CASE req.route \in Rebinding /\ req.route.group \in {"operator", "internal"}
    BY <2>1, <2>3 DEF TenantBound, HandlerTenant, Rebinding, Target, Watched
  <2>4. CASE req.route \in {ListSubscriptionLapses, CheckTrialEligibility, ResolveTenant}
    BY <2>1, <2>4 DEF TenantBound, CrossTenant
  <2>5. CASE req.route \notin Rebinding /\ req.route.group \in {"tenants", "me", "scoped"}
    <3>1. bound' = GatedTenant(req)
      BY <2>1, <2>2, <2>5 DEF HandlerTenant, Rebinding
    <3> QED BY <2>1, <2>2, <2>5, <3>1 DEF TenantBound, GatedTenant, Target, Watched
  <2> QED BY <2>2, <2>3, <2>4, <2>5, RouteFacts
<1> QED BY <1>1, <1>2

LEMMA BoundStep == Gated /\ TenantBound /\ [Next]_vars => (Gated /\ TenantBound)'
<1> SUFFICES ASSUME Gated, TenantBound, [Next]_vars PROVE (Gated /\ TenantBound)'
  OBVIOUS
<1>i. ASSUME at' = "idle" PROVE (Gated /\ TenantBound)'
  BY <1>i DEF Gated, TenantBound
<1>u. ASSUME UNCHANGED <<req, bound>>, at' \in {at, "member_gate", "handler"},
             at' = at \/ at \in {"tenant_gate", "member_gate"}
      PROVE  (Gated /\ TenantBound)'
  BY <1>u DEF Gated, TenantBound, GatedTenant, Target, Watched, CrossTenant
<1>1. CASE Arrive
  BY <1>1, <1>i, ArriveStep DEF TenantBound
<1>2. CASE TenantGate
  BY <1>2, <1>i, <1>u DEF TenantGate, Refuse, Ended
<1>3. CASE MemberGate
  BY <1>3, <1>i, <1>u DEF MemberGate, Refuse, Ended
<1>4. CASE Handle
  <2>1. CASE at' = "idle"
    BY <2>1, <1>i
  <2>2. CASE at' = "service" /\ TenantBound'
    BY <2>2 DEF Gated
  <2> QED BY <1>4, <2>1, <2>2, HandleStep
<1>5. CASE Serve \/ ServeSession
  BY <1>5, <1>i DEF Serve, ServeSession, Ended
<1>6. CASE Change
  BY <1>6, <1>u DEF Change
<1>7. CASE UNCHANGED vars
  BY <1>7, <1>u DEF vars
<1> QED BY <1>1, <1>2, <1>3, <1>4, <1>5, <1>6, <1>7 DEF Next

(* For any set of tenants and either mode of BindPathTenant: on each of the  *)
(* routes, when the service runs, row-level security is bound to the tenant  *)
(* its repositories filter by, and for a tenant's own callers that is the    *)
(* tenant of their token.                                                    *)
THEOREM ServiceIsBound == Spec => []TenantBound
<1>1. Init => Gated /\ TenantBound
  BY DEF Init, Gated, TenantBound
<1> QED BY <1>1, BoundStep, PTL DEF Spec

-----------------------------------------------------------------------------
(* The activity gates and the changes that race them.                        *)

(* What RequireActiveTenant has to find true of the tenant.                  *)
Needed(q) == IF Writes(q) THEN "writable" ELSE "readable"

(* The request of a tenant's own caller, whom the gates do not let pass.     *)
Subject == Watched(req) /\ ~ Bypasses(req)

(* Behind each gate stands what the gate saw, or what was true when it       *)
(* looked: since never loses a fact, and it holds those of this instant.     *)
Admitted ==
  /\ status \in Status
  /\ at \in {"idle", "tenant_gate", "member_gate", "handler", "service"}
  /\ at # "idle" /\ Watched(req) => Facts(status, member) \subseteq since
  /\ at \in {"member_gate", "handler", "service"} /\ Subject => Needed(req) \in since
  /\ at \in {"handler", "service"} /\ Subject
       => req.route.group = "me" \/ unread \/ "member" \in since

(* The statuses without a refusal are those that admit the request.          *)
LEMMA StatusAdmits ==
  ASSUME status \in Status, StatusRefusal = "none"
  PROVE  Needed(req) \in Facts(status, member)
  BY DEF Status, StatusRefusal, Needed, Facts

LEMMA AdmittedArrive == ASSUME Admitted, Arrive PROVE Admitted'
<1>1. PICK q \in Request :
        LET refused == IF q.route.group = "public" THEN "none"
                       ELSE IF Unbridged(q) # "none" THEN Unbridged(q) ELSE GroupGate(q)
        IN IF refused # "none"
             THEN Refuse(refused)
             ELSE /\ req' = q /\ at' = Stage(q) /\ bound' = GatedTenant(q)
                  /\ answer' = 0 /\ unread' = FALSE
                  /\ since' = IF Watched(q) THEN Facts(status, member) ELSE {}
                  /\ UNCHANGED <<status, member>>
  BY DEF Arrive
<1>2. CASE at' = "idle" /\ UNCHANGED status
  BY <1>2 DEF Admitted
<1>3. CASE /\ req' = q /\ at' = Stage(q)
           /\ since' = IF Watched(q) THEN Facts(status, member) ELSE {}
           /\ UNCHANGED <<status, member>>
  BY <1>3 DEF Admitted, Stage, Watched, Facts, Subject
<1> QED BY <1>1, <1>2, <1>3 DEF Refuse, Ended

LEMMA AdmittedTenantGate == ASSUME Admitted, TenantGate PROVE Admitted'
<1>1. CASE at' = "idle" /\ UNCHANGED status
  BY <1>1 DEF Admitted
<1>2. ASSUME NEW read \in BOOLEAN,
             Bypasses(req) \/ RequireActiveTenant(read) = "none", at = "tenant_gate",
             at' = (IF req.route.group = "me" THEN "handler" ELSE "member_gate"),
             UNCHANGED <<req, bound, answer, status, member, since, unread>>
      PROVE  Admitted'
  <2>1. Subject => Needed(req) \in since
    <3> SUFFICES ASSUME Subject PROVE Needed(req) \in since
      OBVIOUS
    <3>1. StatusRefusal = "none"
      BY <1>2 DEF Subject, RequireActiveTenant
    <3> QED BY <1>2, <3>1, StatusAdmits DEF Admitted, Subject
  <2> QED BY <1>2, <2>1 DEF Admitted, Subject, Watched, Bypasses, HasRole, IsOperator,
             Needed, Writes, Facts
<1> QED BY <1>1, <1>2 DEF TenantGate, Refuse, Ended

LEMMA AdmittedMemberGate == ASSUME Admitted, MemberGate PROVE Admitted'
<1>1. CASE at' = "idle" /\ UNCHANGED status
  BY <1>1 DEF Admitted
<1>2. ASSUME NEW read \in BOOLEAN, at = "member_gate",
             ~ (~ Bypasses(req) /\ read /\ member # "active"),
             at' = "handler", unread' = (~ Bypasses(req) /\ ~ read),
             UNCHANGED <<req, bound, answer, status, member, since>>
      PROVE  Admitted'
  <2>1. Subject => unread' \/ "member" \in since
    BY <1>2 DEF Subject, Admitted, Facts
  <2>2. Subject' = Subject /\ Needed(req)' = Needed(req) /\ Watched(req)' = Watched(req)
    BY <1>2 DEF Subject, Watched, Bypasses, HasRole, IsOperator, Needed, Writes
  <2> QED BY <1>2, <2>1, <2>2 DEF Admitted, Facts
<1> QED BY <1>1, <1>2 DEF MemberGate, Refuse, Ended

LEMMA AdmittedStep == Admitted /\ [Next]_vars => Admitted'
<1> SUFFICES ASSUME Admitted, [Next]_vars PROVE Admitted'
  OBVIOUS
<1>i. ASSUME at' = "idle", UNCHANGED status PROVE Admitted'
  BY <1>i DEF Admitted
<1>s. ASSUME UNCHANGED req
      PROVE  Subject' = Subject /\ Needed(req)' = Needed(req) /\ Watched(req)' = Watched(req)
  BY <1>s DEF Subject, Watched, Bypasses, HasRole, IsOperator, Needed, Writes
<1>1. CASE Arrive
  BY <1>1, AdmittedArrive
<1>2. CASE TenantGate
  BY <1>2, AdmittedTenantGate
<1>3. CASE MemberGate
  BY <1>3, AdmittedMemberGate
<1>4. CASE Handle
  <2>1. CASE at = "handler" /\ at' = "service" /\ UNCHANGED <<req, status, member, since, unread>>
    BY <1>s, <2>1 DEF Admitted, Facts
  <2> QED BY <1>4, <1>i, <2>1 DEF Handle, Refuse, Ended
<1>5. CASE Serve \/ ServeSession
  BY <1>5, <1>i DEF Serve, ServeSession, Ended
<1>6. CASE Change
  <2>1. PICK s \in Status, m \in Member :
          /\ status' = s /\ member' = m
          /\ since' = IF at # "idle" /\ Watched(req) THEN since \cup Facts(s, m) ELSE since
    BY <1>6 DEF Change
  <2>2. UNCHANGED <<req, at, unread>> /\ since \subseteq since'
    BY <1>6, <2>1 DEF Change
  <2>3. at # "idle" /\ Watched(req) => Facts(status', member') \subseteq since'
    BY <2>1
  <2> QED BY <1>s, <2>1, <2>2, <2>3 DEF Admitted, Facts
<1>7. CASE UNCHANGED vars
  BY <1>7, <1>s DEF vars, Admitted, Facts
<1> QED BY <1>1, <1>2, <1>3, <1>4, <1>5, <1>6, <1>7 DEF Next

(* For any set of tenants, and however the tenant and the membership change  *)
(* while the request is under way: a tenant-facing service runs only for a   *)
(* caller whom tenant and membership admitted at some time of the request,   *)
(* unless it is a control principal or the membership could not be read.     *)
THEOREM ServedIsAdmitted == Spec => []ServedWasAdmitted
<1>1. Init => Admitted
  BY DEF Init, Admitted
<1>2. Admitted => ServedWasAdmitted
  BY DEF Admitted, ServedWasAdmitted, Subject, Needed
<1> QED BY <1>1, <1>2, AdmittedStep, PTL DEF Spec
=============================================================================
