---------------------------- MODULE RequestGates ----------------------------
(***************************************************************************)
(* What stands between a request and a service: the authentication and the *)
(* identity bridge, the gates of each route group, and the checks of each  *)
(* handler.  A gate that reads the database is a step of its own, so that  *)
(* the tenant or the caller's membership may change before the service     *)
(* runs.  Row-level security filters by app.tenant_id (bound), while the   *)
(* repositories filter by the tenant the handler passes (Target).          *)
(***************************************************************************)
EXTENDS Integers, Sequences

CONSTANTS Tenant,       \* tenant ids
          Strict        \* STRICT_TENANT_PATH_VALIDATION

ASSUME StrictAssumption == Strict \in BOOLEAN

VARIABLES
  req,        \* the request under way
  at,         \* the next thing to look at it: idle, tenant_gate, member_gate, handler, service
  bound,      \* app.tenant_id of its transactions
  answer,     \* the last answer
  status,     \* of the caller's tenant
  member,     \* status of the caller's membership
  since,      \* history: what was true of tenant and member at some time of the request
  unread      \* history: the membership could not be read

vars == <<req, at, bound, answer, status, member, since, unread>>

Status == {"trial", "active", "past_due", "trial_expired", "suspended", "cancelled", "offboarded"}
Member == {"active", "suspended", "left", "none"}

-----------------------------------------------------------------------------
(* The routes.  A handler's checks are listed in the order of its early      *)
(* returns: path, param and query values parsed, the caller's tenant         *)
(* compared, the role asked for, the body bound.                             *)
Route(id, group, method, role, checks) ==
  [id |-> id, group |-> group, method |-> method, role |-> role, checks |-> checks]

ReadChecks == <<"path", "tenant">>
ReadOneChecks == <<"path", "param", "tenant">>
AdminChecks == <<"path", "tenant", "role">>
AdminOneChecks == <<"path", "param", "tenant", "role">>

TenantGet == Route("P-1", "tenants", "GET", "none", ReadChecks)
TenantPatch == Route("P-2", "tenants", "PATCH", "owner", AdminChecks \o <<"body">>)
DepartmentList == Route("P-3", "tenants", "GET", "none", ReadChecks)
MembershipList == Route("P-4", "tenants", "GET", "none", ReadChecks \o <<"query">>)
MembershipGet == Route("P-5", "tenants", "GET", "none", ReadOneChecks)
Invite == Route("P-6", "tenants", "POST", "admin", AdminChecks \o <<"body">>)
MembershipPatch == Route("P-7", "tenants", "PATCH", "admin", AdminOneChecks \o <<"body">>)
MembershipRemove == Route("P-8", "tenants", "DELETE", "admin", AdminOneChecks)
DeptMembershipList == Route("P-9", "tenants", "GET", "none", ReadOneChecks)
DeptMembershipAssign == Route("P-10", "tenants", "PUT", "admin", AdminOneChecks \o <<"body">>)
DeptMembershipRemove == Route("P-11", "tenants", "DELETE", "admin", AdminOneChecks)
RoleLabelList == Route("P-12", "tenants", "GET", "none", ReadChecks)
RoleLabelPatch == Route("P-13", "tenants", "PATCH", "admin", AdminOneChecks \o <<"body">>)
DepartmentActivate == Route("P-24", "tenants", "POST", "admin", AdminChecks \o <<"body">>)
DepartmentPatch == Route("P-25", "tenants", "PATCH", "admin", AdminOneChecks \o <<"body">>)
RemovalResolution == Route("P-26", "tenants", "POST", "admin", AdminOneChecks \o <<"body">>)
SeatUsage == Route("P-27", "tenants", "GET", "admin", AdminChecks)
ReconcileRoles == Route("P-28", "tenants", "PUT", "admin", AdminOneChecks \o <<"body">>)
InvitationList == Route("P-30", "tenants", "GET", "admin", AdminChecks)
InvitationRevoke == Route("P-31", "tenants", "DELETE", "admin", AdminOneChecks \o <<"body">>)
ResetMFA == Route("P-34", "tenants", "POST", "admin", AdminOneChecks)
SessionContext == Route("P-35", "me", "GET", "none", <<>>)

SetFeatureFlags == Route("O-4", "operator", "PATCH", "operator", <<"role", "path", "body">>)
ReassignOwner == Route("O-7", "operator", "POST", "operator", <<"role", "path", "body">>)

ProvisionTenant == Route("I-1", "internal", "POST", "none", <<"body">>)
GetMemberships == Route("I-8", "internal", "GET", "none", <<"param", "query">>)
ListSubscriptionLapses == Route("I-16", "internal", "GET", "none", <<>>)
CheckTrialEligibility == Route("CR-4", "internal", "POST", "none", <<"body">>)

PatchTenantRealm == Route("I-2", "scoped", "PATCH", "none", <<"path", "body">>)
AddMember == Route("I-3", "scoped", "POST", "none", <<"path", "body">>)
PatchMemberLifecycle == Route("I-4", "scoped", "PATCH", "none", <<"path", "param", "body">>)
DeleteMember == Route("I-5", "scoped", "DELETE", "none", <<"path", "param">>)
GetLocale == Route("I-9", "scoped", "GET", "none", <<"path">>)
AssignFromGroups == Route("I-10", "scoped", "POST", "none", <<"path", "body">>)
GetSeatUsage == Route("I-11", "scoped", "GET", "none", <<"path">>)
AssigneeOverride == Route("I-13", "scoped", "POST", "none", <<"path", "param", "body">>)
GetMFAFreshness == Route("I-14", "scoped", "GET", "none", <<"path">>)
CheckMemberExists == Route("I-15", "scoped", "GET", "none", <<"path", "param">>)
GetPlanContext == Route("I-17", "scoped", "GET", "none", <<"path">>)
PlanChangeCheck == Route("I-18", "scoped", "GET", "none", <<"path", "query">>)
CheckAssigneeEligibility == Route("I-19", "scoped", "GET", "none", <<"path", "param", "query">>)
ListDepartments == Route("I-20", "scoped", "GET", "none", <<"path">>)

ResolveTenant == Route("PUB-1", "public", "GET", "none", <<"query">>)

(* registerAPIRoutes and registerPublicRoutes. *)
TenantRoutes ==
  {TenantGet, TenantPatch, DepartmentList, DepartmentActivate, DepartmentPatch, MembershipList,
   MembershipGet, Invite, MembershipPatch, MembershipRemove, RemovalResolution, ReconcileRoles,
   ResetMFA, SeatUsage, DeptMembershipList, DeptMembershipAssign, DeptMembershipRemove,
   RoleLabelList, RoleLabelPatch, InvitationList, InvitationRevoke}
SystemRoutes ==
  {SetFeatureFlags, ReassignOwner, ProvisionTenant, GetMemberships, ListSubscriptionLapses,
   CheckTrialEligibility, PatchTenantRealm, AddMember, AssignFromGroups, PatchMemberLifecycle,
   DeleteMember, GetLocale, GetMFAFreshness, GetSeatUsage, AssigneeOverride, CheckMemberExists,
   GetPlanContext, PlanChangeCheck, CheckAssigneeEligibility, ListDepartments}
Routes == TenantRoutes \cup {SessionContext} \cup SystemRoutes \cup {ResolveTenant}

-----------------------------------------------------------------------------
(* A request: its route, the roles and the tenant of its token, the tenant   *)
(* it names (in the path, the query or the body) and what is wrong with it.  *)
Roles == {{}, {"tenant_admin"}, {"tenant_owner"}, {"platform_operator"}, {"iam-system"},
          {"commercial-system"}, {"platform_operator", "tenant_admin"}}
Defect == {"none", "identity", "header", "media", "path", "param", "query", "body"}
Request == [route : Routes, roles : Roles, header : Tenant, named : Tenant, defect : Defect]

Writes(q) == q.route.method # "GET"
HasRole(q, role) == role \in q.roles
IsAdmin(q) == HasRole(q, "tenant_owner") \/ HasRole(q, "tenant_admin")
IsOperator(q) == HasRole(q, "platform_operator")

(* System and operator principals pass the activity gates. *)
Bypasses(q) == HasRole(q, "iam-system") \/ IsOperator(q)

(* domainErrorToProblem, for the errors that the gates and handlers raise.   *)
Problem(err) ==
  CASE err = "validation" -> 400
    [] err = "missing_identity" -> 401
    [] err \in {"insufficient_role", "tenant_trial_expired", "tenant_suspended",
                "tenant_read_only"} -> 403
    [] err \in {"tenant_not_found", "member_not_found"} -> 404
    [] err \in {"conflict", "seat_limit_reached"} -> 409
    [] err = "media_type" -> 415
    [] err = "invite_rate_limited" -> 429
    [] err \in {"db_unavailable", "request_timeout"} -> 503
    [] OTHER -> 422

(* The tenant that the repositories of the service filter by. *)
Target(q) == IF q.route.group \in {"me", "public"} THEN q.header ELSE q.named

(* I-16, CR-4 and PUB-1 query without a tenant, on the BYPASSRLS pool. *)
CrossTenant(q) == q.route \in {ListSubscriptionLapses, CheckTrialEligibility, ResolveTenant}

Idle == [route |-> ResolveTenant, roles |-> {}, header |-> CHOOSE t \in Tenant : TRUE,
         named |-> CHOOSE t \in Tenant : TRUE, defect |-> "none"]

Ended(a) ==
  /\ req' = Idle /\ at' = "idle" /\ bound' = Idle.header
  /\ answer' = a /\ since' = {} /\ unread' = FALSE

Refuse(err) == Ended(Problem(err)) /\ UNCHANGED <<status, member>>

-----------------------------------------------------------------------------
(* ProtectedMiddlewares (external), GUCBridgeMiddleware and                  *)
(* RequireJSONContentType: the identity is there and well formed.            *)
Unbridged(q) ==
  IF q.defect \in {"identity", "header"} THEN "missing_identity"
  ELSE IF q.defect = "media" /\ q.route.method \in {"POST", "PUT", "PATCH"} THEN "media_type"
  ELSE "none"

(* RequirePathTenantMatch. *)
RequirePathTenantMatch(q) ==
  IF q.defect = "path" THEN "validation"
  ELSE IF q.header # q.named THEN "insufficient_role" ELSE "none"

(* RequireInternalCaller with commercialSystemAllowedRoutes. *)
CommercialSystemAllowedRoutes == {GetSeatUsage, GetPlanContext, PlanChangeCheck}
RequireInternalCaller(q) ==
  IF \/ HasRole(q, "iam-system")
     \/ HasRole(q, "commercial-system") /\ q.route \in CommercialSystemAllowedRoutes
    THEN "none" ELSE "insufficient_role"

RequireOperatorRole(q) == IF IsOperator(q) THEN "none" ELSE "insufficient_role"

(* BindPathTenant: strict mode refuses a header that differs from the path.  *)
BindPathTenant(q) ==
  IF q.defect = "path" \/ (Strict /\ q.header # q.named) THEN "validation" ELSE "none"

(* The gates of the route's group that look at nothing but the request. *)
GroupGate(q) ==
  CASE q.route.group = "tenants" -> RequirePathTenantMatch(q)
    [] q.route.group = "operator" -> RequireOperatorRole(q)
    [] q.route.group = "internal" -> RequireInternalCaller(q)
    [] q.route.group = "scoped" -> IF RequireInternalCaller(q) # "none"
                                     THEN RequireInternalCaller(q) ELSE BindPathTenant(q)
    [] OTHER -> "none"

Stage(q) == IF q.route.group \in {"tenants", "me"} THEN "tenant_gate" ELSE "handler"

(* A faulty variant: the internal routes keep the tenant of the header.      *)
HeaderBound(q) == q.header

(* app.tenant_id behind the gates: GUCBridgeMiddleware takes it from the     *)
(* header, BindPathTenant from the path.                                     *)
GatedTenant(q) == IF q.route.group = "scoped" THEN q.named ELSE q.header

Facts(s, m) ==
  {f \in {"readable", "writable", "member"} :
     \/ f = "readable" /\ s \in {"trial", "active", "past_due", "cancelled"}
     \/ f = "writable" /\ s \in {"trial", "active", "past_due"}
     \/ f = "member" /\ m = "active"}

Watched(q) == q.route.group \in {"tenants", "me"}

(* A request arrives and goes through the middlewares that read no state. *)
Arrive ==
  /\ at = "idle"
  /\ \E q \in Request :
       LET refused == IF q.route.group = "public" THEN "none"
                      ELSE IF Unbridged(q) # "none" THEN Unbridged(q) ELSE GroupGate(q)
       IN IF refused # "none"
            THEN Refuse(refused)
            ELSE /\ req' = q /\ at' = Stage(q) /\ bound' = GatedTenant(q)
                 /\ answer' = 0 /\ unread' = FALSE
                 /\ since' = IF Watched(q) THEN Facts(status, member) ELSE {}
                 /\ UNCHANGED <<status, member>>

(* The refusal that the status of the tenant calls for.                      *)
StatusRefusal ==
  CASE status = "trial_expired" -> "tenant_trial_expired"
    [] status = "suspended" -> "tenant_suspended"
    [] status = "offboarded" -> "tenant_not_found"
    [] status = "cancelled" /\ Writes(req) -> "tenant_read_only"
    [] OTHER -> "none"

(* A faulty variant: the request goes on when the tenant cannot be read.     *)
TenantGateOpen(read) == IF read THEN StatusRefusal ELSE "none"

(* RequireActiveTenant: a tenant that cannot be read refuses. *)
RequireActiveTenant(read) == IF read THEN StatusRefusal ELSE "db_unavailable"

TenantGate ==
  /\ at = "tenant_gate"
  /\ \E read \in BOOLEAN :
       LET refused == IF Bypasses(req) THEN "none" ELSE RequireActiveTenant(read)
       IN IF refused # "none"
            THEN Refuse(refused)
            ELSE /\ at' = IF req.route.group = "me" THEN "handler" ELSE "member_gate"
                 /\ UNCHANGED <<req, bound, answer, status, member, since, unread>>

(* RequireActiveMembership: a membership that cannot be read passes. *)
MemberGate ==
  /\ at = "member_gate"
  /\ \E read \in BOOLEAN :
       IF ~Bypasses(req) /\ read /\ member # "active"
         THEN Refuse("insufficient_role")
         ELSE /\ at' = "handler"
              /\ unread' = (~Bypasses(req) /\ ~read)
              /\ UNCHANGED <<req, bound, answer, status, member, since>>

-----------------------------------------------------------------------------
(* requireSameTenantMember, requireTenantAdmin, requireOperator and the role *)
(* of P-2, parse errors and binding errors: does a check of the handler fail?*)
Fails(check) ==
  CASE check = "tenant" -> req.header # req.named
    [] check = "role" -> ~ CASE req.route.role = "owner" -> HasRole(req, "tenant_owner")
                             [] req.route.role = "admin" -> IsAdmin(req)
                             [] req.route.role = "operator" -> IsOperator(req)
                             [] OTHER -> TRUE
    [] OTHER -> req.defect = check

(* The handlers of O-4, O-7 and I-8, and TrialSignup, bind the tenant named. *)
HandlerTenant(q) ==
  IF q.route \in {SetFeatureFlags, ReassignOwner, GetMemberships, ProvisionTenant}
    THEN q.named ELSE bound

Handle ==
  /\ at = "handler"
  /\ LET failed == SelectSeq(req.route.checks, Fails)
     IN IF failed # <<>>
          THEN Refuse(IF Head(failed) \in {"tenant", "role"} THEN "insufficient_role"
                                                             ELSE "validation")
          ELSE /\ at' = "service" /\ bound' = HandlerTenant(req)
               /\ UNCHANGED <<req, answer, status, member, since, unread>>

(* What is left of an error of the database: a deadline or a statement       *)
(* timeout, a deadlock that the retries did not resolve, an outage.          *)
WrapConnErr == {"request_timeout", "conflict", "db_unavailable"}

(* Errors that services return, one for each problem they become.            *)
ServiceError == WrapConnErr \cup {"insufficient_role", "tenant_not_found", "seat_limit_reached",
                                  "invite_rate_limited", "assignee_ineligible"}

(* No answer: the request's own deadline (the timeout middleware answers)    *)
(* or a client that went away.                                               *)
LeaveToRequestContext == {503, 499}

(* The service ran: its result, or a problem of its own (HandleError). *)
Serve ==
  /\ at = "service" /\ req.route # SessionContext
  /\ \E a \in {200} \cup LeaveToRequestContext \cup {Problem(err) : err \in ServiceError} : Ended(a)
  /\ UNCHANGED <<status, member>>

(* P-35 on the projection of I-8, which the cache may have from before.      *)
SessionAnswer(projected) ==
  CASE projected = "active" -> 200
    [] projected = "suspended" -> Problem("insufficient_role")
    [] OTHER -> Problem("member_not_found")

ServeSession ==
  /\ at = "service" /\ req.route = SessionContext
  /\ \/ \E projected \in Member : Ended(SessionAnswer(projected))
     \/ \E err \in WrapConnErr : Ended(Problem(err))
  /\ UNCHANGED <<status, member>>

(* Lifecycle events and other requests change the caller's tenant and        *)
(* membership at any time.                                                   *)
Change ==
  /\ \E s \in Status, m \in Member :
       /\ (s # status) # (m # member)
       /\ status' = s /\ member' = m
       /\ since' = IF at # "idle" /\ Watched(req) THEN since \cup Facts(s, m) ELSE since
  /\ UNCHANGED <<req, at, bound, answer, unread>>

Init ==
  /\ req = Idle /\ at = "idle" /\ bound = Idle.header /\ answer = 0
  /\ status \in Status /\ member \in Member /\ since = {} /\ unread = FALSE

Next == Arrive \/ TenantGate \/ MemberGate \/ Handle \/ Serve \/ ServeSession \/ Change

Spec == Init /\ [][Next]_vars

-----------------------------------------------------------------------------
(* When a service runs, row-level security is bound to the tenant that its   *)
(* repositories filter by, whatever x-tenant-id said, and for a tenant's own *)
(* callers that is the tenant of their token (path_tenant.go).               *)
TenantBound ==
  at = "service" /\ ~CrossTenant(req) =>
    /\ bound = Target(req)
    /\ Watched(req) => bound = req.header

(* A tenant-facing service runs only if, at some time of the request, the    *)
(* tenant admitted it and the caller was an active member; the exceptions    *)
(* are the control principals and a membership that could not be read.       *)
ServedWasAdmitted ==
  at = "service" /\ Watched(req) /\ ~Bypasses(req) =>
    /\ (IF Writes(req) THEN "writable" ELSE "readable") \in since
    /\ req.route.group = "me" \/ unread \/ "member" \in since
=============================================================================
