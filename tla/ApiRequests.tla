------------------------------ MODULE ApiRequests ------------------------------
(***************************************************************************)
(* The API serving requests: the global guards in their order, then the    *)
(* handler, cut at its awaits, over the tables the handlers share.  The    *)
(* process starts as BootConfig says, reads the MFA policy once, and may   *)
(* be restarted under the requests it serves.                              *)
(*                                                                         *)
(* UserStatusGuard and the status column are AccountStatus's, invitations  *)
(* and the workspace switch Onboarding's.                                  *)
(***************************************************************************)
EXTENDS BootConfig

CONSTANTS
    Deployed,       \* the environment of the process that gets traffic
    Tenants, Members, Admins, Projects, Handlers,
    Home, RoleOf,   \* per member: workspace and role
    PlatformRoleOf, \* per platform admin
    MFA_REQUIRED_TENANT_SLUGS,
    SeededTenants,
    Asked,          \* bound: the routes each handler is asked for
    Enrolling       \* bound: the members who enrol in a second factor

Nobody == "nobody"
Forged == "forged"      \* a bearer that only says that it is a platform token
None == "none"

ASSUME DirectoryAssumption ==
    /\ Home \in [Members -> Tenants]
    /\ RoleOf \in [Members -> {"OWNER", "ADMIN", "MEMBER", "VIEWER"}]
    /\ PlatformRoleOf \in [Admins -> {"SUPER_ADMIN", "SUPPORT"}]
    /\ Members \cap Admins = {} /\ {Nobody, Forged, None} \cap (Members \cup Admins) = {}
    /\ SeededTenants \subseteq Tenants
    /\ Deployed \in Environments

VARIABLES
    tenants,            \* rows of the tenants table
    session,            \* per member: no row, no session, or what the token claims
    mfa,                \* members whose row has a second factor
    projects,           \* project -> its workspace
    audited,            \* the workspaces audit rows are filed under
    required,           \* TenantMfaPolicyGuard.requiredTenantIds
    memo,               \* AccountService.requiredTenantIds, in a set: {} for null
    request,            \* per handler
    answer,             \* what the last step answered
    halfReset           \* a reset cleared the row and has not ended the sessions

rows == <<tenants, session, mfa, projects, audited, halfReset>>
process == <<required, memo>>
vars == <<bootVars, rows, process, request, answer>>

Idle == [at |-> "idle", route |-> None, by |-> Nobody, arg |-> None]
NoAnswer == [by |-> Nobody, touched |-> {}, required |-> TRUE]

Init ==
    /\ BootInit
    /\ tenants = SeededTenants
    /\ session = [u \in Members |-> IF Home[u] \in SeededTenants THEN "none" ELSE "absent"]
    /\ mfa = {} /\ projects = <<>> /\ audited = SeededTenants \cup {None} /\ halfReset = {}
    /\ required = {} /\ memo = {}
    /\ request = [h \in Handlers |-> Idle]
    /\ answer = NoAnswer

Effective == Defaulted(Deployed)
Serving == phase = "listening" /\ env = Effective
Registered == {u \in Members : session[u] # "absent"}

-----------------------------------------------------------------------------
(* The routes, as their decorators describe them.                          *)

Route(role, carved) == [open |-> FALSE, platform |-> FALSE, skipJwt |-> FALSE,
                        carved |-> carved, role |-> role, debug |-> FALSE]
OpenRoute == [Route("any", FALSE) EXCEPT !.open = TRUE]
DebugRoute(role) == [Route(role, FALSE) EXCEPT !.debug = TRUE]
PlatformRoute(role) == [Route(role, FALSE) EXCEPT !.platform = TRUE, !.skipJwt = TRUE]

TenantsController == [resolveBySlug |-> OpenRoute, resolveSlugById |-> OpenRoute,
                      listForMe |-> Route("any", FALSE), createTenant |-> Route("OWNER", FALSE)]
UsersController == [listByTenant |-> Route("any", FALSE), findById |-> Route("self", FALSE),
                    updateStatus |-> Route("ADMIN", FALSE)]
ProjectsController == [listProjects |-> Route("any", FALSE),
                       createProject |-> Route("ADMIN", FALSE),
                       deleteProject |-> Route("any", FALSE)]
AuditController == [listRecent |-> Route("ADMIN", FALSE)]
AccountController == [mfaStatus |-> Route("any", TRUE), sessionPolicy |-> Route("any", TRUE)]
NotificationsController == [notifySelf |-> DebugRoute("VIEWER"), notify |-> DebugRoute("ADMIN")]
PlatformController == [listTenants |-> PlatformRoute("SUPPORT"),
                       listUsers |-> PlatformRoute("SUPPORT"),
                       updateUserStatus |-> PlatformRoute("SUPER_ADMIN"),
                       resetUserMfa |-> PlatformRoute("SUPER_ADMIN")]
LibraryRoutes == [me |-> Route("any", TRUE),
                  platformMe |-> [PlatformRoute("SUPPORT") EXCEPT !.skipJwt = FALSE,
                                                                  !.carved = TRUE]]

Controllers == {TenantsController, UsersController, ProjectsController, AuditController,
                AccountController, NotificationsController, PlatformController, LibraryRoutes}
Routes ==
    [name \in UNION {DOMAIN c : c \in Controllers} |->
        (CHOOSE c \in Controllers : name \in DOMAIN c)[name]]

ASSUME AskedAssumption == Asked \in [Handlers -> SUBSET DOMAIN Routes]

OpenRoutes == {"resolveBySlug", "resolveSlugById"}
ReadRoutes == OpenRoutes \cup
              {"listForMe", "sessionPolicy", "listTenants", "listByTenant", "listProjects", "listRecent",
               "me", "platformMe", "notifySelf"}
TargetRoutes == {"findById", "updateStatus", "notify", "updateUserStatus", "resetUserMfa"}
PlatformRoutes == DOMAIN PlatformController \cup {"platformMe"}

-----------------------------------------------------------------------------
(* The guards.                                                             *)

ROLE_HIERARCHY == [OWNER |-> {"ADMIN", "MEMBER", "VIEWER"}, ADMIN |-> {"MEMBER", "VIEWER"},
                   MEMBER |-> {"VIEWER"}, VIEWER |-> {},
                   SUPER_ADMIN |-> {"SUPPORT"}, SUPPORT |-> {}]
hasRole(role, wanted) == role = wanted \/ wanted \in ROLE_HIERARCHY[role]

(* Fault: every route counts as one that checks platform tokens itself.    *)
AnyRoute(route) == TRUE
isPlatformRoute(route) == route.platform

(* The payload is decoded, not verified.                                   *)
isPlatformBearerToken(bearer) == bearer \in Admins \cup {Forged}

PassesThrough(route, bearer) ==
    route.skipJwt \/ (isPlatformRoute(route) /\ isPlatformBearerToken(bearer))

(* Whom the request acts for, once the cookie guard has run.               *)
RequestUser(route, cookie, bearer) ==
    IF route.open \/ PassesThrough(route, bearer) THEN Nobody ELSE cookie

AppJwtAuthGuard(route, cookie, bearer) ==
    PassesThrough(route, bearer) \/ cookie # Nobody

TenantMfaPolicyGuard(route, user) ==
    (required # {} /\ ~route.carved /\ user # Nobody) =>
        (Home[user] \notin required \/ session[user] = "mfa")

(* RolesGuard, and on one route SelfOrAdminGuard.                          *)
RolesGuard(route, user, arg) ==
    (~route.platform /\ route.role # "any") =>
        /\ user # Nobody
        /\ IF route.role = "self" THEN arg = user \/ hasRole(RoleOf[user], "ADMIN")
           ELSE hasRole(RoleOf[user], route.role)

JwtPlatformGuard(route, bearer) ==
    route.platform => bearer \in Admins /\ hasRole(PlatformRoleOf[bearer], route.role)

Receive(h, name, cookie, bearer, arg) ==
    LET route == Routes[name]
        user == RequestUser(route, cookie, bearer)
    IN  /\ route.debug => mounts.debug
        /\ \/ route.open
           \/ /\ AppJwtAuthGuard(route, cookie, bearer)
              /\ TenantMfaPolicyGuard(route, user)
              /\ RolesGuard(route, user, arg)
              /\ JwtPlatformGuard(route, bearer)
        /\ request' = [request EXCEPT ![h] =
                          [at |-> "admitted", route |-> name, arg |-> arg,
                           by |-> IF route.platform THEN bearer ELSE user]]
        /\ answer' = NoAnswer
        /\ UNCHANGED <<bootVars, rows, process>>

-----------------------------------------------------------------------------
(* The handlers.                                                           *)

At(h, name, at) == request[h].route = name /\ request[h].at = at
Advance(h, at) == request' = [request EXCEPT ![h].at = at] /\ answer' = NoAnswer
(* "touched": the workspaces whose rows the request read or wrote.         *)
Reply(h, touched) ==
    /\ request' = [request EXCEPT ![h] = Idle]
    /\ answer' = IF touched = {} THEN NoAnswer
                 ELSE [NoAnswer EXCEPT !.by = request[h].by, !.touched = touched]

Scope(h) == Home[request[h].by]
UsersWhere(tenant) == {u \in Registered : Home[u] = tenant}
FindById(id, tenant) == {u \in UsersWhere(tenant) : u = id}
ProjectsWhere(tenant) == {p \in DOMAIN projects : projects[p] = tenant}

(* The routes that read once and write nothing.                            *)
Read(h) ==
    /\ request[h].at = "admitted" /\ request[h].route \in ReadRoutes
    /\ Reply(h, CASE request[h].route = "listByTenant" -> {Home[u] : u \in UsersWhere(Scope(h))}
                  [] request[h].route = "listProjects" ->
                        {projects[p] : p \in ProjectsWhere(Scope(h))}
                  [] request[h].route = "listRecent" -> {t \in audited : t = Scope(h)}
                  [] request[h].route \in {"me", "notifySelf", "listForMe"} -> {Scope(h)}
                  [] OTHER -> {})
    /\ UNCHANGED <<bootVars, rows, process>>

ListUsers(h) ==
    /\ At(h, "listUsers", "admitted")
    /\ Reply(h, {Home[u] : u \in UsersWhere(request[h].arg)})
    /\ UNCHANGED <<bootVars, rows, process>>

GetUser(h) ==
    /\ At(h, "findById", "admitted")
    /\ Reply(h, {Home[u] : u \in FindById(request[h].arg, Scope(h))})
    /\ UNCHANGED <<bootVars, rows, process>>

(* The unique slug decides; a taken one is a conflict.                     *)
CreateTenant(h) ==
    /\ At(h, "createTenant", "admitted")
    /\ tenants' = tenants \cup {request[h].arg}
    /\ Reply(h, {})
    /\ UNCHANGED <<bootVars, session, mfa, projects, audited, halfReset, process>>

CreateProject(h) ==
    /\ At(h, "createProject", "admitted")
    /\ \E p \in Projects \ DOMAIN projects :
          projects' = [q \in DOMAIN projects \cup {p} |->
                          IF q = p THEN Scope(h) ELSE projects[q]]
    /\ Reply(h, {Scope(h)})
    /\ UNCHANGED <<bootVars, tenants, session, mfa, audited, halfReset, process>>

(* Fault: the row is found first and deleted by its id alone.              *)
DeleteById(h) ==
    /\ At(h, "deleteProject", "admitted")
    /\ projects' = [q \in DOMAIN projects \ {request[h].arg} |-> projects[q]]
    /\ Reply(h, {projects[p] : p \in DOMAIN projects \cap {request[h].arg}})
    /\ UNCHANGED <<bootVars, tenants, session, mfa, audited, halfReset, process>>

DeleteProject(h) ==
    /\ At(h, "deleteProject", "admitted")
    /\ LET found == ProjectsWhere(Scope(h)) \cap {request[h].arg}
       IN  /\ projects' = [q \in DOMAIN projects \ found |-> projects[q]]
           /\ Reply(h, {projects[p] : p \in found})
    /\ UNCHANGED <<bootVars, tenants, session, mfa, audited, halfReset, process>>

(* updateStatus, and the notification an admin sends: the target is looked *)
(* up in the caller's workspace, then used.                                *)
FindTarget(h) ==
    /\ request[h].route \in {"updateStatus", "notify"} /\ request[h].at = "admitted"
    /\ IF FindById(request[h].arg, Scope(h)) = {} THEN Reply(h, {}) ELSE Advance(h, "found")
    /\ UNCHANGED <<bootVars, rows, process>>

UpdateStatus(h) ==
    /\ At(h, "updateStatus", "found")
    /\ audited' = audited \cup {Scope(h)}
    /\ Reply(h, {Home[request[h].arg]})
    /\ UNCHANGED <<bootVars, tenants, session, mfa, projects, halfReset, process>>

Notify(h) ==
    /\ At(h, "notify", "found")
    /\ Reply(h, {Home[request[h].arg]})
    /\ UNCHANGED <<bootVars, rows, process>>

(* Above the workspaces: platform rows are filed under none of them.       *)
FindAnywhere(h) ==
    /\ request[h].route \in {"updateUserStatus", "resetUserMfa"} /\ request[h].at = "admitted"
    /\ IF request[h].arg \notin Registered THEN Reply(h, {}) ELSE Advance(h, "found")
    /\ UNCHANGED <<bootVars, rows, process>>

UpdateUserStatus(h) ==
    /\ At(h, "updateUserStatus", "found")
    /\ audited' = audited \cup {None}
    /\ Reply(h, {Home[request[h].arg]})
    /\ UNCHANGED <<bootVars, tenants, session, mfa, projects, halfReset, process>>

(* Fault: the flag is cleared in the repository, without the service that  *)
(* ends the sessions.                                                      *)
ClearFlagOnly(h) ==
    /\ At(h, "resetUserMfa", "found")
    /\ mfa' = mfa \ {request[h].arg}
    /\ Advance(h, "ended")
    /\ UNCHANGED <<bootVars, tenants, session, projects, audited, halfReset, process>>

(* MfaService.resetMfa: the row, then every session and token.             *)
ResetMfa(h) ==
    /\ At(h, "resetUserMfa", "found")
    /\ mfa' = mfa \ {request[h].arg}
    /\ halfReset' = halfReset \cup {request[h].arg}
    /\ Advance(h, "cleared")
    /\ UNCHANGED <<bootVars, tenants, session, projects, audited, process>>

ResetEndsSessions(h) ==
    /\ At(h, "resetUserMfa", "cleared")
    /\ session' = [session EXCEPT ![request[h].arg] = "none"]
    /\ halfReset' = halfReset \ {request[h].arg}
    /\ Advance(h, "ended")
    /\ UNCHANGED <<bootVars, tenants, mfa, projects, audited, process>>

FinishReset(h) ==
    /\ At(h, "resetUserMfa", "ended")
    /\ audited' = audited \cup {None}
    /\ Reply(h, {Home[request[h].arg]})
    /\ UNCHANGED <<bootVars, tenants, session, mfa, projects, halfReset, process>>

RequiredIn(known) == known \cap MFA_REQUIRED_TENANT_SLUGS

(* Fault: the memo is there, empty, while the table is being read.         *)
ReadMfaRowEagerly(h) ==
    /\ At(h, "mfaStatus", "admitted")
    /\ Advance(h, IF memo = {} THEN "policy" ELSE "known")
    /\ memo' = IF memo = {} THEN {{}} ELSE memo
    /\ UNCHANGED <<bootVars, rows, required>>

(* getMfaStatus reads the row, then the policy: from its memo, or from the *)
(* table when there is none yet.                                           *)
ReadMfaRow(h) ==
    /\ At(h, "mfaStatus", "admitted")
    /\ Advance(h, IF memo = {} THEN "policy" ELSE "known")
    /\ UNCHANGED <<bootVars, rows, process>>

(* A query that fails leaves no memo: CallFails.                           *)
GetRequiredTenantIds(h) ==
    /\ At(h, "mfaStatus", "policy")
    /\ memo' = {RequiredIn(tenants)}
    /\ Advance(h, "known")
    /\ UNCHANGED <<bootVars, rows, required>>

GetMfaStatus(h) ==
    /\ At(h, "mfaStatus", "known")
    /\ request' = [request EXCEPT ![h] = Idle]
    /\ answer' = [by |-> request[h].by, touched |-> {Scope(h)},
                  required |-> Scope(h) \in UNION memo]
    /\ UNCHANGED <<bootVars, rows, process>>

CallFails(h) ==
    /\ request[h].at # "idle"
    /\ Reply(h, {})
    /\ UNCHANGED <<bootVars, rows, process>>

-----------------------------------------------------------------------------
(* The process.                                                            *)

(* The policy guard resolves the slugs once, those that have a row.        *)
OnModuleInit ==
    /\ phase = "init"
    /\ required' = RequiredIn(tenants)
    /\ phase' = "listening"
    /\ answer' = NoAnswer
    /\ UNCHANGED <<env, mounts, options, trustProxy, rows, memo, request>>

Restart ==
    /\ Serving
    /\ env' = Deployed /\ phase' = "import"
    /\ mounts' = NoMounts /\ options' = NoOptions /\ trustProxy' = 0
    /\ required' = {} /\ memo' = {}
    /\ request' = [h \in Handlers |-> Idle]
    /\ answer' = NoAnswer
    /\ UNCHANGED rows

(* The library: accounts, sign-ins and enrolment, which ends the sessions. *)
Register(u) ==
    /\ Serving /\ session[u] = "absent" /\ Home[u] \in tenants
    /\ session' = [session EXCEPT ![u] = "none"]
    /\ answer' = NoAnswer
    /\ UNCHANGED <<bootVars, tenants, mfa, projects, audited, halfReset, process, request>>

SignIn(u) ==
    /\ Serving /\ session[u] = "none"
    /\ session' = [session EXCEPT ![u] = IF u \in mfa THEN "mfa" ELSE "plain"]
    /\ answer' = NoAnswer
    /\ UNCHANGED <<bootVars, tenants, mfa, projects, audited, halfReset, process, request>>

Enrol(u) ==
    /\ Serving /\ session[u] = "plain" /\ u \in Enrolling \ halfReset
    /\ mfa' = mfa \cup {u}
    /\ session' = [session EXCEPT ![u] = "none"]
    /\ answer' = NoAnswer
    /\ UNCHANGED <<bootVars, tenants, projects, audited, halfReset, process, request>>

-----------------------------------------------------------------------------
Cookies == {u \in Members : session[u] \notin {"absent", "none"}} \cup {Nobody}
Bearers == Admins \cup {Forged, Nobody}

ArgsOf(name) ==
    IF name \in TargetRoutes THEN Members
    ELSE IF name \in {"createTenant", "listUsers"} THEN Tenants
    ELSE IF name = "deleteProject" THEN Projects ELSE {None}

Requests(h) ==
    /\ Serving /\ request[h].at = "idle"
    /\ \E name \in Asked[h], cookie \in Cookies, bearer \in Bearers :
          \E arg \in ArgsOf(name) : Receive(h, name, cookie, bearer, arg)

Handle(h) ==
    \/ Read(h) \/ ListUsers(h) \/ GetUser(h) \/ CreateTenant(h) \/ CreateProject(h)
    \/ DeleteProject(h) \/ FindTarget(h) \/ UpdateStatus(h) \/ Notify(h) \/ FindAnywhere(h)
    \/ UpdateUserStatus(h) \/ ResetMfa(h) \/ ResetEndsSessions(h) \/ FinishReset(h)
    \/ ReadMfaRow(h) \/ GetRequiredTenantIds(h) \/ GetMfaStatus(h) \/ CallFails(h)

Next ==
    \/ Boot /\ UNCHANGED <<rows, process, request, answer>>
    \/ OnModuleInit \/ Restart
    \/ \E h \in Handlers : Requests(h) \/ Handle(h)
    \/ \E u \in Members : Register(u) \/ SignIn(u) \/ Enrol(u)

Spec == Init /\ [][Next]_vars

-----------------------------------------------------------------------------
(* A handler is only reached with the caller its code relies on: a member  *)
(* with a row behind every dashboard handler, a platform admin behind      *)
(* every platform one, whatever cookie and bearer travelled together.      *)
HandlersKnowTheirCaller ==
    \A h \in Handlers : request[h].at # "idle" =>
        IF request[h].route \in PlatformRoutes THEN request[h].by \in Admins
        ELSE request[h].route \notin OpenRoutes => request[h].by \in Registered

(* Nothing a member sends reads or changes a row of another workspace.     *)
TenantIsolation ==
    answer.by \in Members => answer.touched \subseteq {Home[answer.by]}

(* In a workspace the guard enforces, a member without a second factor     *)
(* gets nowhere but to the carved-out routes, also right after support has *)
(* reset it, unless the reset itself stopped half-way.                     *)
EnrolmentIsForced ==
    [][\A h \in Handlers : request'[h].at = "admitted" /\ request[h].at = "idle" =>
          LET u == request'[h].by
          IN  u \in Members /\ Home[u] \in required /\ ~Routes[request'[h].route].carved
                  => u \in mfa \cup halfReset]_vars

(* Whoever is told that enrolment is not required is not stopped for want  *)
(* of it: the two copies of the policy are read at different times.        *)
EnforcedIsShown ==
    ~answer.required => Home[answer.by] \notin required
=============================================================================
