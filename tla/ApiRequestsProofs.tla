-------------------------- MODULE ApiRequestsProofs --------------------------
(***************************************************************************)
(* For any directory, environment and settings, and any number of requests *)
(* in flight: a process that listens was configured consistently; every    *)
(* handler has the caller it relies on; no member touches another          *)
(* workspace; and the MFA policy is enforced as it is shown.               *)
(*                                                                         *)
(* What a handler does at a later await rests on what it found at an       *)
(* earlier one, so the invariant carries the row of its target; and on the *)
(* policy guard, it carries that a token only claims a second factor the   *)
(* row has, or a reset under way took.                                     *)
(***************************************************************************)
EXTENDS ApiRequests, TLAPS

-----------------------------------------------------------------------------
(* The decorators: the platform routes are those the platform guard is on, *)
(* only they leave the cookie guard out, and none of them is open.         *)
RouteOK(name, r) ==
    /\ r.platform <=> name \in PlatformRoutes
    /\ r.open => name \in OpenRoutes
    /\ r.skipJwt => r.platform
    /\ r.open => ~r.platform

LEMMA RoutesAreAsNamed == \A name \in DOMAIN Routes : RouteOK(name, Routes[name])
<1>0. PlatformRoutes = {"listTenants", "listUsers", "updateUserStatus", "resetUserMfa", "platformMe"}
  BY DEF PlatformRoutes, PlatformController
<1> USE <1>0 DEF RouteOK, OpenRoutes, Route, OpenRoute, DebugRoute, PlatformRoute
<1>1. \A name \in DOMAIN TenantsController : RouteOK(name, TenantsController[name])
  BY DEF TenantsController
<1>2. \A name \in DOMAIN UsersController : RouteOK(name, UsersController[name])
  BY DEF UsersController
<1>3. \A name \in DOMAIN ProjectsController : RouteOK(name, ProjectsController[name])
  BY DEF ProjectsController
<1>4. \A name \in DOMAIN AuditController : RouteOK(name, AuditController[name])
  BY DEF AuditController
<1>5. \A name \in DOMAIN AccountController : RouteOK(name, AccountController[name])
  BY DEF AccountController
<1>6. \A name \in DOMAIN NotificationsController : RouteOK(name, NotificationsController[name])
  BY DEF NotificationsController
<1>7. \A name \in DOMAIN PlatformController : RouteOK(name, PlatformController[name])
  <2> DEFINE r(role) == PlatformRoute(role)
  <2>1. \A role : r(role).platform /\ ~r(role).open OBVIOUS
  <2> HIDE DEF r
  <2>2. PlatformController = [listTenants |-> r("SUPPORT"), listUsers |-> r("SUPPORT"),
            updateUserStatus |-> r("SUPER_ADMIN"), resetUserMfa |-> r("SUPER_ADMIN")]
    BY DEF PlatformController, r
  <2> HIDE DEF PlatformRoute
  <2>3. \A name \in DOMAIN PlatformController : name \in PlatformRoutes /\ \E role : PlatformController[name] = r(role)
    BY <2>2
  <2> QED BY <2>1, <2>3
<1>8. \A name \in DOMAIN LibraryRoutes : RouteOK(name, LibraryRoutes[name])
  <2> DEFINE own == [PlatformRoute("SUPPORT") EXCEPT !.skipJwt = FALSE, !.carved = TRUE]
  <2>1. own.platform /\ ~own.open OBVIOUS
  <2>2. LibraryRoutes = [me |-> Route("any", TRUE), platformMe |-> own] BY DEF LibraryRoutes
  <2>3. RouteOK("me", Route("any", TRUE)) OBVIOUS
  <2> HIDE DEF own
  <2>4. RouteOK("platformMe", own) BY <2>1
  <2> DEFINE mine == Route("any", TRUE)
  <2> HIDE DEF RouteOK, mine
  <2>5. RouteOK("me", mine) BY <2>3 DEF mine
  <2>6. LibraryRoutes = [me |-> mine, platformMe |-> own] BY <2>2 DEF mine
  <2> HIDE DEF Route, PlatformRoute
  <2>7. \A name \in DOMAIN LibraryRoutes :
          \/ name = "me" /\ LibraryRoutes[name] = mine
          \/ name = "platformMe" /\ LibraryRoutes[name] = own
    BY <2>6
  <2> QED BY <2>4, <2>5, <2>7
<1> HIDE DEF RouteOK, OpenRoutes, Route, OpenRoute, DebugRoute, PlatformRoute
<1>9. \A c \in Controllers : \A name \in DOMAIN c : RouteOK(name, c[name])
  BY <1>1, <1>2, <1>3, <1>4, <1>5, <1>6, <1>7, <1>8 DEF Controllers
<1> SUFFICES ASSUME NEW name \in DOMAIN Routes PROVE RouteOK(name, Routes[name]) OBVIOUS
<1>10. DOMAIN Routes = UNION {DOMAIN c : c \in Controllers} BY DEF Routes
<1>11. PICK k \in Controllers : name \in DOMAIN k BY <1>10
<1> DEFINE owner == CHOOSE c \in Controllers : name \in DOMAIN c
<1>12. owner \in Controllers /\ name \in DOMAIN owner BY <1>11
<1>13. Routes[name] = owner[name] BY <1>10 DEF Routes
<1> QED BY <1>9, <1>12, <1>13

-----------------------------------------------------------------------------
(* The invariant.                                                          *)
Ats == {"idle", "admitted", "found", "cleared", "ended", "policy", "known"}
Names == DOMAIN Routes \cup {None}
Callers == Members \cup Admins \cup {Nobody}
Args == Members \cup Tenants \cup Projects \cup {None}
Request == [at : Ats, route : Names, by : Callers, arg : Args]

Types ==
    /\ request \in [Handlers -> Request]
    /\ session \in [Members -> {"absent", "none", "plain", "mfa"}]

\* What updateStatus and notify looked up is there, in the caller's workspace.
TargetsAreFound ==
    \A h \in Handlers :
        (request[h].at = "found" /\ request[h].route \in {"updateStatus", "notify"})
        => request[h].arg \in UsersWhere(Scope(h))

\* A second factor a token claims is one the row has, or had until a reset under way.
ClaimsAreBacked == \A u \in Members : session[u] = "mfa" => u \in mfa \cup halfReset

\* A process takes no request before it listens; both copies of the policy are of its time,
\* the guard's the older one.
PolicyOfThisProcess ==
    /\ phase # "listening" => memo = {} /\ required = {} /\ \A h \in Handlers : request[h].at = "idle"
    /\ required \subseteq RequiredIn(tenants)
    /\ \A known \in memo : required \subseteq known
    /\ \A h \in Handlers : request[h].at = "known" => memo # {}

AInv ==
    /\ Types /\ HandlersKnowTheirCaller /\ TargetsAreFound /\ ClaimsAreBacked
    /\ PolicyOfThisProcess /\ TenantIsolation /\ EnforcedIsShown

LEMMA AdvanceTo ==
  ASSUME request \in [Handlers -> Request], NEW h \in Handlers, NEW at \in Ats, Advance(h, at)
  PROVE  /\ request' \in [Handlers -> Request]
         /\ \A g \in Handlers : /\ request'[g].at = (IF g = h THEN at ELSE request[g].at)
                                /\ request'[g].route = request[g].route
                                /\ request'[g].by = request[g].by
                                /\ request'[g].arg = request[g].arg
         /\ answer' = NoAnswer
<1>1. request' = [request EXCEPT ![h].at = at] /\ answer' = NoAnswer BY DEF Advance
<1>2. request' = [request EXCEPT ![h] = [request[h] EXCEPT !.at = at]] BY <1>1
<1>3. /\ [request[h] EXCEPT !.at = at] \in Request
      /\ [request[h] EXCEPT !.at = at].at = at
      /\ [request[h] EXCEPT !.at = at].route = request[h].route
      /\ [request[h] EXCEPT !.at = at].by = request[h].by
      /\ [request[h] EXCEPT !.at = at].arg = request[h].arg
  BY DEF Request
<1> QED BY <1>1, <1>2, <1>3

LEMMA IdleRequest == Idle \in Request /\ Idle.at = "idle"
BY DEF Idle, Request, Ats, Names, Callers, Args

LEMMA ReplyWith ==
  ASSUME request \in [Handlers -> Request], NEW h \in Handlers, NEW touched, Reply(h, touched)
  PROVE  /\ request' \in [Handlers -> Request]
         /\ \A g \in Handlers : request'[g] = (IF g = h THEN Idle ELSE request[g])
         /\ answer'.required = TRUE
         /\ \/ answer'.by = Nobody
            \/ answer'.by = request[h].by /\ answer'.touched = touched
<1>1. request' = [request EXCEPT ![h] = Idle] BY DEF Reply
<1>2. answer' = NoAnswer \/ answer' = [NoAnswer EXCEPT !.by = request[h].by, !.touched = touched]
  BY DEF Reply
<1>3. /\ answer'.required = TRUE
      /\ answer'.by = Nobody \/ (answer'.by = request[h].by /\ answer'.touched = touched)
  <2>1. CASE answer' = NoAnswer BY <2>1 DEF NoAnswer
  <2>2. CASE answer' = [NoAnswer EXCEPT !.by = request[h].by, !.touched = touched]
    <3>1. answer' = [by |-> request[h].by, touched |-> touched, required |-> TRUE]
      BY <2>2 DEF NoAnswer
    <3> QED BY <3>1
  <2> QED BY <1>2, <2>1, <2>2
<1>4. /\ request' \in [Handlers -> Request]
      /\ \A g \in Handlers : request'[g] = (IF g = h THEN Idle ELSE request[g])
  BY <1>1, IdleRequest
<1> QED BY <1>3, <1>4

LEMMA ReadKeeps ==
  ASSUME AInv, NEW h \in Handlers, Read(h)
  PROVE  AInv'
<1> DEFINE touched == CASE request[h].route = "listByTenant" -> {Home[u] : u \in UsersWhere(Scope(h))}
                  [] request[h].route = "listProjects" ->
                        {projects[p] : p \in ProjectsWhere(Scope(h))}
                  [] request[h].route = "listRecent" -> {t \in audited : t = Scope(h)}
                  [] request[h].route \in {"me", "notifySelf", "listForMe"} -> {Scope(h)}
                  [] OTHER -> {}
<1>1. /\ Reply(h, touched)
      /\ UNCHANGED <<phase, required, memo>>
      /\ UNCHANGED <<session, mfa, halfReset, tenants>>
      /\ request[h].at # "idle"
  BY DEF Read, At, bootVars, rows, process
<1> HIDE DEF touched
<1>2. /\ request' \in [Handlers -> Request]
      /\ \A g \in Handlers : request'[g] = (IF g = h THEN Idle ELSE request[g])
      /\ answer'.required = TRUE
      /\ answer'.by = Nobody \/ (answer'.by = request[h].by /\ answer'.touched = touched)
  BY <1>1, ReplyWith DEF AInv, Types
<1>3. Types' BY <1>1, <1>2 DEF AInv, Types
<1>4. HandlersKnowTheirCaller'
  BY <1>1, <1>2, IdleRequest DEF AInv, HandlersKnowTheirCaller, Registered, Idle
<1>5. TargetsAreFound'
  BY <1>1, <1>2, IdleRequest DEF AInv, TargetsAreFound, UsersWhere, Registered, Scope, Idle
<1>6. ClaimsAreBacked' BY <1>1, <1>2, IdleRequest DEF AInv, ClaimsAreBacked
<1>7. PolicyOfThisProcess' BY <1>1, <1>2, IdleRequest DEF AInv, PolicyOfThisProcess, RequiredIn
<1>8. request[h].by \in Members => touched \subseteq {Home[request[h].by]}
  BY DEF touched, AInv, Read, At, UsersWhere, ProjectsWhere, Scope
<1>10. TenantIsolation' BY <1>2, <1>8, DirectoryAssumption DEF TenantIsolation
<1>11. EnforcedIsShown' BY <1>2 DEF EnforcedIsShown
<1> QED BY <1>3, <1>4, <1>5, <1>6, <1>7, <1>10, <1>11 DEF AInv

LEMMA ListUsersKeeps ==
  ASSUME AInv, NEW h \in Handlers, ListUsers(h)
  PROVE  AInv'
<1> DEFINE touched == {Home[u] : u \in UsersWhere(request[h].arg)}
<1>1. /\ Reply(h, touched)
      /\ UNCHANGED <<phase, required, memo>>
      /\ UNCHANGED <<session, mfa, halfReset, tenants>>
      /\ request[h].at # "idle"
  BY DEF ListUsers, At, bootVars, rows, process
<1> HIDE DEF touched
<1>2. /\ request' \in [Handlers -> Request]
      /\ \A g \in Handlers : request'[g] = (IF g = h THEN Idle ELSE request[g])
      /\ answer'.required = TRUE
      /\ answer'.by = Nobody \/ (answer'.by = request[h].by /\ answer'.touched = touched)
  BY <1>1, ReplyWith DEF AInv, Types
<1>3. Types' BY <1>1, <1>2 DEF AInv, Types
<1>4. HandlersKnowTheirCaller'
  BY <1>1, <1>2, IdleRequest DEF AInv, HandlersKnowTheirCaller, Registered, Idle
<1>5. TargetsAreFound'
  BY <1>1, <1>2, IdleRequest DEF AInv, TargetsAreFound, UsersWhere, Registered, Scope, Idle
<1>6. ClaimsAreBacked' BY <1>1, <1>2, IdleRequest DEF AInv, ClaimsAreBacked
<1>7. PolicyOfThisProcess' BY <1>1, <1>2, IdleRequest DEF AInv, PolicyOfThisProcess, RequiredIn
<1>8. request[h].route \in PlatformRoutes
  BY DEF ListUsers, At, PlatformRoutes, PlatformController
<1>9. request[h].by \in Admins BY <1>1, <1>8 DEF AInv, HandlersKnowTheirCaller
<1>10. TenantIsolation' BY <1>2, <1>9, DirectoryAssumption DEF TenantIsolation
<1>11. EnforcedIsShown' BY <1>2 DEF EnforcedIsShown
<1> QED BY <1>3, <1>4, <1>5, <1>6, <1>7, <1>10, <1>11 DEF AInv

LEMMA GetUserKeeps ==
  ASSUME AInv, NEW h \in Handlers, GetUser(h)
  PROVE  AInv'
<1> DEFINE touched == {Home[u] : u \in FindById(request[h].arg, Scope(h))}
<1>1. /\ Reply(h, touched)
      /\ UNCHANGED <<phase, required, memo>>
      /\ UNCHANGED <<session, mfa, halfReset, tenants>>
      /\ request[h].at # "idle"
  BY DEF GetUser, At, bootVars, rows, process
<1> HIDE DEF touched
<1>2. /\ request' \in [Handlers -> Request]
      /\ \A g \in Handlers : request'[g] = (IF g = h THEN Idle ELSE request[g])
      /\ answer'.required = TRUE
      /\ answer'.by = Nobody \/ (answer'.by = request[h].by /\ answer'.touched = touched)
  BY <1>1, ReplyWith DEF AInv, Types
<1>3. Types' BY <1>1, <1>2 DEF AInv, Types
<1>4. HandlersKnowTheirCaller'
  BY <1>1, <1>2, IdleRequest DEF AInv, HandlersKnowTheirCaller, Registered, Idle
<1>5. TargetsAreFound'
  BY <1>1, <1>2, IdleRequest DEF AInv, TargetsAreFound, UsersWhere, Registered, Scope, Idle
<1>6. ClaimsAreBacked' BY <1>1, <1>2, IdleRequest DEF AInv, ClaimsAreBacked
<1>7. PolicyOfThisProcess' BY <1>1, <1>2, IdleRequest DEF AInv, PolicyOfThisProcess, RequiredIn
<1>8. request[h].by \in Members => touched \subseteq {Home[request[h].by]}
  BY DEF touched, AInv, GetUser, At, FindById, UsersWhere, Scope
<1>10. TenantIsolation' BY <1>2, <1>8, DirectoryAssumption DEF TenantIsolation
<1>11. EnforcedIsShown' BY <1>2 DEF EnforcedIsShown
<1> QED BY <1>3, <1>4, <1>5, <1>6, <1>7, <1>10, <1>11 DEF AInv

LEMMA CreateTenantKeeps ==
  ASSUME AInv, NEW h \in Handlers, CreateTenant(h)
  PROVE  AInv'
<1> DEFINE touched == {}
<1>1. /\ Reply(h, touched)
      /\ UNCHANGED <<phase, required, memo>>
      /\ UNCHANGED <<session, mfa, halfReset>>
      /\ tenants \subseteq tenants'
      /\ request[h].at # "idle"
  BY DEF CreateTenant, At, bootVars, rows, process
<1> HIDE DEF touched
<1>2. /\ request' \in [Handlers -> Request]
      /\ \A g \in Handlers : request'[g] = (IF g = h THEN Idle ELSE request[g])
      /\ answer'.required = TRUE
      /\ answer'.by = Nobody \/ (answer'.by = request[h].by /\ answer'.touched = touched)
  BY <1>1, ReplyWith DEF AInv, Types
<1>3. Types' BY <1>1, <1>2 DEF AInv, Types
<1>4. HandlersKnowTheirCaller'
  BY <1>1, <1>2, IdleRequest DEF AInv, HandlersKnowTheirCaller, Registered, Idle
<1>5. TargetsAreFound'
  BY <1>1, <1>2, IdleRequest DEF AInv, TargetsAreFound, UsersWhere, Registered, Scope, Idle
<1>6. ClaimsAreBacked' BY <1>1, <1>2, IdleRequest DEF AInv, ClaimsAreBacked
<1>7. PolicyOfThisProcess' BY <1>1, <1>2, IdleRequest DEF AInv, PolicyOfThisProcess, RequiredIn
<1>8. request[h].by \in Members => touched \subseteq {Home[request[h].by]}
  BY <1>1 DEF touched
<1>10. TenantIsolation' BY <1>2, <1>8, DirectoryAssumption DEF TenantIsolation
<1>11. EnforcedIsShown' BY <1>2 DEF EnforcedIsShown
<1> QED BY <1>3, <1>4, <1>5, <1>6, <1>7, <1>10, <1>11 DEF AInv

LEMMA CreateProjectKeeps ==
  ASSUME AInv, NEW h \in Handlers, CreateProject(h)
  PROVE  AInv'
<1> DEFINE touched == {Scope(h)}
<1>1. /\ Reply(h, touched)
      /\ UNCHANGED <<phase, required, memo>>
      /\ UNCHANGED <<session, mfa, halfReset, tenants>>
      /\ request[h].at # "idle"
  BY DEF CreateProject, At, bootVars, rows, process
<1> HIDE DEF touched
<1>2. /\ request' \in [Handlers -> Request]
      /\ \A g \in Handlers : request'[g] = (IF g = h THEN Idle ELSE request[g])
      /\ answer'.required = TRUE
      /\ answer'.by = Nobody \/ (answer'.by = request[h].by /\ answer'.touched = touched)
  BY <1>1, ReplyWith DEF AInv, Types
<1>3. Types' BY <1>1, <1>2 DEF AInv, Types
<1>4. HandlersKnowTheirCaller'
  BY <1>1, <1>2, IdleRequest DEF AInv, HandlersKnowTheirCaller, Registered, Idle
<1>5. TargetsAreFound'
  BY <1>1, <1>2, IdleRequest DEF AInv, TargetsAreFound, UsersWhere, Registered, Scope, Idle
<1>6. ClaimsAreBacked' BY <1>1, <1>2, IdleRequest DEF AInv, ClaimsAreBacked
<1>7. PolicyOfThisProcess' BY <1>1, <1>2, IdleRequest DEF AInv, PolicyOfThisProcess, RequiredIn
<1>8. request[h].by \in Members => touched \subseteq {Home[request[h].by]}
  BY DEF touched, AInv, CreateProject, At, Scope
<1>10. TenantIsolation' BY <1>2, <1>8, DirectoryAssumption DEF TenantIsolation
<1>11. EnforcedIsShown' BY <1>2 DEF EnforcedIsShown
<1> QED BY <1>3, <1>4, <1>5, <1>6, <1>7, <1>10, <1>11 DEF AInv

LEMMA DeleteProjectKeeps ==
  ASSUME AInv, NEW h \in Handlers, DeleteProject(h)
  PROVE  AInv'
<1> DEFINE touched == {projects[p] : p \in ProjectsWhere(Scope(h)) \cap {request[h].arg}}
<1>1. /\ Reply(h, touched)
      /\ UNCHANGED <<phase, required, memo>>
      /\ UNCHANGED <<session, mfa, halfReset, tenants>>
      /\ request[h].at # "idle"
  BY DEF DeleteProject, At, bootVars, rows, process
<1> HIDE DEF touched
<1>2. /\ request' \in [Handlers -> Request]
      /\ \A g \in Handlers : request'[g] = (IF g = h THEN Idle ELSE request[g])
      /\ answer'.required = TRUE
      /\ answer'.by = Nobody \/ (answer'.by = request[h].by /\ answer'.touched = touched)
  BY <1>1, ReplyWith DEF AInv, Types
<1>3. Types' BY <1>1, <1>2 DEF AInv, Types
<1>4. HandlersKnowTheirCaller'
  BY <1>1, <1>2, IdleRequest DEF AInv, HandlersKnowTheirCaller, Registered, Idle
<1>5. TargetsAreFound'
  BY <1>1, <1>2, IdleRequest DEF AInv, TargetsAreFound, UsersWhere, Registered, Scope, Idle
<1>6. ClaimsAreBacked' BY <1>1, <1>2, IdleRequest DEF AInv, ClaimsAreBacked
<1>7. PolicyOfThisProcess' BY <1>1, <1>2, IdleRequest DEF AInv, PolicyOfThisProcess, RequiredIn
<1>8. request[h].by \in Members => touched \subseteq {Home[request[h].by]}
  BY DEF touched, AInv, DeleteProject, At, ProjectsWhere, Scope
<1>10. TenantIsolation' BY <1>2, <1>8, DirectoryAssumption DEF TenantIsolation
<1>11. EnforcedIsShown' BY <1>2 DEF EnforcedIsShown
<1> QED BY <1>3, <1>4, <1>5, <1>6, <1>7, <1>10, <1>11 DEF AInv

LEMMA UpdateStatusKeeps ==
  ASSUME AInv, NEW h \in Handlers, UpdateStatus(h)
  PROVE  AInv'
<1> DEFINE touched == {Home[request[h].arg]}
<1>1. /\ Reply(h, touched)
      /\ UNCHANGED <<phase, required, memo>>
      /\ UNCHANGED <<session, mfa, halfReset, tenants>>
      /\ request[h].at # "idle"
  BY DEF UpdateStatus, At, bootVars, rows, process
<1> HIDE DEF touched
<1>2. /\ request' \in [Handlers -> Request]
      /\ \A g \in Handlers : request'[g] = (IF g = h THEN Idle ELSE request[g])
      /\ answer'.required = TRUE
      /\ answer'.by = Nobody \/ (answer'.by = request[h].by /\ answer'.touched = touched)
  BY <1>1, ReplyWith DEF AInv, Types
<1>3. Types' BY <1>1, <1>2 DEF AInv, Types
<1>4. HandlersKnowTheirCaller'
  BY <1>1, <1>2, IdleRequest DEF AInv, HandlersKnowTheirCaller, Registered, Idle
<1>5. TargetsAreFound'
  BY <1>1, <1>2, IdleRequest DEF AInv, TargetsAreFound, UsersWhere, Registered, Scope, Idle
<1>6. ClaimsAreBacked' BY <1>1, <1>2, IdleRequest DEF AInv, ClaimsAreBacked
<1>7. PolicyOfThisProcess' BY <1>1, <1>2, IdleRequest DEF AInv, PolicyOfThisProcess, RequiredIn
<1>8. request[h].by \in Members => touched \subseteq {Home[request[h].by]}
  BY DEF touched, AInv, UpdateStatus, At, TargetsAreFound, UsersWhere, Scope, At
<1>10. TenantIsolation' BY <1>2, <1>8, DirectoryAssumption DEF TenantIsolation
<1>11. EnforcedIsShown' BY <1>2 DEF EnforcedIsShown
<1> QED BY <1>3, <1>4, <1>5, <1>6, <1>7, <1>10, <1>11 DEF AInv

LEMMA NotifyKeeps ==
  ASSUME AInv, NEW h \in Handlers, Notify(h)
  PROVE  AInv'
<1> DEFINE touched == {Home[request[h].arg]}
<1>1. /\ Reply(h, touched)
      /\ UNCHANGED <<phase, required, memo>>
      /\ UNCHANGED <<session, mfa, halfReset, tenants>>
      /\ request[h].at # "idle"
  BY DEF Notify, At, bootVars, rows, process
<1> HIDE DEF touched
<1>2. /\ request' \in [Handlers -> Request]
      /\ \A g \in Handlers : request'[g] = (IF g = h THEN Idle ELSE request[g])
      /\ answer'.required = TRUE
      /\ answer'.by = Nobody \/ (answer'.by = request[h].by /\ answer'.touched = touched)
  BY <1>1, ReplyWith DEF AInv, Types
<1>3. Types' BY <1>1, <1>2 DEF AInv, Types
<1>4. HandlersKnowTheirCaller'
  BY <1>1, <1>2, IdleRequest DEF AInv, HandlersKnowTheirCaller, Registered, Idle
<1>5. TargetsAreFound'
  BY <1>1, <1>2, IdleRequest DEF AInv, TargetsAreFound, UsersWhere, Registered, Scope, Idle
<1>6. ClaimsAreBacked' BY <1>1, <1>2, IdleRequest DEF AInv, ClaimsAreBacked
<1>7. PolicyOfThisProcess' BY <1>1, <1>2, IdleRequest DEF AInv, PolicyOfThisProcess, RequiredIn
<1>8. request[h].by \in Members => touched \subseteq {Home[request[h].by]}
  BY DEF touched, AInv, Notify, At, TargetsAreFound, UsersWhere, Scope, At
<1>10. TenantIsolation' BY <1>2, <1>8, DirectoryAssumption DEF TenantIsolation
<1>11. EnforcedIsShown' BY <1>2 DEF EnforcedIsShown
<1> QED BY <1>3, <1>4, <1>5, <1>6, <1>7, <1>10, <1>11 DEF AInv

LEMMA UpdateUserStatusKeeps ==
  ASSUME AInv, NEW h \in Handlers, UpdateUserStatus(h)
  PROVE  AInv'
<1> DEFINE touched == {Home[request[h].arg]}
<1>1. /\ Reply(h, touched)
      /\ UNCHANGED <<phase, required, memo>>
      /\ UNCHANGED <<session, mfa, halfReset, tenants>>
      /\ request[h].at # "idle"
  BY DEF UpdateUserStatus, At, bootVars, rows, process
<1> HIDE DEF touched
<1>2. /\ request' \in [Handlers -> Request]
      /\ \A g \in Handlers : request'[g] = (IF g = h THEN Idle ELSE request[g])
      /\ answer'.required = TRUE
      /\ answer'.by = Nobody \/ (answer'.by = request[h].by /\ answer'.touched = touched)
  BY <1>1, ReplyWith DEF AInv, Types
<1>3. Types' BY <1>1, <1>2 DEF AInv, Types
<1>4. HandlersKnowTheirCaller'
  BY <1>1, <1>2, IdleRequest DEF AInv, HandlersKnowTheirCaller, Registered, Idle
<1>5. TargetsAreFound'
  BY <1>1, <1>2, IdleRequest DEF AInv, TargetsAreFound, UsersWhere, Registered, Scope, Idle
<1>6. ClaimsAreBacked' BY <1>1, <1>2, IdleRequest DEF AInv, ClaimsAreBacked
<1>7. PolicyOfThisProcess' BY <1>1, <1>2, IdleRequest DEF AInv, PolicyOfThisProcess, RequiredIn
<1>8. request[h].route \in PlatformRoutes
  BY DEF UpdateUserStatus, At, PlatformRoutes, PlatformController
<1>9. request[h].by \in Admins BY <1>1, <1>8 DEF AInv, HandlersKnowTheirCaller
<1>10. TenantIsolation' BY <1>2, <1>9, DirectoryAssumption DEF TenantIsolation
<1>11. EnforcedIsShown' BY <1>2 DEF EnforcedIsShown
<1> QED BY <1>3, <1>4, <1>5, <1>6, <1>7, <1>10, <1>11 DEF AInv

LEMMA FinishResetKeeps ==
  ASSUME AInv, NEW h \in Handlers, FinishReset(h)
  PROVE  AInv'
<1> DEFINE touched == {Home[request[h].arg]}
<1>1. /\ Reply(h, touched)
      /\ UNCHANGED <<phase, required, memo>>
      /\ UNCHANGED <<session, mfa, halfReset, tenants>>
      /\ request[h].at # "idle"
  BY DEF FinishReset, At, bootVars, rows, process
<1> HIDE DEF touched
<1>2. /\ request' \in [Handlers -> Request]
      /\ \A g \in Handlers : request'[g] = (IF g = h THEN Idle ELSE request[g])
      /\ answer'.required = TRUE
      /\ answer'.by = Nobody \/ (answer'.by = request[h].by /\ answer'.touched = touched)
  BY <1>1, ReplyWith DEF AInv, Types
<1>3. Types' BY <1>1, <1>2 DEF AInv, Types
<1>4. HandlersKnowTheirCaller'
  BY <1>1, <1>2, IdleRequest DEF AInv, HandlersKnowTheirCaller, Registered, Idle
<1>5. TargetsAreFound'
  BY <1>1, <1>2, IdleRequest DEF AInv, TargetsAreFound, UsersWhere, Registered, Scope, Idle
<1>6. ClaimsAreBacked' BY <1>1, <1>2, IdleRequest DEF AInv, ClaimsAreBacked
<1>7. PolicyOfThisProcess' BY <1>1, <1>2, IdleRequest DEF AInv, PolicyOfThisProcess, RequiredIn
<1>8. request[h].route \in PlatformRoutes
  BY DEF FinishReset, At, PlatformRoutes, PlatformController
<1>9. request[h].by \in Admins BY <1>1, <1>8 DEF AInv, HandlersKnowTheirCaller
<1>10. TenantIsolation' BY <1>2, <1>9, DirectoryAssumption DEF TenantIsolation
<1>11. EnforcedIsShown' BY <1>2 DEF EnforcedIsShown
<1> QED BY <1>3, <1>4, <1>5, <1>6, <1>7, <1>10, <1>11 DEF AInv

LEMMA CallFailsKeeps ==
  ASSUME AInv, NEW h \in Handlers, CallFails(h)
  PROVE  AInv'
<1> DEFINE touched == {}
<1>1. /\ Reply(h, touched)
      /\ UNCHANGED <<phase, required, memo>>
      /\ UNCHANGED <<session, mfa, halfReset, tenants>>
      /\ request[h].at # "idle"
  BY DEF CallFails, At, bootVars, rows, process
<1> HIDE DEF touched
<1>2. /\ request' \in [Handlers -> Request]
      /\ \A g \in Handlers : request'[g] = (IF g = h THEN Idle ELSE request[g])
      /\ answer'.required = TRUE
      /\ answer'.by = Nobody \/ (answer'.by = request[h].by /\ answer'.touched = touched)
  BY <1>1, ReplyWith DEF AInv, Types
<1>3. Types' BY <1>1, <1>2 DEF AInv, Types
<1>4. HandlersKnowTheirCaller'
  BY <1>1, <1>2, IdleRequest DEF AInv, HandlersKnowTheirCaller, Registered, Idle
<1>5. TargetsAreFound'
  BY <1>1, <1>2, IdleRequest DEF AInv, TargetsAreFound, UsersWhere, Registered, Scope, Idle
<1>6. ClaimsAreBacked' BY <1>1, <1>2, IdleRequest DEF AInv, ClaimsAreBacked
<1>7. PolicyOfThisProcess' BY <1>1, <1>2, IdleRequest DEF AInv, PolicyOfThisProcess, RequiredIn
<1>8. request[h].by \in Members => touched \subseteq {Home[request[h].by]}
  BY <1>1 DEF touched
<1>10. TenantIsolation' BY <1>2, <1>8, DirectoryAssumption DEF TenantIsolation
<1>11. EnforcedIsShown' BY <1>2 DEF EnforcedIsShown
<1> QED BY <1>3, <1>4, <1>5, <1>6, <1>7, <1>10, <1>11 DEF AInv

LEMMA ResetMfaKeeps ==
  ASSUME AInv, NEW h \in Handlers, ResetMfa(h)
  PROVE  AInv'
<1>1. /\ Advance(h, "cleared") /\ UNCHANGED <<phase, required, memo, session, tenants>>
      /\ mfa' = mfa \ {request[h].arg} /\ halfReset' = halfReset \cup {request[h].arg}
      /\ request[h].at # "idle" /\ request[h].route = "resetUserMfa"
  BY DEF ResetMfa, At, bootVars, rows, process
<1>a. "cleared" \in Ats BY DEF Ats
<1>2. /\ request' \in [Handlers -> Request]
      /\ \A g \in Handlers : /\ request'[g].at = (IF g = h THEN "cleared" ELSE request[g].at)
                             /\ request'[g].route = request[g].route
                             /\ request'[g].by = request[g].by
                             /\ request'[g].arg = request[g].arg
      /\ answer' = NoAnswer
  BY <1>1, <1>a, AdvanceTo DEF AInv, Types
<1>3. Types' BY <1>1, <1>2 DEF AInv, Types
<1>r. Registered \subseteq Registered' BY <1>1 DEF AInv, Types, Registered
<1>4. HandlersKnowTheirCaller' BY <1>1, <1>2, <1>r DEF AInv, Types, HandlersKnowTheirCaller
<1>5. TargetsAreFound' BY <1>1, <1>2, <1>r DEF AInv, Types, TargetsAreFound, UsersWhere, Scope
<1>6. ClaimsAreBacked' BY <1>1, <1>2, <1>r DEF AInv, Types, ClaimsAreBacked
<1>7. PolicyOfThisProcess' BY <1>1, <1>2, <1>r DEF AInv, Types, PolicyOfThisProcess, RequiredIn
<1>10. TenantIsolation' /\ EnforcedIsShown'
  BY <1>2, DirectoryAssumption DEF TenantIsolation, EnforcedIsShown, NoAnswer
<1> QED BY <1>3, <1>4, <1>5, <1>6, <1>7, <1>10 DEF AInv

LEMMA ResetEndsSessionsKeeps ==
  ASSUME AInv, NEW h \in Handlers, ResetEndsSessions(h)
  PROVE  AInv'
<1>1. /\ Advance(h, "ended") /\ UNCHANGED <<phase, required, memo, mfa, tenants>>
      /\ session' = [session EXCEPT ![request[h].arg] = "none"]
      /\ halfReset' = halfReset \ {request[h].arg}
      /\ request[h].at # "idle" /\ request[h].route = "resetUserMfa"
  BY DEF ResetEndsSessions, At, bootVars, rows, process
<1>a. "ended" \in Ats BY DEF Ats
<1>2. /\ request' \in [Handlers -> Request]
      /\ \A g \in Handlers : /\ request'[g].at = (IF g = h THEN "ended" ELSE request[g].at)
                             /\ request'[g].route = request[g].route
                             /\ request'[g].by = request[g].by
                             /\ request'[g].arg = request[g].arg
      /\ answer' = NoAnswer
  BY <1>1, <1>a, AdvanceTo DEF AInv, Types
<1>3. Types' BY <1>1, <1>2 DEF AInv, Types
<1>r. Registered \subseteq Registered' BY <1>1 DEF AInv, Types, Registered
<1>4. HandlersKnowTheirCaller' BY <1>1, <1>2, <1>r DEF AInv, Types, HandlersKnowTheirCaller
<1>5. TargetsAreFound' BY <1>1, <1>2, <1>r DEF AInv, Types, TargetsAreFound, UsersWhere, Scope
<1>6. ClaimsAreBacked' BY <1>1, <1>2, <1>r DEF AInv, Types, ClaimsAreBacked
<1>7. PolicyOfThisProcess' BY <1>1, <1>2, <1>r DEF AInv, Types, PolicyOfThisProcess, RequiredIn
<1>10. TenantIsolation' /\ EnforcedIsShown'
  BY <1>2, DirectoryAssumption DEF TenantIsolation, EnforcedIsShown, NoAnswer
<1> QED BY <1>3, <1>4, <1>5, <1>6, <1>7, <1>10 DEF AInv

LEMMA ReadMfaRowKeeps ==
  ASSUME AInv, NEW h \in Handlers, ReadMfaRow(h)
  PROVE  AInv'
<1> DEFINE at == IF memo = {} THEN "policy" ELSE "known"
<1>1. /\ Advance(h, at) /\ UNCHANGED <<phase, required, memo, session, tenants, mfa, halfReset>>
      /\ request[h].at # "idle" /\ request[h].route = "mfaStatus"
  BY DEF ReadMfaRow, At, bootVars, rows, process
<1>a. at \in Ats BY DEF Ats
<1>b. (at = "known" => memo # {}) /\ at # "found" OBVIOUS
<1> HIDE DEF at
<1>2. /\ request' \in [Handlers -> Request]
      /\ \A g \in Handlers : /\ request'[g].at = (IF g = h THEN at ELSE request[g].at)
                             /\ request'[g].route = request[g].route
                             /\ request'[g].by = request[g].by
                             /\ request'[g].arg = request[g].arg
      /\ answer' = NoAnswer
  BY <1>1, <1>a, AdvanceTo DEF AInv, Types
<1>3. Types' BY <1>1, <1>2 DEF AInv, Types
<1>r. Registered \subseteq Registered' BY <1>1 DEF AInv, Types, Registered
<1>4. HandlersKnowTheirCaller' BY <1>1, <1>2, <1>r, <1>b DEF AInv, Types, HandlersKnowTheirCaller
<1>5. TargetsAreFound'
  BY <1>1, <1>2, <1>r, <1>b DEF AInv, Types, TargetsAreFound, UsersWhere, Scope
<1>6. ClaimsAreBacked' BY <1>1, <1>2, <1>r, <1>b DEF AInv, Types, ClaimsAreBacked
<1>7. PolicyOfThisProcess'
  BY <1>1, <1>2, <1>r, <1>b DEF AInv, Types, PolicyOfThisProcess, RequiredIn
<1>10. TenantIsolation' /\ EnforcedIsShown'
  BY <1>2, DirectoryAssumption DEF TenantIsolation, EnforcedIsShown, NoAnswer
<1> QED BY <1>3, <1>4, <1>5, <1>6, <1>7, <1>10 DEF AInv

LEMMA GetRequiredTenantIdsKeeps ==
  ASSUME AInv, NEW h \in Handlers, GetRequiredTenantIds(h)
  PROVE  AInv'
<1>1. /\ Advance(h, "known") /\ UNCHANGED <<phase, required, session, tenants, mfa, halfReset>>
      /\ memo' = {RequiredIn(tenants)}
      /\ request[h].at # "idle" /\ request[h].route = "mfaStatus"
  BY DEF GetRequiredTenantIds, At, bootVars, rows, process
<1>a. "known" \in Ats BY DEF Ats
<1>2. /\ request' \in [Handlers -> Request]
      /\ \A g \in Handlers : /\ request'[g].at = (IF g = h THEN "known" ELSE request[g].at)
                             /\ request'[g].route = request[g].route
                             /\ request'[g].by = request[g].by
                             /\ request'[g].arg = request[g].arg
      /\ answer' = NoAnswer
  BY <1>1, <1>a, AdvanceTo DEF AInv, Types
<1>3. Types' BY <1>1, <1>2 DEF AInv, Types
<1>r. Registered \subseteq Registered' BY <1>1 DEF AInv, Types, Registered
<1>4. HandlersKnowTheirCaller' BY <1>1, <1>2, <1>r DEF AInv, Types, HandlersKnowTheirCaller
<1>5. TargetsAreFound' BY <1>1, <1>2, <1>r DEF AInv, Types, TargetsAreFound, UsersWhere, Scope
<1>6. ClaimsAreBacked' BY <1>1, <1>2, <1>r DEF AInv, Types, ClaimsAreBacked
<1>7. PolicyOfThisProcess' BY <1>1, <1>2, <1>r DEF AInv, Types, PolicyOfThisProcess, RequiredIn
<1>10. TenantIsolation' /\ EnforcedIsShown'
  BY <1>2, DirectoryAssumption DEF TenantIsolation, EnforcedIsShown, NoAnswer
<1> QED BY <1>3, <1>4, <1>5, <1>6, <1>7, <1>10 DEF AInv

LEMMA FindTargetKeeps ==
  ASSUME AInv, NEW h \in Handlers, FindTarget(h)
  PROVE  AInv'
<1>1. /\ Reply(h, {}) \/ Advance(h, "found")
      /\ UNCHANGED <<phase, required, memo, session, tenants, mfa, halfReset>>
      /\ request[h].at # "idle"
  BY DEF FindTarget, bootVars, rows, process
<1>2. /\ request' \in [Handlers -> Request]
      /\ \A g \in Handlers : /\ request'[g].at # "idle" =>
                                  /\ request'[g].route = request[g].route
                                  /\ request'[g].by = request[g].by
                                  /\ request'[g].arg = request[g].arg
                                  /\ request[g].at # "idle"
                             /\ request'[g].at = request[g].at \/ (g = h /\ request'[g].at \in {"idle", "found"})
      /\ answer'.by = Nobody \/ answer'.touched = {}
      /\ answer'.required = TRUE
  <2>1. CASE Reply(h, {}) BY <2>1, <1>1, ReplyWith, IdleRequest DEF AInv, Types
  <2>2. CASE Advance(h, "found") BY <2>2, <1>1, AdvanceTo DEF AInv, Types, Ats, NoAnswer
  <2> QED BY <1>1, <2>1, <2>2
<1>3. Types' BY <1>1, <1>2 DEF AInv, Types
<1>4. HandlersKnowTheirCaller' BY <1>1, <1>2 DEF AInv, HandlersKnowTheirCaller, Registered
<1>t. request'[h].at = "found" => request[h].arg \in UsersWhere(Scope(h))
  <2>1. CASE FindById(request[h].arg, Scope(h)) = {}
    BY <2>1, ReplyWith, IdleRequest DEF FindTarget, AInv, Types
  <2>2. CASE FindById(request[h].arg, Scope(h)) # {} BY <2>2 DEF FindById
  <2> QED BY <2>1, <2>2
<1>5. TargetsAreFound'
  BY <1>1, <1>2, <1>t DEF AInv, TargetsAreFound, UsersWhere, Registered, Scope
<1>6. ClaimsAreBacked' BY <1>1 DEF AInv, ClaimsAreBacked
<1>7. PolicyOfThisProcess' BY <1>1, <1>2 DEF AInv, PolicyOfThisProcess, RequiredIn
<1>10. TenantIsolation' /\ EnforcedIsShown'
  BY <1>2, DirectoryAssumption DEF TenantIsolation, EnforcedIsShown
<1> QED BY <1>3, <1>4, <1>5, <1>6, <1>7, <1>10 DEF AInv

LEMMA FindAnywhereKeeps ==
  ASSUME AInv, NEW h \in Handlers, FindAnywhere(h)
  PROVE  AInv'
<1>1. /\ Reply(h, {}) \/ Advance(h, "found")
      /\ UNCHANGED <<phase, required, memo, session, tenants, mfa, halfReset>>
      /\ request[h].at # "idle"
  BY DEF FindAnywhere, bootVars, rows, process
<1>2. /\ request' \in [Handlers -> Request]
      /\ \A g \in Handlers : /\ request'[g].at # "idle" =>
                                  /\ request'[g].route = request[g].route
                                  /\ request'[g].by = request[g].by
                                  /\ request'[g].arg = request[g].arg
                                  /\ request[g].at # "idle"
                             /\ request'[g].at = request[g].at \/ (g = h /\ request'[g].at \in {"idle", "found"})
      /\ answer'.by = Nobody \/ answer'.touched = {}
      /\ answer'.required = TRUE
  <2>1. CASE Reply(h, {}) BY <2>1, <1>1, ReplyWith, IdleRequest DEF AInv, Types
  <2>2. CASE Advance(h, "found") BY <2>2, <1>1, AdvanceTo DEF AInv, Types, Ats, NoAnswer
  <2> QED BY <1>1, <2>1, <2>2
<1>3. Types' BY <1>1, <1>2 DEF AInv, Types
<1>4. HandlersKnowTheirCaller' BY <1>1, <1>2 DEF AInv, HandlersKnowTheirCaller, Registered
<1>t. request[h].route \notin {"updateStatus", "notify"} BY DEF FindAnywhere
<1>5. TargetsAreFound'
  BY <1>1, <1>2, <1>t DEF AInv, TargetsAreFound, UsersWhere, Registered, Scope
<1>6. ClaimsAreBacked' BY <1>1 DEF AInv, ClaimsAreBacked
<1>7. PolicyOfThisProcess' BY <1>1, <1>2 DEF AInv, PolicyOfThisProcess, RequiredIn
<1>10. TenantIsolation' /\ EnforcedIsShown'
  BY <1>2, DirectoryAssumption DEF TenantIsolation, EnforcedIsShown
<1> QED BY <1>3, <1>4, <1>5, <1>6, <1>7, <1>10 DEF AInv

LEMMA GetMfaStatusKeeps ==
  ASSUME AInv, NEW h \in Handlers, GetMfaStatus(h)
  PROVE  AInv'
<1>1. /\ request' = [request EXCEPT ![h] = Idle]
      /\ UNCHANGED <<phase, required, memo, session, tenants, mfa, halfReset>>
      /\ request[h].at = "known"
      /\ answer' = [by |-> request[h].by, touched |-> {Scope(h)}, required |-> Scope(h) \in UNION memo]
  BY DEF GetMfaStatus, At, bootVars, rows, process
<1>2. /\ request' \in [Handlers -> Request]
      /\ \A g \in Handlers : request'[g] = (IF g = h THEN Idle ELSE request[g])
  BY <1>1, IdleRequest DEF AInv, Types
<1>3. Types' BY <1>1, <1>2 DEF AInv, Types
<1>4. HandlersKnowTheirCaller'
  BY <1>1, <1>2, IdleRequest DEF AInv, HandlersKnowTheirCaller, Registered, Idle
<1>5. TargetsAreFound'
  BY <1>1, <1>2, IdleRequest DEF AInv, TargetsAreFound, UsersWhere, Registered, Scope, Idle
<1>6. ClaimsAreBacked' BY <1>1, <1>2, IdleRequest DEF AInv, ClaimsAreBacked
<1>7. PolicyOfThisProcess' BY <1>1, <1>2, IdleRequest DEF AInv, PolicyOfThisProcess, RequiredIn
<1>10. TenantIsolation' BY <1>1 DEF TenantIsolation, Scope
<1>11. EnforcedIsShown' BY <1>1 DEF AInv, PolicyOfThisProcess, EnforcedIsShown, Scope
<1> QED BY <1>3, <1>4, <1>5, <1>6, <1>7, <1>10, <1>11 DEF AInv

(* What the guards leave of the cookie and the bearer of one request.      *)
CallerOK(name, by) ==
    IF name \in PlatformRoutes THEN by \in Admins
    ELSE name \notin OpenRoutes => by \in Registered

LEMMA AdmittedCaller ==
  ASSUME NEW h, NEW name, NEW cookie \in Cookies, NEW bearer \in Bearers, NEW arg,
         RouteOK(name, Routes[name]), Receive(h, name, cookie, bearer, arg)
  PROVE  CallerOK(name, IF Routes[name].platform THEN bearer
                        ELSE RequestUser(Routes[name], cookie, bearer))
<1> DEFINE route == Routes[name]
<1>1. \/ route.open
      \/ /\ AppJwtAuthGuard(route, cookie, bearer)
         /\ JwtPlatformGuard(route, bearer)
  BY DEF Receive
<1>2. CASE name \in PlatformRoutes
  <2>1. route.platform /\ ~route.open BY <1>2 DEF RouteOK
  <2> QED BY <1>1, <1>2, <2>1 DEF JwtPlatformGuard, CallerOK
<1>3. CASE name \notin PlatformRoutes /\ name \notin OpenRoutes
  <2>1. ~route.platform /\ ~route.open /\ ~route.skipJwt BY <1>3 DEF RouteOK
  <2>2. ~PassesThrough(route, bearer) BY <2>1 DEF PassesThrough, isPlatformRoute
  <2>3. cookie # Nobody BY <1>1, <2>1, <2>2 DEF AppJwtAuthGuard
  <2>4. cookie \in Registered BY <2>3 DEF Cookies, Registered
  <2> QED BY <1>3, <2>1, <2>2, <2>4 DEF RequestUser, CallerOK
<1> QED BY <1>2, <1>3 DEF CallerOK

LEMMA RequestsKeeps ==
  ASSUME AInv, NEW h \in Handlers, Requests(h)
  PROVE  AInv'
<1> PICK name \in Asked[h], cookie \in Cookies, bearer \in Bearers :
          \E arg \in ArgsOf(name) : Receive(h, name, cookie, bearer, arg)
  BY DEF Requests
<1> PICK arg \in ArgsOf(name) : Receive(h, name, cookie, bearer, arg) OBVIOUS
<1> DEFINE route == Routes[name]
           user == RequestUser(route, cookie, bearer)
           by == IF route.platform THEN bearer ELSE user
<1>1. /\ request' = [request EXCEPT ![h] = [at |-> "admitted", route |-> name, arg |-> arg, by |-> by]]
      /\ UNCHANGED <<phase, required, memo, session, tenants, mfa, halfReset>>
      /\ answer' = NoAnswer
      /\ request[h].at = "idle" /\ phase = "listening"
  BY DEF Receive, Requests, Serving, bootVars, rows, process
<1>r. name \in DOMAIN Routes /\ RouteOK(name, route)
  BY AskedAssumption, RoutesAreAsNamed
<1>a. arg \in Args BY DEF ArgsOf, Args
<1>k. CallerOK(name, by) BY <1>r, AdmittedCaller
<1>b. by \in Callers
  BY <1>r, <1>k, DirectoryAssumption
     DEF CallerOK, RequestUser, RouteOK, Cookies, Callers, Registered, PassesThrough, AInv
<1>2. /\ request' \in [Handlers -> Request]
      /\ \A g \in Handlers : request'[g] = (IF g = h THEN [at |-> "admitted", route |-> name, arg |-> arg, by |-> by]
                                            ELSE request[g])
  <2> HIDE DEF by
  <2>1. [at |-> "admitted", route |-> name, arg |-> arg, by |-> by] \in Request
    BY <1>r, <1>a, <1>b DEF Request, Ats, Names
  <2> QED BY <2>1, <1>1 DEF AInv, Types
<1> HIDE DEF by, route, user
<1>3. Types' BY <1>1, <1>2 DEF AInv, Types
<1>4. HandlersKnowTheirCaller'
  BY <1>1, <1>2, <1>k DEF AInv, HandlersKnowTheirCaller, Registered, CallerOK
<1>5. TargetsAreFound' BY <1>1, <1>2 DEF AInv, TargetsAreFound, UsersWhere, Registered, Scope
<1>6. ClaimsAreBacked' BY <1>1 DEF AInv, ClaimsAreBacked
<1>7. PolicyOfThisProcess' BY <1>1, <1>2 DEF AInv, PolicyOfThisProcess, RequiredIn
<1>10. TenantIsolation' /\ EnforcedIsShown'
  BY <1>1, DirectoryAssumption DEF TenantIsolation, EnforcedIsShown, NoAnswer
<1> QED BY <1>3, <1>4, <1>5, <1>6, <1>7, <1>10 DEF AInv

LEMMA RegisterKeeps ==
  ASSUME AInv, NEW u \in Members, Register(u)
  PROVE  AInv'
<1>1. /\ session' = [session EXCEPT ![u] = "none"] /\ UNCHANGED mfa
      /\ UNCHANGED <<phase, required, memo, tenants, halfReset, request>>
      /\ answer' = NoAnswer
  BY DEF Register, Serving, bootVars, process
<1>3. Types' BY <1>1 DEF AInv, Types
<1>r. Registered \subseteq Registered' BY <1>1 DEF AInv, Types, Registered
<1>4. HandlersKnowTheirCaller' BY <1>1, <1>r DEF AInv, HandlersKnowTheirCaller
<1>5. TargetsAreFound' BY <1>1, <1>r DEF AInv, TargetsAreFound, UsersWhere, Scope
<1>6. ClaimsAreBacked' BY <1>1 DEF AInv, Types, ClaimsAreBacked
<1>7. PolicyOfThisProcess' BY <1>1 DEF AInv, PolicyOfThisProcess, RequiredIn
<1>10. TenantIsolation' /\ EnforcedIsShown'
  BY <1>1, DirectoryAssumption DEF TenantIsolation, EnforcedIsShown, NoAnswer
<1> QED BY <1>3, <1>4, <1>5, <1>6, <1>7, <1>10 DEF AInv

LEMMA SignInKeeps ==
  ASSUME AInv, NEW u \in Members, SignIn(u)
  PROVE  AInv'
<1>1. /\ session' = [session EXCEPT ![u] = IF u \in mfa THEN "mfa" ELSE "plain"] /\ UNCHANGED mfa
      /\ UNCHANGED <<phase, required, memo, tenants, halfReset, request>>
      /\ answer' = NoAnswer
  BY DEF SignIn, Serving, bootVars, process
<1>3. Types' BY <1>1 DEF AInv, Types
<1>r. Registered \subseteq Registered' BY <1>1 DEF AInv, Types, Registered
<1>4. HandlersKnowTheirCaller' BY <1>1, <1>r DEF AInv, HandlersKnowTheirCaller
<1>5. TargetsAreFound' BY <1>1, <1>r DEF AInv, TargetsAreFound, UsersWhere, Scope
<1>6. ClaimsAreBacked' BY <1>1 DEF AInv, Types, ClaimsAreBacked
<1>7. PolicyOfThisProcess' BY <1>1 DEF AInv, PolicyOfThisProcess, RequiredIn
<1>10. TenantIsolation' /\ EnforcedIsShown'
  BY <1>1, DirectoryAssumption DEF TenantIsolation, EnforcedIsShown, NoAnswer
<1> QED BY <1>3, <1>4, <1>5, <1>6, <1>7, <1>10 DEF AInv

LEMMA EnrolKeeps ==
  ASSUME AInv, NEW u \in Members, Enrol(u)
  PROVE  AInv'
<1>1. /\ session' = [session EXCEPT ![u] = "none"] /\ mfa' = mfa \cup {u}
      /\ UNCHANGED <<phase, required, memo, tenants, halfReset, request>>
      /\ answer' = NoAnswer
  BY DEF Enrol, Serving, bootVars, process
<1>3. Types' BY <1>1 DEF AInv, Types
<1>r. Registered \subseteq Registered' BY <1>1 DEF AInv, Types, Registered
<1>4. HandlersKnowTheirCaller' BY <1>1, <1>r DEF AInv, HandlersKnowTheirCaller
<1>5. TargetsAreFound' BY <1>1, <1>r DEF AInv, TargetsAreFound, UsersWhere, Scope
<1>6. ClaimsAreBacked' BY <1>1 DEF AInv, Types, ClaimsAreBacked
<1>7. PolicyOfThisProcess' BY <1>1 DEF AInv, PolicyOfThisProcess, RequiredIn
<1>10. TenantIsolation' /\ EnforcedIsShown'
  BY <1>1, DirectoryAssumption DEF TenantIsolation, EnforcedIsShown, NoAnswer
<1> QED BY <1>3, <1>4, <1>5, <1>6, <1>7, <1>10 DEF AInv

LEMMA OnModuleInitKeeps ==
  ASSUME AInv, OnModuleInit
  PROVE  AInv'
<1>1. /\ phase = "init" /\ phase' = "listening"
      /\ required' = RequiredIn(tenants)
      /\ UNCHANGED <<memo, tenants, halfReset, mfa, session, request>>
      /\ answer' = NoAnswer
  BY DEF OnModuleInit, rows
<1>3. Types' BY <1>1 DEF AInv, Types
<1>r. Registered \subseteq Registered' BY <1>1 DEF AInv, Types, Registered
<1>4. HandlersKnowTheirCaller' BY <1>1, <1>r DEF AInv, HandlersKnowTheirCaller
<1>5. TargetsAreFound' BY <1>1, <1>r DEF AInv, TargetsAreFound, UsersWhere, Scope
<1>6. ClaimsAreBacked' BY <1>1 DEF AInv, Types, ClaimsAreBacked
<1>7. PolicyOfThisProcess' BY <1>1 DEF AInv, PolicyOfThisProcess, RequiredIn
<1>10. TenantIsolation' /\ EnforcedIsShown'
  BY <1>1, DirectoryAssumption DEF TenantIsolation, EnforcedIsShown, NoAnswer
<1> QED BY <1>3, <1>4, <1>5, <1>6, <1>7, <1>10 DEF AInv

LEMMA BootKeeps ==
  ASSUME AInv, Boot, UNCHANGED <<rows, process, request, answer>>
  PROVE  AInv'
<1>1. /\ phase # "listening" /\ phase' # "listening"
      /\ UNCHANGED <<required, memo, tenants, halfReset, mfa, session, request, answer>>
  BY DEF Boot, ImportModules, Validate, Assemble, Bootstrap, rows, process
<1>3. Types' BY <1>1 DEF AInv, Types
<1>r. Registered \subseteq Registered' BY <1>1 DEF AInv, Types, Registered
<1>4. HandlersKnowTheirCaller' BY <1>1, <1>r DEF AInv, HandlersKnowTheirCaller
<1>5. TargetsAreFound' BY <1>1, <1>r DEF AInv, TargetsAreFound, UsersWhere, Scope
<1>6. ClaimsAreBacked' BY <1>1 DEF AInv, Types, ClaimsAreBacked
<1>7. PolicyOfThisProcess' BY <1>1 DEF AInv, PolicyOfThisProcess, RequiredIn
<1>10. TenantIsolation' /\ EnforcedIsShown'
  BY <1>1, DirectoryAssumption DEF TenantIsolation, EnforcedIsShown, NoAnswer, AInv
<1> QED BY <1>3, <1>4, <1>5, <1>6, <1>7, <1>10 DEF AInv

LEMMA RestartKeeps ==
  ASSUME AInv, Restart
  PROVE  AInv'
<1>1. /\ phase' = "import" /\ required' = {} /\ memo' = {}
      /\ request' = [h \in Handlers |-> Idle] /\ answer' = NoAnswer
      /\ UNCHANGED <<tenants, session, mfa, halfReset>>
  BY DEF Restart, rows
<1>2. \A g \in Handlers : request'[g] = Idle BY <1>1
<1>3. Types' BY <1>1, IdleRequest DEF AInv, Types
<1>4. HandlersKnowTheirCaller' /\ TargetsAreFound'
  BY <1>2, IdleRequest DEF HandlersKnowTheirCaller, TargetsAreFound
<1>6. ClaimsAreBacked' BY <1>1 DEF AInv, ClaimsAreBacked
<1>7. PolicyOfThisProcess' BY <1>1, <1>2, IdleRequest DEF PolicyOfThisProcess
<1>10. TenantIsolation' /\ EnforcedIsShown'
  BY <1>1, DirectoryAssumption DEF TenantIsolation, EnforcedIsShown, NoAnswer
<1> QED BY <1>3, <1>4, <1>6, <1>7, <1>10 DEF AInv

-----------------------------------------------------------------------------
LEMMA InitOK == Init => AInv
<1> SUFFICES ASSUME Init PROVE AInv OBVIOUS
<1>1. /\ phase = "import" /\ required = {} /\ memo = {}
      /\ request = [h \in Handlers |-> Idle] /\ answer = NoAnswer
      /\ session = [u \in Members |-> IF Home[u] \in SeededTenants THEN "none" ELSE "absent"]
  BY DEF Init, BootInit
<1>2. \A g \in Handlers : request[g] = Idle BY <1>1
<1>3. Types BY <1>1, IdleRequest DEF Types
<1>4. HandlersKnowTheirCaller /\ TargetsAreFound
  BY <1>2, IdleRequest DEF HandlersKnowTheirCaller, TargetsAreFound
<1>6. ClaimsAreBacked BY <1>1 DEF ClaimsAreBacked
<1>7. PolicyOfThisProcess BY <1>1, <1>2, IdleRequest DEF PolicyOfThisProcess
<1>10. TenantIsolation /\ EnforcedIsShown
  BY <1>1, DirectoryAssumption DEF TenantIsolation, EnforcedIsShown, NoAnswer
<1> QED BY <1>3, <1>4, <1>6, <1>7, <1>10 DEF AInv

LEMMA StutterKeeps ==
  ASSUME AInv, UNCHANGED vars
  PROVE  AInv'
<1>1. UNCHANGED <<phase, tenants, session, mfa, halfReset, required, memo, request, answer>>
  BY DEF vars, bootVars, rows, process
<1>2. Types' /\ HandlersKnowTheirCaller'
  BY <1>1 DEF AInv, Types, HandlersKnowTheirCaller, Registered
<1>3. TargetsAreFound' BY <1>1 DEF AInv, TargetsAreFound, UsersWhere, Registered, Scope
<1>4. ClaimsAreBacked' /\ PolicyOfThisProcess'
  BY <1>1 DEF AInv, ClaimsAreBacked, PolicyOfThisProcess, RequiredIn
<1>5. TenantIsolation' /\ EnforcedIsShown' BY <1>1 DEF AInv, TenantIsolation, EnforcedIsShown
<1> QED BY <1>2, <1>3, <1>4, <1>5 DEF AInv

LEMMA NextKeeps == AInv /\ [Next]_vars => AInv'
<1> SUFFICES ASSUME AInv, [Next]_vars PROVE AInv' OBVIOUS
<1>1. CASE UNCHANGED vars BY <1>1, StutterKeeps
<1>2. CASE Boot /\ UNCHANGED <<rows, process, request, answer>> BY <1>2, BootKeeps
<1>3. CASE OnModuleInit \/ Restart BY <1>3, OnModuleInitKeeps, RestartKeeps
<1>4. ASSUME NEW h \in Handlers, Requests(h) PROVE AInv' BY <1>4, RequestsKeeps
<1>5. ASSUME NEW h \in Handlers, Handle(h) PROVE AInv'
  BY <1>5, ReadKeeps, ListUsersKeeps, GetUserKeeps, CreateTenantKeeps, CreateProjectKeeps,
    DeleteProjectKeeps, UpdateStatusKeeps, NotifyKeeps, UpdateUserStatusKeeps,
    FinishResetKeeps, CallFailsKeeps, ResetMfaKeeps, ResetEndsSessionsKeeps,
    ReadMfaRowKeeps, GetRequiredTenantIdsKeeps, FindTargetKeeps, FindAnywhereKeeps,
    GetMfaStatusKeeps
     DEF Handle
<1>6. ASSUME NEW u \in Members, Register(u) \/ SignIn(u) \/ Enrol(u) PROVE AInv'
  BY <1>6, RegisterKeeps, SignInKeeps, EnrolKeeps
<1> QED BY <1>1, <1>2, <1>3, <1>4, <1>5, <1>6 DEF Next

(* The inductive invariant the theorems about requests follow from.        *)
THEOREM RequestInvariance == Spec => []AInv
<1> QED BY InitOK, NextKeeps, PTL DEF Spec

(* Every handler has the caller its code relies on, whatever cookie and    *)
(* bearer travelled together through AppJwtAuthGuard.                      *)
THEOREM CallersAreKnown == Spec => []HandlersKnowTheirCaller
<1>1. AInv => HandlersKnowTheirCaller BY DEF AInv
<1> QED BY <1>1, RequestInvariance, PTL

(* The services' scoping by the caller's tenantId: nothing a member sends  *)
(* reads or changes a row of another workspace, at any await.              *)
THEOREM TenantsAreIsolated == Spec => []TenantIsolation
<1>1. AInv => TenantIsolation BY DEF AInv
<1> QED BY <1>1, RequestInvariance, PTL

(* getMfaStatus never promises what TenantMfaPolicyGuard then denies.      *)
THEOREM PolicyIsShown == Spec => []EnforcedIsShown
<1>1. AInv => EnforcedIsShown BY DEF AInv
<1> QED BY <1>1, RequestInvariance, PTL

\* A step of one handler leaves the requests of the others.
LEMMA OthersWait ==
  ASSUME Types, NEW h \in Handlers, Handle(h)
  PROVE  \A g \in Handlers : g # h => request'[g] = request[g]
<1>1. (\E r : request' = [request EXCEPT ![h] = r]) \/ (\E at : request' = [request EXCEPT ![h].at = at])
  BY DEF Handle, Read, ListUsers, GetUser, CreateTenant, CreateProject, DeleteProject, FindTarget,
     UpdateStatus, Notify, FindAnywhere, UpdateUserStatus, ResetMfa, ResetEndsSessions, FinishReset,
     ReadMfaRow, GetRequiredTenantIds, GetMfaStatus, CallFails, Reply, Advance
<1> QED BY <1>1 DEF Types

(* TenantMfaPolicyGuard on the claims of the token: in a workspace it      *)
(* enforces, whoever gets to a handler that is not carved out has a second *)
(* factor on the row, unless a reset of it stopped half-way.               *)
THEOREM EnrolmentForced == Spec => EnrolmentIsForced
<1> DEFINE Forced(h) ==
      request'[h].at = "admitted" /\ request[h].at = "idle" =>
          LET u == request'[h].by
          IN  u \in Members /\ Home[u] \in required /\ ~Routes[request'[h].route].carved
                  => u \in mfa \cup halfReset
<1>1. ASSUME AInv, NEW h \in Handlers, Requests(h) PROVE \A g \in Handlers : Forced(g)
  <2>1. PICK name \in Asked[h], cookie \in Cookies, bearer \in Bearers :
            \E arg \in ArgsOf(name) : Receive(h, name, cookie, bearer, arg)
    BY <1>1 DEF Requests
  <2>2. PICK arg \in ArgsOf(name) : Receive(h, name, cookie, bearer, arg) BY <2>1
  <2> DEFINE route == Routes[name]
             user == RequestUser(route, cookie, bearer)
             by == IF route.platform THEN bearer ELSE user
  <2>3. RouteOK(name, route) BY AskedAssumption, RoutesAreAsNamed
  <2>4. CallerOK(name, by) BY <2>2, <2>3, AdmittedCaller
  <2>5. request' = [request EXCEPT ![h] = [at |-> "admitted", route |-> name, arg |-> arg, by |-> by]]
    BY <2>2 DEF Receive
  <2>6. (by \in Members /\ Home[by] \in required /\ ~route.carved) => by \in mfa \cup halfReset
    <3> SUFFICES ASSUME by \in Members, Home[by] \in required, ~route.carved
                 PROVE  by \in mfa \cup halfReset
      OBVIOUS
    <3>1. name \notin PlatformRoutes BY <2>4, DirectoryAssumption DEF CallerOK
    <3>2. ~route.platform BY <2>3, <3>1 DEF RouteOK
    <3>3. by = user BY <3>2
    <3>4. user # Nobody BY <3>3, DirectoryAssumption
    <3>5. ~route.open BY <3>4 DEF RequestUser
    <3>6. TenantMfaPolicyGuard(route, user) BY <2>2, <3>5 DEF Receive
    <3>7. session[by] = "mfa" BY <3>3, <3>4, <3>6 DEF TenantMfaPolicyGuard
    <3> QED BY <1>1, <3>7 DEF AInv, ClaimsAreBacked
  <2> HIDE DEF by, route
  <2> SUFFICES ASSUME NEW g \in Handlers PROVE Forced(g) OBVIOUS
  <2>7. CASE g = h
    <3>1. request'[h] = [at |-> "admitted", route |-> name, arg |-> arg, by |-> by]
      BY <1>1, <2>5 DEF AInv, Types
    <3> QED BY <2>6, <2>7, <3>1 DEF route
  <2>8. CASE g # h BY <1>1, <2>5, <2>8 DEF AInv, Types
  <2> QED BY <2>7, <2>8
<1>2. ASSUME AInv, NEW h \in Handlers, Handle(h) PROVE \A g \in Handlers : Forced(g)
  <2>1. request[h].at # "idle"
    BY <1>2
       DEF Handle, Read, ListUsers, GetUser, CreateTenant, CreateProject, DeleteProject, FindTarget,
       UpdateStatus, Notify, FindAnywhere, UpdateUserStatus, ResetMfa, ResetEndsSessions, FinishReset,
       ReadMfaRow, GetRequiredTenantIds, GetMfaStatus, CallFails, At
  <2>2. \A g \in Handlers : g # h => request'[g] = request[g] BY <1>2, OthersWait DEF AInv
  <2> QED BY <2>1, <2>2
<1>3. ASSUME AInv, Next PROVE \A g \in Handlers : Forced(g)
  <2>1. CASE UNCHANGED request BY <2>1
  <2>2. CASE Restart
    <3>1. \A g \in Handlers : request'[g] = Idle BY <2>2 DEF Restart
    <3> QED BY <3>1, IdleRequest
  <2>3. \/ UNCHANGED request \/ Restart \/ \E h \in Handlers : Requests(h) \/ Handle(h)
    BY <1>3 DEF Next, Register, SignIn, Enrol, OnModuleInit
  <2> QED BY <1>1, <1>2, <1>3, <2>1, <2>2, <2>3
<1>4. AInv /\ [Next]_vars => [\A h \in Handlers : Forced(h)]_vars BY <1>3
<1> HIDE DEF Forced
<1>5. Spec => [][\A h \in Handlers : Forced(h)]_vars BY <1>4, RequestInvariance, PTL DEF Spec
<1> QED BY <1>5 DEF EnrolmentIsForced, Forced

-----------------------------------------------------------------------------
(* The start of the process.                                               *)
Variables == {"NODE_ENV", "WEB_ORIGIN", "AUTH_THROTTLE_DISABLED", "TRUSTED_PROXY_HOPS",
              "EMAIL_PROVIDER", "RESEND_API_KEY", "OAUTH_GOOGLE_CLIENT_ID",
              "OAUTH_GOOGLE_CLIENT_SECRET", "OAUTH_GOOGLE_CALLBACK_URL",
              "PASSWORD_BREACH_CHECKER"}

\* What each of the four readings left agrees with the environment as it is now.
ReadingsAgree ==
    /\ DOMAIN env = Variables
    /\ phase \in Phases
    /\ phase \notin {"import", "dead"} =>
          /\ mounts.oauth <=> isGoogleOAuthConfigured(env)
          /\ mounts.debug <=> DEV_CONTROLLERS(env)
    /\ phase \in {"assemble", "bootstrap", "init", "listening"} => base(env) /\ superRefine(env)
    /\ phase \in {"bootstrap", "init", "listening"} => options = buildAuthOptions(env)
    /\ phase \in {"init", "listening"} => trustProxy = Hops(env.TRUSTED_PROXY_HOPS)

LEMMA EnvironmentsAreComplete == \A e \in Environments : DOMAIN e = Variables
BY DEF Environments, Variables

LEMMA DefaultsKeepMounts ==
  ASSUME DOMAIN env = Variables
  PROVE  /\ DOMAIN Defaulted(env) = Variables
         /\ isGoogleOAuthConfigured(Defaulted(env)) <=> isGoogleOAuthConfigured(env)
         /\ DEV_CONTROLLERS(Defaulted(env)) <=> DEV_CONTROLLERS(env)
<1>1. DOMAIN Defaults = {"NODE_ENV", "AUTH_THROTTLE_DISABLED", "TRUSTED_PROXY_HOPS",
                         "EMAIL_PROVIDER", "PASSWORD_BREACH_CHECKER"}
      /\ Defaults["NODE_ENV"] = "development"
  BY DEF Defaults
<1>2. \A k \in Variables :
        Defaulted(env)[k] = IF env[k] = Unset /\ k \in DOMAIN Defaults THEN Defaults[k] ELSE env[k]
  BY DEF Defaulted
<1>3. /\ Defaulted(env).OAUTH_GOOGLE_CLIENT_ID = env.OAUTH_GOOGLE_CLIENT_ID
      /\ Defaulted(env).OAUTH_GOOGLE_CLIENT_SECRET = env.OAUTH_GOOGLE_CLIENT_SECRET
  BY <1>1, <1>2 DEF Variables
<1>4. Defaulted(env).NODE_ENV = "production" <=> env.NODE_ENV = "production"
  BY <1>1, <1>2 DEF Variables, Unset
<1>5. DOMAIN Defaulted(env) = Variables BY DEF Defaulted
<1> QED BY <1>3, <1>4, <1>5 DEF isGoogleOAuthConfigured, DEV_CONTROLLERS

LEMMA BootStep == ReadingsAgree /\ [Next]_vars => ReadingsAgree'
<1> SUFFICES ASSUME ReadingsAgree, [Next]_vars PROVE ReadingsAgree' OBVIOUS
<1> USE DEF ReadingsAgree, Phases
<1>1. CASE UNCHANGED bootVars BY <1>1 DEF bootVars
<1>2. CASE ImportModules BY <1>2 DEF ImportModules
<1>3. CASE Validate BY <1>3, DefaultsKeepMounts DEF Validate
<1>4. CASE Assemble BY <1>4 DEF Assemble
<1>5. CASE Bootstrap BY <1>5 DEF Bootstrap
<1>6. CASE OnModuleInit BY <1>6 DEF OnModuleInit
<1>7. CASE Restart BY <1>7, EnvironmentsAreComplete, DirectoryAssumption DEF Restart
<1>8. ASSUME NEW h \in Handlers, Handle(h) PROVE UNCHANGED bootVars
  BY <1>8
     DEF Handle, Read, ListUsers, GetUser, CreateTenant, CreateProject, DeleteProject, FindTarget,
     UpdateStatus, Notify, FindAnywhere, UpdateUserStatus, ResetMfa, ResetEndsSessions, FinishReset,
     ReadMfaRow, GetRequiredTenantIds, GetMfaStatus, CallFails
<1>9. ASSUME NEW h \in Handlers, Requests(h) PROVE UNCHANGED bootVars
  BY <1>9 DEF Requests, Receive
<1>10. ASSUME NEW u \in Members, Register(u) \/ SignIn(u) \/ Enrol(u) PROVE UNCHANGED bootVars
  BY <1>10 DEF Register, SignIn, Enrol
<1> QED BY <1>1, <1>2, <1>3, <1>4, <1>5, <1>6, <1>7, <1>8, <1>9, <1>10 DEF Next, Boot, vars

LEMMA AgreeingIsConsistent == ReadingsAgree => BootIsConsistent
<1> SUFFICES ASSUME ReadingsAgree, phase = "listening" PROVE BootIsConsistent
  BY DEF BootIsConsistent
<1>1. /\ mounts.oauth <=> isGoogleOAuthConfigured(env)
      /\ mounts.debug <=> DEV_CONTROLLERS(env)
      /\ base(env) /\ superRefine(env)
      /\ options = buildAuthOptions(env) /\ trustProxy = Hops(env.TRUSTED_PROXY_HOPS)
  BY DEF ReadingsAgree
<1>2. options.oauth <=> resolveGoogleOauth(env) BY <1>1 DEF buildAuthOptions
<1>3. options.rateLimit = rateLimit(env) /\ options.email = emailProvider(env)
      /\ options.breach = breachChecker(env)
  BY <1>1 DEF buildAuthOptions
<1>4. options.throttled <=> ~throttleDisabled(env) BY <1>1 DEF buildAuthOptions, throttlerOptions
<1>5. options.secureCookies <=> env.NODE_ENV = "production" BY <1>1 DEF buildAuthOptions
<1>6. mounts.oauth <=> options.oauth
  BY <1>1, <1>2 DEF superRefine, isGoogleOAuthConfigured, resolveGoogleOauth
<1>7. /\ options.rateLimit = "trusted-proxy" => trustProxy > 0
      /\ options.rateLimit = "peer" => trustProxy = 0
      /\ options.throttled <=> options.rateLimit # "off"
  BY <1>1, <1>3, <1>4 DEF rateLimit, Hops
<1>8. env.NODE_ENV = "production" =>
        /\ options.throttled /\ options.secureCookies /\ ~mounts.debug
        /\ options.email = "resend" /\ options.breach # "off"
        /\ options.rateLimit = "trusted-proxy" /\ env.WEB_ORIGIN = "https"
  BY <1>1, <1>3, <1>4, <1>5
     DEF superRefine, DEV_CONTROLLERS, throttleDisabled, rateLimit, emailProvider, breachChecker
<1> QED BY <1>6, <1>7, <1>8 DEF BootIsConsistent

(* auth.module.ts, env.schema.ts, auth.config.ts and main.ts each read the *)
(* environment again: whatever strings it holds, a process that listens    *)
(* has routes, options and proxy trust that belong together, and a         *)
(* production one has none of the development settings.                    *)
THEOREM ListensConsistently == Spec => []BootIsConsistent
<1>1. Init => ReadingsAgree
  BY EnvironmentsAreComplete DEF Init, BootInit, ReadingsAgree, Phases
<1> QED BY <1>1, BootStep, AgreeingIsConsistent, PTL DEF Spec

=============================================================================
