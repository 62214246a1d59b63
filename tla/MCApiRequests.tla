---------------------------- MODULE MCApiRequests ----------------------------
(***************************************************************************)
(* Every environment boots; one of them, with one workspace in which a     *)
(* second factor is required and which does not exist yet, gets traffic.   *)
(***************************************************************************)
EXTENDS ApiRequests, TLC

AllSettings ==
    [NODE_ENV |-> {Unset, "production"}, WEB_ORIGIN |-> {"http", "https"},
     AUTH_THROTTLE_DISABLED |-> {Unset, "false", "true"},
     TRUSTED_PROXY_HOPS |-> {Unset, "1"},
     EMAIL_PROVIDER |-> {Unset, "resend"}, RESEND_API_KEY |-> {Unset, "key"},
     OAUTH_GOOGLE_CLIENT_ID |-> {Unset, "", "id"},
     OAUTH_GOOGLE_CLIENT_SECRET |-> {Unset, "", "secret"},
     OAUTH_GOOGLE_CALLBACK_URL |-> {Unset, "", "url"},
     PASSWORD_BREACH_CHECKER |-> {Unset, "off"}]

Development ==
    [NODE_ENV |-> Unset, WEB_ORIGIN |-> "http", AUTH_THROTTLE_DISABLED |-> Unset,
     TRUSTED_PROXY_HOPS |-> Unset, EMAIL_PROVIDER |-> Unset, RESEND_API_KEY |-> Unset,
     OAUTH_GOOGLE_CLIENT_ID |-> Unset, OAUTH_GOOGLE_CLIENT_SECRET |-> Unset,
     OAUTH_GOOGLE_CALLBACK_URL |-> Unset, PASSWORD_BREACH_CHECKER |-> Unset]

HomeOf == "ann" :> "acme" @@ "bob" :> "globex"
RolesOf == "ann" :> "OWNER" @@ "bob" :> "MEMBER"
PlatformRolesOf == "sue" :> "SUPER_ADMIN"
(* One handler of everything beside one of the requests that take several  *)
(* steps or change what another one reads.                                 *)
AskedFor == "h1" :> ReadRoutes \cup TargetRoutes \cup {"listUsers", "createTenant",
                        "createProject", "deleteProject", "mfaStatus"}
         @@ "h2" :> {"mfaStatus", "deleteProject", "resetUserMfa"}
=============================================================================
