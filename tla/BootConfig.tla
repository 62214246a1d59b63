------------------------------ MODULE BootConfig ------------------------------
(***************************************************************************)
(* How the API process turns its environment into a running configuration. *)
(* The same variables are read at four moments: while the modules are      *)
(* imported (decorators, before any validation), by the schema, by the     *)
(* factories the container calls, and by main.ts.  Nothing passes what one *)
(* of them understood on to the next: each reads strings again.            *)
(***************************************************************************)
EXTENDS Naturals

CONSTANTS
    Settings    \* per variable, the strings it may hold when the process starts

Unset == "unset"
Given(v) == v \notin {Unset, ""}

VARIABLES
    env,        \* process.env
    phase,      \* how far the process has come
    mounts,     \* what the decorators decided: the controllers there will be
    options,    \* what the factories built
    trustProxy  \* what main.ts told Express

bootVars == <<env, phase, mounts, options, trustProxy>>

Environments ==
    [NODE_ENV : Settings.NODE_ENV, WEB_ORIGIN : Settings.WEB_ORIGIN,
     AUTH_THROTTLE_DISABLED : Settings.AUTH_THROTTLE_DISABLED,
     TRUSTED_PROXY_HOPS : Settings.TRUSTED_PROXY_HOPS,
     EMAIL_PROVIDER : Settings.EMAIL_PROVIDER, RESEND_API_KEY : Settings.RESEND_API_KEY,
     OAUTH_GOOGLE_CLIENT_ID : Settings.OAUTH_GOOGLE_CLIENT_ID,
     OAUTH_GOOGLE_CLIENT_SECRET : Settings.OAUTH_GOOGLE_CLIENT_SECRET,
     OAUTH_GOOGLE_CALLBACK_URL : Settings.OAUTH_GOOGLE_CALLBACK_URL,
     PASSWORD_BREACH_CHECKER : Settings.PASSWORD_BREACH_CHECKER]

NoMounts == [oauth |-> FALSE, debug |-> FALSE]
NoOptions == [throttled |-> FALSE, rateLimit |-> "off", email |-> Unset, breach |-> Unset,
              oauth |-> FALSE, secureCookies |-> FALSE]

BootInit ==
    /\ env \in Environments
    /\ phase = "import"
    /\ mounts = NoMounts /\ options = NoOptions /\ trustProxy = 0

-----------------------------------------------------------------------------
(* Importing the modules.                                                  *)

isGoogleOAuthConfigured(e) ==
    Given(e.OAUTH_GOOGLE_CLIENT_ID) /\ Given(e.OAUTH_GOOGLE_CLIENT_SECRET)

DEV_CONTROLLERS(e) == e.NODE_ENV # "production"

ImportModules ==
    /\ phase = "import"
    /\ mounts' = [oauth |-> isGoogleOAuthConfigured(env), debug |-> DEV_CONTROLLERS(env)]
    /\ phase' = "validate"
    /\ UNCHANGED <<env, options, trustProxy>>

-----------------------------------------------------------------------------
(* The schema.                                                             *)

Defaults == [NODE_ENV |-> "development", AUTH_THROTTLE_DISABLED |-> "false",
             TRUSTED_PROXY_HOPS |-> "0", EMAIL_PROVIDER |-> "mailpit",
             PASSWORD_BREACH_CHECKER |-> "common"]
Defaulted(e) ==
    [k \in DOMAIN e |-> IF e[k] = Unset /\ k \in DOMAIN Defaults THEN Defaults[k] ELSE e[k]]

base(e) ==
    /\ e.NODE_ENV \in {"development", "production", "test"}
    /\ Given(e.WEB_ORIGIN)
    /\ e.AUTH_THROTTLE_DISABLED \in {"true", "false"}
    /\ e.TRUSTED_PROXY_HOPS \in {"", "0", "1"}         \* coerced: "" is 0
    /\ e.EMAIL_PROVIDER \in {"mailpit", "resend", "mailpit-default"}
    /\ e.OAUTH_GOOGLE_CALLBACK_URL # ""
    /\ e.PASSWORD_BREACH_CHECKER \in {"common", "hibp", "off"}

Hops(s) == IF s = "1" THEN 1 ELSE 0

(* Fault: the refinement that asks for the callback is missing.            *)
RefineWithoutCallback(e) ==
    /\ e.NODE_ENV = "production" =>
          /\ e.AUTH_THROTTLE_DISABLED = "false" /\ e.WEB_ORIGIN = "https"
          /\ e.EMAIL_PROVIDER = "resend" /\ Hops(e.TRUSTED_PROXY_HOPS) > 0
          /\ e.PASSWORD_BREACH_CHECKER # "off"
    /\ e.EMAIL_PROVIDER = "resend" => Given(e.RESEND_API_KEY)
    /\ Given(e.OAUTH_GOOGLE_CLIENT_ID) <=> Given(e.OAUTH_GOOGLE_CLIENT_SECRET)

superRefine(e) ==
    /\ e.NODE_ENV = "production" =>
          /\ e.AUTH_THROTTLE_DISABLED = "false"
          /\ e.WEB_ORIGIN = "https"
          /\ e.EMAIL_PROVIDER = "resend"
          /\ Hops(e.TRUSTED_PROXY_HOPS) > 0
          /\ e.PASSWORD_BREACH_CHECKER # "off"
    /\ e.EMAIL_PROVIDER = "resend" => Given(e.RESEND_API_KEY)
    /\ Given(e.OAUTH_GOOGLE_CLIENT_ID) <=> Given(e.OAUTH_GOOGLE_CLIENT_SECRET)
    /\ Given(e.OAUTH_GOOGLE_CLIENT_ID) => Given(e.OAUTH_GOOGLE_CALLBACK_URL)

(* What the schema coerced is thrown away, but for the defaults, which go  *)
(* back into the environment as strings.                                   *)
Validate ==
    /\ phase = "validate"
    /\ IF base(Defaulted(env)) /\ superRefine(Defaulted(env))
       THEN env' = Defaulted(env) /\ phase' = "assemble"
       ELSE env' = env /\ phase' = "dead"
    /\ UNCHANGED <<mounts, options, trustProxy>>

-----------------------------------------------------------------------------
(* The factories.                                                          *)

throttleDisabled(e) == e.AUTH_THROTTLE_DISABLED = "true"

rateLimit(e) ==
    IF throttleDisabled(e) THEN "off"
    ELSE IF Hops(e.TRUSTED_PROXY_HOPS) > 0 THEN "trusted-proxy" ELSE "peer"

resolveGoogleOauth(e) ==
    /\ Given(e.OAUTH_GOOGLE_CLIENT_ID) /\ Given(e.OAUTH_GOOGLE_CLIENT_SECRET)
    /\ Given(e.OAUTH_GOOGLE_CALLBACK_URL)

emailProvider(e) ==
    IF e.EMAIL_PROVIDER \in {"resend", "mailpit-default"} THEN e.EMAIL_PROVIDER ELSE "mailpit"

breachChecker(e) ==
    IF e.PASSWORD_BREACH_CHECKER \in {"hibp", "off"} THEN e.PASSWORD_BREACH_CHECKER
    ELSE "common"

throttlerOptions(e) == ~throttleDisabled(e)

buildAuthOptions(e) ==
    [throttled |-> throttlerOptions(e), rateLimit |-> rateLimit(e),
     email |-> emailProvider(e), breach |-> breachChecker(e),
     oauth |-> resolveGoogleOauth(e), secureCookies |-> e.NODE_ENV = "production"]

Assemble ==
    /\ phase = "assemble"
    /\ options' = buildAuthOptions(env)
    /\ phase' = "bootstrap"
    /\ UNCHANGED <<env, mounts, trustProxy>>

Bootstrap ==
    /\ phase = "bootstrap"
    /\ trustProxy' = Hops(env.TRUSTED_PROXY_HOPS)
    /\ phase' = "init"
    /\ UNCHANGED <<env, mounts, options>>

Boot == ImportModules \/ Validate \/ Assemble \/ Bootstrap

-----------------------------------------------------------------------------
Phases == {"import", "validate", "assemble", "bootstrap", "init", "listening", "dead"}

(* A process that serves has routes and options that belong together, in   *)
(* both directions; limits by the address Express will report; disarms its *)
(* two limiters together; and in production keeps the debug helpers, the   *)
(* test doubles and the plain cookies out, whichever of the four readings  *)
(* decides.                                                                *)
BootIsConsistent ==
    phase = "listening" =>
        /\ mounts.oauth <=> options.oauth
        /\ options.rateLimit = "trusted-proxy" => trustProxy > 0
        /\ options.rateLimit = "peer" => trustProxy = 0
        /\ options.throttled <=> options.rateLimit # "off"
        /\ env.NODE_ENV = "production" =>
              /\ options.throttled /\ options.secureCookies /\ ~mounts.debug
              /\ options.email = "resend" /\ options.breach # "off"
              /\ options.rateLimit = "trusted-proxy" /\ env.WEB_ORIGIN = "https"
=============================================================================
