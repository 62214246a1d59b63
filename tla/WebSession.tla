------------------------------ MODULE WebSession ------------------------------
(***************************************************************************)
(* One tab of the web application and the cookies it shares with the       *)
(* others: the pages that sign a person in or act on a mailed link, the    *)
(* dashboard and its workspace switcher.  The person has an account in     *)
(* every workspace, so a workspace also names the account.  Handlers are   *)
(* cut at their awaits; the other tabs are what they write in the jar.     *)
(***************************************************************************)
EXTENDS Naturals, FiniteSets

CONSTANTS
    Tenants,
    DEFAULT_TENANT_SLUG,
    MfaTenants,         \* where the account has a second factor
    MaxHandlers         \* bound: handlers of the tab under way at once

None == "none"
NoProbe == "no probe"
ASSUME TenantsAssumption ==
    /\ DEFAULT_TENANT_SLUG \in Tenants
    /\ {None, NoProbe} \cap Tenants = {}
    /\ MfaTenants \subseteq Tenants
    /\ MaxHandlers \in Nat \ {0}

(* A workspace is named by its id (the mails, the header) or its slug.     *)
Id(t) == [form |-> "id", of |-> t]
Slug(t) == [form |-> "slug", of |-> t]
Values == [form : {"id", "slug"}, of : Tenants]
NoValue == [form |-> None, of |-> None]

Pages == {"login", "register", "forgot", "sent", "verify", "reset", "confirm", "accept", "mfa",
          "dashboard", "away"}
PickerPages == {"login", "register", "forgot"}

VARIABLES
    jar,            \* access: whose session the cookies hold; tenant: the tenant_id cookie
    page, link,     \* where the tab is, and the ?tenantId= of its URL
    slug,           \* what the workspace picker shows
    tenantState,    \* "settled", "resolving" or "failed"
    userChoseTenant,
    asking,         \* a lookup of the link's workspace is in flight
    form,           \* the page's submit handler: where it is, what it sent, what was meant
    clicks,         \* the Google button: the workspaces whose lookups it awaits
    oauth,          \* the navigation to Google: what the cookie said, what was meant (if no
                    \* other tab has written the cookie), and whether this page has
    switch,         \* the workspace switcher's handler
    user, probe,    \* AuthProvider: the account shown; the answer to come of its GET /me
    temp,           \* the token of a sign-in that waits for its second factor
    named,          \* the workspace the link or the person named last, on this page
    fresh,          \* no other tab changed the session since "user" was asked for
    half            \* the switcher has reported a failure on this page

picker == <<link, slug, tenantState, userChoseTenant, asking, named>>
shown == <<user, probe, fresh, half, switch>>
google == <<clicks, oauth>>
vars == <<jar, page, picker, form, google, temp, shown>>

Quiet == [at |-> "idle", header |-> NoValue, meant |-> None]
NotLeaving == [at |-> "idle", header |-> NoValue, meant |-> None, over |-> FALSE]
NotSwitching == [at |-> "idle", to |-> None]

Init ==
    /\ jar = [access |-> None, tenant |-> NoValue]
    /\ page = "login" /\ link = NoValue
    /\ slug = DEFAULT_TENANT_SLUG /\ tenantState = "settled"
    /\ userChoseTenant = FALSE /\ asking = FALSE
    /\ form = Quiet /\ clicks = {} /\ oauth = NotLeaving /\ switch = NotSwitching
    /\ user = None /\ probe = NoProbe
    /\ temp = None /\ named = None
    /\ fresh = TRUE /\ half = FALSE

-----------------------------------------------------------------------------
(* Arriving on a page.                                                     *)

(* proxy: sign-in pages send a signed-in person on, the dashboard lets     *)
(* nobody else in.                                                         *)
Routed(p, access) ==
    IF p \in {"login", "register"} /\ access # None THEN "dashboard"
    ELSE IF p = "dashboard" /\ access = None THEN "login"
    ELSE p

resolveDefaultTenantSlug(v) == IF v.form = "slug" THEN v.of ELSE DEFAULT_TENANT_SLUG

(* The page shown for p with the cookies as they then are.                 *)
Land(p, v, access) ==
    LET q == Routed(p, access)
        known == q = p /\ v # NoValue
        lost == q = "login" /\ known /\ v.form = "id"
    IN  /\ page' = q
        /\ link' = IF known THEN v ELSE NoValue
        /\ slug' = IF known /\ q \in {"login", "forgot"} THEN resolveDefaultTenantSlug(v)
                   ELSE DEFAULT_TENANT_SLUG
        /\ tenantState' = IF lost THEN "resolving" ELSE "settled"
        /\ asking' = lost
        /\ userChoseTenant' = FALSE
        /\ named' = IF known THEN v.of ELSE None
        /\ form' = Quiet /\ switch' = NotSwitching
        /\ user' = None
        /\ probe' = IF q = "dashboard" THEN access ELSE NoProbe
        /\ fresh' = TRUE /\ half' = FALSE

(* A page load ends what the one before was doing, its navigations too.    *)
Arrive(p, v, access) ==
    /\ Land(p, v, access)
    /\ clicks' = {} /\ oauth' = NotLeaving

(* router.push, router.replace: the application runs on, and the Google    *)
(* button's handlers with it.                                              *)
Push(p, v, access) ==
    /\ Land(p, v, access)
    /\ UNCHANGED google

(* The mails: what each of them carries besides its token.  The ones the   *)
(* library writes for mailpit-default have no workspace at hand, and their *)
(* reset mail has no link.                                                 *)
resetUrl(t) == [page |-> "reset", carries |-> Id(t)]
confirmUrl(t) == [page |-> "confirm", carries |-> Id(t)]
acceptUrl == [page |-> "accept", carries |-> NoValue]
emailChangeVerification == [page |-> "confirm", carries |-> NoValue]

OpenLink(url) ==
    /\ Arrive(url.page, url.carries, jar.access)
    /\ UNCHANGED <<jar, temp>>

(* Any page by its address, with the parameter or without.                 *)
Visit(p, v) ==
    /\ Arrive(p, v, jar.access)
    /\ UNCHANGED <<jar, temp>>

(* The pages' links to one another name no workspace; the router follows   *)
(* them.  (While a form is under way they count as page loads.)            *)
Links == {<<"login", "register">>, <<"login", "forgot">>, <<"reset", "forgot">>}
         \cup {"register", "forgot", "sent", "verify", "confirm", "accept"} \X {"login"}

Follow(p) ==
    /\ <<page, p>> \in Links /\ form.at = "idle"
    /\ Push(p, NoValue, jar.access)
    /\ UNCHANGED <<jar, temp>>

-----------------------------------------------------------------------------
(* The login page's picker.                                                *)

(* Fault: the lookup's answer is applied whatever happened meanwhile.      *)
LookupOverrides(found) ==
    /\ asking
    /\ asking' = FALSE
    /\ IF found THEN slug' = link.of /\ tenantState' = "settled"
       ELSE slug' = slug /\ tenantState' = "failed"
    /\ UNCHANGED <<jar, page, link, userChoseTenant, named, form, google, temp, shown>>

(* Fault: an unknown workspace is not recorded as a failure.               *)
LookupGivesUp(found) ==
    /\ asking
    /\ asking' = FALSE
    /\ IF found /\ ~userChoseTenant THEN slug' = link.of /\ tenantState' = "settled"
       ELSE UNCHANGED <<slug, tenantState>>
    /\ UNCHANGED <<jar, page, link, userChoseTenant, named, form, google, temp, shown>>

(* resolveTenantSlugById never throws: a failure is an unknown workspace.  *)
LookupAnswers(found) ==
    /\ asking
    /\ asking' = FALSE
    /\ IF userChoseTenant THEN UNCHANGED <<slug, tenantState>>
       ELSE IF found THEN slug' = link.of /\ tenantState' = "settled"
       ELSE slug' = slug /\ tenantState' = "failed"
    /\ UNCHANGED <<jar, page, link, userChoseTenant, named, form, google, temp, shown>>

handleTenantRetry ==
    /\ page = "login" /\ tenantState = "failed"
    /\ userChoseTenant' = FALSE
    /\ tenantState' = "resolving"
    /\ asking' = TRUE
    /\ UNCHANGED <<jar, page, link, slug, named, form, google, temp, shown>>

handleTenantChange(t) ==
    /\ page \in PickerPages
    /\ userChoseTenant' = TRUE
    /\ slug' = t
    /\ tenantState' = "settled"
    /\ named' = t
    /\ UNCHANGED <<jar, page, link, asking, form, google, temp, shown>>

-----------------------------------------------------------------------------
(* The submit handlers.                                                    *)

Running(handler) == IF handler.at = "idle" THEN 0 ELSE 1
Free == Cardinality(clicks) + Running(form) + Running(oauth) + Running(switch) < MaxHandlers

Meant == IF named # None THEN named ELSE slug

(* Sign in, register, forgot password: the picker's workspace first.       *)
SubmitPicked ==
    /\ page \in PickerPages
    /\ form.at = "idle" /\ Free /\ tenantState = "settled"
    /\ form' = [at |-> "resolve", header |-> Slug(slug), meant |-> Meant]
    /\ UNCHANGED <<jar, page, picker, google, temp, shown>>

(* document.cookie: a navigation to Google that has not left yet carries   *)
(* what this writes over the value its own handler stored.                 *)
Store(v) ==
    /\ jar' = [jar EXCEPT !.tenant = v]
    /\ oauth' = [oauth EXCEPT !.over = @ \/ oauth.at = "leaving"]
    /\ UNCHANGED clicks

(* resolveTenantForLogin: the id, or the slug as it stands when the lookup *)
(* could not be made.  The cookie is written and read with no await in     *)
(* between, so no other tab's value can travel instead.                    *)
TenantResolved(v) ==
    /\ form.at = "resolve"
    /\ v \in {Id(form.header.of), Slug(form.header.of)}
    /\ Store(v)
    /\ form' = [form EXCEPT !.at = "wait", !.header = jar'.tenant]
    /\ UNCHANGED <<page, picker, temp, shown>>

(* The mailed links' pages use the parameter as it stands.                 *)
SubmitReset ==
    /\ page = "reset" /\ link # NoValue
    /\ form.at = "idle" /\ Free
    /\ Store(link)
    /\ form' = [at |-> "wait", header |-> jar'.tenant, meant |-> named]
    /\ UNCHANGED <<page, picker, temp, shown>>

(* Without the parameter the request carries what the cookie holds.        *)
handleConfirm ==
    /\ page = "confirm"
    /\ form.at = "idle" /\ Free
    /\ IF link = NoValue THEN UNCHANGED <<jar, google>> ELSE Store(link)
    /\ form' = [at |-> "wait", header |-> jar'.tenant, meant |-> named]
    /\ UNCHANGED <<page, picker, temp, shown>>

(* This page sets the header itself and leaves the cookie alone.           *)
SubmitCode ==
    /\ page = "verify" /\ link # NoValue
    /\ form.at = "idle" /\ Free
    /\ form' = [at |-> "wait", header |-> link, meant |-> named]
    /\ UNCHANGED <<jar, page, picker, google, temp, shown>>

(* An invitation or a second factor names its account by a token.          *)
SubmitToken ==
    /\ page = "accept" \/ (page = "mfa" /\ temp # None)
    /\ form.at = "idle" /\ Free
    /\ form' = [Quiet EXCEPT !.at = "token"]
    /\ UNCHANGED <<jar, page, picker, google, temp, shown>>

(* Whatever is awaited may fail: a toast, and the form is enabled again.   *)
FormFails ==
    /\ form.at # "idle" /\ ~(page = "forgot" /\ form.at = "wait")
    /\ form' = Quiet
    /\ UNCHANGED <<jar, page, picker, google, temp, shown>>

SignedInAs(t) ==
    /\ jar' = [jar EXCEPT !.access = t]
    /\ form' = [form EXCEPT !.at = "session"]

LoginAnswers ==
    /\ page = "login" /\ form.at = "wait" /\ form.header.form = "id"
    /\ form.header.of \notin MfaTenants
    /\ SignedInAs(form.header.of)
    /\ UNCHANGED <<page, picker, google, temp, shown>>

LoginAsksMfa ==
    /\ page = "login" /\ form.at = "wait" /\ form.header.form = "id"
    /\ form.header.of \in MfaTenants
    /\ temp' = form.header.of
    /\ Push("mfa", NoValue, jar.access)
    /\ UNCHANGED jar

MfaAnswers ==
    /\ page = "mfa" /\ form.at = "token"
    /\ SignedInAs(temp)
    /\ temp' = None
    /\ UNCHANGED <<page, picker, google, shown>>

MfaTokenExpired ==
    /\ page = "mfa" /\ (temp = None \/ form.at = "token")
    /\ temp' = None
    /\ Push("login", NoValue, jar.access)
    /\ UNCHANGED jar

AcceptAnswers(t) ==
    /\ page = "accept" /\ form.at = "token"
    /\ SignedInAs(t)
    /\ UNCHANGED <<page, picker, google, temp, shown>>

(* refresh() is back: on to the dashboard, whose provider asks again.      *)
SessionAnswers ==
    /\ form.at = "session"
    /\ Push("dashboard", NoValue, jar.access)
    /\ UNCHANGED <<jar, temp>>

RegisterAnswers ==
    /\ page = "register" /\ form.at = "wait" /\ form.header.form = "id"
    /\ Push("verify", form.header, jar.access)
    /\ UNCHANGED <<jar, temp>>

(* In code mode the form to enter the code is linked with the id the       *)
(* request was made for.                                                   *)
ForgotAnswers ==
    /\ page = "forgot" /\ form.at = "wait" /\ form.header.form = "id"
    /\ Push("reset", form.header, jar.access)
    /\ UNCHANGED <<jar, temp>>

(* Sent or refused, the confirmation looks the same, and the form is gone. *)
ForgotShowsSent ==
    /\ page = "forgot" /\ form.at = "wait"
    /\ Push("sent", NoValue, jar.access)
    /\ UNCHANGED <<jar, temp>>

(* Only the confirmation hands its workspace on.                           *)
ConfirmAnswers ==
    /\ page = "confirm" /\ form.at = "wait" /\ form.header.form = "id"
    /\ Push("login", link, jar.access)
    /\ UNCHANGED <<jar, temp>>

LinkedAnswers ==
    /\ page \in {"reset", "verify"} /\ form.at = "wait"
    /\ Push("login", NoValue, jar.access)
    /\ UNCHANGED <<jar, temp>>

-----------------------------------------------------------------------------
(* Google: the cookie is the only channel, and the browser reads it when   *)
(* it sends the navigation.  Nothing disables the button while its handler *)
(* runs, so lookups overlap (those of one workspace are one here), and the *)
(* page runs on until the browser leaves it.                               *)

OAuthClick ==
    /\ page = "register" \/ (page = "login" /\ tenantState = "settled")
    /\ Free
    /\ clicks' = clicks \cup {[of |-> slug, meant |-> Meant]}
    /\ UNCHANGED <<jar, page, picker, form, oauth, temp, shown>>

(* The cookie, then location.assign, which replaces a navigation under way. *)
OAuthResolved(c, v) ==
    /\ c \in clicks /\ v \in {Id(c.of), Slug(c.of)}
    /\ clicks' = clicks \ {c} \/ (clicks' = clicks /\ Free)
    /\ jar' = [jar EXCEPT !.tenant = v]
    /\ oauth' = [NotLeaving EXCEPT !.at = "leaving", !.meant = c.meant]
    /\ UNCHANGED <<page, picker, form, temp, shown>>

OAuthFails(c) ==
    /\ c \in clicks
    /\ clicks' = clicks \ {c}
    /\ UNCHANGED <<jar, page, picker, form, oauth, temp, shown>>

(* resolveTenantId: a navigation has no header, so the cookie.             *)
OAuthLeaves ==
    /\ oauth.at = "leaving"
    /\ oauth' = [oauth EXCEPT !.at = "asked", !.header = jar.tenant]
    /\ UNCHANGED <<jar, page, picker, form, clicks, temp, shown>>

(* Google's page is there: this one's handlers are gone.                   *)
OAuthGone ==
    /\ oauth.at = "asked"
    /\ Land("away", NoValue, jar.access)
    /\ clicks' = {} /\ oauth' = [oauth EXCEPT !.at = "away"]
    /\ UNCHANGED <<jar, temp>>

OAuthReturns ==
    /\ oauth.at = "away" /\ oauth.header.form = "id"
    /\ IF oauth.header.of \in MfaTenants
       THEN /\ temp' = oauth.header.of
            /\ Arrive("mfa", NoValue, jar.access)
            /\ UNCHANGED jar
       ELSE /\ jar' = [jar EXCEPT !.access = oauth.header.of]
            /\ Arrive("dashboard", NoValue, oauth.header.of)
            /\ UNCHANGED temp

(* errorRedirectUrl.                                                       *)
OAuthRefused ==
    /\ oauth.at = "away"
    /\ Arrive("login", NoValue, jar.access)
    /\ UNCHANGED <<jar, temp>>

-----------------------------------------------------------------------------
(* The dashboard.                                                          *)

ProbeAnswers ==
    /\ probe # NoProbe /\ switch.at # "session"
    /\ user' = probe
    /\ probe' = NoProbe
    /\ UNCHANGED <<jar, page, picker, form, google, temp, fresh, half, switch>>

(* A request found no session and could not refresh one.                   *)
onSessionExpired ==
    /\ page = "dashboard" /\ jar.access = None
    /\ Push("login", NoValue, None)
    /\ UNCHANGED <<jar, temp>>

(* Overlapping probes are the library's to order: not started here.        *)
handleSelect(t) ==
    /\ page = "dashboard" /\ probe = NoProbe
    /\ switch.at = "idle" /\ t # user /\ Free
    /\ switch' = [at |-> "switch", to |-> t]
    /\ UNCHANGED <<jar, page, picker, form, google, temp, user, probe, fresh, half>>

SwitchAnswers ==
    /\ switch.at = "switch"
    /\ jar.access \notin {None, switch.to} /\ switch.to \notin MfaTenants
    /\ jar' = [jar EXCEPT !.access = switch.to]
    /\ switch' = [switch EXCEPT !.at = "list"]
    /\ UNCHANGED <<page, picker, form, google, temp, user, probe, fresh, half>>

(* Fault: the list is enough, the provider is not asked again.             *)
ListOnly ==
    /\ switch.at = "list"
    /\ switch' = NotSwitching
    /\ UNCHANGED <<jar, page, picker, form, google, temp, user, probe, fresh, half>>

ListAnswers ==
    /\ switch.at = "list"
    /\ switch' = [switch EXCEPT !.at = "session"]
    /\ probe' = jar.access
    /\ fresh' = TRUE
    /\ UNCHANGED <<jar, page, picker, form, google, temp, user, half>>

RefreshAnswers ==
    /\ switch.at = "session"
    /\ user' = probe
    /\ probe' = NoProbe
    /\ switch' = NotSwitching
    /\ half' = FALSE
    /\ UNCHANGED <<jar, page, picker, form, google, temp, fresh>>

(* "Could not switch workspace", whichever of the three calls it was.      *)
SwitchFails ==
    /\ switch.at \in {"switch", "list", "session"}
    /\ switch' = NotSwitching
    /\ half' = TRUE
    /\ probe' = NoProbe
    /\ UNCHANGED <<jar, page, picker, form, google, temp, user, fresh>>

SwitchAsksMfa ==
    /\ switch.at = "switch"
    /\ jar.access \notin {None, switch.to} /\ switch.to \in MfaTenants
    /\ switch' = [switch EXCEPT !.at = "logout"]
    /\ UNCHANGED <<jar, page, picker, form, google, temp, user, probe, fresh, half>>

(* Fault: a navigation within the application, on which the switcher stays. *)
SignOutSoftly(refused) ==
    /\ switch.at = "logout"
    /\ jar' = IF refused THEN jar ELSE [jar EXCEPT !.access = None]
    /\ page' = Routed("login", jar'.access)
    /\ UNCHANGED <<picker, form, google, temp, shown>>

(* fetch does not throw on a refusal; then the proxy brings the tab back.  *)
signOutAndGoToLogin(refused) ==
    /\ switch.at = "logout"
    /\ jar' = IF refused THEN jar ELSE [jar EXCEPT !.access = None]
    /\ Arrive("login", Slug(switch.to), jar'.access)
    /\ UNCHANGED temp

(* A fetch that throws here is thrown out of the catch block.              *)
LogoutThrows ==
    /\ switch.at = "logout"
    /\ switch' = [switch EXCEPT !.at = "stuck"]
    /\ UNCHANGED <<jar, page, picker, form, google, temp, user, probe, fresh, half>>

-----------------------------------------------------------------------------
(* The other tabs: a sign-in, switch or sign-out, a workspace stored.      *)
OtherTabSigns(a) ==
    /\ a # jar.access
    /\ jar' = [jar EXCEPT !.access = a]
    /\ fresh' = FALSE
    /\ UNCHANGED <<page, picker, form, google, temp, user, probe, half, switch>>

OtherTabStores(v) ==
    /\ v # jar.tenant
    /\ jar' = [jar EXCEPT !.tenant = v]
    /\ oauth' = IF oauth.at = "leaving" THEN [oauth EXCEPT !.meant = None] ELSE oauth
    /\ UNCHANGED <<page, picker, form, clicks, temp, shown>>

-----------------------------------------------------------------------------
Answers ==
    \/ \E found \in BOOLEAN : LookupAnswers(found)
    \/ \E v \in Values : TenantResolved(v) \/ \E c \in clicks : OAuthResolved(c, v)
    \/ LoginAnswers \/ LoginAsksMfa \/ MfaAnswers \/ MfaTokenExpired
    \/ \E t \in Tenants : AcceptAnswers(t)
    \/ SessionAnswers \/ RegisterAnswers \/ ForgotAnswers \/ ForgotShowsSent
    \/ ConfirmAnswers \/ LinkedAnswers
    \/ FormFails \/ \E c \in clicks : OAuthFails(c)
    \/ OAuthLeaves \/ OAuthGone \/ OAuthReturns \/ OAuthRefused
    \/ ProbeAnswers \/ SwitchAnswers \/ ListAnswers \/ RefreshAnswers \/ SwitchFails
    \/ SwitchAsksMfa \/ LogoutThrows
    \/ \E refused \in BOOLEAN : signOutAndGoToLogin(refused)

Person ==
    \/ \E t \in Tenants : OpenLink(resetUrl(t)) \/ OpenLink(confirmUrl(t))
    \/ OpenLink(acceptUrl) \/ OpenLink(emailChangeVerification)
    \/ \E v \in Values \cup {NoValue} : Visit("login", v)
    \/ \E p \in {"register", "forgot", "dashboard"} : Visit(p, NoValue)
    \/ \E p \in PickerPages : Follow(p)
    \/ handleTenantRetry
    \/ \E t \in Tenants : handleTenantChange(t) \/ handleSelect(t)
    \/ SubmitPicked \/ SubmitReset \/ handleConfirm \/ SubmitCode \/ SubmitToken \/ OAuthClick

OtherTabs ==
    \/ \E a \in Tenants \cup {None} : OtherTabSigns(a)
    \/ \E v \in Values : OtherTabStores(v)

Next == Answers \/ Person \/ OtherTabs \/ onSessionExpired

Spec == Init /\ [][Next]_vars

(* What was asked is answered, one way or the other.                       *)
AnswersCome ==
    /\ WF_vars(\E found \in BOOLEAN : LookupAnswers(found))
    /\ WF_vars(form.at # "idle" /\ Answers /\ form' # form)

FairSpec == Spec /\ AnswersCome

-----------------------------------------------------------------------------
Handlers == [at : {"idle", "resolve", "wait", "token", "session"},
             header : Values \cup {NoValue}, meant : Tenants \cup {None}]
Clicks == [of : Tenants, meant : Tenants]
Departures == [at : {"idle", "leaving", "asked", "away"},
               header : Values \cup {NoValue}, meant : Tenants \cup {None},
               over : BOOLEAN]

(* Each handler holds what its next step reads; a lookup is only for a     *)
(* link that names an id; and only the dashboard shows or switches.        *)
TypeOK ==
    /\ jar \in [access : Tenants \cup {None}, tenant : Values \cup {NoValue}]
    /\ page \in Pages /\ link \in Values \cup {NoValue}
    /\ slug \in Tenants
    /\ tenantState \in {"settled", "resolving", "failed"}
    /\ userChoseTenant \in BOOLEAN /\ asking \in BOOLEAN
    /\ form \in Handlers /\ clicks \subseteq Clicks /\ oauth \in Departures
    /\ switch \in [at : {"idle", "switch", "list", "session", "logout", "stuck"},
                   to : Tenants \cup {None}]
    /\ user \in Tenants \cup {None}
    /\ probe \in Tenants \cup {None, NoProbe}
    /\ temp \in Tenants \cup {None}
    /\ named \in Tenants \cup {None}
    /\ fresh \in BOOLEAN /\ half \in BOOLEAN
    /\ asking => link.form = "id" /\ page = "login"
    /\ form.at = "resolve" => form.header.of \in Tenants
    /\ (form.at = "wait" /\ page # "confirm") => form.header \in Values /\ form.meant \in Tenants
    /\ switch.at # "idle" => page = "dashboard" /\ switch.to \in Tenants
    /\ oauth.at = "away" <=> page = "away"

(* A password, a registration, a code or a reset token is only ever sent   *)
(* for the workspace its link or its sender named, whatever lookup answers *)
(* late and whatever the other tabs store in the same cookie.  A mail that *)
(* names none promises none.  A Google sign-in is for the workspace named  *)
(* at the click whose lookup was answered last, whatever the person has    *)
(* chosen or submitted since, unless the cookie is written again, by       *)
(* another tab or by a form of this page, before the browser reads it.     *)
CredentialsGoWhereNamed ==
    /\ (form.at = "wait" /\ form.meant # None) => form.header.of = form.meant
    /\ (oauth.at \in {"asked", "away"} /\ oauth.meant # None /\ ~oauth.over)
          => oauth.header.of = oauth.meant

(* The dashboard shows the account its requests act as, once it shows one  *)
(* and nothing is under way, unless another tab has changed the session or *)
(* the switcher has reported a failure.                                    *)
ShownAccountIsSession ==
    (page = "dashboard" /\ user # None /\ switch.at = "idle" /\ fresh /\ ~half)
        => user = jar.access

(* A submitted form and an unresolved workspace always come back to the    *)
(* person, with an answer or with a retry.                                 *)
ControlsComeBack ==
    /\ form.at # "idle" ~> form.at = "idle"
    /\ tenantState = "resolving" ~> (tenantState # "resolving" \/ page # "login")

(* tenant-switcher.test.tsx: "the user remains on the current workspace".  *)
FailedSwitchStaysPut ==
    (half /\ fresh /\ switch.at = "idle") => user = jar.access

=============================================================================
