----------------------------- MODULE BrowserProofs -----------------------------
(***************************************************************************)
(* The pages of one tab, for any workspaces, codes and recovery codes: the *)
(* session they act as, the cards of the second factor, and what a failure *)
(* comes to mean.                                                          *)
(***************************************************************************)
EXTENDS WebSession, SecondFactor, ErrorPath, TLAPS

(***************************************************************************)
(* Signing in.  Credentials travel to the workspace that was named, and    *)
(* the account on the screen is the one the requests act as.               *)
(*                                                                         *)
(* The first rests on the picker: once it is enabled it shows the          *)
(* workspace named last, since a late lookup answer is dropped when the    *)
(* person has chosen meanwhile; so every click on the Google button meant  *)
(* what it looks up, whichever of them is answered last, and from there on *)
(* the cookie says it until somebody writes it again.  The second rests on *)
(* the switcher: it lets no other reading of the session run beside its    *)
(* own.                                                                    *)
(***************************************************************************)

LinkNames == named = IF link # NoValue THEN link.of ELSE None

\* The picker and what was named.
PickerInv ==
    /\ (page \in PickerPages /\ tenantState = "settled" /\ named # None) => slug = named
    /\ (page = "login" /\ tenantState # "settled") => LinkNames /\ ~userChoseTenant
    /\ (page = "login" /\ tenantState # "settled") => link.form = "id"
    /\ page # "login" => tenantState = "settled"
    /\ (asking /\ ~userChoseTenant) => tenantState = "resolving"
    /\ page \notin PickerPages => LinkNames

\* What the handlers of the forms hold.
SentInv ==
    /\ form.at = "resolve" => form.header.of = form.meant
    /\ (form.at = "wait" /\ form.meant # None) => form.header.of = form.meant
    /\ page = "away" => form.at = "idle"

\* What the Google button's handlers look up, what the cookie they wrote still
\* says, and what their navigation carried.
GoogleInv ==
    /\ \A c \in clicks : c.of = c.meant
    /\ (oauth.at = "leaving" /\ oauth.meant # None /\ ~oauth.over) => jar.tenant.of = oauth.meant
    /\ (oauth.at \in {"asked", "away"} /\ oauth.meant # None /\ ~oauth.over)
          => oauth.header.of = oauth.meant
    /\ oauth.at = "away" => clicks = {}

\* What the dashboard shows and what it has asked for.
ShownInv ==
    /\ (page = "dashboard" /\ fresh /\ probe # NoProbe) => probe = jar.access
    /\ (page = "dashboard" /\ fresh /\ user # None /\ ~half /\ switch.at \in {"idle", "switch"})
          => user = jar.access
    /\ switch.at \in {"switch", "list", "logout", "stuck"} => probe = NoProbe
    /\ switch.at = "session" => probe \in Tenants \cup {None}

IInv == TypeOK /\ PickerInv /\ SentInv /\ GoogleInv /\ ShownInv

LEMMA ValueFacts ==
  /\ \A v \in Values : v.of \in Tenants /\ v.form \in {"id", "slug"}
  /\ \A v \in Values \cup {NoValue} : v.form = "id" \/ v # NoValue => v \in Values
  /\ NoValue \notin Values /\ NoValue.of = None
  /\ None \notin Tenants /\ NoProbe \notin Tenants \cup {None}
  /\ \A t \in Tenants : /\ Id(t) \in Values /\ Id(t).of = t /\ Id(t).form = "id"
                        /\ Slug(t) \in Values /\ Slug(t).of = t /\ Slug(t).form = "slug"
<1>1. None \notin Tenants /\ NoProbe \notin Tenants \cup {None}
  BY TenantsAssumption DEF None, NoProbe
<1>2. \A v \in Values : v.of \in Tenants /\ v.form \in {"id", "slug"}
  BY DEF Values
<1>3. NoValue.of = None /\ NoValue.form = "none"
  BY DEF NoValue, None
<1>4. \A t \in Tenants : /\ Id(t) \in Values /\ Id(t).of = t /\ Id(t).form = "id"
                         /\ Slug(t) \in Values /\ Slug(t).of = t /\ Slug(t).form = "slug"
  BY DEF Id, Slug, Values
<1> QED BY <1>1, <1>2, <1>3, <1>4

USE DEF Quiet, NotLeaving, NotSwitching

-----------------------------------------------------------------------------
(* The parts of the type invariant.                                        *)

JarType == jar \in [access : Tenants \cup {None}, tenant : Values \cup {NoValue}]
PickerType ==
    /\ page \in Pages /\ link \in Values \cup {NoValue}
    /\ slug \in Tenants
    /\ tenantState \in {"settled", "resolving", "failed"}
    /\ userChoseTenant \in BOOLEAN /\ asking \in BOOLEAN
    /\ named \in Tenants \cup {None}
    /\ asking => link.form = "id" /\ page = "login"
FormType ==
    /\ form \in Handlers
    /\ form.at = "resolve" => form.header.of \in Tenants
    /\ (form.at = "wait" /\ page # "confirm") => form.header \in Values /\ form.meant \in Tenants
GoogleType ==
    /\ clicks \subseteq Clicks /\ oauth \in Departures
    /\ oauth.at = "away" <=> page = "away"
ShownType ==
    /\ switch \in [at : {"idle", "switch", "list", "session", "logout", "stuck"},
                   to : Tenants \cup {None}]
    /\ user \in Tenants \cup {None}
    /\ probe \in Tenants \cup {None, NoProbe}
    /\ fresh \in BOOLEAN /\ half \in BOOLEAN
    /\ switch.at # "idle" => page = "dashboard" /\ switch.to \in Tenants
TempType == temp \in Tenants \cup {None}

LEMMA TypeParts ==
  TypeOK <=> JarType /\ PickerType /\ FormType /\ GoogleType /\ ShownType /\ TempType
  BY DEF TypeOK, JarType, PickerType, FormType, GoogleType, ShownType, TempType

LEMMA TypePartsNext ==
  TypeOK' <=> JarType' /\ PickerType' /\ FormType' /\ GoogleType' /\ ShownType' /\ TempType'
  BY DEF TypeOK, JarType, PickerType, FormType, GoogleType, ShownType, TempType

-----------------------------------------------------------------------------
Landed(p, access) ==
    /\ PickerInv' /\ page' \in Pages /\ page' \in {p, "dashboard", "login"}
    /\ link' \in Values \cup {NoValue} /\ slug' \in Tenants
    /\ tenantState' \in {"settled", "resolving"}
    /\ userChoseTenant' = FALSE /\ asking' \in BOOLEAN
    /\ asking' => link'.form = "id" /\ page' = "login"
    /\ named' \in Tenants \cup {None}
    /\ form' = Quiet /\ switch' = NotSwitching
    /\ user' = None /\ fresh' = TRUE /\ half' = FALSE
    /\ probe' = IF page' = "dashboard" THEN access ELSE NoProbe

\* The pages that are reached with a workspace other than the login page
\* take it from the link.
LEMMA LandFacts ==
  ASSUME NEW p \in Pages, NEW v \in Values \cup {NoValue},
         NEW access \in Tenants \cup {None}, Land(p, v, access),
         p \in PickerPages \ {"login"} => v = NoValue
  PROVE  Landed(p, access)
<1> DEFINE q == Routed(p, access)
           known == q = p /\ v # NoValue
           unknown == q = "login" /\ known /\ v.form = "id"
<1>1. q \in Pages /\ q \in {p, "dashboard", "login"}
  BY DEF Routed, Pages
<1>2. /\ page' = q
      /\ link' = IF known THEN v ELSE NoValue
      /\ slug' = IF known /\ q \in {"login", "forgot"} THEN resolveDefaultTenantSlug(v)
                 ELSE DEFAULT_TENANT_SLUG
      /\ tenantState' = IF unknown THEN "resolving" ELSE "settled"
      /\ asking' = unknown
      /\ userChoseTenant' = FALSE
      /\ named' = IF known THEN v.of ELSE None
      /\ form' = Quiet /\ switch' = NotSwitching
      /\ user' = None
      /\ probe' = IF q = "dashboard" THEN access ELSE NoProbe
      /\ fresh' = TRUE /\ half' = FALSE
  BY DEF Land
<1> HIDE DEF q
<1>3. known => v \in Values /\ v.of \in Tenants
  BY ValueFacts DEF Routed
<1>4. link' \in Values \cup {NoValue} /\ named' \in Tenants \cup {None} /\ slug' \in Tenants
  BY <1>2, <1>3, TenantsAssumption, ValueFacts DEF resolveDefaultTenantSlug
<1>5. asking' => link'.form = "id" /\ page' = "login"
  BY <1>2
<1>6. LinkNames'
  BY <1>2 DEF LinkNames
<1>7. (page' \in PickerPages /\ tenantState' = "settled" /\ named' # None) => slug' = named'
  BY <1>1, <1>2, <1>3, ValueFacts DEF PickerPages, resolveDefaultTenantSlug
<1>8. PickerInv'
  BY <1>1, <1>2, <1>5, <1>6, <1>7 DEF PickerInv
<1> QED BY <1>1, <1>2, <1>4, <1>5, <1>8 DEF Landed

\* Wherever the tab goes, whatever is stored on the way.
LEMMA LandStep ==
  ASSUME NEW p \in Pages, NEW v \in Values \cup {NoValue},
         p \in PickerPages \ {"login"} => v = NoValue,
         jar' \in [access : Tenants \cup {None}, tenant : Values \cup {NoValue}],
         temp' \in Tenants \cup {None}, GoogleType', GoogleInv',
         NEW access \in Tenants \cup {None}, Land(p, v, access), access = jar'.access
  PROVE  IInv'
<1>1. Landed(p, access)
  BY LandFacts
<1>2. JarType' /\ PickerType' /\ FormType' /\ ShownType' /\ TempType'
  BY <1>1 DEF Landed, JarType, PickerType, FormType, ShownType, TempType, Handlers
<1>3. SentInv' /\ ShownInv'
  BY <1>1 DEF Landed, SentInv, ShownInv
<1> QED BY <1>1, <1>2, <1>3, TypePartsNext DEF Landed, IInv

LEMMA ArriveStep ==
  ASSUME NEW p \in Pages \ {"away"}, NEW v \in Values \cup {NoValue},
         p \in PickerPages \ {"login"} => v = NoValue,
         jar' \in [access : Tenants \cup {None}, tenant : Values \cup {NoValue}],
         temp' \in Tenants \cup {None},
         NEW access \in Tenants \cup {None}, Arrive(p, v, access), access = jar'.access
  PROVE  IInv'
<1>1. Land(p, v, access) /\ clicks' = {} /\ oauth' = NotLeaving
  BY DEF Arrive
<1>2. page' # "away"
  BY <1>1, LandFacts DEF Landed
<1>3. GoogleType' /\ GoogleInv'
  BY <1>1, <1>2 DEF GoogleType, GoogleInv, Departures
<1> QED BY <1>1, <1>3, LandStep

\* Within the application the Google button's handlers go on.
LEMMA PushStep ==
  ASSUME IInv, page # "away", UNCHANGED jar,
         NEW p \in Pages \ {"away"}, NEW v \in Values \cup {NoValue},
         p \in PickerPages \ {"login"} => v = NoValue,
         temp' \in Tenants \cup {None}, Push(p, v, jar.access)
  PROVE  IInv'
<1>1. Land(p, v, jar.access) /\ clicks' = clicks /\ oauth' = oauth
  BY DEF Push, google
<1>2. /\ jar \in [access : Tenants \cup {None}, tenant : Values \cup {NoValue}]
      /\ GoogleType /\ GoogleInv
  BY TypeParts DEF IInv, JarType
<1>3. jar.access \in Tenants \cup {None}
  BY <1>2
<1>4. page' # "away"
  BY <1>1, <1>3, LandFacts DEF Landed
<1>5. GoogleType'
  BY <1>1, <1>2, <1>4 DEF GoogleType
<1>6. GoogleInv'
  BY <1>1, <1>2 DEF GoogleInv
<1> QED BY <1>1, <1>2, <1>3, <1>5, <1>6, LandStep

LEMMA ArrivingActions ==
  ASSUME IInv,
         \/ \E t \in Tenants : OpenLink(resetUrl(t)) \/ OpenLink(confirmUrl(t))
         \/ OpenLink(acceptUrl) \/ OpenLink(emailChangeVerification)
         \/ \E v \in Values \cup {NoValue} : Visit("login", v)
         \/ \E p \in {"register", "forgot", "dashboard"} : Visit(p, NoValue)
         \/ \E p \in PickerPages : Follow(p)
         \/ LoginAsksMfa \/ MfaTokenExpired \/ SessionAnswers \/ RegisterAnswers
         \/ ForgotAnswers \/ ForgotShowsSent \/ ConfirmAnswers \/ LinkedAnswers
         \/ OAuthReturns \/ OAuthRefused \/ onSessionExpired
         \/ \E refused \in BOOLEAN : signOutAndGoToLogin(refused)
  PROVE  IInv'
<1>1. /\ jar \in [access : Tenants \cup {None}, tenant : Values \cup {NoValue}]
      /\ temp \in Tenants \cup {None} /\ link \in Values \cup {NoValue}
      /\ form \in Handlers /\ oauth \in Departures /\ jar.access \in Tenants \cup {None}
      /\ page = "away" => form.at = "idle"
      /\ switch.at # "idle" => switch.to \in Tenants
  BY TypeParts DEF IInv, JarType, PickerType, FormType, GoogleType, ShownType, TempType, SentInv
<1>2. ASSUME NEW url \in [page : {"reset", "confirm", "accept"}, carries : Values \cup {NoValue}],
             OpenLink(url)
      PROVE  IInv'
  BY <1>1, ValueFacts, <1>2, ArriveStep DEF OpenLink, Pages, PickerPages
<1>3. CASE \E t \in Tenants : OpenLink(resetUrl(t)) \/ OpenLink(confirmUrl(t))
  <2>1. PICK t \in Tenants : OpenLink(resetUrl(t)) \/ OpenLink(confirmUrl(t))
    BY <1>3
  <2>2. {resetUrl(t), confirmUrl(t)} \subseteq
            [page : {"reset", "confirm", "accept"}, carries : Values \cup {NoValue}]
    BY ValueFacts DEF resetUrl, confirmUrl
  <2> QED BY <1>2, <2>1, <2>2
<1>16. CASE OpenLink(acceptUrl) \/ OpenLink(emailChangeVerification)
  <2>1. {acceptUrl, emailChangeVerification} \subseteq
            [page : {"reset", "confirm", "accept"}, carries : Values \cup {NoValue}]
    BY DEF acceptUrl, emailChangeVerification
  <2> QED BY <1>2, <1>16, <2>1
<1>4. ASSUME NEW v \in Values \cup {NoValue}, Visit("login", v) PROVE IInv'
  BY <1>1, ValueFacts, <1>4, ArriveStep DEF Visit, Pages
<1>5. ASSUME NEW p \in {"register", "forgot", "dashboard"}, Visit(p, NoValue) PROVE IInv'
  BY <1>1, ValueFacts, <1>5, ArriveStep DEF Visit, Pages
<1>18. ASSUME NEW p \in PickerPages, Follow(p) PROVE IInv'
  <2>1. page # "away" /\ Push(p, NoValue, jar.access) /\ UNCHANGED <<jar, temp>>
    BY <1>18 DEF Follow, Links
  <2> QED BY <1>1, <2>1, PushStep DEF Pages, PickerPages
<1>6. CASE LoginAsksMfa
  BY <1>1, ValueFacts, <1>6, PushStep DEF LoginAsksMfa, Pages, PickerPages, Handlers
<1>7. CASE MfaTokenExpired
  BY <1>1, ValueFacts, <1>7, PushStep DEF MfaTokenExpired, Pages
<1>8. CASE SessionAnswers
  BY <1>1, ValueFacts, <1>8, PushStep DEF SessionAnswers, Pages
<1>9. CASE RegisterAnswers
  BY <1>1, ValueFacts, <1>9, PushStep DEF RegisterAnswers, Pages, PickerPages, Handlers
<1>10. CASE ForgotAnswers
  BY <1>1, ValueFacts, <1>10, PushStep DEF ForgotAnswers, Pages, PickerPages, Handlers
<1>11. CASE ForgotShowsSent
  BY <1>1, ValueFacts, <1>11, PushStep DEF ForgotShowsSent, Pages, PickerPages
<1>12. CASE ConfirmAnswers \/ LinkedAnswers
  BY <1>1, ValueFacts, <1>12, PushStep DEF ConfirmAnswers, LinkedAnswers, Pages
<1>13. CASE OAuthReturns
  <2>0. oauth.header.form = "id"
    BY <1>13 DEF OAuthReturns
  <2>1. oauth.header.of \in Tenants
    BY <1>1, <2>0, ValueFacts DEF Departures
  <2>2. CASE oauth.header.of \in MfaTenants
    <3>1. Arrive("mfa", NoValue, jar.access) /\ temp' = oauth.header.of /\ UNCHANGED jar
      BY <1>13, <2>2 DEF OAuthReturns
    <3> QED BY <1>1, <2>1, <3>1, ArriveStep DEF Pages, PickerPages
  <2>3. CASE oauth.header.of \notin MfaTenants
    <3>1. /\ Arrive("dashboard", NoValue, oauth.header.of) /\ UNCHANGED temp
          /\ jar' = [jar EXCEPT !.access = oauth.header.of]
      BY <1>13, <2>3 DEF OAuthReturns
    <3>2. jar'.access = oauth.header.of
          /\ jar' \in [access : Tenants \cup {None}, tenant : Values \cup {NoValue}]
      BY <1>1, <2>1, <3>1
    <3> QED BY <1>1, <2>1, <3>1, <3>2, ArriveStep DEF Pages, PickerPages
  <2> QED BY <2>2, <2>3
<1>14. CASE OAuthRefused
  BY <1>1, ValueFacts, <1>14, ArriveStep DEF OAuthRefused, Pages
<1>17. CASE onSessionExpired
  BY <1>1, ValueFacts, <1>17, PushStep DEF onSessionExpired, Pages
<1>15. ASSUME NEW refused \in BOOLEAN, signOutAndGoToLogin(refused) PROVE IInv'
  BY <1>1, ValueFacts, <1>15, ArriveStep DEF signOutAndGoToLogin, Pages
<1> QED
  BY <1>3, <1>4, <1>5, <1>6, <1>7, <1>8, <1>9, <1>10, <1>11, <1>12, <1>13, <1>14, <1>15,
      <1>16, <1>17, <1>18

-----------------------------------------------------------------------------
LEMMA PickerActions ==
  ASSUME IInv,
         \/ \E found \in BOOLEAN : LookupAnswers(found)
         \/ handleTenantRetry \/ \E t \in Tenants : handleTenantChange(t)
  PROVE  IInv'
<1> USE DEF IInv, PickerPages
<1>1. UNCHANGED <<jar, page, link, form, clicks, oauth, temp, shown>>
  BY DEF LookupAnswers, handleTenantRetry, handleTenantChange, google
<1>2. SentInv' /\ GoogleInv' /\ ShownInv'
  BY <1>1 DEF SentInv, GoogleInv, ShownInv, shown
<1>3. PickerType /\ JarType' /\ FormType' /\ GoogleType' /\ ShownType' /\ TempType'
  <2>1. PickerType /\ JarType /\ FormType /\ GoogleType /\ ShownType /\ TempType
    BY TypeParts
  <2>2. JarType' /\ FormType' /\ GoogleType' /\ TempType'
    BY <1>1, <2>1 DEF JarType, FormType, GoogleType, TempType
  <2>3. ShownType'
    BY <1>1, <2>1 DEF ShownType, shown
  <2> QED BY <2>1, <2>2, <2>3
<1>4. ASSUME NEW found \in BOOLEAN, LookupAnswers(found)
      PROVE  PickerType' /\ PickerInv'
  <2>1. page = "login" /\ link.form = "id" /\ link \in Values /\ link.of \in Tenants
    BY <1>3, <1>4, ValueFacts DEF LookupAnswers, PickerType
  <2>2. ~userChoseTenant => named = link.of /\ tenantState = "resolving"
    BY <1>4, <2>1, ValueFacts DEF LookupAnswers, PickerInv, LinkNames
  <2>3. /\ UNCHANGED <<page, link, named, userChoseTenant>> /\ ~asking' /\ asking' \in BOOLEAN
        /\ userChoseTenant => UNCHANGED <<slug, tenantState>>
        /\ ~userChoseTenant => \/ slug' = link.of /\ tenantState' = "settled"
                               \/ slug' = slug /\ tenantState' = "failed"
    BY <1>4 DEF LookupAnswers
  <2>4. PickerType'
    BY <1>3, <2>1, <2>3 DEF PickerType
  <2>5. PickerInv'
    BY <2>1, <2>2, <2>3 DEF PickerInv, LinkNames
  <2> QED BY <2>4, <2>5
<1>5. ASSUME handleTenantRetry
      PROVE  PickerType' /\ PickerInv'
  <2>1. PickerType'
    BY <1>3, <1>5 DEF handleTenantRetry, PickerType, PickerInv
  <2>2. PickerInv'
    BY <1>5 DEF handleTenantRetry, PickerInv, LinkNames
  <2> QED BY <2>1, <2>2
<1>6. ASSUME NEW t \in Tenants, handleTenantChange(t)
      PROVE  PickerType' /\ PickerInv'
  <2>1. PickerType'
    BY <1>3, <1>6 DEF handleTenantChange, PickerType
  <2>2. PickerInv'
    BY <1>6 DEF handleTenantChange, PickerInv, LinkNames
  <2> QED BY <2>1, <2>2
<1> QED BY <1>2, <1>3, <1>4, <1>5, <1>6, TypePartsNext

\* What a step that is not the Google button's may do to its navigation: write
\* the cookie before it is sent.
GoogleStep ==
    /\ clicks' = clicks /\ oauth' \in Departures
    /\ oauth'.at = oauth.at /\ oauth'.header = oauth.header
    /\ oauth'.meant \in {oauth.meant, None}
    /\ oauth.over => oauth'.over
    /\ oauth.at = "leaving" => jar'.tenant = jar.tenant \/ oauth'.over \/ oauth'.meant = None

LEMMA GoogleFrame ==
  ASSUME GoogleType, GoogleInv, GoogleStep, page' = page
  PROVE  GoogleType' /\ GoogleInv'
<1>1. GoogleType'
  BY DEF GoogleType, GoogleStep
<1>2. GoogleInv'
  BY DEF GoogleInv, GoogleStep
<1> QED BY <1>1, <1>2

LEMMA GoogleStutters ==
  ASSUME GoogleType, UNCHANGED google, jar'.tenant = jar.tenant
  PROVE  GoogleStep
BY DEF GoogleType, GoogleStep, google

LEMMA Stored ==
  ASSUME JarType, GoogleType, NEW v \in Values \cup {NoValue}, Store(v)
  PROVE  /\ GoogleStep
         /\ jar' \in [access : Tenants \cup {None}, tenant : Values \cup {NoValue}]
         /\ jar'.access = jar.access /\ jar'.tenant = v
<1>1. /\ clicks' = clicks /\ jar' = [jar EXCEPT !.tenant = v]
      /\ oauth' = [oauth EXCEPT !.over = oauth.over \/ oauth.at = "leaving"]
  BY DEF Store
<1>2. GoogleStep
  <2>1. /\ oauth' \in Departures
        /\ oauth'.at = oauth.at /\ oauth'.header = oauth.header /\ oauth'.meant = oauth.meant
        /\ oauth'.over = (oauth.over \/ oauth.at = "leaving")
    BY <1>1 DEF GoogleType, Departures
  <2> QED BY <1>1, <2>1 DEF GoogleStep
<1> QED BY <1>1, <1>2 DEF JarType

\* What every step of a form's handler has in common.
FormStep ==
    /\ UNCHANGED <<page, picker, temp, shown>>
    /\ GoogleStep
    /\ page # "away"
    /\ jar' \in [access : Tenants \cup {None}, tenant : Values \cup {NoValue}]
    /\ jar'.access = jar.access
    /\ form' \in Handlers
    /\ form'.at = "resolve" => form'.header.of = form'.meant /\ form'.header.of \in Tenants
    /\ (form'.at = "wait" /\ page # "confirm") => form'.header \in Values /\ form'.meant \in Tenants
    /\ (form'.at = "wait" /\ form'.meant # None) => form'.header.of = form'.meant

LEMMA FormFrame == ASSUME IInv, FormStep PROVE IInv'
<1> USE DEF IInv
<1>1. GoogleType' /\ GoogleInv'
  BY TypeParts, GoogleFrame DEF FormStep
<1>2. TypeOK'
  <2>1. JarType' /\ FormType'
    BY DEF FormStep, JarType, FormType
  <2>2. PickerType' /\ TempType'
    BY TypeParts DEF FormStep, picker, PickerType, TempType
  <2>3. ShownType'
    BY TypeParts DEF FormStep, shown, ShownType
  <2> QED BY <1>1, <2>1, <2>2, <2>3, TypePartsNext
<1>3. PickerInv' /\ ShownInv'
  BY DEF PickerInv, ShownInv, LinkNames, FormStep, picker, shown
<1>4. SentInv'
  BY DEF SentInv, FormStep
<1> QED BY <1>1, <1>2, <1>3, <1>4

LEMMA FormActions ==
  ASSUME IInv,
         \/ SubmitPicked \/ SubmitReset \/ handleConfirm \/ SubmitCode \/ SubmitToken
         \/ \E v \in Values : TenantResolved(v)
         \/ FormFails
  PROVE  IInv'
<1>1. /\ jar \in [access : Tenants \cup {None}, tenant : Values \cup {NoValue}]
      /\ JarType /\ GoogleType
      /\ form \in Handlers /\ link \in Values \cup {NoValue} /\ slug \in Tenants
      /\ named \in Tenants \cup {None}
      /\ page = "away" => form.at = "idle"
      /\ page \in {"reset", "verify", "confirm"} => LinkNames
      /\ (page \in PickerPages /\ tenantState = "settled" /\ named # None) => slug = named
      /\ form.at = "resolve" => form.header.of = form.meant /\ form.header.of \in Tenants
  BY TypeParts DEF IInv, JarType, FormType, PickerType, SentInv, PickerInv, PickerPages
<1>2. CASE SubmitPicked
  BY <1>1, ValueFacts, <1>2, GoogleStutters, FormFrame
     DEF SubmitPicked, FormStep, Handlers, Meant, PickerPages
<1>3. CASE SubmitReset
  BY <1>1, ValueFacts, <1>3, Stored, FormFrame DEF SubmitReset, FormStep, Handlers, LinkNames
<1>4. CASE handleConfirm
  <2>1. CASE link = NoValue
    BY <1>1, ValueFacts, <1>4, <2>1, GoogleStutters, FormFrame
       DEF handleConfirm, FormStep, Handlers, LinkNames
  <2>2. CASE link # NoValue
    BY <1>1, ValueFacts, <1>4, <2>2, Stored, FormFrame
       DEF handleConfirm, FormStep, Handlers, LinkNames
  <2> QED BY <2>1, <2>2
<1>5. CASE SubmitCode
  BY <1>1, ValueFacts, <1>5, GoogleStutters, FormFrame DEF SubmitCode, FormStep, Handlers, LinkNames
<1>6. CASE SubmitToken
  BY <1>1, ValueFacts, <1>6, GoogleStutters, FormFrame DEF SubmitToken, FormStep, Handlers
<1>7. ASSUME NEW v \in Values, TenantResolved(v) PROVE IInv'
  <2>1. /\ UNCHANGED <<page, picker, temp, shown>> /\ page # "away"
        /\ form.at = "resolve" /\ v.of = form.header.of
        /\ Store(v) /\ form' = [form EXCEPT !.at = "wait", !.header = jar'.tenant]
    BY <1>1, ValueFacts, <1>7 DEF TenantResolved
  <2>2. /\ GoogleStep /\ jar'.access = jar.access /\ jar'.tenant = v
        /\ jar' \in [access : Tenants \cup {None}, tenant : Values \cup {NoValue}]
    BY <1>1, <2>1, Stored
  <2>3. FormStep
    BY <1>1, <2>1, <2>2, ValueFacts DEF FormStep, Handlers
  <2> QED BY <2>3, FormFrame
<1>8. CASE FormFails
  BY <1>1, ValueFacts, <1>8, GoogleStutters, FormFrame DEF FormFails, FormStep, Handlers
<1> QED BY <1>2, <1>3, <1>4, <1>5, <1>6, <1>7, <1>8

\* A session begins: the form waits for the provider to have asked who it is.
LEMMA SignedInActions ==
  ASSUME IInv,
         LoginAnswers \/ MfaAnswers \/ \E t \in Tenants : AcceptAnswers(t)
  PROVE  IInv'
<1>1. /\ JarType /\ PickerType /\ FormType /\ GoogleType /\ ShownType /\ TempType
      /\ PickerInv /\ SentInv /\ GoogleInv /\ ShownInv
  BY TypeParts DEF IInv
<1>2. \E t \in Tenants \cup {None} : SignedInAs(t)
  BY <1>1, ValueFacts DEF LoginAnswers, MfaAnswers, AcceptAnswers, FormType, Handlers, TempType
<1>3. /\ UNCHANGED <<page, picker, google, shown>> /\ temp' \in {temp, None}
      /\ page \in {"login", "mfa", "accept"}
  BY DEF LoginAnswers, MfaAnswers, AcceptAnswers
<1>4. /\ JarType' /\ jar'.tenant = jar.tenant
      /\ form'.at = "session" /\ form' \in Handlers
  BY <1>1, <1>2 DEF SignedInAs, JarType, FormType, Handlers
<1>5. PickerType' /\ TempType' /\ GoogleType' /\ GoogleInv'
  <2>1. PickerType' /\ TempType'
    BY <1>1, <1>3 DEF PickerType, TempType, picker
  <2> QED BY <1>1, <1>3, <1>4, <2>1, GoogleStutters, GoogleFrame
<1>6. FormType' /\ ShownType'
  BY <1>1, <1>3, <1>4 DEF FormType, ShownType, shown
<1>7. PickerInv' /\ SentInv' /\ ShownInv'
  BY <1>1, <1>3, <1>4 DEF PickerInv, LinkNames, SentInv, ShownInv, picker, shown
<1> QED BY <1>4, <1>5, <1>6, <1>7, TypePartsNext DEF IInv

\* The Google button's handlers change only the cookie and where they are.
GoogleOnly ==
    /\ UNCHANGED <<page, picker, form, temp, shown>>
    /\ jar' \in [access : Tenants \cup {None}, tenant : Values \cup {NoValue}]
    /\ jar'.access = jar.access
    /\ GoogleType' /\ GoogleInv'

LEMMA GoogleOnlyFrame == ASSUME IInv, GoogleOnly PROVE IInv'
<1> USE DEF IInv
<1>1. JarType' /\ FormType' /\ PickerType' /\ TempType' /\ ShownType'
  <2>1. JarType' /\ FormType' /\ TempType'
    BY TypeParts DEF GoogleOnly, JarType, FormType, TempType
  <2>2. PickerType' /\ ShownType'
    BY TypeParts DEF GoogleOnly, PickerType, ShownType, picker, shown
  <2> QED BY <2>1, <2>2
<1>2. PickerInv' /\ SentInv' /\ ShownInv'
  <2>1. PickerInv' /\ SentInv'
    BY DEF GoogleOnly, PickerInv, LinkNames, SentInv, picker
  <2>2. ShownInv'
    BY DEF GoogleOnly, ShownInv, shown
  <2> QED BY <2>1, <2>2
<1> QED BY <1>1, <1>2, TypePartsNext DEF GoogleOnly

LEMMA OAuthActions ==
  ASSUME IInv,
         \/ OAuthClick \/ OAuthLeaves \/ OAuthGone
         \/ \E c \in clicks : OAuthFails(c) \/ \E v \in Values : OAuthResolved(c, v)
  PROVE  IInv'
<1>1. /\ JarType /\ PickerType /\ GoogleType /\ TempType /\ PickerInv /\ GoogleInv
      /\ jar \in [access : Tenants \cup {None}, tenant : Values \cup {NoValue}]
      /\ jar.access \in Tenants \cup {None}
  BY TypeParts DEF IInv, JarType
<1>2. CASE OAuthClick
  <2>1. page # "away" /\ Meant = slug /\ slug \in Tenants
    BY <1>1, <1>2 DEF OAuthClick, PickerPages, PickerInv, PickerType, Meant
  <2>2. /\ UNCHANGED <<jar, page, picker, form, oauth, temp, shown>>
        /\ clicks' = clicks \cup {[of |-> slug, meant |-> slug]}
    BY <1>2, <2>1 DEF OAuthClick
  <2>3. GoogleType' /\ GoogleInv'
    BY <1>1, <2>1, <2>2 DEF GoogleType, GoogleInv, Clicks
  <2> QED BY <1>1, <2>2, <2>3, GoogleOnlyFrame DEF GoogleOnly
<1>3. ASSUME NEW c \in clicks, OAuthFails(c) PROVE IInv'
  <2>1. UNCHANGED <<jar, page, picker, form, oauth, temp, shown>> /\ clicks' = clicks \ {c}
    BY <1>3 DEF OAuthFails
  <2>2. GoogleType' /\ GoogleInv'
    BY <1>1, <2>1 DEF GoogleType, GoogleInv
  <2> QED BY <1>1, <2>1, <2>2, GoogleOnlyFrame DEF GoogleOnly
<1>4. ASSUME NEW c \in clicks, NEW v \in Values, OAuthResolved(c, v) PROVE IInv'
  <2>1. c.of = c.meant /\ c.of \in Tenants
    BY <1>1 DEF GoogleType, GoogleInv, Clicks
  <2>2. /\ UNCHANGED <<page, picker, form, temp, shown>> /\ clicks' \subseteq clicks
        /\ v.of = c.meant /\ jar' = [jar EXCEPT !.tenant = v]
        /\ oauth' = [NotLeaving EXCEPT !.at = "leaving", !.meant = c.meant]
    <3>1. v \in {Id(c.of), Slug(c.of)}
      BY <1>4 DEF OAuthResolved
    <3>2. v.of = c.meant
      BY <2>1, <3>1, ValueFacts
    <3> QED BY <1>4, <3>2 DEF OAuthResolved
  <2>3. /\ oauth' \in Departures /\ oauth'.at = "leaving" /\ oauth'.meant = c.meant
        /\ jar' \in [access : Tenants \cup {None}, tenant : Values \cup {NoValue}]
        /\ jar'.access = jar.access /\ jar'.tenant = v
    BY <1>1, <2>1, <2>2 DEF Departures
  <2>4. page # "away"
    BY <1>1 DEF GoogleType, GoogleInv
  <2>5. GoogleType' /\ GoogleInv'
    BY <1>1, <2>2, <2>3, <2>4 DEF GoogleType, GoogleInv
  <2> QED BY <2>2, <2>3, <2>5, GoogleOnlyFrame DEF GoogleOnly
<1>5. CASE OAuthLeaves
  <2>1. /\ UNCHANGED <<jar, page, picker, form, clicks, temp, shown>> /\ oauth.at = "leaving"
        /\ oauth' = [oauth EXCEPT !.at = "asked", !.header = jar.tenant]
    BY <1>5 DEF OAuthLeaves
  <2>2. /\ oauth' \in Departures /\ oauth'.at = "asked" /\ oauth'.header = jar.tenant
        /\ oauth'.meant = oauth.meant /\ oauth'.over = oauth.over
    BY <1>1, <2>1 DEF GoogleType, Departures
  <2>3. GoogleType' /\ GoogleInv'
    BY <1>1, <2>1, <2>2 DEF GoogleType, GoogleInv
  <2> QED BY <1>1, <2>1, <2>3, GoogleOnlyFrame DEF GoogleOnly
<1>6. CASE OAuthGone
  <2>1. /\ Land("away", NoValue, jar.access) /\ clicks' = {} /\ UNCHANGED <<jar, temp>>
        /\ oauth' = [oauth EXCEPT !.at = "away"] /\ oauth.at = "asked"
    BY <1>6 DEF OAuthGone
  <2>2. page' = "away"
    BY <2>1 DEF Land, Routed
  <2>3. /\ oauth' \in Departures /\ oauth'.at = "away" /\ oauth'.header = oauth.header
        /\ oauth'.meant = oauth.meant /\ oauth'.over = oauth.over
    BY <1>1, <2>1 DEF GoogleType, Departures
  <2>4. GoogleType' /\ GoogleInv'
    BY <1>1, <2>1, <2>2, <2>3 DEF GoogleType, GoogleInv
  <2>5. "away" \in Pages \ PickerPages
    BY DEF Pages, PickerPages
  <2> QED BY <1>1, <2>1, <2>4, <2>5, LandStep DEF TempType
<1> QED BY <1>2, <1>3, <1>4, <1>5, <1>6

-----------------------------------------------------------------------------
(* The dashboard and the other tabs.                                       *)

SwitcherActions ==
    \/ ProbeAnswers \/ SwitchAnswers \/ ListAnswers \/ RefreshAnswers \/ SwitchFails
    \/ SwitchAsksMfa \/ LogoutThrows \/ \E t \in Tenants : handleSelect(t)

LEMMA DashboardSteps ==
  ASSUME IInv, SwitcherActions
  PROVE  IInv'
<1>1. /\ JarType /\ PickerType /\ FormType /\ GoogleType /\ ShownType /\ TempType
      /\ PickerInv /\ SentInv /\ GoogleInv /\ ShownInv
  BY TypeParts DEF IInv
<1>2. /\ UNCHANGED <<page, picker, form, google, temp>>
      /\ jar'.tenant = jar.tenant
  BY <1>1 DEF SwitcherActions, ProbeAnswers, SwitchAnswers, ListAnswers, RefreshAnswers,
     SwitchFails, SwitchAsksMfa, LogoutThrows, handleSelect, JarType
<1>3. PickerType' /\ FormType' /\ TempType'
  BY <1>1, <1>2 DEF PickerType, FormType, TempType, picker
<1>7. GoogleType' /\ GoogleInv'
  BY <1>1, <1>2, GoogleStutters, GoogleFrame
<1>4. PickerInv' /\ SentInv'
  BY <1>1, <1>2 DEF PickerInv, LinkNames, SentInv, picker
<1>5. JarType'
  BY <1>1, ValueFacts DEF SwitcherActions, ProbeAnswers, SwitchAnswers, ListAnswers,
     RefreshAnswers, SwitchFails, SwitchAsksMfa, LogoutThrows, handleSelect, JarType, ShownType
<1>6. ShownType' /\ ShownInv'
  <2> USE <1>1 DEF ShownType, ShownInv
  <2>1. CASE ProbeAnswers
    BY <1>2, <2>1 DEF ProbeAnswers
  <2>2. CASE SwitchAnswers
    BY <1>2, <2>2 DEF SwitchAnswers
  <2>3. CASE ListAnswers
    BY <1>2, <2>3 DEF ListAnswers, JarType
  <2>4. CASE RefreshAnswers
    <3>1. /\ user' = probe /\ probe' = NoProbe /\ switch' = NotSwitching
          /\ probe \in Tenants \cup {None} /\ half' = FALSE /\ UNCHANGED <<jar, fresh>>
      BY <2>4 DEF RefreshAnswers
    <3>2. (page = "dashboard" /\ fresh) => probe = jar.access
      BY <3>1, ValueFacts
    <3>4. ShownType'
      BY <1>2, <3>1
    <3>5. ShownInv'
      BY <1>2, <3>1, <3>2
    <3> QED BY <3>4, <3>5
  <2>5. CASE SwitchFails
    BY <1>2, <2>5 DEF SwitchFails
  <2>6. CASE SwitchAsksMfa
    BY <1>2, <2>6 DEF SwitchAsksMfa
  <2>7. CASE LogoutThrows
    BY <1>2, <2>7 DEF LogoutThrows
  <2>8. ASSUME NEW t \in Tenants, handleSelect(t) PROVE ShownType' /\ ShownInv'
    BY <1>2, <2>8 DEF handleSelect
  <2> QED BY <2>1, <2>2, <2>3, <2>4, <2>5, <2>6, <2>7, <2>8 DEF SwitcherActions
<1> QED BY <1>3, <1>4, <1>5, <1>6, <1>7, TypePartsNext DEF IInv

LEMMA OtherTabsSteps ==
  ASSUME IInv, OtherTabs
  PROVE  IInv'
<1>1. /\ JarType /\ PickerType /\ FormType /\ GoogleType /\ ShownType /\ TempType
      /\ PickerInv /\ SentInv /\ GoogleInv /\ ShownInv
  BY TypeParts DEF IInv
<1>2. ASSUME NEW a \in Tenants \cup {None}, OtherTabSigns(a) PROVE IInv'
  <2>1. /\ UNCHANGED <<page, picker, form, google, temp, user, probe, half, switch>>
        /\ fresh' = FALSE /\ JarType' /\ jar'.tenant = jar.tenant
    BY <1>1, <1>2 DEF OtherTabSigns, JarType
  <2>2. PickerType' /\ FormType' /\ TempType'
    BY <1>1, <2>1 DEF PickerType, FormType, TempType, picker
  <2>4. GoogleType' /\ GoogleInv'
    BY <1>1, <2>1, GoogleStutters, GoogleFrame
  <2>3. ShownType' /\ PickerInv' /\ SentInv' /\ ShownInv'
    <3>1. ShownType' /\ ShownInv'
      BY <1>1, <2>1 DEF ShownType, ShownInv
    <3>2. PickerInv'
      BY <1>1, <2>1 DEF PickerInv, LinkNames, picker
    <3>3. SentInv'
      BY <1>1, <2>1 DEF SentInv, picker
    <3> QED BY <3>1, <3>2, <3>3
  <2> QED BY <2>1, <2>2, <2>3, <2>4, TypePartsNext DEF IInv
<1>3. ASSUME NEW v \in Values, OtherTabStores(v) PROVE IInv'
  <2>1. /\ UNCHANGED <<page, picker, form, clicks, temp, shown>>
        /\ jar' \in [access : Tenants \cup {None}, tenant : Values \cup {NoValue}]
        /\ jar'.access = jar.access
        /\ oauth' = IF oauth.at = "leaving" THEN [oauth EXCEPT !.meant = None] ELSE oauth
    BY <1>1, <1>3 DEF OtherTabStores, JarType
  <2>2. GoogleStep
    <3>1. /\ oauth' \in Departures /\ oauth'.at = oauth.at /\ oauth'.header = oauth.header
          /\ oauth'.over = oauth.over
          /\ oauth'.meant = IF oauth.at = "leaving" THEN None ELSE oauth.meant
      BY <1>1, <2>1 DEF GoogleType, Departures
    <3> QED BY <2>1, <3>1 DEF GoogleStep
  <2>3. GoogleType' /\ GoogleInv'
    BY <1>1, <2>1, <2>2, GoogleFrame
  <2> QED BY <2>1, <2>3, GoogleOnlyFrame DEF GoogleOnly
<1> QED BY <1>2, <1>3 DEF OtherTabs

-----------------------------------------------------------------------------
LEMMA InitInv == Init => IInv
<1> SUFFICES ASSUME Init PROVE IInv
  OBVIOUS
<1>1. JarType /\ PickerType /\ FormType /\ GoogleType /\ ShownType /\ TempType
  BY TenantsAssumption DEF Init, JarType, PickerType, FormType, GoogleType, ShownType, TempType,
     Pages, Handlers, Departures
<1>2. PickerInv /\ SentInv /\ GoogleInv /\ ShownInv
  BY DEF Init, PickerInv, LinkNames, SentInv, GoogleInv, ShownInv, PickerPages
<1> QED BY <1>1, <1>2, TypeParts DEF IInv

LEMMA NextInv == IInv /\ [Next]_vars => IInv'
<1> SUFFICES ASSUME IInv, [Next]_vars PROVE IInv'
  OBVIOUS
<1>1. CASE UNCHANGED vars
  <2>1. TypeOK' = TypeOK
    BY <1>1 DEF vars, picker, google, shown, TypeOK
  <2>2. PickerInv' /\ SentInv' /\ GoogleInv' /\ ShownInv'
    BY <1>1 DEF IInv, PickerInv, LinkNames, SentInv, GoogleInv, ShownInv, vars, picker, google,
       shown
  <2> QED BY <2>1, <2>2 DEF IInv
<1>2. CASE Answers
  BY <1>2, ArrivingActions, PickerActions, FormActions, SignedInActions, OAuthActions,
     DashboardSteps DEF Answers, SwitcherActions
<1>3. CASE Person
  BY <1>3, ArrivingActions, PickerActions, FormActions, OAuthActions, DashboardSteps
     DEF Person, SwitcherActions
<1> QED BY <1>1, <1>2, <1>3, OtherTabsSteps, ArrivingActions DEF Next

\* The inductive invariant: the types, the picker, what the forms and every
\* Google sign-in under way carry, what is shown.
THEOREM TabInvariance == Spec => []IInv
BY InitInv, NextInv, PTL DEF Spec

\* The tab, its pages and what it sends keep their shape.
THEOREM TabTypeCorrect == Spec => []TypeOK
<1>1. IInv => TypeOK BY DEF IInv
<1> QED BY TabInvariance, <1>1, PTL

\* No late lookup of a workspace and no other tab turns a credential typed in
\* the sign-in pages to a workspace the page did not name; and of any number of
\* Google clicks under way the one answered last is the one that is carried
\* out, as long as nobody writes the cookie once more before it is read.
THEOREM CredentialsArrive == Spec => []CredentialsGoWhereNamed
<1>1. IInv => CredentialsGoWhereNamed
  BY DEF IInv, SentInv, GoogleInv, CredentialsGoWhereNamed
<1> QED BY TabInvariance, <1>1, PTL

\* With nothing under way the dashboard shows the account its requests act as,
\* unless another tab changed the session or the switcher reported a failure
\* (providers.tsx, tenant-switcher.tsx).
THEOREM ShownIsSession == Spec => []ShownAccountIsSession
<1>1. IInv => ShownAccountIsSession
  BY DEF IInv, ShownInv, ShownAccountIsSession
<1> QED BY TabInvariance, <1>1, PTL
-----------------------------------------------------------------------------
(***************************************************************************)
(* Failures.  What the filter makes of an exception, kind by kind, and     *)
(* what the page then says of it, whatever codes the catalogue holds.      *)
(***************************************************************************)
Failures == Exceptions \cup Elsewhere
FailureInv == failure \in Failures

\* Fallback codes are codes of the catalogue, and the two sentences are none.
LEMMA CodeFacts ==
  /\ {TOKEN_INVALID, FORBIDDEN, TOO_MANY_REQUESTS, INTERNAL} \subseteq Codes
  /\ NoCode \notin Codes \cup NewCodes
  /\ {GENERIC, NETWORK_ERROR_MESSAGE} \cap Codes = {}
  BY ErrorPathAssumption

\* Where a failure comes from is told by its kind.
LEMMA FailureKinds ==
  /\ \A e \in Exceptions : e.kind \in {"AuthException", "ThrottlerException", "HttpException", "Error"}
  /\ \A e \in Elsewhere : e.kind \in {"no response", "gateway page"}
  <1>1. ASSUME NEW e \in Exceptions
        PROVE  e.kind \in {"AuthException", "ThrottlerException", "HttpException", "Error"}
    BY DEF Exceptions
  <1>2. ASSUME NEW e \in Elsewhere PROVE e.kind \in {"no response", "gateway page"}
    BY DEF Elsewhere
  <1> QED BY <1>1, <1>2

\* A failure from elsewhere has neither a code nor the status of the throttler.
LEMMA ElsewhereIsBare ==
  ASSUME NEW e \in Elsewhere
  PROVE  e.code = NoCode /\ e.status # 429
  <1>1. e.code = NoCode /\ e.status \in {502}
    BY DEF Elsewhere
  <1>2. e.status # 429
    BY <1>1
  <1> QED BY <1>1, <1>2

\* An AuthException has not that status either, and a plain Error has no code.
LEMMA CodeAndStatus ==
  ASSUME NEW e \in Exceptions
  PROVE  /\ e.kind = "AuthException" => e.status # 429
         /\ e.kind = "Error" => e.code = NoCode
         /\ e.kind = "Error" => e.status # 429
  <1>1. ASSUME e.kind = "AuthException" PROVE e.status # 429
    BY <1>1 DEF Exceptions
  <1>2. ASSUME e.kind = "Error" PROVE e.code = NoCode /\ e.status \in {500}
    BY <1>2 DEF Exceptions
  <1>3. e.status \in {500} => e.status # 429
    OBVIOUS
  <1> QED BY <1>1, <1>2, <1>3, Zenon

\* What the filter keeps of an exception that came with a code of its own.
LEMMA OwnCodeKept ==
  ASSUME NEW e \in Exceptions, e.code # NoCode
  PROVE  catch(e) = Envelope(e.code)
  <1>1. e.kind \in {"AuthException", "HttpException"}
    BY DEF Exceptions
  <1> QED BY <1>1 DEF catch

\* And what it puts in the place of one that has none.
LEMMA CodeGiven ==
  ASSUME NEW e \in Exceptions, e.code = NoCode
  PROVE  /\ e.kind = "AuthException" => catch(e) = Envelope(TOKEN_INVALID)
         /\ e.kind = "ThrottlerException" => e.status = 429
         /\ e.kind = "HttpException" => e.status \in Statuses
         /\ e.kind = "Error" => e.status = 500 /\ catch(e) = Envelope(INTERNAL)
         /\ e.kind \in {"ThrottlerException", "HttpException"} =>
              /\ e.status = 401 => catch(e) = Envelope(TOKEN_INVALID)
              /\ e.status = 403 => catch(e) = Envelope(FORBIDDEN)
              /\ e.status = 429 => catch(e) = Envelope(TOO_MANY_REQUESTS)
              /\ e.status \in {400, 404, 409} => catch(e) = OwnBody
              /\ e.status \in {500, 503} => catch(e) = Envelope(INTERNAL)
  <1>1. /\ e.kind = "ThrottlerException" => e.status = 429
        /\ e.kind = "HttpException" => e.status \in Statuses
        /\ e.kind = "Error" => e.status = 500
    BY DEF Exceptions
  <1>2. /\ e.kind = "AuthException" => catch(e) = Envelope(TOKEN_INVALID)
        /\ e.kind = "Error" => catch(e) = Envelope(INTERNAL)
        /\ e.kind = "ThrottlerException" => catch(e) = Envelope(TOO_MANY_REQUESTS)
    BY DEF catch
  <1>3. ASSUME e.kind = "HttpException"
        PROVE  catch(e) = IF codeForStatus(e.status) # NoCode
                          THEN Envelope(codeForStatus(e.status))
                          ELSE IF e.status < 500 THEN OwnBody ELSE Envelope(INTERNAL)
    BY <1>3 DEF catch
  <1>4. /\ codeForStatus(401) = TOKEN_INVALID /\ codeForStatus(403) = FORBIDDEN
        /\ codeForStatus(429) = TOO_MANY_REQUESTS
        /\ \A s \in {400, 404, 409, 500, 503} : codeForStatus(s) = NoCode
        /\ NoCode \notin {TOKEN_INVALID, FORBIDDEN, TOO_MANY_REQUESTS}
    BY CodeFacts DEF codeForStatus
  <1>5. ASSUME e.kind = "HttpException"
        PROVE  /\ e.status = 401 => catch(e) = Envelope(TOKEN_INVALID)
               /\ e.status = 403 => catch(e) = Envelope(FORBIDDEN)
               /\ e.status = 429 => catch(e) = Envelope(TOO_MANY_REQUESTS)
               /\ e.status \in {400, 404, 409} => catch(e) = OwnBody
               /\ e.status \in {500, 503} => catch(e) = Envelope(INTERNAL)
    BY <1>3, <1>4, <1>5
  <1> QED BY <1>1, <1>2, <1>5

\* Whoever reads it, a body in the envelope or in the former flat form says
\* its code, and one in neither says nothing.
LEMMA BodyIsRead ==
  /\ \A code : \A body \in {Envelope(code), Legacy(Envelope(code))} :
        /\ buildAuthClientError(body) = code /\ readAuthErrorCode(body) = code
        /\ body.shape # "text"
  /\ \A body \in {OwnBody, Legacy(OwnBody)} :
        /\ buildAuthClientError(body) = NoCode /\ readAuthErrorCode(body) = NoCode
        /\ body.shape # "text"
  /\ \A body : body = [shape |-> "text", code |-> NoCode] =>
        /\ Legacy(body) = body /\ body.shape = "text"
        /\ buildAuthClientError(body) = NoCode
  BY DEF Envelope, OwnBody, Legacy, buildAuthClientError, readAuthErrorCode

\* A failure that reached the browser is told by the code its body carries,
\* but for a gateway's page where the page parses it.
LEMMA ToldByCode ==
  ASSUME NEW e \in Failures, e.kind # "no response"
  PROVE  \E code :
           /\ \A body \in {Body(e), Legacy(Body(e))} :
                 /\ mapAuthClientError(e, body) = translateAuthError(code)
                 /\ pageSays(e, body) = IF e.kind = "gateway page" THEN NETWORK_ERROR_MESSAGE
                                        ELSE translateAuthError(code)
           /\ e.kind = "gateway page" => code = NoCode
           /\ e \in Exceptions =>
                 catch(e) = Envelope(code) \/ (catch(e) = OwnBody /\ code = NoCode)
  <1>1. CASE e.kind = "gateway page"
    <2>1. Body(e) = [shape |-> "text", code |-> NoCode] /\ e \notin Exceptions
      BY <1>1, FailureKinds DEF Body
    <2> QED BY <1>1, <2>1, BodyIsRead DEF mapAuthClientError, pageSays
  <1>2. CASE e.kind # "gateway page"
    <2>1. e \in Exceptions /\ Body(e) = catch(e)
      BY <1>2, FailureKinds DEF Failures, Body
    <2>2. \E code : catch(e) = Envelope(code) \/ (catch(e) = OwnBody /\ code = NoCode)
      BY DEF catch
    <2>3. PICK code : catch(e) = Envelope(code) \/ (catch(e) = OwnBody /\ code = NoCode)
      BY <2>2
    <2>4. \A body \in {Body(e), Legacy(Body(e))} :
             /\ buildAuthClientError(body) = code /\ readAuthErrorCode(body) = code
             /\ body.shape # "text"
      BY <2>1, <2>3, BodyIsRead
    <2> QED BY <1>2, <2>1, <2>3, <2>4 DEF mapAuthClientError, pageSays
  <1> QED BY <1>1, <1>2

LEMMA MeaningKept ==
  ASSUME NEW e \in Failures
  PROVE  KeepsItsMeaning(e)
  <1> DEFINE said == mapAuthClientError(e, Body(e))
  <1>1. CASE e.kind = "no response"
    <2>1. e \in Elsewhere
      BY <1>1, FailureKinds DEF Failures
    <2>a. e.code = NoCode /\ e.status # 429
      BY <2>1, ElsewhereIsBare
    <2>b. e.kind # "HttpException" /\ e.kind # "Error"
      BY <1>1
    <2>2. /\ said = NETWORK_ERROR_MESSAGE
          /\ \A body : mapAuthClientError(e, body) = said /\ pageSays(e, body) = said
      BY <1>1 DEF mapAuthClientError, pageSays
    <2>3. e.kind # "gateway page"
      BY <1>1
    <2> HIDE DEF said
    <2> QED BY <1>1, <2>2, <2>3, <2>a, <2>b, Zenon DEF KeepsItsMeaning, said
  <1>2. CASE e.kind # "no response"
    <2>1. PICK code :
           /\ \A body \in {Body(e), Legacy(Body(e))} :
                 /\ mapAuthClientError(e, body) = translateAuthError(code)
                 /\ pageSays(e, body) = IF e.kind = "gateway page" THEN NETWORK_ERROR_MESSAGE
                                        ELSE translateAuthError(code)
           /\ e.kind = "gateway page" => code = NoCode
           /\ e \in Exceptions =>
                 catch(e) = Envelope(code) \/ (catch(e) = OwnBody /\ code = NoCode)
      BY <1>2, ToldByCode
    <2>2. said = translateAuthError(code)
      BY <2>1
    <2>3. said # NETWORK_ERROR_MESSAGE
      BY <2>2, CodeFacts DEF translateAuthError, GENERIC, NETWORK_ERROR_MESSAGE
    <2>4. CASE e.kind = "gateway page"
      <3>1. e \in Elsewhere
        BY <2>4, FailureKinds DEF Failures
      <3>2. e.code = NoCode /\ e.status # 429
        BY <3>1, ElsewhereIsBare
      <3>3. e.kind # "HttpException" /\ e.kind # "Error"
        BY <2>4
      <3> HIDE DEF said
      <3> QED BY <1>2, <2>1, <2>2, <2>3, <3>2, <3>3, Zenon DEF KeepsItsMeaning, said
    <2>5. CASE e \in Exceptions
      <3>1. \A c, d : Envelope(c) = Envelope(d) => c = d
        BY DEF Envelope
      <3>2. \A c : Envelope(c) # OwnBody
        BY DEF Envelope, OwnBody
      <3>3. e.code # NoCode => code = e.code
        BY <2>1, <2>5, <3>1, <3>2, OwnCodeKept
      <3>4. (\A c : catch(e) = Envelope(c) => code = c) /\ (catch(e) = OwnBody => code = NoCode)
        BY <2>1, <2>5, <3>1, <3>2
      <3>5. e.code = NoCode =>
              /\ e.kind = "Error" => code = INTERNAL
              /\ e.kind \in {"ThrottlerException", "HttpException"} =>
                   /\ e.status = 401 => code = TOKEN_INVALID
                   /\ e.status = 403 => code = FORBIDDEN
                   /\ e.status = 429 => code = TOO_MANY_REQUESTS
                   /\ e.status \in {400, 404, 409} => code = NoCode
                   /\ e.status \in {500, 503} => code = INTERNAL
              /\ e.kind = "HttpException" => e.status \in Statuses
        BY <2>5, <3>4, CodeGiven, Zenon
      <3>a. e.kind \in {"AuthException", "ThrottlerException", "HttpException", "Error"}
        BY <2>5, FailureKinds
      <3>b. /\ e.kind = "AuthException" => e.status # 429
            /\ e.kind = "Error" => e.code = NoCode
            /\ e.kind = "Error" => e.status # 429
        BY <2>5, CodeAndStatus
      <3>6. translateAuthError(NoCode) = GENERIC
            /\ \A c \in {TOKEN_INVALID, FORBIDDEN, TOO_MANY_REQUESTS, INTERNAL} :
                 translateAuthError(c) = c
        BY CodeFacts DEF translateAuthError
      <3> HIDE DEF said
      <3>7. e.status \in Statuses /\ e.status >= 500 => e.status \in {500, 503}
        BY DEF Statuses
      <3>8. e.code # NoCode => said = translateAuthError(e.code)
        BY <2>2, <3>3
      <3>9. CASE e.code = NoCode
        <4>1. e.kind = "HttpException" =>
                 /\ e.status = 401 => said = TOKEN_INVALID
                 /\ e.status = 403 => said = FORBIDDEN
                 /\ e.status \in {400, 404, 409} => said = GENERIC
                 /\ e.status >= 500 => said = INTERNAL
          BY <2>2, <3>5, <3>6, <3>7, <3>9, Zenon
        <4>2. e.status = 429 => said = TOO_MANY_REQUESTS
          BY <2>2, <3>5, <3>6, <3>9, <3>a, <3>b, Zenon
        <4>3. e.kind = "Error" => said = INTERNAL
          BY <2>2, <3>5, <3>6, <3>9, Zenon
        <4>4. (e.kind = "Error" \/ ((e.kind = "HttpException" /\ e.code = NoCode) /\ e.status >= 500))
              => said = INTERNAL
          BY <4>1, <4>3, Zenon
        <4>5. \A body \in {Body(e), Legacy(Body(e))} :
                 /\ mapAuthClientError(e, body) = said
                 /\ pageSays(e, body) =
                      IF e.kind = "gateway page" THEN NETWORK_ERROR_MESSAGE ELSE said
          BY <2>1, <2>2, Zenon
        <4>6. /\ ((e.kind = "HttpException" /\ e.code = NoCode) /\ e.status = 401) => said = TOKEN_INVALID
              /\ ((e.kind = "HttpException" /\ e.code = NoCode) /\ e.status = 403) => said = FORBIDDEN
              /\ ((e.kind = "HttpException" /\ e.code = NoCode) /\ e.status \in {400, 404, 409})
                   => said = GENERIC
              /\ (e.status = 429 /\ e.code = NoCode) => said = TOO_MANY_REQUESTS
              /\ e.code # NoCode => said = translateAuthError(e.code)
          BY <3>9, <4>1, <4>2, Zenon
        <4>7. said = NETWORK_ERROR_MESSAGE <=> e.kind = "no response"
          BY <1>2, <2>3, Zenon
        <4> QED BY <4>4, <4>5, <4>6, <4>7, Zenon DEF KeepsItsMeaning, said
      <3>10. CASE e.code # NoCode
        BY <1>2, <2>1, <2>2, <2>3, <3>8, <3>10, <3>b, Zenon DEF KeepsItsMeaning, said
      <3> QED BY <3>9, <3>10
    <2> QED BY <1>2, <2>4, <2>5 DEF Failures, Elsewhere
  <1> QED BY <1>1, <1>2

(* Whatever a call meets, what AuthExceptionFilter answers and the page's  *)
(* catalogue makes of it is about what happened, also where the API is one *)
(* release older.  verify-email/page.tsx and accept-invitation/page.tsx    *)
(* say it too, except that a gateway's page, which is not JSON, reads as a *)
(* server that was not reached.                                            *)
THEOREM FailuresAreTold == SpecError => []ErrorsKeepTheirMeaning
  <1>1. ErrorInit => FailureInv
    <2>1. [kind |-> "no response", status |-> 502, code |-> NoCode] \in Failures
      BY DEF Failures, Elsewhere
    <2> QED BY <2>1 DEF ErrorInit, FailureInv
  <1>2. FailureInv /\ [ErrorNext]_failure => FailureInv'
    BY DEF ErrorNext, CallMeets, FailureInv, Failures
  <1>3. FailureInv => ErrorsKeepTheirMeaning
    BY MeaningKept DEF FailureInv, ErrorsKeepTheirMeaning
  <1> QED BY <1>1, <1>2, <1>3, PTL DEF SpecError

-----------------------------------------------------------------------------
(***************************************************************************)
(* The second factor.  The recovery codes on the screen are those of the   *)
(* factor that is on, and with nothing under way the page has the card and *)
(* the count of the factor the account has.                                *)
(*                                                                         *)
(* A modal and a request under way exclude each other, so this page does   *)
(* not change the factor while codes are shown; and codes are shown with   *)
(* an answer, so the invariant has to say what the server did and the card *)
(* has not heard of yet.  After each of its own changes the page asks for  *)
(* the profile again, which makes up for an answer read before it.         *)
(***************************************************************************)

Ops == {"idle", "setup", "verify", "disabling", "regenerating"}

ServerTypes ==
    /\ factor \in [on : BOOLEAN, set : Nat, left : Nat]
    /\ enrolment \in Nat /\ issued \in Nat /\ alive \in BOOLEAN

PageTypes ==
    /\ realm \in {"dashboard", "platform", "elsewhere", "no page"}
    /\ profile \in {"loading", "failed", "on", "off"}
    /\ asking4me \in {"no", "asked", "on", "off"}
    /\ hasPassword \in BOOLEAN
    /\ foreign \in BOOLEAN /\ lost \in BOOLEAN /\ typed \in Nat

CardTypes ==
    /\ step \in {"idle", "scanning"} /\ codes \in Nat /\ showModal \in BOOLEAN
    /\ mode \in {"idle", "disabling", "regenerating"}

CallTypes ==
    /\ call \in [op : Ops, done : BOOLEAN, set : Nat]
    /\ call.op = "idle" => call = NoCall

\* A request under way belongs to the card on the screen, and keeps the modal away.
CallInv ==
    /\ call # NoCall => ~showModal
    /\ call.op = "verify" => call.set = typed /\ typed # 0
    /\ call.op \in {"setup", "verify"} => Card = "setup"
    /\ call.op \in {"disabling", "regenerating"} => profile = "on"

\* What the server did and the card has not heard of yet.
DoneInv ==
    (OnPage /\ ~foreign /\ call.done) =>
        /\ call.op \in {"verify", "regenerating"} => factor.on /\ factor.set = call.set
        /\ call.op = "disabling" => ~factor.on

\* The factor was changed from this page, which will ask for the profile.
OwnChange ==
    \/ call.done /\ call.op \in {"verify", "disabling"}
    \/ showModal /\ profile = "off"
    \/ asking4me = "asked"

Undisturbed == OnPage /\ alive /\ ~foreign /\ ~lost

\* The profile, known or on its way, is the one the account has.
ProfileInv ==
    Undisturbed =>
        /\ (asking4me = "on" /\ (profile # "on" \/ ~OwnChange)) => factor.on
        /\ (asking4me = "off" /\ (profile # "off" \/ ~OwnChange)) => ~factor.on
        /\ (asking4me = "no" /\ ~OwnChange /\ profile \in {"on", "off"}) =>
              (profile = "on" <=> factor.on)

\* So is the count; it is asked for again once new codes were looked at.
CountInv ==
    /\ realm = "platform" => counting = NotCounting /\ status = Unknown
    /\ (/\ Undisturbed /\ profile = "on" /\ factor.on /\ ~showModal
        /\ ~(call.done /\ call.op = "regenerating"))
       => /\ counting \in Nat => counting = factor.left
          /\ (counting = NotCounting /\ status # Unknown) => status = factor.left

CountTypes ==
    /\ status \in Nat \cup {Unknown}
    /\ counting \in Nat \cup {Counting, NotCounting}

FInv == /\ ServerTypes /\ PageTypes /\ CardTypes /\ CallTypes
        /\ CallInv /\ DoneInv /\ ShownCodesAreLive
        /\ CountTypes /\ ProfileInv /\ CountInv

USE DEF OnPage, Card

LEMMA ProfileReadKeeps ==
  ASSUME FInv, ProfileRead
  PROVE  FInv'
<1> USE SecondFactorAssumption DEF FInv, ProfileRead, CardMounts, PageMounts, Submits,
        EndSessions4mfa, card, server4mfa, page4mfa
<1>1. ServerTypes' BY DEF ServerTypes
<1>2. PageTypes' BY DEF PageTypes, ServerTypes
<1>3. CardTypes' BY DEF CardTypes, CallTypes
<1>4. CallTypes' BY DEF CardTypes, CallTypes, Ops, NoCall, ServerTypes
<1>5. CallInv' BY DEF CallTypes, CallInv, Ops, NoCall, PageTypes, CardTypes
<1>6. DoneInv' BY DEF CallTypes, CallInv, DoneInv, Ops, NoCall, ServerTypes, PageTypes
<1>7. ShownCodesAreLive'
  BY DEF CallTypes, CallInv, DoneInv, ShownCodesAreLive, Ops, NoCall, ServerTypes, PageTypes
<1>8. CountTypes' BY DEF CountTypes, ServerTypes, Counting, NotCounting, Unknown
<1>9. ProfileInv'
  BY DEF CallTypes, CallInv, DoneInv, ProfileInv, OwnChange, Undisturbed, Ops, NoCall,
      ServerTypes, PageTypes
<1>10. CountInv'
  BY DEF CallTypes, CallInv, DoneInv, ProfileInv, CountInv, OwnChange, Undisturbed, Ops,
      NoCall, ServerTypes, PageTypes, CountTypes, Counting, NotCounting, Unknown
<1> QED BY <1>1, <1>2, <1>3, <1>4, <1>5, <1>6, <1>7, <1>8, <1>9, <1>10

LEMMA ProfileAnswersKeeps ==
  ASSUME FInv, ProfileAnswers
  PROVE  FInv'
<1> USE SecondFactorAssumption DEF FInv, CardMounts, card, server4mfa, page4mfa
<1>p. PageTypes' BY DEF ProfileAnswers, PageTypes
<1>1. CASE profile' = profile
  <2>1. /\ UNCHANGED <<realm, factor, enrolment, issued, alive, foreign, typed, hasPassword>>
        /\ UNCHANGED <<step, codes, showModal, mode, call>>
    BY <1>1 DEF ProfileAnswers
  <2>2. ServerTypes' /\ CardTypes' /\ CallTypes'
    BY <2>1 DEF ServerTypes, CardTypes, CallTypes, NoCall
  <2>3. CallInv' BY <1>1, <2>1 DEF CallInv, NoCall
  <2>4. DoneInv' /\ ShownCodesAreLive' BY <1>1, <2>1 DEF DoneInv, ShownCodesAreLive
  <2>5. UNCHANGED <<status, counting, lost, profile>> /\ asking4me' = "no" /\ asking4me \in {"on", "off"}
    BY <1>1 DEF ProfileAnswers
  <2>6. CountTypes' /\ CountInv' BY <2>1, <2>5 DEF CountTypes, CountInv, Undisturbed
  <2>7. ProfileInv' BY <1>1, <2>1, <2>5 DEF ProfileAnswers, ProfileInv, OwnChange, Undisturbed
  <2> QED BY <1>p, <2>2, <2>3, <2>4, <2>6, <2>7
<1>2. CASE profile' # profile
  <2>1. /\ UNCHANGED <<realm, factor, enrolment, issued, alive, foreign, typed, hasPassword>>
        /\ step' = "idle" /\ codes' = 0 /\ showModal' = FALSE /\ mode' = "idle" /\ call' = NoCall
    BY <1>2 DEF ProfileAnswers
  <2>2. ServerTypes' /\ CardTypes' /\ CallTypes'
    BY <2>1 DEF ServerTypes, CardTypes, CallTypes, NoCall, Ops
  <2>3. CallInv' /\ DoneInv' /\ ShownCodesAreLive'
    BY <2>1 DEF CallInv, DoneInv, ShownCodesAreLive, NoCall
  <2>4. /\ profile' = asking4me /\ asking4me' = "no" /\ status' = Unknown
        /\ counting' \in {Counting, NotCounting}
        /\ realm = "platform" => counting' = NotCounting
        /\ lost' = (lost \/ call # NoCall)
    BY <1>2 DEF ProfileAnswers
  <2>5. CountTypes' /\ CountInv'
    BY <2>1, <2>4 DEF CountTypes, CountInv, Counting, NotCounting, Unknown
  <2>7. asking4me \in {"on", "off"} BY DEF ProfileAnswers
  <2>8. Undisturbed' => Undisturbed BY <2>1, <2>4 DEF Undisturbed, PageTypes
  <2>9. Undisturbed => (asking4me = "on" <=> factor.on)
    BY <1>2, <2>4, <2>7 DEF ProfileInv
  <2>6. ProfileInv' BY <2>1, <2>4, <2>7, <2>8, <2>9 DEF ProfileInv
  <2> QED BY <1>p, <2>2, <2>3, <2>5, <2>6
<1> QED BY <1>1, <1>2

LEMMA ProfileFailsKeeps ==
  ASSUME FInv, ProfileFails
  PROVE  FInv'
<1> USE SecondFactorAssumption DEF FInv, ProfileFails, CardMounts, PageMounts, Submits,
        EndSessions4mfa, card, server4mfa, page4mfa
<1>1. ServerTypes' BY DEF ServerTypes
<1>2. PageTypes' BY DEF PageTypes, ServerTypes
<1>3. CardTypes' BY DEF CardTypes, CallTypes
<1>4. CallTypes' BY DEF CardTypes, CallTypes, Ops, NoCall, ServerTypes
<1>5. CallInv' BY DEF CallTypes, CallInv, Ops, NoCall, PageTypes, CardTypes
<1>6. DoneInv' BY DEF CallTypes, CallInv, DoneInv, Ops, NoCall, ServerTypes, PageTypes
<1>7. ShownCodesAreLive'
  BY DEF CallTypes, CallInv, DoneInv, ShownCodesAreLive, Ops, NoCall, ServerTypes, PageTypes
<1>8. CountTypes' BY DEF CountTypes, ServerTypes, Counting, NotCounting, Unknown
<1>9. ProfileInv'
  BY DEF CallTypes, CallInv, DoneInv, ProfileInv, OwnChange, Undisturbed, Ops, NoCall,
      ServerTypes, PageTypes
<1>10. CountInv'
  BY DEF CallTypes, CallInv, DoneInv, ProfileInv, CountInv, OwnChange, Undisturbed, Ops,
      NoCall, ServerTypes, PageTypes, CountTypes, Counting, NotCounting, Unknown
<1> QED BY <1>1, <1>2, <1>3, <1>4, <1>5, <1>6, <1>7, <1>8, <1>9, <1>10

LEMMA SessionFoundDeadKeeps ==
  ASSUME FInv, SessionFoundDead
  PROVE  FInv'
<1> USE SecondFactorAssumption DEF FInv, SessionFoundDead, CardMounts, PageMounts, Submits,
        EndSessions4mfa, card, server4mfa, page4mfa
<1>1. ServerTypes' BY DEF ServerTypes
<1>2. PageTypes' BY DEF PageTypes, ServerTypes
<1>3. CardTypes' BY DEF CardTypes, CallTypes
<1>4. CallTypes' BY DEF CardTypes, CallTypes, Ops, NoCall, ServerTypes
<1>5. CallInv' BY DEF CallTypes, CallInv, Ops, NoCall, PageTypes, CardTypes
<1>6. DoneInv' BY DEF CallTypes, CallInv, DoneInv, Ops, NoCall, ServerTypes, PageTypes
<1>7. ShownCodesAreLive'
  BY DEF CallTypes, CallInv, DoneInv, ShownCodesAreLive, Ops, NoCall, ServerTypes, PageTypes
<1>8. CountTypes' BY DEF CountTypes, ServerTypes, Counting, NotCounting, Unknown
<1>9. ProfileInv'
  BY DEF CallTypes, CallInv, DoneInv, ProfileInv, OwnChange, Undisturbed, Ops, NoCall,
      ServerTypes, PageTypes
<1>10. CountInv'
  BY DEF CallTypes, CallInv, DoneInv, ProfileInv, CountInv, OwnChange, Undisturbed, Ops,
      NoCall, ServerTypes, PageTypes, CountTypes, Counting, NotCounting, Unknown
<1> QED BY <1>1, <1>2, <1>3, <1>4, <1>5, <1>6, <1>7, <1>8, <1>9, <1>10

LEMMA StatusAnswersKeeps ==
  ASSUME FInv, StatusAnswers
  PROVE  FInv'
<1> USE SecondFactorAssumption DEF FInv, StatusAnswers, CardMounts, PageMounts, Submits,
        EndSessions4mfa, card, server4mfa, page4mfa
<1>1. ServerTypes' BY DEF ServerTypes
<1>2. PageTypes' BY DEF PageTypes, ServerTypes
<1>3. CardTypes' BY DEF CardTypes, CallTypes
<1>4. CallTypes' BY DEF CardTypes, CallTypes, Ops, NoCall, ServerTypes
<1>5. CallInv' BY DEF CallTypes, CallInv, Ops, NoCall, PageTypes, CardTypes
<1>6. DoneInv' BY DEF CallTypes, CallInv, DoneInv, Ops, NoCall, ServerTypes, PageTypes
<1>7. ShownCodesAreLive'
  BY DEF CallTypes, CallInv, DoneInv, ShownCodesAreLive, Ops, NoCall, ServerTypes, PageTypes
<1>8. CountTypes' BY DEF CountTypes, ServerTypes, Counting, NotCounting, Unknown
<1>9. ProfileInv'
  BY DEF CallTypes, CallInv, DoneInv, ProfileInv, OwnChange, Undisturbed, Ops, NoCall,
      ServerTypes, PageTypes
<1>10. CountInv'
  BY DEF CallTypes, CallInv, DoneInv, ProfileInv, CountInv, OwnChange, Undisturbed, Ops,
      NoCall, ServerTypes, PageTypes, CountTypes, Counting, NotCounting, Unknown
<1> QED BY <1>1, <1>2, <1>3, <1>4, <1>5, <1>6, <1>7, <1>8, <1>9, <1>10

LEMMA StatusFailsKeeps ==
  ASSUME FInv, StatusFails
  PROVE  FInv'
<1> USE SecondFactorAssumption DEF FInv, StatusFails, CardMounts, PageMounts, Submits,
        EndSessions4mfa, card, server4mfa, page4mfa
<1>1. ServerTypes' BY DEF ServerTypes
<1>2. PageTypes' BY DEF PageTypes, ServerTypes
<1>3. CardTypes' BY DEF CardTypes, CallTypes
<1>4. CallTypes' BY DEF CardTypes, CallTypes, Ops, NoCall, ServerTypes
<1>5. CallInv' BY DEF CallTypes, CallInv, Ops, NoCall, PageTypes, CardTypes
<1>6. DoneInv' BY DEF CallTypes, CallInv, DoneInv, Ops, NoCall, ServerTypes, PageTypes
<1>7. ShownCodesAreLive'
  BY DEF CallTypes, CallInv, DoneInv, ShownCodesAreLive, Ops, NoCall, ServerTypes, PageTypes
<1>8. CountTypes' BY DEF CountTypes, ServerTypes, Counting, NotCounting, Unknown
<1>9. ProfileInv'
  BY DEF CallTypes, CallInv, DoneInv, ProfileInv, OwnChange, Undisturbed, Ops, NoCall,
      ServerTypes, PageTypes
<1>10. CountInv'
  BY DEF CallTypes, CallInv, DoneInv, ProfileInv, CountInv, OwnChange, Undisturbed, Ops,
      NoCall, ServerTypes, PageTypes, CountTypes, Counting, NotCounting, Unknown
<1> QED BY <1>1, <1>2, <1>3, <1>4, <1>5, <1>6, <1>7, <1>8, <1>9, <1>10

LEMMA handleStatusRetryKeeps ==
  ASSUME FInv, handleStatusRetry
  PROVE  FInv'
<1> USE SecondFactorAssumption DEF FInv, handleStatusRetry, CardMounts, PageMounts, Submits,
        EndSessions4mfa, card, server4mfa, page4mfa
<1>1. ServerTypes' BY DEF ServerTypes
<1>2. PageTypes' BY DEF PageTypes, ServerTypes
<1>3. CardTypes' BY DEF CardTypes, CallTypes
<1>4. CallTypes' BY DEF CardTypes, CallTypes, Ops, NoCall, ServerTypes
<1>5. CallInv' BY DEF CallTypes, CallInv, Ops, NoCall, PageTypes, CardTypes
<1>6. DoneInv' BY DEF CallTypes, CallInv, DoneInv, Ops, NoCall, ServerTypes, PageTypes
<1>7. ShownCodesAreLive'
  BY DEF CallTypes, CallInv, DoneInv, ShownCodesAreLive, Ops, NoCall, ServerTypes, PageTypes
<1>8. CountTypes' BY DEF CountTypes, ServerTypes, Counting, NotCounting, Unknown
<1>9. ProfileInv'
  BY DEF CallTypes, CallInv, DoneInv, ProfileInv, OwnChange, Undisturbed, Ops, NoCall,
      ServerTypes, PageTypes
<1>10. CountInv'
  BY DEF CallTypes, CallInv, DoneInv, ProfileInv, CountInv, OwnChange, Undisturbed, Ops,
      NoCall, ServerTypes, PageTypes, CountTypes, Counting, NotCounting, Unknown
<1> QED BY <1>1, <1>2, <1>3, <1>4, <1>5, <1>6, <1>7, <1>8, <1>9, <1>10

LEMMA handleSetupKeeps ==
  ASSUME FInv, handleSetup
  PROVE  FInv'
<1> USE SecondFactorAssumption DEF FInv, handleSetup, CardMounts, PageMounts, Submits,
        EndSessions4mfa, card, server4mfa, page4mfa
<1>1. ServerTypes' BY DEF ServerTypes
<1>2. PageTypes' BY DEF PageTypes, ServerTypes
<1>3. CardTypes' BY DEF CardTypes, CallTypes
<1>4. CallTypes' BY DEF CardTypes, CallTypes, Ops, NoCall, ServerTypes
<1>5. CallInv' BY DEF CallTypes, CallInv, Ops, NoCall, PageTypes, CardTypes
<1>6. DoneInv' BY DEF CallTypes, CallInv, DoneInv, Ops, NoCall, ServerTypes, PageTypes
<1>7. ShownCodesAreLive'
  BY DEF CallTypes, CallInv, DoneInv, ShownCodesAreLive, Ops, NoCall, ServerTypes, PageTypes
<1>8. CountTypes' BY DEF CountTypes, ServerTypes, Counting, NotCounting, Unknown
<1>9. ProfileInv'
  BY DEF CallTypes, CallInv, DoneInv, ProfileInv, OwnChange, Undisturbed, Ops, NoCall,
      ServerTypes, PageTypes
<1>10. CountInv'
  BY DEF CallTypes, CallInv, DoneInv, ProfileInv, CountInv, OwnChange, Undisturbed, Ops,
      NoCall, ServerTypes, PageTypes, CountTypes, Counting, NotCounting, Unknown
<1> QED BY <1>1, <1>2, <1>3, <1>4, <1>5, <1>6, <1>7, <1>8, <1>9, <1>10

LEMMA SetupAnswersKeeps ==
  ASSUME FInv, SetupAnswers
  PROVE  FInv'
<1> USE SecondFactorAssumption DEF FInv, SetupAnswers, CardMounts, PageMounts, Submits,
        EndSessions4mfa, card, server4mfa, page4mfa
<1>0. ~showModal BY DEF CallInv, NoCall
<1>1. ServerTypes' BY DEF ServerTypes
<1>2. PageTypes' BY DEF PageTypes, ServerTypes
<1>3. CardTypes' BY DEF CardTypes, CallTypes
<1>4. CallTypes' BY DEF CardTypes, CallTypes, Ops, NoCall, ServerTypes
<1>5. CallInv' BY DEF CallTypes, CallInv, Ops, NoCall, PageTypes, CardTypes
<1>6. DoneInv' BY DEF CallTypes, CallInv, DoneInv, Ops, NoCall, ServerTypes, PageTypes
<1>7. ShownCodesAreLive'
  BY <1>0 DEF CallTypes, CallInv, DoneInv, ShownCodesAreLive, Ops, NoCall, ServerTypes,
      PageTypes
<1>8. CountTypes' BY DEF CountTypes, ServerTypes, Counting, NotCounting, Unknown
<1>9. ProfileInv'
  BY DEF CallTypes, CallInv, DoneInv, ProfileInv, OwnChange, Undisturbed, Ops, NoCall,
      ServerTypes, PageTypes
<1>10. CountInv'
  BY DEF CallTypes, CallInv, DoneInv, ProfileInv, CountInv, OwnChange, Undisturbed, Ops,
      NoCall, ServerTypes, PageTypes, CountTypes, Counting, NotCounting, Unknown
<1> QED BY <1>1, <1>2, <1>3, <1>4, <1>5, <1>6, <1>7, <1>8, <1>9, <1>10

LEMMA onVerifyKeeps ==
  ASSUME FInv, NEW n \in 1..issued, onVerify(n)
  PROVE  FInv'
<1> USE SecondFactorAssumption DEF FInv, onVerify, CardMounts, PageMounts, Submits,
        EndSessions4mfa, card, server4mfa, page4mfa
<1>0. /\ n \in Nat /\ n # 0 /\ typed' = n /\ Card = "setup"
      /\ call' = [op |-> "verify", done |-> FALSE, set |-> n]
      /\ ~showModal /\ UNCHANGED <<showModal, realm, profile, hasPassword>>
  BY DEF ServerTypes
<1>c. call'.op = "verify" /\ call'.set = n BY <1>0
<1>1. ServerTypes' BY DEF ServerTypes
<1>2. PageTypes' BY <1>0 DEF PageTypes, ServerTypes
<1>3. CardTypes' BY DEF CardTypes, CallTypes
<1>4. CallTypes' BY <1>0 DEF CardTypes, CallTypes, Ops, NoCall, ServerTypes
<1>5. CallInv' BY <1>0, <1>c DEF CallInv
<1>6. DoneInv' BY DEF CallTypes, CallInv, DoneInv, Ops, NoCall, ServerTypes, PageTypes
<1>7. ShownCodesAreLive'
  BY DEF CallTypes, CallInv, DoneInv, ShownCodesAreLive, Ops, NoCall, ServerTypes, PageTypes
<1>8. CountTypes' BY DEF CountTypes, ServerTypes, Counting, NotCounting, Unknown
<1>9. ProfileInv'
  BY DEF CallTypes, CallInv, DoneInv, ProfileInv, OwnChange, Undisturbed, Ops, NoCall,
      ServerTypes, PageTypes
<1>10. CountInv'
  BY DEF CallTypes, CallInv, DoneInv, ProfileInv, CountInv, OwnChange, Undisturbed, Ops,
      NoCall, ServerTypes, PageTypes, CountTypes, Counting, NotCounting, Unknown
<1> QED BY <1>1, <1>2, <1>3, <1>4, <1>5, <1>6, <1>7, <1>8, <1>9, <1>10

LEMMA VerifyAnswersKeeps ==
  ASSUME FInv, VerifyAnswers
  PROVE  FInv'
<1> USE SecondFactorAssumption DEF FInv, VerifyAnswers, CardMounts, PageMounts, Submits,
        EndSessions4mfa, card, server4mfa, page4mfa
<1>0. /\ call.set = typed /\ typed # 0 /\ Card' = "setup" /\ typed' = typed
      /\ OnPage /\ ~foreign => factor.on /\ factor.set = typed
  BY DEF CallInv, DoneInv
<1>1. ServerTypes' BY DEF ServerTypes
<1>2. PageTypes' BY DEF PageTypes, ServerTypes
<1>3. CardTypes' BY DEF CardTypes, CallTypes
<1>4. CallTypes' BY DEF CardTypes, CallTypes, Ops, NoCall, ServerTypes
<1>5. CallInv' BY DEF CallTypes, CallInv, Ops, NoCall, PageTypes, CardTypes
<1>6. DoneInv' BY DEF CallTypes, CallInv, DoneInv, Ops, NoCall, ServerTypes, PageTypes
<1>7. ShownCodesAreLive'
  BY <1>0 DEF CallTypes, CallInv, DoneInv, ShownCodesAreLive, Ops, NoCall, ServerTypes, PageTypes
<1>8. CountTypes' BY DEF CountTypes, ServerTypes, Counting, NotCounting, Unknown
<1>9. ProfileInv'
  BY DEF CallTypes, CallInv, DoneInv, ProfileInv, OwnChange, Undisturbed, Ops, NoCall,
      ServerTypes, PageTypes
<1>10. CountInv'
  BY DEF CallTypes, CallInv, DoneInv, ProfileInv, CountInv, OwnChange, Undisturbed, Ops,
      NoCall, ServerTypes, PageTypes, CountTypes, Counting, NotCounting, Unknown
<1> QED BY <1>1, <1>2, <1>3, <1>4, <1>5, <1>6, <1>7, <1>8, <1>9, <1>10

LEMMA CancelScanKeeps ==
  ASSUME FInv, CancelScan
  PROVE  FInv'
<1> USE SecondFactorAssumption DEF FInv, CancelScan, CardMounts, PageMounts, Submits,
        EndSessions4mfa, card, server4mfa, page4mfa
<1>1. ServerTypes' BY DEF ServerTypes
<1>2. PageTypes' BY DEF PageTypes, ServerTypes
<1>3. CardTypes' BY DEF CardTypes, CallTypes
<1>4. CallTypes' BY DEF CardTypes, CallTypes, Ops, NoCall, ServerTypes
<1>5. CallInv' BY DEF CallTypes, CallInv, Ops, NoCall, PageTypes, CardTypes
<1>6. DoneInv' BY DEF CallTypes, CallInv, DoneInv, Ops, NoCall, ServerTypes, PageTypes
<1>7. ShownCodesAreLive'
  BY DEF CallTypes, CallInv, DoneInv, ShownCodesAreLive, Ops, NoCall, ServerTypes, PageTypes
<1>8. CountTypes' BY DEF CountTypes, ServerTypes, Counting, NotCounting, Unknown
<1>9. ProfileInv'
  BY DEF CallTypes, CallInv, DoneInv, ProfileInv, OwnChange, Undisturbed, Ops, NoCall,
      ServerTypes, PageTypes
<1>10. CountInv'
  BY DEF CallTypes, CallInv, DoneInv, ProfileInv, CountInv, OwnChange, Undisturbed, Ops,
      NoCall, ServerTypes, PageTypes, CountTypes, Counting, NotCounting, Unknown
<1> QED BY <1>1, <1>2, <1>3, <1>4, <1>5, <1>6, <1>7, <1>8, <1>9, <1>10

LEMMA handleModalCloseKeeps ==
  ASSUME FInv, handleModalClose
  PROVE  FInv'
<1> USE SecondFactorAssumption DEF FInv, handleModalClose, CardMounts, PageMounts, Submits,
        EndSessions4mfa, card, server4mfa, page4mfa
<1>0. call = NoCall BY DEF CallInv
<1>1. ServerTypes' BY DEF ServerTypes
<1>2. PageTypes' BY DEF PageTypes, ServerTypes
<1>3. CardTypes' BY DEF CardTypes, CallTypes
<1>4. CallTypes' BY DEF CardTypes, CallTypes, Ops, NoCall, ServerTypes
<1>5. CallInv' BY <1>0 DEF CallTypes, CallInv, Ops, NoCall, PageTypes, CardTypes
<1>6. DoneInv' BY DEF CallTypes, CallInv, DoneInv, Ops, NoCall, ServerTypes, PageTypes
<1>7. ShownCodesAreLive'
  BY DEF CallTypes, CallInv, DoneInv, ShownCodesAreLive, Ops, NoCall, ServerTypes, PageTypes
<1>8. CountTypes' BY DEF CountTypes, ServerTypes, Counting, NotCounting, Unknown
<1>9. ProfileInv'
  BY DEF CallTypes, CallInv, DoneInv, ProfileInv, OwnChange, Undisturbed, Ops, NoCall,
      ServerTypes, PageTypes
<1>10. CountInv'
  BY DEF CallTypes, CallInv, DoneInv, ProfileInv, CountInv, OwnChange, Undisturbed, Ops,
      NoCall, ServerTypes, PageTypes, CountTypes, Counting, NotCounting, Unknown
<1> QED BY <1>1, <1>2, <1>3, <1>4, <1>5, <1>6, <1>7, <1>8, <1>9, <1>10

LEMMA returnToIdleKeeps ==
  ASSUME FInv, returnToIdle
  PROVE  FInv'
<1> USE SecondFactorAssumption DEF FInv, returnToIdle, CardMounts, PageMounts, Submits,
        EndSessions4mfa, card, server4mfa, page4mfa
<1>1. ServerTypes' BY DEF ServerTypes
<1>2. PageTypes' BY DEF PageTypes, ServerTypes
<1>3. CardTypes' BY DEF CardTypes, CallTypes
<1>4. CallTypes' BY DEF CardTypes, CallTypes, Ops, NoCall, ServerTypes
<1>5. CallInv' BY DEF CallTypes, CallInv, Ops, NoCall, PageTypes, CardTypes
<1>6. DoneInv' BY DEF CallTypes, CallInv, DoneInv, Ops, NoCall, ServerTypes, PageTypes
<1>7. ShownCodesAreLive'
  BY DEF CallTypes, CallInv, DoneInv, ShownCodesAreLive, Ops, NoCall, ServerTypes, PageTypes
<1>8. CountTypes' BY DEF CountTypes, ServerTypes, Counting, NotCounting, Unknown
<1>9. ProfileInv'
  BY DEF CallTypes, CallInv, DoneInv, ProfileInv, OwnChange, Undisturbed, Ops, NoCall,
      ServerTypes, PageTypes
<1>10. CountInv'
  BY DEF CallTypes, CallInv, DoneInv, ProfileInv, CountInv, OwnChange, Undisturbed, Ops,
      NoCall, ServerTypes, PageTypes, CountTypes, Counting, NotCounting, Unknown
<1> QED BY <1>1, <1>2, <1>3, <1>4, <1>5, <1>6, <1>7, <1>8, <1>9, <1>10

LEMMA SubmitFormKeeps ==
  ASSUME FInv, SubmitForm
  PROVE  FInv'
<1> USE SecondFactorAssumption DEF FInv, SubmitForm, CardMounts, PageMounts, Submits,
        EndSessions4mfa, card, server4mfa, page4mfa
<1>1. ServerTypes' BY DEF ServerTypes
<1>2. PageTypes' BY DEF PageTypes, ServerTypes
<1>3. CardTypes' BY DEF CardTypes, CallTypes
<1>4. CallTypes' BY DEF CardTypes, CallTypes, Ops, NoCall, ServerTypes
<1>5. CallInv' BY DEF CallTypes, CallInv, Ops, NoCall, PageTypes, CardTypes
<1>6. DoneInv' BY DEF CallTypes, CallInv, DoneInv, Ops, NoCall, ServerTypes, PageTypes
<1>7. ShownCodesAreLive'
  BY DEF CallTypes, CallInv, DoneInv, ShownCodesAreLive, Ops, NoCall, ServerTypes, PageTypes
<1>8. CountTypes' BY DEF CountTypes, ServerTypes, Counting, NotCounting, Unknown
<1>9. ProfileInv'
  BY DEF CallTypes, CallInv, DoneInv, ProfileInv, OwnChange, Undisturbed, Ops, NoCall,
      ServerTypes, PageTypes
<1>10. CountInv'
  BY DEF CallTypes, CallInv, DoneInv, ProfileInv, CountInv, OwnChange, Undisturbed, Ops,
      NoCall, ServerTypes, PageTypes, CountTypes, Counting, NotCounting, Unknown
<1> QED BY <1>1, <1>2, <1>3, <1>4, <1>5, <1>6, <1>7, <1>8, <1>9, <1>10

LEMMA DisableAnswersKeeps ==
  ASSUME FInv, DisableAnswers
  PROVE  FInv'
<1> USE SecondFactorAssumption DEF FInv, DisableAnswers, CardMounts, PageMounts, Submits,
        EndSessions4mfa, card, server4mfa, page4mfa
<1>1. ServerTypes' BY DEF ServerTypes
<1>2. PageTypes' BY DEF PageTypes, ServerTypes
<1>3. CardTypes' BY DEF CardTypes, CallTypes
<1>4. CallTypes' BY DEF CardTypes, CallTypes, Ops, NoCall, ServerTypes
<1>5. CallInv' BY DEF CallTypes, CallInv, Ops, NoCall, PageTypes, CardTypes
<1>6. DoneInv' BY DEF CallTypes, CallInv, DoneInv, Ops, NoCall, ServerTypes, PageTypes
<1>7. ShownCodesAreLive'
  BY DEF CallTypes, CallInv, DoneInv, ShownCodesAreLive, Ops, NoCall, ServerTypes, PageTypes
<1>8. CountTypes' BY DEF CountTypes, ServerTypes, Counting, NotCounting, Unknown
<1>9. ProfileInv'
  BY DEF CallTypes, CallInv, DoneInv, ProfileInv, OwnChange, Undisturbed, Ops, NoCall,
      ServerTypes, PageTypes
<1>10. CountInv'
  BY DEF CallTypes, CallInv, DoneInv, ProfileInv, CountInv, OwnChange, Undisturbed, Ops,
      NoCall, ServerTypes, PageTypes, CountTypes, Counting, NotCounting, Unknown
<1> QED BY <1>1, <1>2, <1>3, <1>4, <1>5, <1>6, <1>7, <1>8, <1>9, <1>10

LEMMA RegenerateAnswersKeeps ==
  ASSUME FInv, RegenerateAnswers
  PROVE  FInv'
<1> USE SecondFactorAssumption DEF FInv, RegenerateAnswers, CardMounts, PageMounts, Submits,
        EndSessions4mfa, card, server4mfa, page4mfa
<1>1. ServerTypes' BY DEF ServerTypes
<1>2. PageTypes' BY DEF PageTypes, ServerTypes
<1>3. CardTypes' BY DEF CardTypes, CallTypes
<1>4. CallTypes' BY DEF CardTypes, CallTypes, Ops, NoCall, ServerTypes
<1>5. CallInv' BY DEF CallTypes, CallInv, Ops, NoCall, PageTypes, CardTypes
<1>6. DoneInv' BY DEF CallTypes, CallInv, DoneInv, Ops, NoCall, ServerTypes, PageTypes
<1>7. ShownCodesAreLive'
  BY DEF CallTypes, CallInv, DoneInv, ShownCodesAreLive, Ops, NoCall, ServerTypes, PageTypes
<1>8. CountTypes' BY DEF CountTypes, ServerTypes, Counting, NotCounting, Unknown
<1>9. ProfileInv'
  BY DEF CallTypes, CallInv, DoneInv, ProfileInv, OwnChange, Undisturbed, Ops, NoCall,
      ServerTypes, PageTypes
<1>10. CountInv'
  BY DEF CallTypes, CallInv, DoneInv, ProfileInv, CountInv, OwnChange, Undisturbed, Ops,
      NoCall, ServerTypes, PageTypes, CountTypes, Counting, NotCounting, Unknown
<1> QED BY <1>1, <1>2, <1>3, <1>4, <1>5, <1>6, <1>7, <1>8, <1>9, <1>10

LEMMA handleCodesModalCloseKeeps ==
  ASSUME FInv, handleCodesModalClose
  PROVE  FInv'
<1> USE SecondFactorAssumption DEF FInv, handleCodesModalClose, CardMounts, PageMounts,
        Submits, EndSessions4mfa, card, server4mfa, page4mfa
<1>1. ServerTypes' BY DEF ServerTypes
<1>2. PageTypes' BY DEF PageTypes, ServerTypes
<1>3. CardTypes' BY DEF CardTypes, CallTypes
<1>4. CallTypes' BY DEF CardTypes, CallTypes, Ops, NoCall, ServerTypes
<1>5. CallInv' BY DEF CallTypes, CallInv, Ops, NoCall, PageTypes, CardTypes
<1>6. DoneInv' BY DEF CallTypes, CallInv, DoneInv, Ops, NoCall, ServerTypes, PageTypes
<1>7. ShownCodesAreLive'
  BY DEF CallTypes, CallInv, DoneInv, ShownCodesAreLive, Ops, NoCall, ServerTypes, PageTypes
<1>8. CountTypes' BY DEF CountTypes, ServerTypes, Counting, NotCounting, Unknown
<1>9. ProfileInv'
  BY DEF CallTypes, CallInv, DoneInv, ProfileInv, OwnChange, Undisturbed, Ops, NoCall,
      ServerTypes, PageTypes
<1>10. CountInv'
  <2>1. status' = status /\ realm' = realm /\ OnPage
        /\ counting' = IF realm = "dashboard" THEN Counting ELSE counting
    BY DEF handleCodesModalClose
  <2>2. CASE realm = "dashboard" BY <2>1, <2>2 DEF CountInv, Counting, NotCounting
  <2>3. CASE realm = "platform" BY <2>1, <2>3 DEF CountInv, NotCounting, Unknown
  <2> QED BY <2>1, <2>2, <2>3
<1> QED BY <1>1, <1>2, <1>3, <1>4, <1>5, <1>6, <1>7, <1>8, <1>9, <1>10

LEMMA CountReadKeeps ==
  ASSUME FInv, CountRead
  PROVE  FInv'
<1> USE SecondFactorAssumption DEF FInv, CountRead, CardMounts, PageMounts, Submits,
        EndSessions4mfa, card, server4mfa, page4mfa
<1>1. ServerTypes' BY DEF ServerTypes
<1>2. PageTypes' BY DEF PageTypes, ServerTypes
<1>3. CardTypes' BY DEF CardTypes, CallTypes
<1>4. CallTypes' BY DEF CardTypes, CallTypes, Ops, NoCall, ServerTypes
<1>5. CallInv' BY DEF CallTypes, CallInv, Ops, NoCall, PageTypes, CardTypes
<1>6. DoneInv' BY DEF CallTypes, CallInv, DoneInv, Ops, NoCall, ServerTypes, PageTypes
<1>7. ShownCodesAreLive'
  BY DEF CallTypes, CallInv, DoneInv, ShownCodesAreLive, Ops, NoCall, ServerTypes, PageTypes
<1>8. CountTypes' BY DEF CountTypes, ServerTypes, Counting, NotCounting, Unknown
<1>9. ProfileInv'
  BY DEF CallTypes, CallInv, DoneInv, ProfileInv, OwnChange, Undisturbed, Ops, NoCall,
      ServerTypes, PageTypes
<1>10. CountInv'
  <2>1. counting = Counting /\ counting' = factor.left /\ UNCHANGED <<factor, realm, status>>
    BY DEF CountRead
  <2>2. realm # "platform" BY <2>1 DEF CountInv, Counting, NotCounting
  <2>3. factor.left \in Nat BY DEF ServerTypes
  <2> QED BY <2>1, <2>2, <2>3 DEF CountInv, NotCounting
<1> QED BY <1>1, <1>2, <1>3, <1>4, <1>5, <1>6, <1>7, <1>8, <1>9, <1>10

LEMMA CountAnswersKeeps ==
  ASSUME FInv, CountAnswers
  PROVE  FInv'
<1> USE SecondFactorAssumption DEF FInv, CountAnswers, CardMounts, PageMounts, Submits,
        EndSessions4mfa, card, server4mfa, page4mfa
<1>1. ServerTypes' BY DEF ServerTypes
<1>2. PageTypes' BY DEF PageTypes, ServerTypes
<1>3. CardTypes' BY DEF CardTypes, CallTypes
<1>4. CallTypes' BY DEF CardTypes, CallTypes, Ops, NoCall, ServerTypes
<1>5. CallInv' BY DEF CallTypes, CallInv, Ops, NoCall, PageTypes, CardTypes
<1>6. DoneInv' BY DEF CallTypes, CallInv, DoneInv, Ops, NoCall, ServerTypes, PageTypes
<1>7. ShownCodesAreLive'
  BY DEF CallTypes, CallInv, DoneInv, ShownCodesAreLive, Ops, NoCall, ServerTypes, PageTypes
<1>8. CountTypes' BY DEF CountTypes, ServerTypes, Counting, NotCounting, Unknown
<1>9. ProfileInv'
  BY DEF CallTypes, CallInv, DoneInv, ProfileInv, OwnChange, Undisturbed, Ops, NoCall,
      ServerTypes, PageTypes
<1>10. CountInv'
  <2>1. counting \in Nat /\ counting' = NotCounting /\ status' = counting
    BY DEF CountAnswers, CountTypes, Counting, NotCounting
  <2>2. UNCHANGED <<realm, factor, alive, foreign, lost, profile, showModal, call>>
    BY DEF CountAnswers
  <2>3. realm # "platform" BY <2>1 DEF CountInv, NotCounting
  <2>4. Undisturbed' = Undisturbed BY <2>2 DEF Undisturbed
  <2> QED BY <2>1, <2>2, <2>3, <2>4 DEF CountInv, NotCounting
<1> QED BY <1>1, <1>2, <1>3, <1>4, <1>5, <1>6, <1>7, <1>8, <1>9, <1>10

LEMMA CountFailsKeeps ==
  ASSUME FInv, CountFails
  PROVE  FInv'
<1> USE SecondFactorAssumption DEF FInv, CountFails, CardMounts, PageMounts, Submits,
        EndSessions4mfa, card, server4mfa, page4mfa
<1>1. ServerTypes' BY DEF ServerTypes
<1>2. PageTypes' BY DEF PageTypes, ServerTypes
<1>3. CardTypes' BY DEF CardTypes, CallTypes
<1>4. CallTypes' BY DEF CardTypes, CallTypes, Ops, NoCall, ServerTypes
<1>5. CallInv' BY DEF CallTypes, CallInv, Ops, NoCall, PageTypes, CardTypes
<1>6. DoneInv' BY DEF CallTypes, CallInv, DoneInv, Ops, NoCall, ServerTypes, PageTypes
<1>7. ShownCodesAreLive'
  BY DEF CallTypes, CallInv, DoneInv, ShownCodesAreLive, Ops, NoCall, ServerTypes, PageTypes
<1>8. CountTypes' BY DEF CountTypes, ServerTypes, Counting, NotCounting, Unknown
<1>9. ProfileInv'
  BY DEF CallTypes, CallInv, DoneInv, ProfileInv, OwnChange, Undisturbed, Ops, NoCall,
      ServerTypes, PageTypes
<1>10. CountInv'
  <2>1. counting' = NotCounting /\ status' = Unknown BY DEF CountFails
  <2> QED BY <2>1 DEF CountInv, Unknown, NotCounting
<1> QED BY <1>1, <1>2, <1>3, <1>4, <1>5, <1>6, <1>7, <1>8, <1>9, <1>10

LEMMA FactorServerDoesKeeps ==
  ASSUME FInv, FactorServerDoes
  PROVE  FInv'
<1> USE SecondFactorAssumption DEF FInv, card, server4mfa, page4mfa
<1>f. /\ UNCHANGED <<realm, profile, asking4me, hasPassword, step, codes, showModal, mode>>
      /\ UNCHANGED <<foreign, lost, typed>>
      /\ OnPage /\ call.op # "idle"
  BY DEF FactorServerDoes
<1>h. ~showModal BY <1>f DEF CallInv, NoCall
<1>p. PageTypes' /\ CardTypes' /\ ShownCodesAreLive'
  BY <1>f, <1>h DEF PageTypes, CardTypes, ShownCodesAreLive
<1>c. UNCHANGED <<status, counting>> BY DEF FactorServerDoes
<1>d. CountTypes' BY <1>c DEF CountTypes
<1>1. CASE /\ call.op = "setup"
           /\ issued' = issued + 1 /\ enrolment' = issued'
           /\ call' = [call EXCEPT !.done = TRUE, !.set = issued']
           /\ UNCHANGED <<factor, alive>>
  <2>1. call' = [op |-> "setup", done |-> TRUE, set |-> issued + 1] BY <1>1 DEF CallTypes
  <2>2. ServerTypes' BY <1>1 DEF ServerTypes
  <2>3. issued + 1 \in Nat BY DEF ServerTypes
  <2>4. CallTypes' BY <2>1, <2>3 DEF CallTypes, Ops
  <2>5. CallInv' BY <1>f, <1>h, <1>1, <2>1 DEF CallInv
  <2>6. DoneInv' BY <2>1 DEF DoneInv
  <2>7. ProfileInv' /\ CountInv'
    BY <1>f, <1>h, <1>c, <1>1, <2>1
       DEF CallTypes, CallInv, ProfileInv, CountInv, OwnChange, Undisturbed
  <2> QED BY <1>p, <1>d, <2>7, <2>2, <2>4, <2>5, <2>6
<1>2. CASE /\ call.op = "verify"
           /\ factor' = [on |-> TRUE, set |-> call.set, left |-> Total]
           /\ enrolment' = 0 /\ issued' = issued /\ alive' \in BOOLEAN
           /\ call' = [call EXCEPT !.done = TRUE]
  <2>1. call' = [op |-> "verify", done |-> TRUE, set |-> call.set] /\ call.set \in Nat
    BY <1>2 DEF CallTypes
  <2>2. ServerTypes' BY <1>2, <2>1 DEF ServerTypes
  <2>3. CallTypes' /\ CallInv' /\ DoneInv'
    BY <1>f, <1>h, <1>2, <2>1 DEF CallTypes, CallInv, DoneInv, Ops, NoCall
  <2>7. ProfileInv' /\ CountInv'
    BY <1>f, <1>h, <1>c, <1>2, <2>1
       DEF CallTypes, CallInv, ProfileInv, CountInv, OwnChange, Undisturbed
  <2> QED BY <1>p, <1>d, <2>7, <2>2, <2>3
<1>3. CASE /\ call.op = "disabling"
           /\ factor' = [on |-> FALSE, set |-> 0, left |-> 0]
           /\ enrolment' = enrolment /\ issued' = issued /\ alive' \in BOOLEAN
           /\ call' = [call EXCEPT !.done = TRUE]
  <2>1. call' = [op |-> "disabling", done |-> TRUE, set |-> call.set] /\ call.set \in Nat
    BY <1>3 DEF CallTypes
  <2>2. ServerTypes' BY <1>3 DEF ServerTypes
  <2>3. CallTypes' /\ CallInv' /\ DoneInv'
    BY <1>f, <1>h, <1>3, <2>1 DEF CallTypes, CallInv, DoneInv, Ops, NoCall
  <2>7. ProfileInv' /\ CountInv'
    BY <1>f, <1>h, <1>c, <1>3, <2>1
       DEF CallTypes, CallInv, ProfileInv, CountInv, OwnChange, Undisturbed
  <2> QED BY <1>p, <1>d, <2>7, <2>2, <2>3
<1>4. CASE /\ call.op = "regenerating" /\ factor.on
           /\ issued' = issued + 1
           /\ factor' = [factor EXCEPT !.set = issued', !.left = Total]
           /\ call' = [call EXCEPT !.done = TRUE, !.set = issued']
           /\ UNCHANGED <<enrolment, alive>>
  <2>1. /\ call' = [op |-> "regenerating", done |-> TRUE, set |-> issued + 1]
        /\ factor' = [on |-> TRUE, set |-> issued + 1, left |-> Total]
    BY <1>4 DEF ServerTypes, CallTypes
  <2>2. issued + 1 \in Nat BY DEF ServerTypes
  <2>3. ServerTypes' BY <1>4, <2>1, <2>2 DEF ServerTypes
  <2>4. CallTypes' BY <2>1, <2>2 DEF CallTypes, Ops
  <2>5. CallInv' BY <1>f, <1>h, <1>4, <2>1 DEF CallInv
  <2>6. DoneInv' BY <2>1 DEF DoneInv
  <2>7. ProfileInv' /\ CountInv'
    BY <1>f, <1>h, <1>c, <1>4, <2>1
       DEF CallTypes, CallInv, ProfileInv, CountInv, OwnChange, Undisturbed
  <2> QED BY <1>p, <1>d, <2>7, <2>3, <2>4, <2>5, <2>6
<1>b. EndSessions4mfa /\ ServerTypes => alive' \in BOOLEAN BY DEF EndSessions4mfa
<1> QED BY <1>1, <1>2, <1>3, <1>4, <1>b DEF FactorServerDoes

LEMMA FactorCallFailsKeeps ==
  ASSUME FInv, FactorCallFails
  PROVE  FInv'
<1> USE SecondFactorAssumption DEF FInv, FactorCallFails, CardMounts, PageMounts, Submits,
        EndSessions4mfa, card, server4mfa, page4mfa
<1>1. ServerTypes' BY DEF ServerTypes
<1>2. PageTypes' BY DEF PageTypes, ServerTypes
<1>3. CardTypes' BY DEF CardTypes, CallTypes
<1>4. CallTypes' BY DEF CardTypes, CallTypes, Ops, NoCall, ServerTypes
<1>5. CallInv' BY DEF CallTypes, CallInv, Ops, NoCall, PageTypes, CardTypes
<1>6. DoneInv' BY DEF CallTypes, CallInv, DoneInv, Ops, NoCall, ServerTypes, PageTypes
<1>7. ShownCodesAreLive'
  BY DEF CallTypes, CallInv, DoneInv, ShownCodesAreLive, Ops, NoCall, ServerTypes, PageTypes
<1>8. CountTypes' BY DEF CountTypes, ServerTypes, Counting, NotCounting, Unknown
<1>9. ProfileInv'
  BY DEF CallTypes, CallInv, DoneInv, ProfileInv, OwnChange, Undisturbed, Ops, NoCall,
      ServerTypes, PageTypes
<1>10. CountInv'
  BY DEF CallTypes, CallInv, DoneInv, ProfileInv, CountInv, OwnChange, Undisturbed, Ops,
      NoCall, ServerTypes, PageTypes, CountTypes, Counting, NotCounting, Unknown
<1> QED BY <1>1, <1>2, <1>3, <1>4, <1>5, <1>6, <1>7, <1>8, <1>9, <1>10

LEMMA OthersChangeFactorKeeps ==
  ASSUME FInv, OthersChangeFactor
  PROVE  FInv'
<1> USE SecondFactorAssumption DEF FInv, card, server4mfa, page4mfa
<1>f. /\ UNCHANGED <<realm, profile, asking4me, hasPassword, lost, typed>>
      /\ UNCHANGED <<step, codes, showModal, mode, call>>
      /\ foreign' = (foreign \/ factor' # factor)
  BY DEF OthersChangeFactor
<1>b. EndSessions4mfa => alive' \in BOOLEAN BY DEF EndSessions4mfa
<1>1. ServerTypes'
  <2>1. CASE /\ factor' = [on |-> FALSE, set |-> 0, left |-> 0]
             /\ EndSessions4mfa /\ UNCHANGED <<issued, enrolment>>
    BY <2>1, <1>b DEF ServerTypes
  <2>2. CASE issued' = issued + 1 /\ enrolment' = issued' /\ UNCHANGED <<factor, alive>>
    BY <2>2 DEF ServerTypes
  <2>3. CASE /\ factor' = [on |-> TRUE, set |-> enrolment, left |-> Total]
             /\ enrolment' = 0 /\ EndSessions4mfa /\ UNCHANGED issued
    BY <2>3, <1>b DEF ServerTypes
  <2>4. CASE /\ factor.left > 0
             /\ factor' = [factor EXCEPT !.left = @ - 1]
             /\ UNCHANGED <<enrolment, issued, alive>>
    <3>1. factor.left - 1 \in Nat BY <2>4 DEF ServerTypes
    <3> QED BY <2>4, <3>1 DEF ServerTypes
  <2> QED BY <2>1, <2>2, <2>3, <2>4 DEF OthersChangeFactor
<1>2. PageTypes' BY <1>f DEF PageTypes
<1>3. CardTypes' /\ CallTypes' /\ CallInv' BY <1>f DEF CardTypes, CallTypes, CallInv, NoCall
<1>4. DoneInv' /\ ShownCodesAreLive' BY <1>f DEF DoneInv, ShownCodesAreLive, PageTypes
<1>5. UNCHANGED <<status, counting>> BY DEF OthersChangeFactor
<1>6. CountTypes' BY <1>5 DEF CountTypes
<1>8. factor' = factor => alive' = alive
  <2>1. CASE /\ factor.on /\ factor' = [on |-> FALSE, set |-> 0, left |-> 0]
    BY <2>1
  <2>2. CASE UNCHANGED <<factor, alive>> BY <2>2
  <2>3. CASE ~factor.on /\ factor' = [on |-> TRUE, set |-> enrolment, left |-> Total] BY <2>3
  <2>4. CASE UNCHANGED alive BY <2>4
  <2> QED BY <2>1, <2>2, <2>3, <2>4 DEF OthersChangeFactor
<1>9. ProfileInv' /\ CountInv'
  <2>1. Undisturbed' => Undisturbed /\ factor' = factor
    BY <1>f, <1>8 DEF Undisturbed, PageTypes
  <2>2. OwnChange' <=> OwnChange BY <1>f DEF OwnChange
  <2> QED BY <1>f, <1>5, <2>1, <2>2 DEF ProfileInv, CountInv
<1> QED BY <1>1, <1>2, <1>3, <1>4, <1>6, <1>9

LEMMA OpenSecurityKeeps ==
  ASSUME FInv, NEW r \in {"dashboard", "platform"}, OpenSecurity(r)
  PROVE  FInv'
<1> USE SecondFactorAssumption DEF FInv, OpenSecurity, CardMounts, PageMounts, Submits,
        EndSessions4mfa, card, server4mfa, page4mfa
<1>1. ServerTypes' BY DEF ServerTypes
<1>2. PageTypes' BY DEF PageTypes, ServerTypes
<1>3. CardTypes' BY DEF CardTypes, CallTypes
<1>4. CallTypes' BY DEF CardTypes, CallTypes, Ops, NoCall, ServerTypes
<1>5. CallInv' BY DEF CallTypes, CallInv, Ops, NoCall, PageTypes, CardTypes
<1>6. DoneInv' BY DEF CallTypes, CallInv, DoneInv, Ops, NoCall, ServerTypes, PageTypes
<1>7. ShownCodesAreLive'
  BY DEF CallTypes, CallInv, DoneInv, ShownCodesAreLive, Ops, NoCall, ServerTypes, PageTypes
<1>8. CountTypes' BY DEF CountTypes, ServerTypes, Counting, NotCounting, Unknown
<1>9. ProfileInv'
  BY DEF CallTypes, CallInv, DoneInv, ProfileInv, OwnChange, Undisturbed, Ops, NoCall,
      ServerTypes, PageTypes
<1>10. CountInv'
  BY DEF CallTypes, CallInv, DoneInv, ProfileInv, CountInv, OwnChange, Undisturbed, Ops,
      NoCall, ServerTypes, PageTypes, CountTypes, Counting, NotCounting, Unknown
<1> QED BY <1>1, <1>2, <1>3, <1>4, <1>5, <1>6, <1>7, <1>8, <1>9, <1>10

LEMMA OpenFormKeeps ==
  ASSUME FInv, NEW m \in {"disabling", "regenerating"}, OpenForm(m)
  PROVE  FInv'
<1> USE SecondFactorAssumption DEF FInv, OpenForm, CardMounts, PageMounts, Submits,
        EndSessions4mfa, card, server4mfa, page4mfa
<1>1. ServerTypes' BY DEF ServerTypes
<1>2. PageTypes' BY DEF PageTypes, ServerTypes
<1>3. CardTypes' BY DEF CardTypes, CallTypes
<1>4. CallTypes' BY DEF CardTypes, CallTypes, Ops, NoCall, ServerTypes
<1>5. CallInv' BY DEF CallTypes, CallInv, Ops, NoCall, PageTypes, CardTypes
<1>6. DoneInv' BY DEF CallTypes, CallInv, DoneInv, Ops, NoCall, ServerTypes, PageTypes
<1>7. ShownCodesAreLive'
  BY DEF CallTypes, CallInv, DoneInv, ShownCodesAreLive, Ops, NoCall, ServerTypes, PageTypes
<1>8. CountTypes' BY DEF CountTypes, ServerTypes, Counting, NotCounting, Unknown
<1>9. ProfileInv'
  BY DEF CallTypes, CallInv, DoneInv, ProfileInv, OwnChange, Undisturbed, Ops, NoCall,
      ServerTypes, PageTypes
<1>10. CountInv'
  BY DEF CallTypes, CallInv, DoneInv, ProfileInv, CountInv, OwnChange, Undisturbed, Ops,
      NoCall, ServerTypes, PageTypes, CountTypes, Counting, NotCounting, Unknown
<1> QED BY <1>1, <1>2, <1>3, <1>4, <1>5, <1>6, <1>7, <1>8, <1>9, <1>10

-----------------------------------------------------------------------------
LEMMA OneUsed == Total - 1 \in Nat
<1>1. Total \in Nat /\ Total # 0 BY SecondFactorAssumption
<1> QED BY <1>1

LEMMA FactorInitOK == FactorInit => FInv
<1> SUFFICES ASSUME FactorInit PROVE FInv OBVIOUS
<1> USE SecondFactorAssumption DEF FactorInit
<1>1. ServerTypes
  <2>1. PICK on \in BOOLEAN : factor = [on |-> on, set |-> 0, left |-> IF on THEN Total - 1 ELSE 0]
    OBVIOUS
  <2>4. factor \in [on : BOOLEAN, set : Nat, left : Nat] BY <2>1, OneUsed
  <2> QED BY <2>4 DEF ServerTypes
<1>2. PageTypes /\ CardTypes BY DEF PageTypes, CardTypes
<1>3. CallTypes /\ CallInv /\ DoneInv BY DEF CallTypes, CallInv, DoneInv, Ops, NoCall
<1>4. ShownCodesAreLive BY DEF ShownCodesAreLive
<1>5. CountTypes /\ CountInv BY DEF CountTypes, CountInv, NotCounting, Unknown
<1>6. ProfileInv BY DEF ProfileInv, OwnChange
<1> QED BY <1>1, <1>2, <1>3, <1>4, <1>5, <1>6 DEF FInv

LEMMA FactorStep == FInv /\ [FactorNext]_factorVars => FInv'
<1> SUFFICES ASSUME FInv, [FactorNext]_factorVars PROVE FInv' OBVIOUS
<1>1. CASE UNCHANGED factorVars
  <2>1. UNCHANGED <<factor, enrolment, issued, alive, realm, profile, asking4me, hasPassword,
                    foreign, lost, typed, step, codes, showModal, mode, call, status, counting>>
    BY <1>1 DEF factorVars, server4mfa, page4mfa, card
  <2>2. ServerTypes' BY <2>1 DEF FInv, ServerTypes
  <2>5. PageTypes' BY <2>1 DEF FInv, PageTypes
  <2>6. CardTypes' BY <2>1 DEF FInv, CardTypes
  <2>3. CallTypes' /\ CallInv' /\ DoneInv' BY <2>1 DEF FInv, CallTypes, CallInv, DoneInv, NoCall
  <2>4. ShownCodesAreLive' BY <2>1 DEF FInv, ShownCodesAreLive
  <2>7. CountTypes' /\ CountInv' BY <2>1 DEF FInv, CountTypes, CountInv, Undisturbed
  <2>8. ProfileInv' BY <2>1 DEF FInv, ProfileInv, OwnChange, Undisturbed
  <2> QED BY <2>2, <2>3, <2>4, <2>5, <2>6, <2>7, <2>8 DEF FInv
<1>2. CASE FactorNext
  BY <1>2, ProfileReadKeeps, ProfileAnswersKeeps, ProfileFailsKeeps, SessionFoundDeadKeeps,
    StatusAnswersKeeps, StatusFailsKeeps, handleStatusRetryKeeps, handleSetupKeeps,
    SetupAnswersKeeps, onVerifyKeeps, VerifyAnswersKeeps, CancelScanKeeps,
    handleModalCloseKeeps, returnToIdleKeeps, SubmitFormKeeps, DisableAnswersKeeps,
    RegenerateAnswersKeeps, handleCodesModalCloseKeeps, CountReadKeeps,
    CountAnswersKeeps, CountFailsKeeps, FactorServerDoesKeeps, FactorCallFailsKeeps,
    OthersChangeFactorKeeps, OpenSecurityKeeps, OpenFormKeeps DEF FactorNext
<1> QED BY <1>1, <1>2

(* What the code of both cards has to keep up: the server's record, the    *)
(* page, the card, and the request that joins them, a verification with a  *)
(* code of any authenticator set up so far included.                       *)
THEOREM FactorInvariance == SpecFactor => []FInv
<1> QED BY FactorInitOK, FactorStep, PTL DEF SpecFactor

(* The recovery codes handleModalClose and handleCodesModalClose close on  *)
(* are those of the factor that is on: whatever the person cancelled while *)
(* the request was under way, until somebody else changes the factor, and  *)
(* if the code typed was of the authenticator this card had them set up.   *)
THEOREM CodesAreLive == SpecFactor => []ShownCodesAreLive
<1>1. FInv => ShownCodesAreLive BY DEF FInv
<1> QED BY <1>1, FactorInvariance, PTL

(* With nothing under way both security pages offer the card of the factor *)
(* the account has, and the dashboard's counts the codes that are left,    *)
(* whichever answers crossed on the way there.                             *)
THEOREM CardIsCurrent == SpecFactor => []CardShowsFactor
<1>1. FInv => CardShowsFactor
  BY DEF FInv, CardShowsFactor, ProfileInv, CountInv, CountTypes, OwnChange, Undisturbed, NoCall
<1> QED BY <1>1, FactorInvariance, PTL

=============================================================================
