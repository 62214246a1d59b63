---------------------------- MODULE OnboardingProofs ----------------------------
(***************************************************************************)
(* What invitations, sign-ups and sign-ins give is what was meant, for any *)
(* accounts, workspaces, tokens and number of handlers at a time.          *)
(*                                                                         *)
(* The argument is in two halves that do not meet.  Tokens: until its row  *)
(* is written a token belongs to one handler alone, and a key, a row and a *)
(* letter come and go in an order that keeps the three in agreement.       *)
(* Rows: an account's role, workspace and origin never change, so whatever *)
(* a handler or a key holds about its inviter still holds when it is used. *)
(***************************************************************************)
EXTENDS Onboarding, TLAPS

TokenSteps == InviteSteps \cup {"revoke.row", "revoke.key"}
EarningSteps == {"oauth.create", "oauth.link", "login.issue", "switch.issue"}
Result == {"", "done", "mismatch"}

-----------------------------------------------------------------------------
(* The parts of the type invariant.                                        *)

UsersType ==
    /\ DOMAIN users \in SUBSET Ids
    /\ DOMAIN Seed \subseteq DOMAIN users
    /\ users \in [DOMAIN users -> Row]

TokensType ==
    /\ minted \in SUBSET Tokens
    /\ DOMAIN invKeys \in SUBSET minted /\ invKeys \in [DOMAIN invKeys -> Row]
    /\ DOMAIN invRows \in SUBSET minted /\ invRows \in [DOMAIN invRows -> Tenants]
    /\ dropped \in SUBSET minted /\ revoked \in SUBSET dropped
    /\ taken \in SUBSET minted /\ lapsed \in SUBSET minted

Letters == [kind : {"invite"}, to : Emails, ref : minted]
           \cup [kind : {"verify", "change"}, to : Emails, ref : DOMAIN users]
MailType == mail \subseteq Letters

AnswerType == answer \in [by : Calls \cup {None}, says : Result \cup DOMAIN users]

HandlerType(c) ==
    /\ DOMAIN call[c] = {"at", "row", "ref", "cut"}
    /\ call[c].at \in Steps
    /\ call[c].cut \in BOOLEAN
    /\ call[c].at \in InviteSteps \cup CreateSteps => call[c].row \in Row
    /\ call[c].at \in TokenSteps => call[c].ref \in minted
    /\ call[c].at \in AccountSteps => call[c].ref \in DOMAIN users

CallType == DOMAIN call = Calls /\ \A c \in Calls : HandlerType(c)

LEMMA TypeParts == TypeOK <=> UsersType /\ TokensType /\ MailType /\ AnswerType /\ CallType
  BY DEF TypeOK, UsersType, TokensType, MailType, AnswerType, CallType, HandlerType, Letters,
     Result, TokenSteps, InviteSteps

LEMMA TypePartsNext ==
  TypeOK' <=> UsersType' /\ TokensType' /\ MailType' /\ AnswerType' /\ CallType'
  BY DEF TypeOK, UsersType, TokensType, MailType, AnswerType, CallType, HandlerType, Letters,
     Result, TokenSteps, InviteSteps

-----------------------------------------------------------------------------
(* What the three ways to move a handler do.                               *)

Others(c) == DOMAIN call' = Calls /\ \A d \in Calls \ {c} : call'[d] = call[d]

LEMMA BeginFacts ==
  ASSUME CallType, NEW c \in Calls, NEW at, NEW row, NEW ref, Begin(c, at, row, ref)
  PROVE  /\ Others(c) /\ call[c].at = "idle" /\ answer' = Nothing
         /\ call'[c].at = at /\ call'[c].row = row /\ call'[c].ref = ref
         /\ call'[c].cut = (ref \in DOMAIN users /\ ~SignedIn(ref))
         /\ call'[c].cut \in BOOLEAN
         /\ DOMAIN call'[c] = {"at", "row", "ref", "cut"}
  BY DEF Begin, CallType, Others

LEMMA AdvanceFacts ==
  ASSUME CallType, NEW c \in Calls, NEW from, NEW to, Advance(c, from, to)
  PROVE  /\ Others(c) /\ call[c].at = from /\ answer' = Nothing
         /\ call'[c].at = to /\ call'[c].row = call[c].row /\ call'[c].ref = call[c].ref
         /\ call'[c].cut = call[c].cut
         /\ DOMAIN call'[c] = {"at", "row", "ref", "cut"}
  BY DEF Advance, CallType, HandlerType, Others

LEMMA FinishFacts ==
  ASSUME CallType, NEW c \in Calls, NEW from, NEW says, Finish(c, from, says)
  PROVE  /\ Others(c) /\ call[c].at = from /\ answer' = [by |-> c, says |-> says]
         /\ call'[c] = Idle
  BY DEF Finish, CallType, Others

LEMMA StatusFacts ==
  ASSUME CallType, NEW i, NEW s, SetStatus(i, s), NEW c \in Calls
  PROVE  /\ call'[c].at = call[c].at /\ call'[c].row = call[c].row /\ call'[c].ref = call[c].ref
         /\ call'[c].cut \in BOOLEAN /\ (call'[c].cut => call[c].cut)
         /\ DOMAIN call'[c] = {"at", "row", "ref", "cut"}
<1>1. call'[c] = [call[c] EXCEPT !.cut = @ /\ (s \in Blocked \/ call[c].ref # i)]
  BY DEF SetStatus
<1> QED BY <1>1 DEF CallType, HandlerType

\* The handlers that stand still keep their type as the tables grow.
LEMMA CallTypeStep ==
  ASSUME CallType, NEW c \in Calls, Others(c), minted \subseteq minted',
         DOMAIN users \subseteq DOMAIN users', HandlerType(c)'
  PROVE  CallType'
  BY DEF CallType, Others, HandlerType

LEMMA IdleType == ASSUME NEW c \in Calls, call'[c] = Idle PROVE HandlerType(c)'
  BY DEF Idle, HandlerType, Steps, InviteSteps, CreateSteps, TokenSteps, AccountSteps

\* An insertion adds one account, under an id that was free.
LEMMA InsertFacts ==
  ASSUME UsersType, NEW row \in Row, Insert(row)
  PROVE  /\ UsersType' /\ DOMAIN users \subseteq DOMAIN users'
         /\ NewId \in DOMAIN users' \ DOMAIN users
         /\ users'[NewId] = row
         /\ \A i \in DOMAIN users : users'[i] = users[i]
<1>1. NewId \in Ids \ DOMAIN users
  BY DEF Insert, NewId
<1> QED BY <1>1 DEF Insert, With, UsersType

-----------------------------------------------------------------------------
(* Type correctness, one family of actions at a time.                      *)

LEMMA InviteTypes ==
  ASSUME TypeOK, NEW c \in Calls, Invitations(c),
         call[c].at = "revoke.key" => call[c].ref \in dropped
  PROVE  TypeOK'
<1> USE TypeParts, TypePartsNext
<1>1. UsersType /\ TokensType /\ MailType /\ AnswerType /\ CallType /\ HandlerType(c)
  BY DEF CallType
<1>2. ASSUME NEW by \in DOMAIN users, NEW email \in Emails, NEW role \in InviteRoles,
             InviteBegins(c, by, email, role)
      PROVE  TypeOK'
  <2> DEFINE row == NewRow(users[by].tenant, email, role, "ACTIVE", TRUE, None, by)
  <2>1. PICK t \in Tokens \ minted : Begin(c, "invite.key", row, t) /\ minted' = minted \cup {t}
    BY <1>2 DEF InviteBegins
  <2>2. row \in Row
    BY <1>1, NamesAssumption DEF UsersType, NewRow, Row, Statuses
  <2> HIDE DEF row
  <2>3. HandlerType(c)' /\ Others(c) /\ answer' = Nothing
    BY <1>1, <2>1, <2>2, BeginFacts DEF HandlerType, Steps, InviteSteps, CreateSteps,
       AccountSteps, TokenSteps
  <2>4. UsersType' BY <1>1, <1>2 DEF InviteBegins, UsersType
  <2>5. TokensType' BY <1>1, <1>2, <2>1 DEF InviteBegins, TokensType
  <2>6. MailType' BY <1>1, <1>2, <2>1 DEF InviteBegins, MailType, Letters
  <2>7. AnswerType' BY <1>1, <2>3 DEF AnswerType, Nothing, Result
  <2>8. CallType' BY <1>1, <1>2, <2>1, <2>3, CallTypeStep DEF InviteBegins
  <2> QED BY <2>4, <2>5, <2>6, <2>7, <2>8
<1>3. CASE InviteStoresKey(c)
  <2>1. HandlerType(c)' /\ Others(c) /\ answer' = Nothing /\ call[c].at = "invite.key"
    BY <1>1, <1>3, AdvanceFacts DEF InviteStoresKey, HandlerType, Steps, InviteSteps,
       CreateSteps, AccountSteps, TokenSteps
  <2>2. UsersType' /\ MailType' /\ AnswerType'
    BY <1>1, <1>3, <2>1 DEF InviteStoresKey, UsersType, MailType, Letters, AnswerType, Nothing,
       Result
  <2>3. TokensType'
    BY <1>1, <1>3, <2>1 DEF InviteStoresKey, PutKey, With, TokensType, HandlerType, InviteSteps,
       TokenSteps
  <2>4. CallType' BY <1>1, <1>3, <2>1, CallTypeStep DEF InviteStoresKey
  <2> QED BY <2>2, <2>3, <2>4
<1>4. CASE InviteStoresRow(c)
  <2>1. HandlerType(c)' /\ Others(c) /\ answer' = Nothing /\ call[c].at = "invite.row"
    BY <1>1, <1>4, AdvanceFacts DEF InviteStoresRow, HandlerType, Steps, InviteSteps,
       CreateSteps, AccountSteps, TokenSteps
  <2>2. UsersType' /\ MailType' /\ AnswerType'
    BY <1>1, <1>4, <2>1 DEF InviteStoresRow, UsersType, MailType, Letters, AnswerType, Nothing,
       Result
  <2>3. TokensType'
    BY <1>1, <1>4, <2>1 DEF InviteStoresRow, PutRow, With, TokensType, HandlerType, InviteSteps,
       TokenSteps, Row
  <2>4. CallType' BY <1>1, <1>4, <2>1, CallTypeStep DEF InviteStoresRow
  <2> QED BY <2>2, <2>3, <2>4
<1>5. CASE InviteMails(c)
  <2>1. HandlerType(c)' /\ Others(c) /\ call[c].at = "invite.mail"
        /\ answer' = [by |-> c, says |-> "done"]
    BY <1>1, <1>5, FinishFacts, IdleType DEF InviteMails
  <2>2. Letter(c) \in Letters
    BY <1>1, <2>1 DEF Letter, Letters, HandlerType, InviteSteps, TokenSteps, Row
  <2>3. UsersType' /\ TokensType' /\ MailType' /\ AnswerType'
    BY <1>1, <1>5, <2>1, <2>2 DEF InviteMails, inviteVars, UsersType, TokensType, MailType,
       Letters, AnswerType, Result
  <2>4. CallType' BY <1>1, <1>5, <2>1, CallTypeStep DEF InviteMails, inviteVars
  <2> QED BY <2>3, <2>4
<1>6. ASSUME NEW by \in DOMAIN users, NEW t \in Tokens, RevokeBegins(c, by, t)
      PROVE  TypeOK'
  <2>1. HandlerType(c)' /\ Others(c) /\ answer' = Nothing
    BY <1>1, <1>6, BeginFacts DEF RevokeBegins, TokensType, inviteVars, HandlerType, Steps,
       InviteSteps, CreateSteps, AccountSteps, TokenSteps
  <2>2. UsersType' /\ TokensType' /\ MailType' /\ AnswerType'
    BY <1>1, <1>6, <2>1 DEF RevokeBegins, inviteVars, UsersType, TokensType, MailType, Letters,
       AnswerType, Nothing, Result
  <2>3. CallType' BY <1>1, <1>6, <2>1, CallTypeStep DEF RevokeBegins, inviteVars
  <2> QED BY <2>2, <2>3
<1>7. CASE RevokeDeletesRow(c)
  <2>1. HandlerType(c)' /\ Others(c) /\ answer' = Nothing /\ call[c].at = "revoke.row"
    BY <1>1, <1>7, AdvanceFacts DEF RevokeDeletesRow, HandlerType, Steps, InviteSteps,
       CreateSteps, AccountSteps, TokenSteps
  <2>2. UsersType' /\ MailType' /\ AnswerType'
    BY <1>1, <1>7, <2>1 DEF RevokeDeletesRow, UsersType, MailType, Letters, AnswerType, Nothing,
       Result
  <2>3. TokensType'
    BY <1>1, <1>7, <2>1 DEF RevokeDeletesRow, Without, TokensType, HandlerType, InviteSteps,
       TokenSteps
  <2>4. CallType' BY <1>1, <1>7, <2>1, CallTypeStep DEF RevokeDeletesRow
  <2> QED BY <2>2, <2>3, <2>4
<1>8. CASE RevokeDeletesKey(c)
  <2>1. HandlerType(c)' /\ Others(c) /\ answer' = [by |-> c, says |-> "done"]
        /\ call[c].ref \in dropped
    BY <1>1, <1>8, FinishFacts, IdleType DEF RevokeDeletesKey
  <2>2. UsersType' /\ TokensType' /\ MailType' /\ AnswerType'
    BY <1>1, <1>8, <2>1 DEF RevokeDeletesKey, Without, UsersType, TokensType, MailType, Letters,
       AnswerType, Result
  <2>3. CallType' BY <1>1, <1>8, <2>1, CallTypeStep DEF RevokeDeletesKey
  <2> QED BY <2>2, <2>3
<1>9. ASSUME NEW t \in Tokens, AcceptTakes(c, t)
      PROVE  TypeOK'
  <2>1. HandlerType(c)' /\ Others(c) /\ answer' = Nothing
    BY <1>1, <1>9, BeginFacts DEF AcceptTakes, TokensType, HandlerType, Steps, InviteSteps,
       CreateSteps, AccountSteps, TokenSteps
  <2>2. UsersType' /\ TokensType' /\ MailType' /\ AnswerType'
    BY <1>1, <1>9, <2>1 DEF AcceptTakes, Without, UsersType, TokensType, MailType, Letters,
       AnswerType, Nothing, Result
  <2>3. CallType' BY <1>1, <1>9, <2>1, CallTypeStep DEF AcceptTakes
  <2> QED BY <2>2, <2>3
<1>10. CASE AcceptCreates(c)
  <2>1. HandlerType(c)' /\ Others(c) /\ answer' = [by |-> c, says |-> "done"]
        /\ call[c].row \in Row
    BY <1>1, <1>10, FinishFacts, IdleType DEF AcceptCreates, HandlerType, CreateSteps
  <2>2. UsersType' /\ DOMAIN users \subseteq DOMAIN users'
    BY <1>1, <1>10, <2>1, InsertFacts DEF AcceptCreates
  <2>3. TokensType' /\ MailType' /\ AnswerType'
    BY <1>1, <1>10, <2>1, <2>2 DEF AcceptCreates, inviteVars, TokensType, MailType, Letters,
       AnswerType, Result
  <2>4. CallType' BY <1>1, <1>10, <2>1, <2>2, CallTypeStep DEF AcceptCreates, inviteVars
  <2> QED BY <2>2, <2>3, <2>4
<1> QED BY <1>2, <1>3, <1>4, <1>5, <1>6, <1>7, <1>8, <1>9, <1>10 DEF Invitations

LEMMA SignUpTypes ==
  ASSUME TypeOK, NEW c \in Calls, SignUps(c)
  PROVE  TypeOK'
<1> USE TypeParts, TypePartsNext
<1>1. UsersType /\ TokensType /\ MailType /\ AnswerType /\ CallType /\ HandlerType(c)
  BY DEF CallType
<1>2. ASSUME NEW tenant \in Tenants, NEW email \in Emails, RegisterBegins(c, tenant, email)
      PROVE  TypeOK'
  <2> DEFINE row == NewRow(tenant, email, "MEMBER", "PENDING", FALSE, None, "register")
  <2>1. Begin(c, "register.create", row, None) /\ row \in Row
    BY <1>2 DEF RegisterBegins, NewRow, Row, Statuses, Roles
  <2> HIDE DEF row
  <2>2. HandlerType(c)' /\ Others(c) /\ answer' = Nothing
    BY <1>1, <2>1, BeginFacts DEF HandlerType, Steps, InviteSteps, CreateSteps, AccountSteps,
       TokenSteps
  <2>3. UsersType' /\ TokensType' /\ MailType' /\ AnswerType'
    BY <1>1, <1>2, <2>2 DEF RegisterBegins, inviteVars, UsersType, TokensType, MailType, Letters,
       AnswerType, Nothing, Result
  <2>4. CallType' BY <1>1, <1>2, <2>2, CallTypeStep DEF RegisterBegins, inviteVars
  <2> QED BY <2>3, <2>4
<1>3. CASE RegisterCreates(c)
  <2>1. HandlerType(c)' /\ Others(c) /\ answer' = [by |-> c, says |-> "done"]
        /\ call[c].row \in Row
    BY <1>1, <1>3, FinishFacts, IdleType DEF RegisterCreates, HandlerType, CreateSteps
  <2>2. UsersType' /\ DOMAIN users \subseteq DOMAIN users' /\ NewId \in DOMAIN users'
    BY <1>1, <1>3, <2>1, InsertFacts DEF RegisterCreates
  <2>3. TokensType' /\ AnswerType'
    BY <1>1, <1>3, <2>1, <2>2 DEF RegisterCreates, inviteVars, TokensType, AnswerType, Result
  <2>5. [kind |-> "verify", to |-> call[c].row.email, ref |-> NewId] \in Letters'
    BY <2>1, <2>2 DEF Letters, Row
  <2>6. MailType'
    BY <1>1, <1>3, <2>2, <2>5 DEF RegisterCreates, inviteVars, MailType, Letters
  <2>4. CallType' BY <1>1, <1>3, <2>1, <2>2, CallTypeStep DEF RegisterCreates, inviteVars
  <2> QED BY <2>2, <2>3, <2>4, <2>6
<1>4. ASSUME NEW msg \in mail, VerifyBegins(c, msg)
      PROVE  TypeOK'
  <2>1. msg.ref \in DOMAIN users
    BY <1>1, <1>4 DEF VerifyBegins, MailType, Letters
  <2>2. UsersType' /\ DOMAIN users' = DOMAIN users
    BY <1>1, <1>4, <2>1 DEF VerifyBegins, UsersType, Row
  <2>3. HandlerType(c)' /\ Others(c) /\ answer' = Nothing
    BY <1>1, <1>4, <2>1, <2>2, BeginFacts DEF VerifyBegins, HandlerType, Steps, InviteSteps,
       CreateSteps, AccountSteps, TokenSteps
  <2>4. TokensType' /\ MailType' /\ AnswerType'
    BY <1>1, <1>4, <2>2, <2>3 DEF VerifyBegins, inviteVars, TokensType, MailType, Letters,
       AnswerType, Nothing, Result
  <2>5. CallType' BY <1>1, <1>4, <2>2, <2>3, CallTypeStep DEF VerifyBegins, inviteVars
  <2> QED BY <2>2, <2>4, <2>5
<1>5. CASE AfterEmailVerified(c)
  <2>1. HandlerType(c)' /\ Others(c) /\ answer' = [by |-> c, says |-> "done"]
    BY <1>1, <1>5, FinishFacts, IdleType DEF AfterEmailVerified
  <2>2. UsersType' /\ DOMAIN users' = DOMAIN users
    BY <1>1, <1>5, FinishFacts DEF AfterEmailVerified, UsersType, HandlerType, AccountSteps, Row,
       Statuses
  <2>3. TokensType' /\ MailType' /\ AnswerType'
    BY <1>1, <1>5, <2>1, <2>2, FinishFacts DEF AfterEmailVerified, inviteVars, HandlerType,
       AccountSteps,
       TokensType, MailType, Letters, AnswerType, Result
  <2>4. CallType' BY <1>1, <1>5, <2>1, <2>2, CallTypeStep DEF AfterEmailVerified, inviteVars
  <2> QED BY <2>2, <2>3, <2>4
<1>6. ASSUME NEW s \in Subjects, NEW tenant \in Tenants, NEW status \in OAuthStatuses,
             OAuthCreateBegins(c, s, tenant, status)
      PROVE  TypeOK'
  <2>1. OAuthRow(s, tenant, status) \in Row
    BY NamesAssumption DEF OAuthRow, NewRow, Row, Roles
  <2>2. HandlerType(c)' /\ Others(c) /\ answer' = Nothing
    BY <1>1, <1>6, BeginFacts, <2>1 DEF OAuthCreateBegins, HandlerType, Steps, InviteSteps,
       CreateSteps, AccountSteps, TokenSteps
  <2>3. UsersType' /\ TokensType' /\ MailType' /\ AnswerType'
    BY <1>1, <1>6, <2>2 DEF OAuthCreateBegins, inviteVars, UsersType, TokensType, MailType,
       Letters, AnswerType, Nothing, Result
  <2>4. CallType' BY <1>1, <1>6, <2>2, CallTypeStep DEF OAuthCreateBegins, inviteVars
  <2> QED BY <2>3, <2>4
<1>7. CASE CreateWithOAuth(c)
  <2>1. call[c].row \in Row
    BY <1>1, <1>7 DEF CreateWithOAuth, HandlerType, CreateSteps
  <2>2. UsersType' /\ DOMAIN users \subseteq DOMAIN users' /\ NewId \in DOMAIN users'
    BY <1>1, <1>7, <2>1, InsertFacts DEF CreateWithOAuth
  <2> DEFINE says == IF call[c].row.status \in Blocked THEN "done" ELSE NewId
  <2>3. Finish(c, "oauth.create", says) /\ says \in Result \cup DOMAIN users'
    BY <1>7, <2>2 DEF CreateWithOAuth, Result
  <2> HIDE DEF says
  <2>4. HandlerType(c)' /\ Others(c) /\ answer' = [by |-> c, says |-> says]
    BY <1>1, <2>3, FinishFacts, IdleType
  <2>5. TokensType' /\ MailType' /\ AnswerType'
    BY <1>1, <1>7, <2>2, <2>3, <2>4 DEF CreateWithOAuth, inviteVars, TokensType, MailType,
       Letters, AnswerType
  <2>6. CallType' BY <1>1, <1>7, <2>2, <2>4, CallTypeStep DEF CreateWithOAuth, inviteVars
  <2> QED BY <2>2, <2>5, <2>6
<1>8. CASE CreateWithOAuthRefused(c)
  <2>1. HandlerType(c)' /\ Others(c) /\ answer' = [by |-> c, says |-> "mismatch"]
    BY <1>1, <1>8, FinishFacts, IdleType DEF CreateWithOAuthRefused
  <2>2. UsersType' /\ DOMAIN users' = DOMAIN users
    BY <1>1, <1>8, FinishFacts DEF CreateWithOAuthRefused, UsersType, HandlerType, AccountSteps,
       Row, Statuses
  <2>3. TokensType' /\ MailType' /\ AnswerType'
    BY <1>1, <1>8, <2>1, <2>2, FinishFacts DEF CreateWithOAuthRefused, inviteVars, HandlerType,
       AccountSteps,
       TokensType, MailType, Letters, AnswerType, Result
  <2>4. CallType' BY <1>1, <1>8, <2>1, <2>2, CallTypeStep DEF CreateWithOAuthRefused, inviteVars
  <2> QED BY <2>2, <2>3, <2>4
<1> QED BY <1>2, <1>3, <1>4, <1>5, <1>6, <1>7, <1>8 DEF SignUps

LEMMA SignInTypes ==
  ASSUME TypeOK, NEW c \in Calls, SignIns(c) \/ CallFails(c),
         call[c].at = "oauth.link" => call[c].row \in Row
  PROVE  TypeOK'
<1> USE TypeParts, TypePartsNext
<1>1. UsersType /\ TokensType /\ MailType /\ AnswerType /\ CallType /\ HandlerType(c)
  BY DEF CallType
<1>2. ASSUME NEW s \in Subjects, NEW tenant \in Tenants, OAuthLinkBegins(c, s, tenant)
      PROVE  TypeOK'
  <2>1. PICK i \in DOMAIN users : Begin(c, "oauth.link", OAuthRow(s, tenant, "ACTIVE"), i)
    BY <1>2 DEF OAuthLinkBegins, FoundByOAuthId
  <2>2. HandlerType(c)' /\ Others(c) /\ answer' = Nothing
    BY <1>1, <1>2, <2>1, BeginFacts DEF OAuthLinkBegins, HandlerType, Steps, InviteSteps,
       CreateSteps, AccountSteps, TokenSteps
  <2>3. UsersType' /\ TokensType' /\ MailType' /\ AnswerType'
    BY <1>1, <1>2, <2>2 DEF OAuthLinkBegins, inviteVars, UsersType, TokensType, MailType,
       Letters, AnswerType, Nothing, Result
  <2>4. CallType' BY <1>1, <1>2, <2>2, CallTypeStep DEF OAuthLinkBegins, inviteVars
  <2> QED BY <2>3, <2>4
<1>3. CASE LinkOAuth(c)
  <2>0. call[c].ref \in DOMAIN users /\ call[c].row.oauth \in Subjects \cup {None}
    BY <1>1, <1>3 DEF LinkOAuth, Finish, HandlerType, AccountSteps, Row
  <2>1. HandlerType(c)' /\ Others(c) /\ answer' = [by |-> c, says |-> call[c].ref]
    BY <1>1, <1>3, FinishFacts, IdleType DEF LinkOAuth
  <2>2. UsersType' /\ DOMAIN users' = DOMAIN users
    BY <1>1, <1>3, <2>0, FinishFacts DEF LinkOAuth, UsersType, HandlerType, AccountSteps, Row,
       Statuses
  <2>3. TokensType' /\ MailType' /\ AnswerType'
    BY <1>1, <1>3, <2>1, <2>2, FinishFacts DEF LinkOAuth, inviteVars, HandlerType, AccountSteps,
       TokensType, MailType, Letters, AnswerType, Result
  <2>4. CallType' BY <1>1, <1>3, <2>1, <2>2, CallTypeStep DEF LinkOAuth, inviteVars
  <2> QED BY <2>2, <2>3, <2>4
<1>4. ASSUME NEW i \in DOMAIN users, LoginBegins(c, i)
      PROVE  TypeOK'
  <2>1. HandlerType(c)' /\ Others(c) /\ answer' = Nothing
    BY <1>1, <1>4, BeginFacts DEF LoginBegins, HandlerType, Steps, InviteSteps, CreateSteps,
       AccountSteps, TokenSteps
  <2>2. UsersType' /\ TokensType' /\ MailType' /\ AnswerType'
    BY <1>1, <1>4, <2>1 DEF LoginBegins, inviteVars, UsersType, TokensType, MailType, Letters,
       AnswerType, Nothing, Result
  <2>3. CallType' BY <1>1, <1>4, <2>1, CallTypeStep DEF LoginBegins, inviteVars
  <2> QED BY <2>2, <2>3
<1>5. CASE LoginIssues(c)
  <2>1. HandlerType(c)' /\ Others(c) /\ answer' = [by |-> c, says |-> call[c].ref]
    BY <1>1, <1>5, FinishFacts, IdleType DEF LoginIssues
  <2>2. UsersType' /\ DOMAIN users' = DOMAIN users
    BY <1>1, <1>5, FinishFacts DEF LoginIssues, UsersType, HandlerType, AccountSteps, Row, Statuses
  <2>3. TokensType' /\ MailType' /\ AnswerType'
    BY <1>1, <1>5, <2>1, <2>2, FinishFacts DEF LoginIssues, inviteVars, HandlerType, AccountSteps,
       TokensType, MailType, Letters, AnswerType, Result
  <2>4. CallType' BY <1>1, <1>5, <2>1, <2>2, CallTypeStep DEF LoginIssues, inviteVars
  <2> QED BY <2>2, <2>3, <2>4
<1>6. ASSUME NEW i \in DOMAIN users, NEW tenant \in Tenants, SwitchBegins(c, i, tenant)
      PROVE  TypeOK'
  <2>1. PICK j \in DOMAIN users : Begin(c, "switch.issue", None, j)
    BY <1>6 DEF SwitchBegins, findSwitchTarget
  <2>2. HandlerType(c)' /\ Others(c) /\ answer' = Nothing
    BY <1>1, <1>6, <2>1, BeginFacts DEF SwitchBegins, HandlerType, Steps, InviteSteps,
       CreateSteps, AccountSteps, TokenSteps
  <2>3. UsersType' /\ TokensType' /\ MailType' /\ AnswerType'
    BY <1>1, <1>6, <2>2 DEF SwitchBegins, inviteVars, UsersType, TokensType, MailType, Letters,
       AnswerType, Nothing, Result
  <2>4. CallType' BY <1>1, <1>6, <2>2, CallTypeStep DEF SwitchBegins, inviteVars
  <2> QED BY <2>3, <2>4
<1>7. CASE SwitchIssues(c)
  <2>1. HandlerType(c)' /\ Others(c) /\ answer' = [by |-> c, says |-> call[c].ref]
    BY <1>1, <1>7, FinishFacts, IdleType DEF SwitchIssues
  <2>2. UsersType' /\ DOMAIN users' = DOMAIN users
    BY <1>1, <1>7, FinishFacts DEF SwitchIssues, UsersType, HandlerType, AccountSteps, Row, Statuses
  <2>3. TokensType' /\ MailType' /\ AnswerType'
    BY <1>1, <1>7, <2>1, <2>2, FinishFacts DEF SwitchIssues, inviteVars, HandlerType, AccountSteps,
       TokensType, MailType, Letters, AnswerType, Result
  <2>4. CallType' BY <1>1, <1>7, <2>1, <2>2, CallTypeStep DEF SwitchIssues, inviteVars
  <2> QED BY <2>2, <2>3, <2>4
<1>8. CASE CallFails(c)
  <2>1. HandlerType(c)' /\ Others(c) /\ answer' = Nothing
    BY <1>1, <1>8, IdleType DEF CallFails, Others, CallType
  <2>2. UNCHANGED <<users, inviteVars, mail>> BY <1>8 DEF CallFails
  <2>4. UsersType' /\ TokensType' /\ MailType' /\ AnswerType'
    BY <1>1, <2>1, <2>2 DEF inviteVars, UsersType, TokensType, MailType, Letters, AnswerType,
       Nothing, Result
  <2>3. CallType' BY <1>1, <1>8, <2>1, CallTypeStep DEF CallFails, inviteVars
  <2> QED BY <2>4, <2>3
<1> QED BY <1>2, <1>3, <1>4, <1>5, <1>6, <1>7, <1>8 DEF SignIns

LEMMA OtherTypes ==
  ASSUME TypeOK,
         \/ \E t \in Tokens : Expire(t)
         \/ \E i \in DOMAIN users, email \in Emails : EmailChangeAsked(i, email)
         \/ \E msg \in mail : UpdateEmail(msg)
         \/ \E i \in DOMAIN users, s \in Statuses : SetStatus(i, s)
  PROVE  TypeOK'
<1> USE TypeParts, TypePartsNext
<1>1. UsersType /\ TokensType /\ MailType /\ AnswerType /\ CallType
  OBVIOUS
<1>2. ASSUME NEW t \in Tokens, Expire(t)
      PROVE  TypeOK'
  <2>1. TokensType'
    BY <1>1, <1>2 DEF Expire, Without, TokensType
  <2>2. UsersType' /\ MailType' /\ AnswerType' /\ CallType'
    BY <1>1, <1>2 DEF Expire, UsersType, MailType, Letters, AnswerType, Nothing, Result,
       CallType, HandlerType
  <2> QED BY <2>1, <2>2
<1>3. ASSUME NEW i \in DOMAIN users, NEW email \in Emails, EmailChangeAsked(i, email)
      PROVE  TypeOK'
  <2>1. [kind |-> "change", to |-> email, ref |-> i] \in Letters
    BY DEF Letters
  <2>2. MailType'
    BY <1>1, <1>3, <2>1 DEF EmailChangeAsked, inviteVars, MailType, Letters
  <2>3. UsersType' /\ TokensType' /\ AnswerType' /\ CallType'
    BY <1>1, <1>3 DEF EmailChangeAsked, inviteVars, UsersType, TokensType, AnswerType, Nothing,
       Result, CallType, HandlerType
  <2> QED BY <2>2, <2>3
<1>4. ASSUME NEW msg \in mail, UpdateEmail(msg)
      PROVE  TypeOK'
  <2>1. msg.ref \in DOMAIN users /\ msg.to \in Emails
    BY <1>1, <1>4 DEF UpdateEmail, MailType, Letters
  <2>2. UsersType' /\ DOMAIN users' = DOMAIN users
    BY <1>1, <1>4, <2>1 DEF UpdateEmail, UsersType, Row
  <2>3. TokensType' /\ MailType' /\ AnswerType' /\ CallType'
    BY <1>1, <1>4, <2>2 DEF UpdateEmail, inviteVars, TokensType, MailType, Letters, AnswerType,
       Nothing, Result, CallType, HandlerType
  <2> QED BY <2>2, <2>3
<1>5. ASSUME NEW i \in DOMAIN users, NEW s \in Statuses, SetStatus(i, s)
      PROVE  TypeOK'
  <2>1. UsersType' /\ DOMAIN users' = DOMAIN users
    BY <1>1, <1>5 DEF SetStatus, UsersType, Row
  <2>2. TokensType' /\ MailType' /\ AnswerType'
    BY <1>1, <1>5, <2>1 DEF SetStatus, inviteVars, TokensType, MailType, Letters, AnswerType,
       Nothing, Result
  <2>3. ASSUME NEW c \in Calls PROVE HandlerType(c)'
    <3>1. HandlerType(c) /\ minted' = minted
      BY <1>1, <1>5 DEF CallType, SetStatus, inviteVars
    <3>2. /\ call'[c].at = call[c].at /\ call'[c].row = call[c].row /\ call'[c].ref = call[c].ref
          /\ call'[c].cut \in BOOLEAN
          /\ DOMAIN call'[c] = {"at", "row", "ref", "cut"}
      BY <1>1, <1>5, StatusFacts
    <3> QED BY <2>1, <3>1, <3>2 DEF HandlerType
  <2>4. CallType'
    BY <1>5, <2>3 DEF SetStatus, CallType
  <2> QED BY <2>1, <2>2, <2>4
<1> QED BY <1>2, <1>3, <1>4, <1>5

-----------------------------------------------------------------------------
(* Tokens.                                                                 *)

Storing == {"invite.key", "invite.row"}

\* What a handler that works on a token may count on.
HandlerToken(c) ==
    /\ call[c].at = "invite.key" =>
          call[c].ref \notin DOMAIN invKeys \cup DOMAIN invRows \cup dropped
    /\ call[c].at = "invite.row" =>
          /\ call[c].ref \notin DOMAIN invRows \cup dropped
          /\ call[c].ref \in DOMAIN invKeys \cup taken \cup lapsed
    /\ call[c].at \in {"invite.mail", "revoke.row"} => call[c].ref \in DOMAIN invRows \cup dropped
    /\ call[c].at = "revoke.key" => call[c].ref \in dropped

\* A token whose row is still to be written is held by one handler.
Alone == \A c \in Calls, d \in Calls :
    c # d /\ call[c].at \in Storing /\ call[d].at \in Storing => call[c].ref # call[d].ref

MailedTokens == \A msg \in mail : msg.kind = "invite" => msg.ref \in DOMAIN invRows \cup dropped
ListedTokens == DOMAIN invRows \subseteq DOMAIN invKeys \cup taken \cup lapsed
DroppedTokens == dropped \cap DOMAIN invRows = {}

TokenInv ==
    /\ \A c \in Calls : HandlerToken(c)
    /\ Alone /\ MailedTokens /\ ListedTokens /\ DroppedTokens /\ RevokedLinksAreDead

\* A step that leaves the tables alone, and at most begins or ends a handler
\* that holds no token.
LEMMA TokenFrame ==
  ASSUME TokenInv, UNCHANGED inviteVars,
         \A msg \in mail' : msg.kind = "invite" => msg \in mail,
         \A c \in Calls : \/ call'[c].at = call[c].at /\ call'[c].ref = call[c].ref
                          \/ call'[c].at \notin TokenSteps
  PROVE  TokenInv'
<1>1. \A c \in Calls : HandlerToken(c)'
  BY DEF TokenInv, HandlerToken, inviteVars, TokenSteps, InviteSteps
<1>2. Alone'
  BY DEF TokenInv, Alone, Storing, TokenSteps, InviteSteps
<1>3. MailedTokens' /\ ListedTokens' /\ DroppedTokens' /\ RevokedLinksAreDead'
  BY DEF TokenInv, MailedTokens, ListedTokens, DroppedTokens, RevokedLinksAreDead, inviteVars
<1> QED BY <1>1, <1>2, <1>3 DEF TokenInv

LEMMA InviteTokens ==
  ASSUME TypeOK, TokenInv, NEW c \in Calls, Invitations(c)
  PROVE  TokenInv'
<1>1. TokensType /\ CallType /\ HandlerType(c) /\ HandlerToken(c)
  BY TypeParts DEF CallType, TokenInv
<1>2. \A d \in Calls : HandlerType(d) /\ HandlerToken(d)
  BY <1>1 DEF CallType, TokenInv
<1> USE DEF Storing
<1>3. ASSUME NEW by \in DOMAIN users, NEW email \in Emails, NEW role \in InviteRoles,
             InviteBegins(c, by, email, role)
      PROVE  TokenInv'
  <2>1. PICK t \in Tokens \ minted :
          /\ Others(c) /\ call'[c].at = "invite.key" /\ call'[c].ref = t
          /\ minted' = minted \cup {t}
    BY <1>1, <1>3, BeginFacts DEF InviteBegins
  <2>2. UNCHANGED <<mail, invKeys, invRows, dropped, revoked, taken, lapsed>>
    BY <1>3 DEF InviteBegins
  <2>3. \A d \in Calls : HandlerToken(d)'
    BY <1>1, <1>2, <2>1, <2>2 DEF HandlerToken, Others, TokensType
  <2>4. Alone'
    BY <1>2, <2>1 DEF TokenInv, Alone, Others, HandlerType, TokenSteps, InviteSteps
  <2> QED BY <2>2, <2>3, <2>4 DEF TokenInv, MailedTokens, ListedTokens, DroppedTokens,
     RevokedLinksAreDead
<1>4. CASE InviteStoresKey(c)
  <2>1. /\ Others(c) /\ call[c].at = "invite.key"
        /\ call'[c].at = "invite.row" /\ call'[c].ref = call[c].ref
    BY <1>1, <1>4, AdvanceFacts DEF InviteStoresKey
  <2>2. /\ UNCHANGED <<mail, invRows, minted, dropped, revoked, taken, lapsed>>
        /\ DOMAIN invKeys' = DOMAIN invKeys \cup {call[c].ref}
    BY <1>4 DEF InviteStoresKey, PutKey, With
  <2>3. ASSUME NEW d \in Calls PROVE HandlerToken(d)'
    BY <1>1, <1>2, <2>1, <2>2 DEF HandlerToken, Others, TokenInv, Alone
  <2>4. Alone'
    BY <2>1 DEF TokenInv, Alone, Others
  <2> QED BY <1>1, <2>1, <2>2, <2>3, <2>4
       DEF TokenInv, HandlerToken, MailedTokens, ListedTokens, DroppedTokens,
       RevokedLinksAreDead, TokensType
<1>5. CASE InviteStoresRow(c)
  <2>1. /\ Others(c) /\ call[c].at = "invite.row"
        /\ call'[c].at = "invite.mail" /\ call'[c].ref = call[c].ref
    BY <1>1, <1>5, AdvanceFacts DEF InviteStoresRow
  <2>2. /\ UNCHANGED <<mail, invKeys, minted, dropped, revoked, taken, lapsed>>
        /\ DOMAIN invRows' = DOMAIN invRows \cup {call[c].ref}
    BY <1>5 DEF InviteStoresRow, PutRow, With
  <2>3. ASSUME NEW d \in Calls PROVE HandlerToken(d)'
    BY <1>1, <1>2, <2>1, <2>2 DEF HandlerToken, Others, TokenInv, Alone
  <2>4. Alone'
    BY <2>1 DEF TokenInv, Alone, Others
  <2> QED BY <1>1, <2>1, <2>2, <2>3, <2>4
       DEF TokenInv, HandlerToken, MailedTokens, ListedTokens, DroppedTokens, RevokedLinksAreDead
<1>6. CASE InviteMails(c)
  <2>1. /\ Others(c) /\ call[c].at = "invite.mail" /\ call'[c].at = "idle"
        /\ UNCHANGED inviteVars /\ mail' = mail \cup {Letter(c)}
    BY <1>1, <1>6, FinishFacts DEF InviteMails, Idle
  <2>2. \A d \in Calls : HandlerToken(d)'
    BY <1>2, <2>1 DEF HandlerToken, Others, inviteVars
  <2>3. Alone' /\ MailedTokens'
    BY <1>1, <2>1 DEF TokenInv, Alone, Others, MailedTokens, HandlerToken, Letter, inviteVars
  <2> QED BY <2>1, <2>2, <2>3 DEF TokenInv, ListedTokens, DroppedTokens, RevokedLinksAreDead,
     inviteVars
<1>7. ASSUME NEW by \in DOMAIN users, NEW t \in Tokens, RevokeBegins(c, by, t)
      PROVE  TokenInv'
  <2>1. /\ Others(c) /\ call'[c].at = "revoke.row" /\ call'[c].ref = t
        /\ t \in DOMAIN invRows /\ UNCHANGED <<mail, inviteVars>>
    BY <1>1, <1>7, BeginFacts DEF RevokeBegins
  <2>2. \A d \in Calls : HandlerToken(d)'
    BY <1>2, <2>1 DEF HandlerToken, Others, inviteVars
  <2>3. Alone'
    BY <2>1 DEF TokenInv, Alone, Others
  <2> QED BY <2>1, <2>2, <2>3
       DEF TokenInv, MailedTokens, ListedTokens, DroppedTokens, RevokedLinksAreDead, inviteVars
<1>8. CASE RevokeDeletesRow(c)
  <2>1. /\ Others(c) /\ call[c].ref \in DOMAIN invRows
        /\ call'[c].at = "revoke.key" /\ call'[c].ref = call[c].ref
    BY <1>1, <1>8, AdvanceFacts DEF RevokeDeletesRow
  <2>2. /\ UNCHANGED <<mail, invKeys, minted, revoked, taken, lapsed>>
        /\ DOMAIN invRows' = DOMAIN invRows \ {call[c].ref}
        /\ dropped' = dropped \cup {call[c].ref}
    BY <1>8 DEF RevokeDeletesRow, Without
  <2>3. \A d \in Calls : HandlerToken(d)'
    BY <1>2, <2>1, <2>2 DEF HandlerToken, Others
  <2>4. Alone'
    BY <2>1 DEF TokenInv, Alone, Others
  <2> QED BY <2>1, <2>2, <2>3, <2>4
       DEF TokenInv, MailedTokens, ListedTokens, DroppedTokens, RevokedLinksAreDead
<1>9. CASE RevokeDeletesKey(c)
  <2>1. /\ Others(c) /\ call[c].at = "revoke.key" /\ call'[c].at = "idle"
    BY <1>1, <1>9, FinishFacts DEF RevokeDeletesKey, Idle
  <2>2. /\ UNCHANGED <<mail, invRows, minted, dropped, taken, lapsed>>
        /\ DOMAIN invKeys' = DOMAIN invKeys \ {call[c].ref}
        /\ revoked' = revoked \cup {call[c].ref}
    BY <1>9 DEF RevokeDeletesKey, Without
  <2>3. call[c].ref \in dropped
    BY <1>1, <2>1 DEF HandlerToken
  <2>4. \A d \in Calls : HandlerToken(d)'
    BY <1>2, <2>1, <2>2, <2>3 DEF HandlerToken, Others
  <2>5. Alone'
    BY <2>1 DEF TokenInv, Alone, Others
  <2> QED BY <2>2, <2>3, <2>4, <2>5
       DEF TokenInv, MailedTokens, ListedTokens, DroppedTokens, RevokedLinksAreDead
<1>10. ASSUME NEW t \in Tokens, AcceptTakes(c, t)
       PROVE  TokenInv'
  <2>1. /\ Others(c) /\ call'[c].at = "accept.create"
    BY <1>1, <1>10, BeginFacts DEF AcceptTakes
  <2>2. /\ UNCHANGED <<mail, invRows, minted, dropped, revoked, lapsed>>
        /\ DOMAIN invKeys' = DOMAIN invKeys \ {t} /\ taken' = taken \cup {t}
    BY <1>10 DEF AcceptTakes, Without
  <2>3. \A d \in Calls : HandlerToken(d)'
    BY <1>2, <2>1, <2>2 DEF HandlerToken, Others
  <2>4. Alone'
    BY <2>1 DEF TokenInv, Alone, Others
  <2> QED BY <2>2, <2>3, <2>4
       DEF TokenInv, MailedTokens, ListedTokens, DroppedTokens, RevokedLinksAreDead
<1>11. CASE AcceptCreates(c)
  BY <1>1, <1>11, FinishFacts, TokenFrame DEF AcceptCreates, Idle, Others, TokenSteps, InviteSteps
<1> QED BY <1>3, <1>4, <1>5, <1>6, <1>7, <1>8, <1>9, <1>10, <1>11 DEF Invitations

LEMMA OtherTokens ==
  ASSUME TypeOK, TokenInv, NEW c \in Calls, SignUps(c) \/ SignIns(c) \/ CallFails(c)
  PROVE  TokenInv'
<1>1. UNCHANGED inviteVars
  BY DEF SignUps, SignIns, CallFails, RegisterBegins, RegisterCreates, VerifyBegins,
     AfterEmailVerified, OAuthCreateBegins, CreateWithOAuth, CreateWithOAuthRefused,
     OAuthLinkBegins, LinkOAuth, LoginBegins, LoginIssues, SwitchBegins, SwitchIssues
<1>2. \A msg \in mail' : msg.kind = "invite" => msg \in mail
  <2>1. CASE SignUps(c)
    <3>1. CASE RegisterCreates(c)
      BY <3>1 DEF RegisterCreates
    <3>2. CASE \E msg \in mail : VerifyBegins(c, msg)
      BY <3>2 DEF VerifyBegins
    <3>3. CASE UNCHANGED mail
      BY <3>3
    <3> QED
      BY <2>1, <3>1, <3>2, <3>3 DEF SignUps, RegisterBegins, AfterEmailVerified,
         OAuthCreateBegins, CreateWithOAuth, CreateWithOAuthRefused
  <2>2. CASE SignIns(c) \/ CallFails(c)
    BY <2>2 DEF SignIns, CallFails, OAuthLinkBegins, LinkOAuth, LoginBegins, LoginIssues,
       SwitchBegins, SwitchIssues
  <2> QED BY <2>1, <2>2
<1>3. \/ \E row, ref : \E at \in {"register.create", "verify.activate", "oauth.create",
                                   "oauth.link", "login.issue", "switch.issue"} :
              Begin(c, at, row, ref)
      \/ call' = [call EXCEPT ![c] = Idle]
  <2>1. CASE SignUps(c)
    BY <2>1 DEF SignUps, RegisterBegins, RegisterCreates, VerifyBegins,
       AfterEmailVerified, OAuthCreateBegins, CreateWithOAuth, CreateWithOAuthRefused, Finish
  <2>2. CASE SignIns(c) \/ CallFails(c)
    BY <2>2 DEF SignIns, CallFails, OAuthLinkBegins, LinkOAuth, LoginBegins, LoginIssues,
       SwitchBegins, SwitchIssues, Finish
  <2> QED BY <2>1, <2>2
<1>4. call'[c].at \notin TokenSteps /\ \A d \in Calls \ {c} : call'[d] = call[d]
  BY <1>3, TypeParts DEF Begin, Idle, CallType, TokenSteps, InviteSteps
<1> QED BY <1>1, <1>2, <1>4, TokenFrame

LEMMA TokenNext ==
  ASSUME TypeOK, TokenInv, [Next]_vars
  PROVE  TokenInv'
<1>1. ASSUME NEW c \in Calls, Invitations(c) \/ SignUps(c) \/ SignIns(c) \/ CallFails(c)
      PROVE  TokenInv'
  BY <1>1, InviteTokens, OtherTokens
<1>2. ASSUME NEW t \in Tokens, Expire(t)
      PROVE  TokenInv'
  <2>1. /\ UNCHANGED <<mail, call, invRows, minted, dropped, revoked, taken>>
        /\ DOMAIN invKeys' = DOMAIN invKeys \ {t} /\ lapsed' = lapsed \cup {t}
        /\ t \in DOMAIN invRows \cup DOMAIN invKeys
    BY <1>2 DEF Expire, Without
  <2>2. \A d \in Calls : HandlerToken(d)'
    BY <2>1 DEF TokenInv, HandlerToken
  <2> QED BY <2>1, <2>2
       DEF TokenInv, Alone, MailedTokens, ListedTokens, DroppedTokens, RevokedLinksAreDead
<1>3. ASSUME NEW i \in DOMAIN users, NEW email \in Emails, EmailChangeAsked(i, email)
      PROVE  TokenInv'
  BY <1>3, TokenFrame DEF EmailChangeAsked
<1>4. ASSUME NEW msg \in mail, UpdateEmail(msg)
      PROVE  TokenInv'
  BY <1>4, TokenFrame DEF UpdateEmail
<1>5. ASSUME NEW i \in DOMAIN users, NEW s \in Statuses, SetStatus(i, s)
      PROVE  TokenInv'
  BY <1>5, TypeParts, StatusFacts, TokenFrame DEF SetStatus
<1>6. CASE UNCHANGED vars
  BY <1>6, TokenFrame DEF vars, inviteVars
<1> QED BY <1>1, <1>2, <1>3, <1>4, <1>5, <1>6 DEF Next

-----------------------------------------------------------------------------
(* Rows.                                                                   *)

\* What the row of an account, or the row a key or a handler would insert,
\* says of where it came from.
RowOK(row) ==
    /\ row.from \in Ids =>
          /\ row.from \in DOMAIN users
          /\ hasRole(users[row.from].role, row.role)
          /\ row.tenant = users[row.from].tenant
    /\ row.oauth # None => row.from = "oauth"
    /\ row.from = "oauth" => row.verified

HandlerRows(c) ==
    /\ call[c].at \in InviteSteps \cup CreateSteps => RowOK(call[c].row)
    /\ call[c].at = "oauth.create" => call[c].row.from = "oauth"
    /\ call[c].at = "oauth.link" =>
          call[c].row \in Row /\ users[call[c].ref].from = "oauth"
    /\ call[c].at = "login.issue" => users[call[c].ref].verified
    /\ call[c].at \in EarningSteps => ~call[c].cut

RowsInv ==
    /\ \A i \in DOMAIN users : RowOK(users[i])
    /\ \A t \in DOMAIN invKeys : RowOK(invKeys[t])
    /\ \A c \in Calls : HandlerRows(c)

\* What no step undoes.
UsersKept ==
    /\ DOMAIN users \subseteq DOMAIN users'
    /\ \A i \in DOMAIN users :
          /\ users'[i].role = users[i].role /\ users'[i].tenant = users[i].tenant
          /\ users'[i].from = users[i].from
          /\ users[i].verified => users'[i].verified

LEMMA RowKept == ASSUME UsersKept, NEW row, RowOK(row) PROVE RowOK(row)'
  BY DEF UsersKept, RowOK

\* A row that took nothing but a status, an address or a verification.
LEMMA RowChanged ==
  ASSUME UsersKept, NEW i \in DOMAIN users, RowOK(users[i]),
         users'[i].oauth # None => users[i].from = "oauth"
  PROVE  RowOK(users[i])'
  BY DEF UsersKept, RowOK

LEMMA HandlerKept ==
  ASSUME UsersKept, NEW c \in Calls, HandlerType(c), HandlerRows(c), HandlerType(c)',
         call'[c].at = call[c].at, call'[c].row = call[c].row, call'[c].ref = call[c].ref,
         call'[c].cut => call[c].cut
  PROVE  HandlerRows(c)'
<1>1. call[c].at \in InviteSteps \cup CreateSteps => RowOK(call[c].row)'
  BY RowKept DEF HandlerRows
<1>2. call[c].at \in {"oauth.link", "login.issue"} => call[c].ref \in DOMAIN users
  BY DEF HandlerType, AccountSteps
<1> QED BY <1>1, <1>2 DEF HandlerRows, UsersKept

LEMMA SameUsers ==
  ASSUME RowsInv, UNCHANGED users
  PROVE  UsersKept /\ \A i \in DOMAIN users' : RowOK(users[i])'
<1>1. UsersKept BY DEF UsersKept
<1> QED BY <1>1, RowKept DEF RowsInv

LEMMA InsertedRow ==
  ASSUME UsersType, RowsInv, NEW row \in Row, RowOK(row), Insert(row)
  PROVE  UsersKept /\ \A i \in DOMAIN users' : RowOK(users[i])'
<1>1. DOMAIN users' = DOMAIN users \cup {NewId}
  BY DEF Insert, With
<1>2. UsersKept BY InsertFacts DEF UsersKept
<1>3. RowOK(row)' BY <1>2, RowKept
<1>4. \A i \in DOMAIN users : RowOK(users[i])'
  BY <1>2, RowKept, InsertFacts DEF RowsInv
<1>5. ASSUME NEW n, n = NewId PROVE RowOK(users[n])'
  BY <1>3, <1>5, InsertFacts
<1> QED BY <1>1, <1>2, <1>4, <1>5

\* The handlers that stand still, and the keys that stay or go, keep what
\* they hold.
LEMMA RowsFrame ==
  ASSUME CallType, CallType', RowsInv, UsersKept, NEW c \in Calls, Others(c), HandlerRows(c)',
         \A i \in DOMAIN users' : RowOK(users[i])',
         \A t \in DOMAIN invKeys' : \/ t \in DOMAIN invKeys /\ invKeys'[t] = invKeys[t]
                                    \/ RowOK(invKeys[t])'
  PROVE  RowsInv'
<1>1. ASSUME NEW t \in DOMAIN invKeys' PROVE RowOK(invKeys[t])'
  BY RowKept DEF RowsInv
<1>2. ASSUME NEW d \in Calls \ {c} PROVE HandlerRows(d)'
  BY HandlerKept DEF RowsInv, CallType, Others
<1> QED BY <1>1, <1>2 DEF RowsInv

LEMMA IdleRows == ASSUME NEW c \in Calls, call'[c] = Idle PROVE HandlerRows(c)'
  BY DEF Idle, HandlerRows, InviteSteps, CreateSteps, EarningSteps

LEMMA InviteRows ==
  ASSUME TypeOK, TypeOK', RowsInv, NEW c \in Calls, Invitations(c)
  PROVE  RowsInv'
<1>1. UsersType /\ CallType /\ CallType' /\ HandlerType(c) /\ HandlerRows(c)
  BY TypeParts, TypePartsNext DEF CallType, RowsInv
<1>2. ASSUME NEW by \in DOMAIN users, NEW email \in Emails, NEW role \in InviteRoles,
             InviteBegins(c, by, email, role)
      PROVE  RowsInv'
  <2> DEFINE row == NewRow(users[by].tenant, email, role, "ACTIVE", TRUE, None, by)
  <2>1. PICK t \in Tokens \ minted : Begin(c, "invite.key", row, t)
    BY <1>2 DEF InviteBegins
  <2>2. RowOK(row)
    BY <1>1, <1>2, NamesAssumption DEF RowOK, NewRow, InviteBegins, UsersType
  <2> HIDE DEF row
  <2>3. UsersKept /\ \A i \in DOMAIN users' : RowOK(users[i])'
    BY <1>2, SameUsers DEF InviteBegins
  <2>4. Others(c) /\ HandlerRows(c)'
    BY <1>1, <2>1, <2>2, <2>3, BeginFacts, RowKept DEF HandlerRows, InviteSteps, CreateSteps,
       EarningSteps
  <2> QED BY <1>1, <1>2, <2>3, <2>4, RowsFrame DEF InviteBegins
<1>3. CASE InviteStoresKey(c)
  <2>1. UsersKept /\ \A i \in DOMAIN users' : RowOK(users[i])'
    BY <1>3, SameUsers DEF InviteStoresKey
  <2>2. Others(c) /\ RowOK(call[c].row) /\ HandlerRows(c)'
    BY <1>1, <1>3, <2>1, AdvanceFacts, RowKept DEF InviteStoresKey, HandlerRows, InviteSteps,
       CreateSteps, EarningSteps
  <2>3. RowOK(call[c].row)' /\ call'[c].row = call[c].row
    BY <1>1, <1>3, <2>1, <2>2, AdvanceFacts, RowKept DEF InviteStoresKey
  <2>4. \A t \in DOMAIN invKeys' : \/ t \in DOMAIN invKeys /\ invKeys'[t] = invKeys[t]
                                   \/ invKeys'[t] = call'[c].row
    BY <1>3, <2>3 DEF InviteStoresKey, PutKey, With
  <2>5. \A t \in DOMAIN invKeys' : \/ t \in DOMAIN invKeys /\ invKeys'[t] = invKeys[t]
                                   \/ RowOK(invKeys[t])'
    BY <2>3, <2>4
  <2> QED BY <1>1, <2>1, <2>2, <2>5, RowsFrame
<1>4. CASE InviteStoresRow(c)
  <2>1. UsersKept /\ \A i \in DOMAIN users' : RowOK(users[i])'
    BY <1>4, SameUsers DEF InviteStoresRow
  <2>2. Others(c) /\ HandlerRows(c)'
    BY <1>1, <1>4, <2>1, AdvanceFacts, RowKept DEF InviteStoresRow, HandlerRows, InviteSteps,
       CreateSteps, EarningSteps
  <2> QED BY <1>1, <1>4, <2>1, <2>2, RowsFrame DEF InviteStoresRow
<1>5. CASE InviteMails(c)
  BY <1>1, <1>5, FinishFacts, IdleRows, SameUsers, RowsFrame DEF InviteMails, inviteVars
<1>6. ASSUME NEW by \in DOMAIN users, NEW t \in Tokens, RevokeBegins(c, by, t)
      PROVE  RowsInv'
  <2>1. Others(c) /\ HandlerRows(c)'
    BY <1>1, <1>6, BeginFacts DEF RevokeBegins, HandlerRows, InviteSteps, CreateSteps, EarningSteps
  <2> QED BY <1>1, <1>6, <2>1, SameUsers, RowsFrame DEF RevokeBegins, inviteVars
<1>7. CASE RevokeDeletesRow(c)
  <2>1. Others(c) /\ HandlerRows(c)'
    BY <1>1, <1>7, AdvanceFacts DEF RevokeDeletesRow, HandlerRows, InviteSteps, CreateSteps,
       EarningSteps
  <2> QED BY <1>1, <1>7, <2>1, SameUsers, RowsFrame DEF RevokeDeletesRow
<1>8. CASE RevokeDeletesKey(c)
  <2>1. Others(c) /\ HandlerRows(c)'
    BY <1>1, <1>8, FinishFacts, IdleRows DEF RevokeDeletesKey
  <2> QED BY <1>1, <1>8, <2>1, SameUsers, RowsFrame DEF RevokeDeletesKey, Without
<1>9. ASSUME NEW t \in Tokens, AcceptTakes(c, t)
      PROVE  RowsInv'
  <2>1. RowOK(invKeys[t])
    BY <1>9 DEF AcceptTakes, RowsInv
  <2>2. UsersKept /\ \A i \in DOMAIN users' : RowOK(users[i])'
    BY <1>9, SameUsers DEF AcceptTakes
  <2>3. Others(c) /\ HandlerRows(c)'
    BY <1>1, <1>9, <2>1, <2>2, BeginFacts, RowKept DEF AcceptTakes, HandlerRows, InviteSteps,
       CreateSteps, EarningSteps
  <2> QED BY <1>1, <1>9, <2>2, <2>3, RowsFrame DEF AcceptTakes, Without
<1>10. CASE AcceptCreates(c)
  <2>1. call[c].row \in Row /\ RowOK(call[c].row) /\ Others(c) /\ HandlerRows(c)'
    BY <1>1, <1>10, FinishFacts, IdleRows DEF AcceptCreates, HandlerType, HandlerRows, CreateSteps
  <2>2. UsersKept /\ \A i \in DOMAIN users' : RowOK(users[i])'
    BY <1>1, <1>10, <2>1, InsertedRow DEF AcceptCreates
  <2> QED BY <1>1, <1>10, <2>1, <2>2, RowsFrame DEF AcceptCreates, inviteVars
<1> QED BY <1>2, <1>3, <1>4, <1>5, <1>6, <1>7, <1>8, <1>9, <1>10 DEF Invitations

LEMMA SignUpRows ==
  ASSUME TypeOK, TypeOK', RowsInv, NEW c \in Calls, SignUps(c)
  PROVE  RowsInv'
<1>1. UsersType /\ MailType /\ CallType /\ CallType' /\ HandlerType(c) /\ HandlerRows(c)
  BY TypeParts, TypePartsNext DEF CallType, RowsInv
<1>2. ASSUME NEW tenant \in Tenants, NEW email \in Emails, RegisterBegins(c, tenant, email)
      PROVE  RowsInv'
  <2> DEFINE row == NewRow(tenant, email, "MEMBER", "PENDING", FALSE, None, "register")
  <2>1. Begin(c, "register.create", row, None) /\ RowOK(row)
    BY <1>2, NamesAssumption DEF RegisterBegins, RowOK, NewRow
  <2> HIDE DEF row
  <2>2. UsersKept /\ \A i \in DOMAIN users' : RowOK(users[i])'
    BY <1>2, SameUsers DEF RegisterBegins
  <2>3. Others(c) /\ HandlerRows(c)'
    BY <1>1, <2>1, <2>2, BeginFacts, RowKept DEF HandlerRows, InviteSteps, CreateSteps, EarningSteps
  <2> QED BY <1>1, <1>2, <2>2, <2>3, RowsFrame DEF RegisterBegins, inviteVars
<1>3. CASE RegisterCreates(c)
  <2>1. call[c].row \in Row /\ RowOK(call[c].row) /\ Others(c) /\ HandlerRows(c)'
    BY <1>1, <1>3, FinishFacts, IdleRows DEF RegisterCreates, HandlerType, HandlerRows, CreateSteps
  <2>2. UsersKept /\ \A i \in DOMAIN users' : RowOK(users[i])'
    BY <1>1, <1>3, <2>1, InsertedRow DEF RegisterCreates
  <2> QED BY <1>1, <1>3, <2>1, <2>2, RowsFrame DEF RegisterCreates, inviteVars
<1>4. ASSUME NEW msg \in mail, VerifyBegins(c, msg)
      PROVE  RowsInv'
  <2>1. UsersKept /\ \A i \in DOMAIN users' : i \in DOMAIN users /\ users'[i].oauth = users[i].oauth
    BY <1>1, <1>4 DEF VerifyBegins, UsersKept, UsersType, Row
  <2>2. \A i \in DOMAIN users' : RowOK(users[i])'
    BY <2>1, RowChanged DEF RowsInv, RowOK
  <2>3. Others(c) /\ HandlerRows(c)'
    BY <1>1, <1>4, BeginFacts DEF VerifyBegins, HandlerRows, InviteSteps, CreateSteps, EarningSteps
  <2> QED BY <1>1, <1>4, <2>1, <2>2, <2>3, RowsFrame DEF VerifyBegins, inviteVars
<1>5. CASE AfterEmailVerified(c)
  <2>1. UsersKept /\ \A i \in DOMAIN users' : i \in DOMAIN users /\ users'[i].oauth = users[i].oauth
    BY <1>1, <1>5 DEF AfterEmailVerified, UsersKept, UsersType, Row
  <2>2. \A i \in DOMAIN users' : RowOK(users[i])'
    BY <2>1, RowChanged DEF RowsInv, RowOK
  <2>3. Others(c) /\ HandlerRows(c)'
    BY <1>1, <1>5, FinishFacts, IdleRows DEF AfterEmailVerified
  <2> QED BY <1>1, <1>5, <2>1, <2>2, <2>3, RowsFrame DEF AfterEmailVerified, inviteVars
<1>6. ASSUME NEW s \in Subjects, NEW tenant \in Tenants, NEW status \in OAuthStatuses,
             OAuthCreateBegins(c, s, tenant, status)
      PROVE  RowsInv'
  <2> DEFINE row == OAuthRow(s, tenant, status)
  <2>1. Begin(c, "oauth.create", row, s) /\ RowOK(row) /\ row.from = "oauth"
    BY <1>6, NamesAssumption DEF OAuthCreateBegins, RowOK, OAuthRow, NewRow
  <2>2. s \notin DOMAIN users
    BY <1>1, NamesAssumption DEF UsersType
  <2> HIDE DEF row
  <2>3. UsersKept /\ \A i \in DOMAIN users' : RowOK(users[i])'
    BY <1>6, SameUsers DEF OAuthCreateBegins
  <2>4. Others(c) /\ HandlerRows(c)'
    BY <1>1, <2>1, <2>2, <2>3, BeginFacts, RowKept DEF HandlerRows, InviteSteps, CreateSteps,
       EarningSteps
  <2> QED BY <1>1, <1>6, <2>3, <2>4, RowsFrame DEF OAuthCreateBegins, inviteVars
<1>7. CASE CreateWithOAuth(c)
  <2>1. call[c].row \in Row /\ RowOK(call[c].row) /\ Others(c) /\ HandlerRows(c)'
    BY <1>1, <1>7, FinishFacts, IdleRows DEF CreateWithOAuth, HandlerType, HandlerRows, CreateSteps
  <2>2. UsersKept /\ \A i \in DOMAIN users' : RowOK(users[i])'
    BY <1>1, <1>7, <2>1, InsertedRow DEF CreateWithOAuth
  <2> QED BY <1>1, <1>7, <2>1, <2>2, RowsFrame DEF CreateWithOAuth, inviteVars
<1>8. CASE CreateWithOAuthRefused(c)
  BY <1>1, <1>8, FinishFacts, IdleRows, SameUsers, RowsFrame DEF CreateWithOAuthRefused, inviteVars
<1> QED BY <1>2, <1>3, <1>4, <1>5, <1>6, <1>7, <1>8 DEF SignUps

LEMMA SignInRows ==
  ASSUME TypeOK, TypeOK', RowsInv, NEW c \in Calls, SignIns(c) \/ CallFails(c)
  PROVE  RowsInv'
<1>1. UsersType /\ CallType /\ CallType' /\ HandlerType(c) /\ HandlerRows(c)
  BY TypeParts, TypePartsNext DEF CallType, RowsInv
<1>2. ASSUME NEW s \in Subjects, NEW tenant \in Tenants, OAuthLinkBegins(c, s, tenant)
      PROVE  RowsInv'
  <2> DEFINE row == OAuthRow(s, tenant, "ACTIVE")
  <2>1. PICK i \in DOMAIN users :
          users[i].oauth = s /\ users[i].status \notin Blocked /\ Begin(c, "oauth.link", row, i)
    BY <1>2 DEF OAuthLinkBegins, FoundByOAuthId
  <2>2. row \in Row /\ users[i].from = "oauth" /\ SignedIn(i)
    BY <2>1, NamesAssumption DEF OAuthRow, NewRow, Row, Roles, Statuses, RowsInv, RowOK, SignedIn
  <2> HIDE DEF row
  <2>3. Others(c) /\ HandlerRows(c)'
    BY <1>1, <1>2, <2>1, <2>2, BeginFacts DEF OAuthLinkBegins, HandlerRows, InviteSteps,
       CreateSteps, EarningSteps
  <2> QED BY <1>1, <1>2, <2>3, SameUsers, RowsFrame DEF OAuthLinkBegins, inviteVars
<1>3. CASE LinkOAuth(c)
  <2>1. /\ call[c].ref \in DOMAIN users /\ users[call[c].ref].from = "oauth"
        /\ Others(c) /\ HandlerRows(c)'
    BY <1>1, <1>3, FinishFacts, IdleRows DEF LinkOAuth, HandlerRows, HandlerType, AccountSteps
  <2>2. UsersKept /\ DOMAIN users' = DOMAIN users
    BY <1>1, <1>3 DEF LinkOAuth, UsersKept, UsersType, Row
  <2>3. \A i \in DOMAIN users : i # call[c].ref => users'[i] = users[i]
    BY <1>3 DEF LinkOAuth
  <2>4. \A i \in DOMAIN users' : RowOK(users[i])'
    BY <2>1, <2>2, <2>3, RowChanged DEF RowsInv, RowOK
  <2> QED BY <1>1, <1>3, <2>1, <2>2, <2>4, RowsFrame DEF LinkOAuth, inviteVars
<1>4. ASSUME NEW i \in DOMAIN users, LoginBegins(c, i)
      PROVE  RowsInv'
  <2>1. Others(c) /\ HandlerRows(c)'
    BY <1>1, <1>4, BeginFacts DEF LoginBegins, SignedIn, HandlerRows, InviteSteps, CreateSteps,
       EarningSteps
  <2> QED BY <1>1, <1>4, <2>1, SameUsers, RowsFrame DEF LoginBegins, inviteVars
<1>5. CASE LoginIssues(c)
  BY <1>1, <1>5, FinishFacts, IdleRows, SameUsers, RowsFrame DEF LoginIssues, inviteVars
<1>6. ASSUME NEW i \in DOMAIN users, NEW tenant \in Tenants, SwitchBegins(c, i, tenant)
      PROVE  RowsInv'
  <2>1. PICK j \in DOMAIN users : users[j].status = "ACTIVE" /\ Begin(c, "switch.issue", None, j)
    BY <1>6 DEF SwitchBegins, findSwitchTarget
  <2>2. Others(c) /\ HandlerRows(c)'
    BY <1>1, <1>6, <2>1, BeginFacts DEF SwitchBegins, SignedIn, Blocked, HandlerRows,
       InviteSteps, CreateSteps, EarningSteps
  <2> QED BY <1>1, <1>6, <2>2, SameUsers, RowsFrame DEF SwitchBegins, inviteVars
<1>7. CASE SwitchIssues(c)
  BY <1>1, <1>7, FinishFacts, IdleRows, SameUsers, RowsFrame DEF SwitchIssues, inviteVars
<1>8. CASE CallFails(c)
  <2>1. Others(c) /\ HandlerRows(c)'
    BY <1>1, <1>8, IdleRows DEF CallFails, Others, CallType
  <2> QED BY <1>1, <1>8, <2>1, SameUsers, RowsFrame DEF CallFails, inviteVars
<1> QED BY <1>2, <1>3, <1>4, <1>5, <1>6, <1>7, <1>8 DEF SignIns

\* No handler moves.
LEMMA RowsQuiet ==
  ASSUME CallType, CallType', RowsInv, UsersKept,
         \A i \in DOMAIN users' : RowOK(users[i])',
         \A t \in DOMAIN invKeys' : t \in DOMAIN invKeys /\ invKeys'[t] = invKeys[t],
         \A c \in Calls : /\ call'[c].at = call[c].at /\ call'[c].row = call[c].row
                          /\ call'[c].ref = call[c].ref /\ (call'[c].cut => call[c].cut)
  PROVE  RowsInv'
<1>1. ASSUME NEW t \in DOMAIN invKeys' PROVE RowOK(invKeys[t])'
  BY RowKept DEF RowsInv
<1>2. ASSUME NEW c \in Calls PROVE HandlerRows(c)'
  BY HandlerKept DEF RowsInv, CallType
<1> QED BY <1>1, <1>2 DEF RowsInv

LEMMA RowsNext ==
  ASSUME TypeOK, TypeOK', RowsInv, [Next]_vars
  PROVE  RowsInv'
<1>1. UsersType /\ MailType /\ CallType /\ CallType'
  BY TypeParts, TypePartsNext
<1>2. ASSUME NEW c \in Calls, Invitations(c) \/ SignUps(c) \/ SignIns(c) \/ CallFails(c)
      PROVE  RowsInv'
  BY <1>2, InviteRows, SignUpRows, SignInRows
<1>3. ASSUME NEW t \in Tokens, Expire(t)
      PROVE  RowsInv'
  BY <1>1, <1>3, SameUsers, RowsQuiet DEF Expire, Without
<1>4. ASSUME NEW i \in DOMAIN users, NEW email \in Emails, EmailChangeAsked(i, email)
      PROVE  RowsInv'
  BY <1>1, <1>4, SameUsers, RowsQuiet DEF EmailChangeAsked, inviteVars
<1>5. ASSUME NEW msg \in mail, UpdateEmail(msg)
      PROVE  RowsInv'
  <2>1. UsersKept /\ \A i \in DOMAIN users' : i \in DOMAIN users /\ users'[i].oauth = users[i].oauth
    BY <1>1, <1>5 DEF UpdateEmail, UsersKept, UsersType, Row
  <2>2. \A i \in DOMAIN users' : RowOK(users[i])'
    BY <2>1, RowChanged DEF RowsInv, RowOK
  <2> QED BY <1>1, <1>5, <2>1, <2>2, RowsQuiet DEF UpdateEmail, inviteVars
<1>6. ASSUME NEW i \in DOMAIN users, NEW s \in Statuses, SetStatus(i, s)
      PROVE  RowsInv'
  <2>1. UsersKept /\ \A j \in DOMAIN users' : j \in DOMAIN users /\ users'[j].oauth = users[j].oauth
    BY <1>1, <1>6 DEF SetStatus, UsersKept, UsersType, Row
  <2>2. \A j \in DOMAIN users' : RowOK(users[j])'
    BY <2>1, RowChanged DEF RowsInv, RowOK
  <2>3. \A c \in Calls : /\ call'[c].at = call[c].at /\ call'[c].row = call[c].row
                         /\ call'[c].ref = call[c].ref /\ (call'[c].cut => call[c].cut)
    BY <1>1, <1>6, StatusFacts
  <2>4. UNCHANGED invKeys
    BY <1>6 DEF SetStatus, inviteVars
  <2> QED BY <1>1, <2>1, <2>2, <2>3, <2>4, RowsQuiet
<1>7. CASE UNCHANGED vars
  BY <1>1, <1>7, SameUsers, RowsQuiet DEF vars, inviteVars
<1> QED BY <1>2, <1>3, <1>4, <1>5, <1>6, <1>7 DEF Next

-----------------------------------------------------------------------------
(* The theorems.                                                           *)

IInv == TypeOK /\ TokenInv /\ RowsInv

LEMMA InitInv == Init => IInv
<1> SUFFICES ASSUME Init PROVE IInv
  OBVIOUS
<1>1. TypeOK
  <2>1. users = Seed /\ users \in [DOMAIN users -> Row] /\ DOMAIN users \subseteq Ids
    BY SeedAssumption DEF Init
  <2>2. invKeys \in [DOMAIN invKeys -> Row] /\ invRows \in [DOMAIN invRows -> Tenants]
        /\ DOMAIN invKeys = {} /\ DOMAIN invRows = {}
    BY DEF Init
  <2>3. answer \in [by : Calls \cup {None}, says : {"", "done", "mismatch"} \cup DOMAIN users]
    BY DEF Init, Nothing
  <2>4. call = [c \in Calls |-> Idle]
    BY DEF Init
  <2>5. CallType
    BY <2>4 DEF CallType, HandlerType, Idle, Steps, InviteSteps, CreateSteps, AccountSteps,
       TokenSteps
  <2>6. UsersType /\ TokensType /\ MailType
    BY <2>1, <2>2 DEF Init, UsersType, TokensType, MailType
  <2> QED BY <2>3, <2>5, <2>6, TypeParts DEF AnswerType, Result
<1>2. TokenInv
  BY DEF Init, Idle, TokenInv, HandlerToken, Alone, Storing, MailedTokens, ListedTokens,
     DroppedTokens, RevokedLinksAreDead
<1>3. RowsInv
  <2>1. \A i \in DOMAIN users : RowOK(users[i])
    BY SeedAssumption, NamesAssumption DEF Init, RowOK
  <2> QED BY <2>1 DEF Init, Idle, RowsInv, HandlerRows, InviteSteps, CreateSteps, EarningSteps
<1> QED BY <1>1, <1>2, <1>3 DEF IInv

LEMMA TypeNext ==
  ASSUME TypeOK, TokenInv, RowsInv, [Next]_vars
  PROVE  TypeOK'
<1>1. CASE UNCHANGED vars
  BY <1>1 DEF vars, TypeOK
<1>2. CASE \E c \in Calls : Invitations(c) \/ SignUps(c) \/ SignIns(c) \/ CallFails(c)
  BY <1>2, InviteTypes, SignUpTypes, SignInTypes DEF TokenInv, HandlerToken, RowsInv, HandlerRows
<1> QED BY <1>1, <1>2, OtherTypes DEF Next

\* The inductive invariant: the types, what every handler may count on about
\* its token, and where every row came from.
THEOREM OnboardingInvariance == Spec => []IInv
<1>1. IInv /\ [Next]_vars => IInv'
  BY TypeNext, TokenNext, RowsNext DEF IInv
<1> QED BY InitInv, <1>1, PTL DEF Spec

\* Rows, links, handlers and answers keep the shape the services give them.
THEOREM OnboardingTypeCorrect == Spec => []TypeOK
<1>1. IInv => TypeOK BY DEF IInv
<1> QED BY OnboardingInvariance, <1>1, PTL

\* A mailed link somebody can follow is one listByTenant shows and revoke can
\* end, or its row is gone already (create's Redis set before its row).
THEOREM LinksAreListed == Spec => []MailedLinksAreListed
<1>1. IInv => MailedLinksAreListed
  BY DEF IInv, TokenInv, MailedTokens, MailedLinksAreListed
<1> QED BY OnboardingInvariance, <1>1, PTL

\* listByTenant offers no link that is dead for any other reason than its use.
THEOREM ListIsLive == Spec => []ListedLinksWork
<1>1. IInv => ListedLinksWork
  BY DEF IInv, TokenInv, ListedTokens, ListedLinksWork, Listed
<1> QED BY OnboardingInvariance, <1>1, PTL

\* Nothing brings a link back after revoke deleted its row and its Redis key.
THEOREM RevocationIsFinal == Spec => []RevokedLinksAreDead
<1>1. IInv => RevokedLinksAreDead
  BY DEF IInv, TokenInv
<1> QED BY OnboardingInvariance, <1>1, PTL

\* However long the chain of invitations, nobody it made holds a role above
\* the one they were invited by, or sits in another workspace (create's guards).
THEOREM RolesNeverRise == Spec => []InvitationsNeverRise
<1>1. IInv => InvitationsNeverRise
  BY DEF IInv, RowsInv, RowOK, InvitationsNeverRise
<1> QED BY OnboardingInvariance, <1>1, PTL

\* No interleaving of sign-ups, links and changes of address puts a Google
\* identity on an account no Google sign-in created (onOAuthLogin, linkOAuth).
THEOREM GoogleStays == Spec => []GoogleStaysWithItsAccount
<1>1. IInv => GoogleStaysWithItsAccount
  BY DEF IInv, RowsInv, RowOK, GoogleStaysWithItsAccount
<1> QED BY OnboardingInvariance, <1>1, PTL

\* Tokens come out of four steps alone; the others answer something else.
LEMMA EarnedStep ==
  ASSUME IInv, TypeOK', Next, answer'.says \in DOMAIN users'
  PROVE  ~call[answer'.by].cut /\ users'[answer'.says].verified
<1>1. /\ UsersType /\ CallType /\ DOMAIN users' \subseteq Ids
      /\ \A c \in Calls : HandlerType(c) /\ HandlerRows(c)
  BY TypeParts, TypePartsNext DEF IInv, RowsInv, CallType, UsersType
<1>2. \A says \in Result : answer'.says # says
  BY <1>1, NamesAssumption DEF Result
<1>3. /\ answer' # Nothing
      /\ \A c \in Calls : \A from : ~Finish(c, from, "done") /\ ~Finish(c, from, "mismatch")
  <2>1. answer'.says # "" /\ answer'.says # "done" /\ answer'.says # "mismatch"
    BY <1>2 DEF Result
  <2>2. ASSUME answer' = Nothing PROVE FALSE
    <3>1. Nothing.says = "" BY DEF Nothing
    <3> QED BY <2>1, <2>2, <3>1
  <2>3. ASSUME NEW c \in Calls, NEW from, NEW says \in {"done", "mismatch"}, Finish(c, from, says)
        PROVE  FALSE
    <3>1. answer' = [by |-> c, says |-> says] BY <2>3 DEF Finish
    <3>2. answer'.says = says BY <3>1
    <3> QED BY <2>1, <3>2
  <2> QED BY <2>2, <2>3
<1>4. \A c \in Calls : /\ \A at, row, ref : ~Begin(c, at, row, ref)
                       /\ \A from, to : ~Advance(c, from, to)
  BY <1>3 DEF Begin, Advance
<1>5. ASSUME NEW c \in Calls, Invitations(c) \/ CallFails(c)
      PROVE  FALSE
  BY <1>3, <1>4, <1>5 DEF Invitations, CallFails, InviteBegins, InviteStoresKey, InviteStoresRow,
     InviteMails, RevokeBegins, RevokeDeletesRow, RevokeDeletesKey, AcceptTakes, AcceptCreates
<1>6. ASSUME NEW c \in Calls, SignUps(c)
      PROVE  CreateWithOAuth(c)
  BY <1>3, <1>4, <1>6 DEF SignUps, RegisterBegins, RegisterCreates, VerifyBegins,
     AfterEmailVerified, OAuthCreateBegins, CreateWithOAuthRefused
<1>7. ASSUME NEW c \in Calls, SignIns(c)
      PROVE  LinkOAuth(c) \/ LoginIssues(c) \/ SwitchIssues(c)
  BY <1>3, <1>4, <1>7 DEF SignIns, OAuthLinkBegins, LoginBegins, SwitchBegins
<1>8. PICK c \in Calls : CreateWithOAuth(c) \/ LinkOAuth(c) \/ LoginIssues(c) \/ SwitchIssues(c)
  BY <1>3, <1>5, <1>6, <1>7 DEF Next, Expire, EmailChangeAsked, UpdateEmail, SetStatus
<1>9. CASE CreateWithOAuth(c)
  <2> DEFINE says == IF call[c].row.status \in Blocked THEN "done" ELSE NewId
  <2>1. Finish(c, "oauth.create", says) /\ Insert(call[c].row) /\ call[c].at = "oauth.create"
    BY <1>9 DEF CreateWithOAuth
  <2>2. says = NewId /\ answer'.by = c /\ answer'.says = NewId
    BY <1>3, <2>1 DEF Finish
  <2>3. call[c].row \in Row /\ call[c].row.verified /\ ~call[c].cut
    BY <1>1, <2>1 DEF HandlerType, HandlerRows, RowOK, CreateSteps, EarningSteps
  <2>4. users'[NewId] = call[c].row
    BY <1>1, <2>1, <2>3, InsertFacts
  <2> QED BY <2>2, <2>3, <2>4
<1>10. CASE LinkOAuth(c)
  <2>1. /\ answer'.by = c /\ answer'.says = call[c].ref /\ call[c].at = "oauth.link"
        /\ users' = [users EXCEPT ![call[c].ref].oauth = call[c].row.oauth]
    BY <1>10 DEF LinkOAuth, Finish
  <2>2. /\ call[c].ref \in DOMAIN users /\ ~call[c].cut
        /\ users[call[c].ref].from = "oauth"
    BY <1>1, <2>1 DEF HandlerType, HandlerRows, AccountSteps, EarningSteps
  <2>3. users[call[c].ref].verified
    BY <2>2 DEF IInv, RowsInv, RowOK
  <2>4. users'[call[c].ref].verified = users[call[c].ref].verified
    BY <1>1, <2>1, <2>2 DEF UsersType, Row
  <2> QED BY <2>1, <2>2, <2>3, <2>4
<1>11. CASE LoginIssues(c)
  BY <1>1, <1>11 DEF LoginIssues, Finish, HandlerRows, EarningSteps
<1>12. CASE SwitchIssues(c)
  BY <1>1, <1>12 DEF SwitchIssues, Finish, HandlerRows, EarningSteps
<1> QED BY <1>8, <1>9, <1>10, <1>11, <1>12

\* Whatever happens to the account between the steps of a sign-in or a switch,
\* no token comes of one that began while the account was cut off and stayed
\* so, and none goes to an address nobody proved (login, switchTenant).
THEOREM TokensAreAlwaysEarned == Spec => TokensAreEarned
<1>1. IInv /\ IInv' /\ [Next]_vars =>
        [answer'.says \in DOMAIN users' =>
            ~call[answer'.by].cut /\ users'[answer'.says].verified]_vars
  BY EarnedStep DEF IInv
<1> QED BY OnboardingInvariance, <1>1, PTL DEF Spec, TokensAreEarned
=============================================================================
