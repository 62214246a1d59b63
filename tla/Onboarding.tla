------------------------------ MODULE Onboarding ------------------------------
(***************************************************************************)
(* How a person comes to hold an account in a workspace, and tokens for    *)
(* it: invitations, self-registration and its verification, Google         *)
(* sign-in, password sign-in, the workspace switch, a change of address.   *)
(* Every handler is cut at its awaits, and any of them may end there: an   *)
(* I/O error, or the process going away.                                   *)
(***************************************************************************)
EXTENDS FiniteSets

CONSTANTS
    Ids,            \* account ids the database can still hand out
    Tenants, Emails,
    Subjects,       \* Google identities
    Tokens,         \* invitation tokens, each generated at most once
    Calls,          \* handlers the API runs at the same time
    InviteRoles,    \* the roles the invitation form offers
    Seed,           \* the accounts there are at the start
    GmailOf,        \* the address of each Google identity
    OAuthStatuses   \* statuses the caller of createWithOAuth may ask for

Roles == {"OWNER", "ADMIN", "MEMBER", "VIEWER"}
Statuses == {"PENDING", "ACTIVE", "SUSPENDED"}
Blocked == {"SUSPENDED"}        \* BANNED and INACTIVE are treated alike
None == "none"

ROLE_HIERARCHY == [OWNER |-> {"ADMIN", "MEMBER", "VIEWER"},
                   ADMIN |-> {"MEMBER", "VIEWER"},
                   MEMBER |-> {"VIEWER"},
                   VIEWER |-> {}]

hasRole(role, wanted) == role = wanted \/ wanted \in ROLE_HIERARCHY[role]

(* A row of users; "from" remembers where it came from: an inviter's id,   *)
(* or the kind of sign-up.                                                 *)
Row == [tenant : Tenants, email : Emails, role : Roles, status : Statuses,
        verified : BOOLEAN, oauth : Subjects \cup {None},
        from : Ids \cup {"seed", "register", "oauth"}]

ASSUME SeedAssumption ==
    /\ DOMAIN Seed \subseteq Ids
    /\ Seed \in [DOMAIN Seed -> Row]
    /\ \A i \in DOMAIN Seed : Seed[i].from = "seed" /\ Seed[i].oauth = None
ASSUME NamesAssumption ==
    /\ (Ids \cup Tokens) \cap {None, "", "mismatch", "done", "seed", "register", "oauth"} = {}
    /\ None \notin Subjects /\ Subjects \cap Ids = {}
    /\ GmailOf \in [Subjects -> Emails]
    /\ InviteRoles \subseteq Roles
    /\ OAuthStatuses \subseteq Statuses

VARIABLES
    users,      \* the users table
    invKeys,    \* Redis: token -> the payload, kept as the row it would create
    invRows,    \* the invitations table: token -> tenant
    mail,       \* what the mail provider has delivered and nobody has used yet
    call,       \* per handler: where it stands and what it holds
    answer,     \* what the last step answered, and which handler
    minted, dropped, revoked, taken, lapsed
                \* tokens generated, their row deleted, their revocation
                \* finished, consumed by an acceptance, past their 48 hours

inviteVars == <<invKeys, invRows, minted, dropped, revoked, taken, lapsed>>
vars == <<users, invKeys, invRows, mail, call, answer, minted, dropped, revoked, taken, lapsed>>

Idle == [at |-> "idle", row |-> None, ref |-> None, cut |-> FALSE]
Nothing == [by |-> None, says |-> ""]

Init ==
    /\ users = Seed
    /\ invKeys = <<>>
    /\ invRows = <<>>
    /\ mail = {}
    /\ call = [c \in Calls |-> Idle]
    /\ answer = Nothing
    /\ minted = {} /\ dropped = {} /\ revoked = {} /\ taken = {} /\ lapsed = {}

Without(f, x) == [y \in DOMAIN f \ {x} |-> f[y]]
With(f, x, v) == [y \in DOMAIN f \cup {x} |-> IF y = x THEN v ELSE f[y]]

(* A session whose holder the guards let through.                          *)
SignedIn(i) == i \in DOMAIN users /\ users[i].status \notin Blocked

(* "cut": the account the handler is about was cut off when it began; one  *)
(* that is let back in meanwhile is not any more (SetStatus).              *)
Begin(c, at, row, ref) ==
    /\ call[c].at = "idle"
    /\ call' = [call EXCEPT ![c] = [at |-> at, row |-> row, ref |-> ref,
                                    cut |-> ref \in DOMAIN users /\ ~SignedIn(ref)]]
    /\ answer' = Nothing
Advance(c, from, to) ==
    /\ call[c].at = from
    /\ call' = [call EXCEPT ![c].at = to]
    /\ answer' = Nothing
(* An account's id as the answer stands for tokens for that account.       *)
Finish(c, from, says) ==
    /\ call[c].at = from
    /\ call' = [call EXCEPT ![c] = Idle]
    /\ answer' = [by |-> c, says |-> says]

(* The handler throws at whatever it awaits, or the process is gone.       *)
CallFails(c) ==
    /\ call[c].at # "idle"
    /\ call' = [call EXCEPT ![c] = Idle]
    /\ answer' = Nothing
    /\ UNCHANGED <<users, inviteVars, mail>>

-----------------------------------------------------------------------------
(* The users table: its two unique indexes decide every insertion.         *)

AddressTaken(tenant, email) ==
    \E i \in DOMAIN users : users[i].tenant = tenant /\ users[i].email = email
Conflicts(row) ==
    \/ AddressTaken(row.tenant, row.email)
    \/ row.oauth # None /\ \E i \in DOMAIN users : users[i].oauth = row.oauth

(* The id the database generates.                                          *)
NewId == CHOOSE i \in Ids \ DOMAIN users : TRUE

Insert(row) ==
    /\ Ids \ DOMAIN users # {}
    /\ users' = With(users, NewId, row)

NewRow(tenant, email, role, status, verified, oauth, from) ==
    [tenant |-> tenant, email |-> email, role |-> role, status |-> status,
     verified |-> verified, oauth |-> oauth, from |-> from]

-----------------------------------------------------------------------------
(* Invitations.                                                            *)

(* Fault: the role asked for is not compared with the inviter's.           *)
InviteUnchecked(c, by, email, role) ==
    /\ SignedIn(by)
    /\ hasRole(users[by].role, "ADMIN")
    /\ \E t \in Tokens \ minted :
          /\ Begin(c, "invite.key",
                   NewRow(users[by].tenant, email, role, "ACTIVE", TRUE, None, by), t)
          /\ minted' = minted \cup {t}
    /\ UNCHANGED <<users, invKeys, invRows, mail, dropped, revoked, taken, lapsed>>

InviteBegins(c, by, email, role) ==
    /\ SignedIn(by)
    /\ hasRole(users[by].role, "ADMIN")
    /\ hasRole(users[by].role, role)
    /\ \E t \in Tokens \ minted :
          /\ Begin(c, "invite.key",
                   NewRow(users[by].tenant, email, role, "ACTIVE", TRUE, None, by), t)
          /\ minted' = minted \cup {t}
    /\ UNCHANGED <<users, invKeys, invRows, mail, dropped, revoked, taken, lapsed>>

PutKey(c) == invKeys' = With(invKeys, call[c].ref, call[c].row)
PutRow(c) == invRows' = With(invRows, call[c].ref, call[c].row.tenant)

Letter(c) == [kind |-> "invite", to |-> call[c].row.email, ref |-> call[c].ref]

(* Fault: the message leaves before the row is written.                    *)
MailBeforeRow(c) ==
    /\ Advance(c, "invite.key", "invite.row")
    /\ PutKey(c)
    /\ mail' = mail \cup {Letter(c)}
    /\ UNCHANGED <<users, invRows, minted, dropped, revoked, taken, lapsed>>

(* Fault: the key is written under a name the accept route does not read.  *)
StoreKeyElsewhere(c) ==
    /\ Advance(c, "invite.key", "invite.row")
    /\ UNCHANGED <<users, mail, inviteVars>>

InviteStoresKey(c) ==
    /\ Advance(c, "invite.key", "invite.row")
    /\ PutKey(c)
    /\ UNCHANGED <<users, mail, invRows, minted, dropped, revoked, taken, lapsed>>

InviteStoresRow(c) ==
    /\ Advance(c, "invite.row", "invite.mail")
    /\ PutRow(c)
    /\ UNCHANGED <<users, mail, invKeys, minted, dropped, revoked, taken, lapsed>>

(* The message carries the raw token, which is kept nowhere else: until it *)
(* is delivered nobody can present it.                                     *)
InviteMails(c) ==
    /\ Finish(c, "invite.mail", "done")
    /\ mail' = mail \cup {Letter(c)}
    /\ UNCHANGED <<users, inviteVars>>

(* listByTenant: acceptedAt is null in every row, nothing writes it.       *)
Listed(tenant) == {t \in DOMAIN invRows : invRows[t] = tenant /\ t \notin lapsed}

RevokeBegins(c, by, t) ==
    /\ SignedIn(by)
    /\ hasRole(users[by].role, "ADMIN")
    /\ t \in DOMAIN invRows
    /\ invRows[t] = users[by].tenant
    /\ Begin(c, "revoke.row", None, t)
    /\ UNCHANGED <<users, mail, inviteVars>>

RevokeDeletesRow(c) ==
    /\ Advance(c, "revoke.row", "revoke.key")
    /\ call[c].ref \in DOMAIN invRows           \* else the delete throws: CallFails
    /\ invRows' = Without(invRows, call[c].ref)
    /\ dropped' = dropped \cup {call[c].ref}
    /\ UNCHANGED <<users, mail, invKeys, minted, revoked, taken, lapsed>>

(* Fault: the delete names the key without the namespace it was set under. *)
DeleteOtherKey(c) ==
    /\ Finish(c, "revoke.key", "done")
    /\ revoked' = revoked \cup {call[c].ref}
    /\ UNCHANGED <<users, mail, invKeys, invRows, minted, dropped, taken, lapsed>>

(* A failing DEL is logged and the answer is 204 all the same: CallFails.  *)
RevokeDeletesKey(c) ==
    /\ Finish(c, "revoke.key", "done")
    /\ invKeys' = Without(invKeys, call[c].ref)
    /\ revoked' = revoked \cup {call[c].ref}
    /\ UNCHANGED <<users, mail, invRows, minted, dropped, taken, lapsed>>

Expire(t) ==
    /\ t \in (DOMAIN invRows \cup DOMAIN invKeys) \ lapsed
    /\ invKeys' = Without(invKeys, t)
    /\ lapsed' = lapsed \cup {t}
    /\ answer' = Nothing
    /\ UNCHANGED <<users, mail, call, invRows, minted, dropped, revoked, taken>>

(* The library's accept route: consume the token, create what it says.     *)
AcceptTakes(c, t) ==
    /\ t \in DOMAIN invKeys
    /\ \E msg \in mail : msg.kind = "invite" /\ msg.ref = t
    /\ Begin(c, "accept.create", invKeys[t], t)
    /\ invKeys' = Without(invKeys, t)
    /\ taken' = taken \cup {t}
    /\ UNCHANGED <<users, mail, invRows, minted, dropped, revoked, lapsed>>

AcceptCreates(c) ==
    /\ Finish(c, "accept.create", "done")
    /\ ~Conflicts(call[c].row)                  \* else the insert throws: CallFails
    /\ Insert(call[c].row)
    /\ UNCHANGED <<mail, inviteVars>>

-----------------------------------------------------------------------------
(* Self-registration and verification.                                     *)

(* Fault: a status the schema does not know is passed through.             *)
RegisterWithRawStatus(c, tenant, email) ==
    /\ ~AddressTaken(tenant, email)
    /\ Begin(c, "register.create",
             NewRow(tenant, email, "MEMBER", "NEW", FALSE, None, "register"), None)
    /\ UNCHANGED <<users, mail, inviteVars>>

RegisterBegins(c, tenant, email) ==
    /\ ~AddressTaken(tenant, email)
    /\ Begin(c, "register.create",
             NewRow(tenant, email, "MEMBER", "PENDING", FALSE, None, "register"), None)
    /\ UNCHANGED <<users, mail, inviteVars>>

RegisterCreates(c) ==
    /\ Finish(c, "register.create", "done")
    /\ ~Conflicts(call[c].row)
    /\ Insert(call[c].row)
    /\ mail' = mail \cup {[kind |-> "verify", to |-> call[c].row.email, ref |-> NewId]}
    /\ UNCHANGED inviteVars

VerifyBegins(c, msg) ==
    /\ msg.kind = "verify"
    /\ Begin(c, "verify.activate", None, msg.ref)
    /\ mail' = mail \ {msg}
    /\ users' = [users EXCEPT ![msg.ref].verified = TRUE]
    /\ UNCHANGED inviteVars

AfterEmailVerified(c) ==
    /\ Finish(c, "verify.activate", "done")
    /\ users' = [users EXCEPT ![call[c].ref].status = IF @ = "PENDING" THEN "ACTIVE" ELSE @]
    /\ UNCHANGED <<mail, inviteVars>>

-----------------------------------------------------------------------------
(* Google sign-in: the decision is taken on the row as it was looked up,   *)
(* and awaits lie between it and the write.                                *)

FoundByOAuthId(s, tenant) ==
    {i \in DOMAIN users : users[i].oauth = s /\ users[i].tenant = tenant}

OAuthRow(s, tenant, status) ==
    NewRow(tenant, GmailOf[s], "MEMBER", status, TRUE, s, "oauth")

OAuthCreateBegins(c, s, tenant, status) ==
    /\ FoundByOAuthId(s, tenant) = {}
    /\ ~AddressTaken(tenant, GmailOf[s])
    /\ Begin(c, "oauth.create", OAuthRow(s, tenant, status), s)
    /\ UNCHANGED <<users, mail, inviteVars>>

(* Fault: the hook links whatever the lookup returned, blocked or not.     *)
LinkWhateverStatus(c, s, tenant) ==
    \E i \in FoundByOAuthId(s, tenant) :
        /\ Begin(c, "oauth.link", OAuthRow(s, tenant, "ACTIVE"), i)
        /\ UNCHANGED <<users, mail, inviteVars>>

OAuthLinkBegins(c, s, tenant) ==
    \E i \in FoundByOAuthId(s, tenant) :
        /\ users[i].status \notin Blocked
        /\ Begin(c, "oauth.link", OAuthRow(s, tenant, "ACTIVE"), i)
        /\ UNCHANGED <<users, mail, inviteVars>>

LinkOAuth(c) ==
    /\ Finish(c, "oauth.link", call[c].ref)
    /\ users' = [users EXCEPT ![call[c].ref].oauth = call[c].row.oauth]
    /\ UNCHANGED <<mail, inviteVars>>

(* Fault: an upsert, whose update branch takes the account over.           *)
UpsertWithOAuth(c) ==
    /\ call[c].at = "oauth.create"
    /\ UNCHANGED <<mail, inviteVars>>
    /\ \/ /\ ~Conflicts(call[c].row)
          /\ Insert(call[c].row)
          /\ Finish(c, "oauth.create", NewId)
       \/ \E i \in DOMAIN users :
          /\ users[i].tenant = call[c].row.tenant /\ users[i].email = call[c].row.email
          /\ users' = [users EXCEPT ![i].oauth = call[c].row.oauth]
          /\ Finish(c, "oauth.create", i)

CreateWithOAuth(c) ==
    /\ call[c].at = "oauth.create"
    /\ ~Conflicts(call[c].row)
    /\ Insert(call[c].row)
    /\ Finish(c, "oauth.create",
              IF call[c].row.status \in Blocked THEN "done" ELSE NewId)
    /\ UNCHANGED <<mail, inviteVars>>

(* P2002, whichever of the two indexes raised it.                          *)
CreateWithOAuthRefused(c) ==
    /\ call[c].at = "oauth.create"
    /\ Conflicts(call[c].row)
    /\ Finish(c, "oauth.create", "mismatch")
    /\ UNCHANGED <<users, mail, inviteVars>>

-----------------------------------------------------------------------------
(* Password sign-in, the workspace switch, a change of address.            *)

LoginBegins(c, i) ==
    /\ i \in DOMAIN users
    /\ users[i].oauth = None
    /\ users[i].status \notin Blocked
    /\ users[i].verified
    /\ Begin(c, "login.issue", None, i)
    /\ UNCHANGED <<users, mail, inviteVars>>

LoginIssues(c) ==
    /\ Finish(c, "login.issue", call[c].ref)
    /\ UNCHANGED <<users, mail, inviteVars>>

findSwitchTarget(i, tenant) ==
    {j \in DOMAIN users : /\ tenant # users[i].tenant
                          /\ users[j].tenant = tenant
                          /\ users[j].email = users[i].email
                          /\ users[j].status = "ACTIVE"}

SwitchBegins(c, i, tenant) ==
    /\ SignedIn(i)
    /\ \E j \in findSwitchTarget(i, tenant) : Begin(c, "switch.issue", None, j)
    /\ UNCHANGED <<users, mail, inviteVars>>

(* issueTokensForUserId looks at the account again.                        *)
SwitchIssues(c) ==
    /\ Finish(c, "switch.issue", call[c].ref)
    /\ SignedIn(call[c].ref) /\ users[call[c].ref].verified
    /\ UNCHANGED <<users, mail, inviteVars>>

EmailChangeAsked(i, email) ==
    /\ SignedIn(i) /\ users[i].oauth = None /\ users[i].verified
    /\ email # users[i].email
    /\ mail' = mail \cup {[kind |-> "change", to |-> email, ref |-> i]}
    /\ answer' = Nothing
    /\ UNCHANGED <<users, call, inviteVars>>

(* updateEmail: the index on (tenant, email) decides.                      *)
UpdateEmail(msg) ==
    /\ msg.kind = "change"
    /\ ~AddressTaken(users[msg.ref].tenant, msg.to)
    /\ mail' = mail \ {msg}
    /\ users' = [users EXCEPT ![msg.ref].email = msg.to]
    /\ answer' = Nothing
    /\ UNCHANGED <<call, inviteVars>>

(* An admin suspends, reinstates or activates an account.                  *)
SetStatus(i, s) ==
    /\ i \in DOMAIN users \ DOMAIN Seed
    /\ s \in {"ACTIVE", "SUSPENDED"} \ {users[i].status}
    /\ users' = [users EXCEPT ![i].status = s]
    /\ call' = [c \in Calls |-> [call[c] EXCEPT
                                    !.cut = @ /\ (s \in Blocked \/ call[c].ref # i)]]
    /\ answer' = Nothing
    /\ UNCHANGED <<mail, inviteVars>>

-----------------------------------------------------------------------------
Invitations(c) ==
    \/ \E by \in DOMAIN users, email \in Emails, role \in InviteRoles :
          InviteBegins(c, by, email, role)
    \/ InviteStoresKey(c) \/ InviteStoresRow(c) \/ InviteMails(c)
    \/ \E by \in DOMAIN users, t \in Tokens : RevokeBegins(c, by, t)
    \/ RevokeDeletesRow(c) \/ RevokeDeletesKey(c)
    \/ \E t \in Tokens : AcceptTakes(c, t)
    \/ AcceptCreates(c)

SignUps(c) ==
    \/ \E tenant \in Tenants, email \in Emails : RegisterBegins(c, tenant, email)
    \/ RegisterCreates(c)
    \/ \E msg \in mail : VerifyBegins(c, msg)
    \/ AfterEmailVerified(c)
    \/ \E s \in Subjects, tenant \in Tenants, status \in OAuthStatuses :
          OAuthCreateBegins(c, s, tenant, status)
    \/ CreateWithOAuth(c) \/ CreateWithOAuthRefused(c)

SignIns(c) ==
    \/ \E s \in Subjects, tenant \in Tenants : OAuthLinkBegins(c, s, tenant)
    \/ LinkOAuth(c)
    \/ \E i \in DOMAIN users : LoginBegins(c, i)
    \/ LoginIssues(c)
    \/ \E i \in DOMAIN users, tenant \in Tenants : SwitchBegins(c, i, tenant)
    \/ SwitchIssues(c)

Next ==
    \/ \E c \in Calls : Invitations(c) \/ SignUps(c) \/ SignIns(c) \/ CallFails(c)
    \/ \E t \in Tokens : Expire(t)
    \/ \E i \in DOMAIN users, email \in Emails : EmailChangeAsked(i, email)
    \/ \E msg \in mail : UpdateEmail(msg)
    \/ \E i \in DOMAIN users, s \in Statuses : SetStatus(i, s)

Spec == Init /\ [][Next]_vars

-----------------------------------------------------------------------------
Steps == {"idle", "invite.key", "invite.row", "invite.mail", "revoke.row", "revoke.key",
          "accept.create", "register.create", "verify.activate", "oauth.create",
          "oauth.link", "login.issue", "switch.issue"}
InviteSteps == {"invite.key", "invite.row", "invite.mail"}
CreateSteps == {"accept.create", "register.create", "oauth.create"}
AccountSteps == {"verify.activate", "oauth.link", "login.issue", "switch.issue"}

(* Every handler holds what its next write needs, and every row, key and   *)
(* message refers to something that exists.                                *)
TypeOK ==
    /\ DOMAIN users \in SUBSET Ids
    /\ DOMAIN Seed \subseteq DOMAIN users
    /\ users \in [DOMAIN users -> Row]
    /\ minted \in SUBSET Tokens
    /\ DOMAIN invKeys \in SUBSET minted /\ invKeys \in [DOMAIN invKeys -> Row]
    /\ DOMAIN invRows \in SUBSET minted /\ invRows \in [DOMAIN invRows -> Tenants]
    /\ mail \subseteq [kind : {"invite"}, to : Emails, ref : minted]
                    \cup [kind : {"verify", "change"}, to : Emails, ref : DOMAIN users]
    /\ dropped \in SUBSET minted /\ revoked \in SUBSET dropped
    /\ taken \in SUBSET minted /\ lapsed \in SUBSET minted
    /\ answer \in [by : Calls \cup {None}, says : {"", "done", "mismatch"} \cup DOMAIN users]
    /\ DOMAIN call = Calls
    /\ \A c \in Calls :
          /\ DOMAIN call[c] = {"at", "row", "ref", "cut"}
          /\ call[c].at \in Steps
          /\ call[c].cut \in BOOLEAN
          /\ call[c].at \in InviteSteps \cup CreateSteps => call[c].row \in Row
          /\ call[c].at \in InviteSteps \cup {"revoke.row", "revoke.key"} => call[c].ref \in minted
          /\ call[c].at \in AccountSteps => call[c].ref \in DOMAIN users

(* A link somebody can follow is on the list an admin can revoke it from,  *)
(* unless its row was already deleted: the key is stored before the row,   *)
(* and a failure between the two leaves a key nobody knows the token of.   *)
MailedLinksAreListed ==
    \A msg \in mail : msg.kind = "invite" /\ msg.ref \in DOMAIN invKeys =>
        msg.ref \in DOMAIN invRows \cup dropped

(* The other direction: the list shows no dead link, save one already used *)
(* (nothing writes acceptedAt).                                            *)
ListedLinksWork ==
    \A tenant \in Tenants : Listed(tenant) \subseteq DOMAIN invKeys \cup taken

(* Once a revocation has gone through, the link is dead for good, whatever *)
(* the creation, an acceptance or a second revocation of it were doing.    *)
RevokedLinksAreDead == revoked \cap DOMAIN invKeys = {}

(* No chain of invitations leads above the role, or out of the workspace,  *)
(* of the account it started from.                                         *)
InvitationsNeverRise ==
    \A i \in DOMAIN users : users[i].from \in Ids =>
        /\ users[i].from \in DOMAIN users
        /\ hasRole(users[users[i].from].role, users[i].role)
        /\ users[i].tenant = users[users[i].from].tenant

(* A Google identity is only ever on an account that sign-in created, not  *)
(* on one that took the address while the sign-in was under way.           *)
GoogleStaysWithItsAccount ==
    \A i \in DOMAIN users : users[i].oauth # None => users[i].from = "oauth"

(* An account that was cut off when a sign-in began, and stayed so, gets   *)
(* no tokens from it, and nor does one whose address nobody proved.        *)
TokensAreEarned ==
    [][answer'.says \in DOMAIN users' =>
          ~call[answer'.by].cut /\ users'[answer'.says].verified]_vars
=============================================================================
