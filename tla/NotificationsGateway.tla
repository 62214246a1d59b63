------------------------ MODULE NotificationsGateway ------------------------
(***************************************************************************)
(* apps/api/src/notifications/notifications.gateway.ts: the WebSocket      *)
(* gateway that admits dashboard sockets, keeps the per-user registry,     *)
(* pushes notifications and force-disconnects users.                       *)
(*                                                                         *)
(* A handler runs without interruption between two awaits, so each         *)
(* stretch between awaits is one action; the service that answers an       *)
(* await (the library, over Redis) is an action of its own, and anything   *)
(* may happen between the answer and the continuation that reads it.       *)
(*                                                                         *)
(* An account is a (sub, tenantId) pair: a user row belongs to one tenant, *)
(* so Users stands for both halves of the identity the ticket path         *)
(* compares.                                                               *)
(***************************************************************************)
EXTENDS Integers

CONSTANTS
    Users,              \* accounts
    Conns,              \* sockets, each with the attempt that opens it
    Tokens,             \* access tokens (JWTs)
    Tickets,            \* WebSocket tickets
    TokenUser,          \* the account a token names (sub, tenantId)
    DashboardTokens,    \* tokens whose type claim is "dashboard"
    None,               \* no ticket, no token, no account
    MaxClock            \* bound on the monotonic clock, in milliseconds

ASSUME TokenAssumption ==
    /\ TokenUser \in [Tokens -> Users]
    /\ DashboardTokens \subseteq Tokens
ASSUME NoneAssumption ==
    None \notin Users /\ None \notin Tokens /\ None \notin Tickets
ASSUME ClockAssumption == MaxClock \in Nat

VARIABLES
    \* the process's own state
    clock,              \* performance.now()
    pc,                 \* the await each admission is at
    answer,             \* what the awaited call returned, not yet read
    startedAt,          \* admissionStartedAt
    req,                \* the credentials on the upgrade request
    ready,              \* ws readyState
    userId,             \* client.data.userId
    userSockets,        \* the registry
    forcedDisconnectAt, \* the disconnect markers
    \* what the library and the database hold
    tokenState,         \* what became of each access token
    ticketOwner,        \* the account a ticket was minted for
    spent,              \* tickets redeemed or past their TTL
    blocked,            \* accounts whose status is blocked
    \* history, read by the properties only
    overtaken,          \* sockets whose user was disconnected under them
    cutOff,             \* tokens already revoked at a disconnect of their user
    heard               \* sockets written to since their user's last disconnect

socketVars == <<pc, answer, startedAt, req, ready, userId>>
registryVars == <<userSockets, forcedDisconnectAt>>
libraryVars == <<tokenState, ticketOwner, spent, blocked>>
historyVars == <<overtaken, cutOff, heard>>
vars == <<clock, socketVars, registryVars, libraryVars, historyVars>>

\* The marker of a user never force-disconnected by this process.
Undefined == -1

Awaits == {"idle", "redeeming", "checking", "settled"}
Answers == {"none", "invalid", "blocked", "active", "revoked", "live", "failed"}
ReadyStates == {"none", "open", "closing", "closed"}
\* A revoked token (blacklisted jti, or an epoch left behind) keeps that state
\* for good: its exp claim only turns a refusal by lookup into one by signature.
TokenStates == {"unissued", "valid", "expired", "revoked"}
Requests == [ticket : Tickets \cup {None}, token : Tokens \cup {None}]

TypeOK ==
    /\ clock \in 0..MaxClock
    /\ pc \in [Conns -> Awaits]
    /\ answer \in [Conns -> Answers]
    /\ startedAt \in [Conns -> 0..MaxClock]
    /\ req \in [Conns -> Requests]
    /\ ready \in [Conns -> ReadyStates]
    /\ userId \in [Conns -> Users \cup {None}]
    /\ userSockets \in [Users -> SUBSET Conns]
    /\ forcedDisconnectAt \in [Users -> 0..MaxClock \cup {Undefined}]
    /\ tokenState \in [Tokens -> TokenStates]
    /\ ticketOwner \in [Tickets -> Users \cup {None}]
    /\ spent \subseteq Tickets
    /\ blocked \subseteq Users
    /\ overtaken \subseteq Conns
    /\ cutOff \subseteq Tokens
    /\ heard \subseteq Conns

Init ==
    /\ clock = 0
    /\ pc = [c \in Conns |-> "idle"]
    /\ answer = [c \in Conns |-> "none"]
    /\ startedAt = [c \in Conns |-> 0]
    /\ req = [c \in Conns |-> [ticket |-> None, token |-> None]]
    /\ ready = [c \in Conns |-> "none"]
    /\ userId = [c \in Conns |-> None]
    /\ userSockets = [u \in Users |-> {}]
    /\ forcedDisconnectAt = [u \in Users |-> Undefined]
    /\ tokenState = [t \in Tokens |-> "unissued"]
    /\ ticketOwner = [k \in Tickets |-> None]
    /\ spent = {} /\ blocked = {}
    /\ overtaken = {} /\ cutOff = {} /\ heard = {}
-----------------------------------------------------------------------------
(* Helpers *)

\* verifyDashboardToken: signature, expiry and the type claim, no lookup.
VerifyDashboardToken(t) ==
    t \in DashboardTokens /\ tokenState[t] \in {"valid", "revoked"}

\* The account a connection would be registered under.
Claim(c) ==
    IF req[c].ticket # None THEN ticketOwner[req[c].ticket]
    ELSE IF req[c].token # None THEN TokenUser[req[c].token]
    ELSE None

InFlight(c) == pc[c] \in {"redeeming", "checking"}
Registered(c) == \E u \in Users : c \in userSockets[u]

\* client.close(): an open socket starts its closing handshake.
Closing(S) == [c \in Conns |-> IF c \in S /\ ready[c] = "open" THEN "closing" ELSE ready[c]]

\* A handler that has nothing left to await drops its locals.
Settle(c) ==
    /\ pc' = [pc EXCEPT ![c] = "settled"]
    /\ answer' = [answer EXCEPT ![c] = "none"]
    /\ startedAt' = [startedAt EXCEPT ![c] = 0]

Refuse(c) ==
    /\ Settle(c)
    /\ ready' = Closing({c})
    /\ UNCHANGED <<req, userId, userSockets>>
-----------------------------------------------------------------------------
(* handleConnection, up to its first await *)

\* The upgrade carries a ticket: admissionStartedAt is read, the redemption starts.
ConnectWithTicket(c, k, t) ==
    /\ pc[c] = "idle" /\ ticketOwner[k] # None
    /\ req' = [req EXCEPT ![c] = [ticket |-> k, token |-> t]]
    /\ startedAt' = [startedAt EXCEPT ![c] = clock]
    /\ pc' = [pc EXCEPT ![c] = "redeeming"]
    /\ ready' = [ready EXCEPT ![c] = "open"]
    /\ UNCHANGED <<clock, answer, userId, registryVars, libraryVars, historyVars>>

\* No ticket, a token that verifies: the revocation lookup starts.
ConnectWithJwt(c, t) ==
    /\ pc[c] = "idle" /\ VerifyDashboardToken(t)
    /\ req' = [req EXCEPT ![c] = [ticket |-> None, token |-> t]]
    /\ startedAt' = [startedAt EXCEPT ![c] = clock]
    /\ pc' = [pc EXCEPT ![c] = "checking"]
    /\ ready' = [ready EXCEPT ![c] = "open"]
    /\ UNCHANGED <<clock, answer, userId, registryVars, libraryVars, historyVars>>

\* No ticket, and no token or one that does not verify: 4401.
ConnectRefused(c) ==
    /\ pc[c] = "idle"
    /\ pc' = [pc EXCEPT ![c] = "settled"]
    /\ ready' = [ready EXCEPT ![c] = "closing"]
    /\ UNCHANGED <<clock, answer, startedAt, req, userId, registryVars, libraryVars, historyVars>>

(* authenticateWithTicket, between its awaits *)

\* The library consumes the ticket and reads the account's current status.
RedeemAnswers(c) ==
    LET k == req[c].ticket IN
    /\ pc[c] = "redeeming" /\ answer[c] = "none"
    /\ answer' = [answer EXCEPT ![c] =
                     IF k \in spent THEN "invalid"
                     ELSE IF ticketOwner[k] \in blocked THEN "blocked" ELSE "active"]
    /\ spent' = spent \cup {k}
    /\ UNCHANGED <<clock, pc, startedAt, req, ready, userId, registryVars,
                   tokenState, ticketOwner, blocked, historyVars>>

\* Fault: any live dashboard token will do, whoever the ticket was minted for.
CarriesAnyCredential(c) == VerifyDashboardToken(req[c].token)

\* hasLiveCredentialFor, before its lookup: a token of the ticket's own account.
CarriesCredentialFor(c) ==
    LET t == req[c].token IN
    VerifyDashboardToken(t) /\ TokenUser[t] = ticketOwner[req[c].ticket]

\* Fault: the status the redemption returned is not looked at.
ResumeWhateverStatus(c) ==
    /\ pc[c] = "redeeming" /\ answer[c] \in {"active", "blocked"} /\ CarriesCredentialFor(c)
    /\ pc' = [pc EXCEPT ![c] = "checking"]
    /\ answer' = [answer EXCEPT ![c] = "none"]
    /\ UNCHANGED <<clock, startedAt, req, ready, userId, registryVars, libraryVars, historyVars>>

ResumeRedeemed(c) ==
    /\ pc[c] = "redeeming" /\ answer[c] = "active" /\ CarriesCredentialFor(c)
    /\ pc' = [pc EXCEPT ![c] = "checking"]
    /\ answer' = [answer EXCEPT ![c] = "none"]
    /\ UNCHANGED <<clock, startedAt, req, ready, userId, registryVars, libraryVars, historyVars>>

\* A refused redemption (4401), a blocked account (4403), no fitting token (4401).
RefuseRedeemed(c) ==
    /\ pc[c] = "redeeming" /\ answer[c] # "none"
    /\ ~(answer[c] = "active" /\ CarriesCredentialFor(c))
    /\ Refuse(c)
    /\ UNCHANGED <<clock, forcedDisconnectAt, libraryVars, historyVars>>

(* the revocation lookup both paths end with, and admitSocket *)

RevocationAnswers(c) ==
    /\ pc[c] = "checking" /\ answer[c] = "none"
    /\ answer' = [answer EXCEPT ![c] =
                     IF tokenState[req[c].token] = "revoked" THEN "revoked" ELSE "live"]
    /\ UNCHANGED <<clock, pc, startedAt, req, ready, userId, registryVars, libraryVars,
                   historyVars>>

\* The lookup rejects: nothing catches it, so the handler ends with the
\* socket neither closed nor registered.
RevocationFails(c) ==
    /\ pc[c] = "checking" /\ answer[c] = "none"
    /\ pc' = [pc EXCEPT ![c] = "settled"]
    /\ answer' = [answer EXCEPT ![c] = "failed"]
    /\ startedAt' = [startedAt EXCEPT ![c] = 0]
    /\ UNCHANGED <<clock, req, ready, userId, registryVars, libraryVars, historyVars>>

RefuseRevoked(c) ==
    /\ pc[c] = "checking" /\ answer[c] = "revoked"
    /\ Refuse(c)
    /\ UNCHANGED <<clock, forcedDisconnectAt, libraryVars, historyVars>>

\* Fault: a disconnect in the very millisecond the attempt began is missed.
DisconnectRacedStrictly(u, c) ==
    /\ forcedDisconnectAt[u] # Undefined
    /\ forcedDisconnectAt[u] > startedAt[c]

\* admitSocket's comparison of the marker with the attempt's start.
DisconnectRaced(u, c) ==
    /\ forcedDisconnectAt[u] # Undefined
    /\ forcedDisconnectAt[u] >= startedAt[c]

\* Fault: a raced socket is left out of the registry but not closed.
AdmitWithoutClosing(u, c) ==
    /\ UNCHANGED ready
    /\ userSockets' = [userSockets EXCEPT ![u] = IF DisconnectRaced(u, c) THEN @ ELSE @ \cup {c}]

\* admitSocket and registerSocket; no await separates the two.
AdmitSocket(u, c) ==
    IF DisconnectRaced(u, c)
    THEN /\ ready' = Closing({c})
         /\ UNCHANGED userSockets
    ELSE /\ userSockets' = [userSockets EXCEPT ![u] = @ \cup {c}]
         /\ UNCHANGED ready

\* Fault: client.data records the credential and not the account it names.
ResumeCheckedAsToken(c) ==
    /\ pc[c] = "checking" /\ answer[c] = "live"
    /\ userId' = [userId EXCEPT ![c] = req[c].token]
    /\ AdmitSocket(Claim(c), c)
    /\ Settle(c)
    /\ UNCHANGED <<clock, req, forcedDisconnectAt, libraryVars, historyVars>>

\* Fault: the verdict of the revocation lookup is not looked at.
ResumeUnchecked(c) ==
    /\ pc[c] = "checking" /\ answer[c] \in {"live", "revoked"}
    /\ userId' = [userId EXCEPT ![c] = Claim(c)]
    /\ AdmitSocket(Claim(c), c)
    /\ Settle(c)
    /\ UNCHANGED <<clock, req, forcedDisconnectAt, libraryVars, historyVars>>

ResumeChecked(c) ==
    /\ pc[c] = "checking" /\ answer[c] = "live"
    /\ userId' = [userId EXCEPT ![c] = Claim(c)]
    /\ AdmitSocket(Claim(c), c)
    /\ Settle(c)
    /\ UNCHANGED <<clock, req, forcedDisconnectAt, libraryVars, historyVars>>
-----------------------------------------------------------------------------
(* sockets that close, disconnects and pushes *)

\* The client goes away: the socket is CLOSING, no handler has run yet.
PeerCloses(c) ==
    /\ ready[c] = "open"
    /\ ready' = [ready EXCEPT ![c] = "closing"]
    /\ UNCHANGED <<clock, pc, answer, startedAt, req, userId, registryVars, libraryVars,
                   historyVars>>

\* handleDisconnect: nothing to remove while client.data is unset.
HandleDisconnect(c) ==
    userSockets' =
        IF userId[c] = None THEN userSockets
        ELSE [userSockets EXCEPT ![userId[c]] = @ \ {c}]

\* The closing handshake ends and the adapter reports it.
SocketClosed(c) ==
    /\ ready[c] = "closing"
    /\ ready' = [ready EXCEPT ![c] = "closed"]
    /\ HandleDisconnect(c)
    /\ UNCHANGED <<clock, pc, answer, startedAt, req, userId, forcedDisconnectAt,
                   libraryVars, historyVars>>

\* disconnectUser: stamp first, then close and forget the registered sockets.
DisconnectUser(u) ==
    /\ forcedDisconnectAt' = [forcedDisconnectAt EXCEPT ![u] = clock]
    /\ ready' = Closing(userSockets[u])
    /\ userSockets' = [userSockets EXCEPT ![u] = {}]
    /\ overtaken' = overtaken \cup
          {c \in Conns : /\ ready[c] = "open" /\ Claim(c) = u
                         /\ InFlight(c) \/ Registered(c)}
    /\ cutOff' = cutOff \cup {t \in Tokens : TokenUser[t] = u /\ tokenState[t] = "revoked"}
    /\ heard' = heard \ {c \in Conns : Claim(c) = u}

\* Fault: sockets that are no longer open are written to as well.
AllRegistered(u) == userSockets[u]

\* The sockets emitNewNotification writes to; their number is what it returns.
Recipients(u) == {c \in userSockets[u] : ready[c] = "open"}

EmitNewNotification(u) ==
    /\ heard' = heard \cup Recipients(u)
    /\ UNCHANGED <<clock, socketVars, registryVars, libraryVars, overtaken, cutOff>>

\* A caller of the registry port disconnects the user.
ForceDisconnect(u) ==
    /\ DisconnectUser(u)
    /\ UNCHANGED <<clock, pc, answer, startedAt, req, userId, libraryVars>>

\* The process dies with its sockets and comes back with a fresh clock; Redis
\* and the database keep what they hold.
Restart ==
    /\ clock' = 0
    /\ pc' = [c \in Conns |-> IF pc[c] = "idle" THEN "idle" ELSE "settled"]
    /\ ready' = [c \in Conns |-> IF pc[c] = "idle" THEN "none" ELSE "closed"]
    /\ answer' = [c \in Conns |-> "none"]
    /\ startedAt' = [c \in Conns |-> 0]
    /\ userSockets' = [u \in Users |-> {}]
    /\ forcedDisconnectAt' = [u \in Users |-> Undefined]
    /\ UNCHANGED <<req, userId, libraryVars, historyVars>>

Tick ==
    /\ clock < MaxClock
    /\ clock' = clock + 1
    /\ UNCHANGED <<socketVars, registryVars, libraryVars, historyVars>>
-----------------------------------------------------------------------------
(* the library and the account status, as the gateway meets them *)

Login(t) ==
    /\ tokenState[t] = "unissued" /\ TokenUser[t] \notin blocked
    /\ tokenState' = [tokenState EXCEPT ![t] = "valid"]
    /\ UNCHANGED <<clock, socketVars, registryVars, ticketOwner, spent, blocked, historyVars>>

Expire(t) ==
    /\ tokenState[t] = "valid"
    /\ tokenState' = [tokenState EXCEPT ![t] = "expired"]
    /\ UNCHANGED <<clock, socketVars, registryVars, ticketOwner, spent, blocked, historyVars>>

\* A logout, a bulk revocation or an epoch bump: these tokens die together.
Revoke(S) ==
    /\ S # {} /\ \A t \in S : tokenState[t] = "valid"
    /\ tokenState' = [t \in Tokens |-> IF t \in S THEN "revoked" ELSE tokenState[t]]
    /\ UNCHANGED <<clock, socketVars, registryVars, ticketOwner, spent, blocked, historyVars>>

\* POST /api/auth/ws-ticket, an authenticated call.
MintTicket(k, t) ==
    /\ ticketOwner[k] = None
    /\ t \in DashboardTokens /\ tokenState[t] = "valid" /\ TokenUser[t] \notin blocked
    /\ ticketOwner' = [ticketOwner EXCEPT ![k] = TokenUser[t]]
    /\ UNCHANGED <<clock, socketVars, registryVars, tokenState, spent, blocked, historyVars>>

ExpireTicket(k) ==
    /\ ticketOwner[k] # None /\ k \notin spent
    /\ spent' = spent \cup {k}
    /\ UNCHANGED <<clock, socketVars, registryVars, tokenState, ticketOwner, blocked, historyVars>>

\* A status change commits.
SetStatus(u) ==
    /\ blocked' = (blocked \ {u}) \cup ({u} \ blocked)
    /\ UNCHANGED <<clock, socketVars, registryVars, tokenState, ticketOwner, spent, historyVars>>
-----------------------------------------------------------------------------
Arrival(c) ==
    \/ \E k \in Tickets, t \in Tokens \cup {None} : ConnectWithTicket(c, k, t)
    \/ \E t \in Tokens : ConnectWithJwt(c, t)
    \/ ConnectRefused(c)

Lookup(c) == RedeemAnswers(c) \/ RevocationAnswers(c) \/ RevocationFails(c)

Continuation(c) ==
    \/ ResumeRedeemed(c) \/ RefuseRedeemed(c)
    \/ ResumeChecked(c) \/ RefuseRevoked(c)

GatewayStep ==
    \/ \E c \in Conns : Arrival(c) \/ Lookup(c) \/ Continuation(c)
                        \/ PeerCloses(c) \/ SocketClosed(c)
    \/ \E u \in Users : EmitNewNotification(u)
    \/ Restart
    \/ Tick

TokenStep ==
    \/ \E t \in Tokens : Login(t) \/ Expire(t)
    \/ \E k \in Tickets, t \in Tokens : MintTicket(k, t)
    \/ \E k \in Tickets : ExpireTicket(k)

Next ==
    \/ GatewayStep
    \/ TokenStep
    \/ \E u \in Users : ForceDisconnect(u) \/ SetStatus(u)
    \/ \E S \in SUBSET Tokens : Revoke(S)

Spec == Init /\ [][Next]_vars

\* Redis answers or errors, the event loop runs ready continuations, and the
\* ws library's close timeout bounds every closing handshake.
Fairness ==
    \A c \in Conns :
        /\ WF_vars(Lookup(c))
        /\ WF_vars(Continuation(c))
        /\ WF_vars(SocketClosed(c))

FairSpec == Spec /\ Fairness
-----------------------------------------------------------------------------
(* Properties *)

\* A disconnect is final for what it finds: no socket that was authenticating
\* or registered when its user was disconnected is in the registry afterwards
\* or is written to again (disconnectUser and admitSocket, lines 448-481).
DisconnectIsFinal ==
    \A c \in overtaken : ~Registered(c) /\ c \notin heard

\* A credential revoked before a disconnect of its user opens no stream from
\* then on, whichever path, restart or lookup it goes through: the marker covers
\* the attempts already under way and the lookup covers the later ones.
CutOffCredentialNeverStreams ==
    \A c \in Conns : req[c].token \in cutOff => ~Registered(c) /\ c \notin heard

\* A registered socket sits under the one account its token and its ticket
\* both name, so no socket receives another account's notifications
\* (hasLiveCredentialFor, lines 403-406).
RegisteredUnderOwnIdentity ==
    \A u \in Users, c \in Conns :
        c \in userSockets[u] =>
            /\ userId[c] = u
            /\ req[c].token \in DashboardTokens /\ TokenUser[req[c].token] = u
            /\ req[c].ticket # None => ticketOwner[req[c].ticket] = u

\* Every socket a disconnect overtook is closed in the end, unless its
\* revocation lookup rejected and left it open and unregistered.
OvertakenSocketsClose ==
    \A c \in Conns : c \in overtaken ~> (ready[c] = "closed" \/ answer[c] = "failed")
-----------------------------------------------------------------------------
(* The abstract channel this gateway implements *)

Phase(c) ==
    IF pc[c] = "idle" THEN "idle"
    ELSE IF ready[c] = "open" /\ Registered(c) THEN "streaming"
    ELSE IF ready[c] = "open" /\ InFlight(c) /\ c \notin overtaken THEN "pending"
    ELSE "ended"

Channel == INSTANCE RealtimeCutoff WITH
    phase <- [c \in Conns |-> Phase(c)],
    account <- [c \in Conns |-> Claim(c)],
    cut <- overtaken

\* Admission is atomic with the disconnect and deliveries go to streams only:
\* every step of the gateway is a step of the abstract channel, or none.
ImplementsRealtimeCutoff == Channel!Spec
-----------------------------------------------------------------------------
(* The inductive invariant behind the safety properties *)

\* An attempt that has not begun has left no trace.
IdleIsBlank ==
    \A c \in Conns : pc[c] = "idle" =>
        /\ req[c].ticket = None /\ req[c].token = None /\ answer[c] = "none"
        /\ c \notin overtaken /\ c \notin heard /\ ~Registered(c)

\* An attempt under way claims an account and began no later than now.
InFlightClaims ==
    \A c \in Conns :
        /\ req[c].ticket # None => ticketOwner[req[c].ticket] # None
        /\ pc[c] = "redeeming" => req[c].ticket # None
        /\ pc[c] = "checking" =>
              /\ req[c].token \in DashboardTokens
              /\ TokenUser[req[c].token] = Claim(c)
        /\ InFlight(c) => startedAt[c] <= clock

\* The registry holds settled attempts under the account they claim, and only
\* sockets that were in it have been written to.
RegistryMatchesClaims ==
    /\ \A u \in Users, c \in Conns : c \in userSockets[u] =>
          /\ pc[c] = "settled" /\ userId[c] = u /\ Claim(c) = u
          /\ req[c].token \in DashboardTokens /\ TokenUser[req[c].token] = u
    /\ \A c \in heard :
          req[c].token \in DashboardTokens /\ TokenUser[req[c].token] = Claim(c)

\* An attempt a disconnect overtook will be refused when it reaches admitSocket.
OvertakenWillBeRefused ==
    \A c \in overtaken : InFlight(c) => DisconnectRaced(Claim(c), c)

\* So will an attempt whose token was looked up before a disconnect cut it off.
CutOffWillBeRefused ==
    /\ \A t \in cutOff : tokenState[t] = "revoked"
    /\ \A c \in Conns :
          req[c].token \in cutOff /\ pc[c] = "checking" /\ answer[c] = "live"
              => DisconnectRaced(Claim(c), c)

IInv ==
    /\ TypeOK
    /\ IdleIsBlank
    /\ InFlightClaims
    /\ RegistryMatchesClaims
    /\ OvertakenWillBeRefused
    /\ CutOffWillBeRefused
    /\ DisconnectIsFinal
    /\ CutOffCredentialNeverStreams
=============================================================================
