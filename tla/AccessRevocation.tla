-------------------------- MODULE AccessRevocation --------------------------
(***************************************************************************)
(* The operations that end an account's access, and the sockets they have  *)
(* to reach through UserConnectionPort: changing a password                *)
(* (AccountService), resetting MFA (PlatformService), signing out          *)
(* everywhere (the dashboard button and AccountController), and the two    *)
(* status changes (UsersService, PlatformService).                         *)
(*                                                                         *)
(* Each runs over several awaits while sockets come and go, so a worker    *)
(* carries one operation and its next step.  What the operations do to     *)
(* the status cache and the audit log is the subject of AccountStatus;     *)
(* here a cache failure only shows in whether the operation goes on.       *)
(***************************************************************************)
EXTENDS NotificationsGateway

CONSTANTS
    Workers,        \* concurrent requests
    Operations      \* the operations those requests may be

VARIABLES
    task,           \* the operation each worker runs and its next step
    ended,          \* history: tokens the worker's operation revoked so far
    promised,       \* history: tokens a returned operation reported as ended
    suspended,      \* history: accounts a returned tenant suspension blocked
    platformSuspended   \* history: the same for platform suspensions

promiseVars == <<promised, suspended, platformSuspended>>
taskVars == <<task, ended, promiseVars>>
allVars == <<vars, taskVars>>

AllOperations == {"changePassword", "resetUserMfa", "signOutEverywhere",
                  "updateStatus", "updateUserStatus"}
ASSUME OperationsAssumption == Operations \subseteq AllOperations

Statuses == {"blocked", "active"}

\* An operation that has returned, or not begun.
NoTask == [op |-> "none", step |-> "none", user |-> None, token |-> None, status |-> "active"]

AccessInit ==
    /\ Init
    /\ task = [w \in Workers |-> NoTask]
    /\ ended = [w \in Workers |-> {}]
    /\ promised = {} /\ suspended = {} /\ platformSuspended = {}
-----------------------------------------------------------------------------
At(w, op, step) == task[w].op \in op /\ task[w].step = step

Begin(w, op, step, u, t, s) ==
    /\ task[w] = NoTask /\ op \in Operations
    /\ task' = [task EXCEPT ![w] =
                  [op |-> op, step |-> step, user |-> u, token |-> t, status |-> s]]
    /\ UNCHANGED <<vars, ended, promiseVars>>

Proceed(w, step) == task' = [task EXCEPT ![w].step = step]

Return(w) ==
    /\ task' = [task EXCEPT ![w] = NoTask]
    /\ ended' = [ended EXCEPT ![w] = {}]

\* The call throws, or its response is lost: the caller learns of a failure.
GiveUp(w) ==
    /\ Return(w)
    /\ UNCHANGED promiseVars

ValidOf(u) == {t \in Tokens : TokenUser[t] = u /\ tokenState[t] = "valid"}

\* A revocation that finds nothing left to revoke changes nothing.
RevokeAny(S) == Revoke(S) \/ (S = {} /\ UNCHANGED vars)
-----------------------------------------------------------------------------
(* changePassword and resetUserMfa: the library ends every session, then the
   service disconnects the user *)

BeginChangePassword(w, t) ==
    /\ t \in DashboardTokens /\ tokenState[t] = "valid"
    /\ Begin(w, "changePassword", "revoke", TokenUser[t], None, "active")

BeginResetUserMfa(w, u) == Begin(w, "resetUserMfa", "revoke", u, None, "active")

EndSessions(w) ==
    /\ At(w, {"changePassword", "resetUserMfa"}, "revoke")
    /\ RevokeAny(ValidOf(task[w].user))
    /\ ended' = [ended EXCEPT ![w] = ValidOf(task[w].user)]
    /\ Proceed(w, "disconnect")
    /\ UNCHANGED promiseVars

\* The library throws part of the way; the service never gets to the disconnect.
EndSessionsFails(w) ==
    /\ At(w, {"changePassword", "resetUserMfa"}, "revoke")
    /\ \E S \in SUBSET ValidOf(task[w].user) : RevokeAny(S)
    /\ GiveUp(w)

\* Fault: no disconnect when no socket of the account is registered.
DisconnectIfRegistered(w) ==
    /\ At(w, {"changePassword", "resetUserMfa"}, "disconnect")
    /\ IF userSockets[task[w].user] = {} THEN UNCHANGED vars ELSE ForceDisconnect(task[w].user)
    /\ promised' = promised \cup ended[w]
    /\ Return(w)
    /\ UNCHANGED <<suspended, platformSuspended>>

DisconnectAfterRevocation(w) ==
    /\ At(w, {"changePassword", "resetUserMfa"}, "disconnect")
    /\ ForceDisconnect(task[w].user)
    /\ promised' = promised \cup ended[w]
    /\ Return(w)
    /\ UNCHANGED <<suspended, platformSuspended>>
-----------------------------------------------------------------------------
(* sign out everywhere: revoke-all, realtime/disconnect, logout, close() *)

\* Fault: the account and the token of the flow are swapped.
BeginSignOutSwapped(w, t) ==
    /\ t \in DashboardTokens /\ tokenState[t] = "valid"
    /\ Begin(w, "signOutEverywhere", "revoke", t, TokenUser[t], "active")

BeginSignOutEverywhere(w, t) ==
    /\ t \in DashboardTokens /\ tokenState[t] = "valid"
    /\ Begin(w, "signOutEverywhere", "revoke", TokenUser[t], t, "active")

\* POST /auth/sessions/revoke-all spares the calling session.
RevokeOthers(w) ==
    LET others == ValidOf(task[w].user) \ {task[w].token} IN
    /\ At(w, {"signOutEverywhere"}, "revoke")
    /\ RevokeAny(others)
    /\ \/ /\ ended' = [ended EXCEPT ![w] = others]
          /\ Proceed(w, "disconnect")
          /\ UNCHANGED promiseVars
       \/ GiveUp(w)

\* Fault: the endpoint closes the sockets itself, without the marker.
CloseWithoutMarker(w) ==
    LET u == task[w].user IN
    /\ At(w, {"signOutEverywhere"}, "disconnect")
    /\ tokenState[task[w].token] = "valid"
    /\ ready' = Closing(userSockets[u])
    /\ userSockets' = [userSockets EXCEPT ![u] = {}]
    /\ Proceed(w, "logout")
    /\ UNCHANGED <<clock, pc, answer, startedAt, req, userId, forcedDisconnectAt,
                   libraryVars, historyVars, ended, promiseVars>>

\* POST /account/realtime/disconnect, while the caller's own token still works.
DisconnectRealtime(w) ==
    /\ At(w, {"signOutEverywhere"}, "disconnect")
    /\ tokenState[task[w].token] = "valid"
    /\ ForceDisconnect(task[w].user)
    /\ \/ /\ Proceed(w, "logout")
          /\ UNCHANGED <<ended, promiseVars>>
       \/ GiveUp(w)

\* POST /api/auth/logout ends the calling session.
Logout(w) ==
    /\ At(w, {"signOutEverywhere"}, "logout")
    /\ RevokeAny({task[w].token} \cap ValidOf(task[w].user))
    /\ \/ /\ Proceed(w, "closeLocal")
          /\ UNCHANGED <<ended, promiseVars>>
       \/ GiveUp(w)

\* getWsClient().close(): the tab closes the socket it holds, if it holds one.
CloseLocal(w) ==
    LET held == {c \in Conns : ready[c] = "open" /\ req[c].token = task[w].token} IN
    /\ At(w, {"signOutEverywhere"}, "closeLocal")
    /\ \/ \E c \in held : PeerCloses(c)
       \/ held = {} /\ UNCHANGED vars
    /\ promised' = promised \cup ended[w]
    /\ Return(w)
    /\ UNCHANGED <<suspended, platformSuspended>>

\* A call of the flow fails before it takes effect: the catch keeps the user
\* on the page.
SignOutFails(w) ==
    /\ \E step \in {"revoke", "disconnect", "logout"} : At(w, {"signOutEverywhere"}, step)
    /\ GiveUp(w)
    /\ UNCHANGED vars
-----------------------------------------------------------------------------
(* the two status changes *)

BeginUpdateStatus(w, op, u, s) ==
    /\ op \in {"updateStatus", "updateUserStatus"}
    /\ Begin(w, op, "commit", u, None, s)

\* Activating the account lifts what either kind of suspension promised.
CommitStatus(w) ==
    LET u == task[w].user IN
    /\ At(w, {"updateStatus", "updateUserStatus"}, "commit")
    /\ \/ (task[w].status = "blocked") # (u \in blocked) /\ SetStatus(u)
       \/ (task[w].status = "blocked") = (u \in blocked) /\ UNCHANGED vars
    /\ suspended' = IF task[w].status = "active" THEN suspended \ {u} ELSE suspended
    /\ platformSuspended' =
          IF task[w].status = "active" THEN platformSuspended \ {u} ELSE platformSuspended
    /\ Proceed(w, "cache")
    /\ UNCHANGED <<ended, promised>>

\* The cache is invalidated and the audit row attempted; PlatformService also
\* goes on when the invalidation fails.
InvalidateAndAudit(w) ==
    /\ At(w, {"updateStatus", "updateUserStatus"}, "cache")
    /\ Proceed(w, "finish")
    /\ UNCHANGED <<vars, ended, promiseVars>>

\* UsersService lets the failed invalidation escape.
InvalidationEscapes(w) ==
    /\ At(w, {"updateStatus"}, "cache")
    /\ GiveUp(w)
    /\ UNCHANGED vars

\* maybeDisconnectBlockedUser
FinishUpdateStatus(w) ==
    LET u == task[w].user IN
    /\ At(w, {"updateStatus"}, "finish")
    /\ IF task[w].status = "blocked" THEN ForceDisconnect(u) ELSE UNCHANGED vars
    /\ suspended' = suspended \cup (IF task[w].status = "blocked" THEN {u} \cap blocked ELSE {})
    /\ Return(w)
    /\ UNCHANGED <<promised, platformSuspended>>

\* PlatformService.updateUserStatus returns without a disconnect.
FinishUpdateUserStatus(w) ==
    LET u == task[w].user IN
    /\ At(w, {"updateUserStatus"}, "finish")
    /\ platformSuspended' =
          platformSuspended \cup (IF task[w].status = "blocked" THEN {u} \cap blocked ELSE {})
    /\ Return(w)
    /\ UNCHANGED <<vars, promised, suspended>>
-----------------------------------------------------------------------------
\* A restart takes the requests in progress with it.
ProcessRestart ==
    /\ Restart
    /\ task' = [w \in Workers |-> NoTask]
    /\ ended' = [w \in Workers |-> {}]
    /\ UNCHANGED promiseVars

SocketStep ==
    /\ \/ \E c \in Conns : Arrival(c) \/ Lookup(c) \/ Continuation(c)
                             \/ PeerCloses(c) \/ SocketClosed(c)
       \/ \E u \in Users : EmitNewNotification(u)
       \/ Tick
       \/ TokenStep
    /\ UNCHANGED taskVars

RevocationStep(w) ==
    \/ \E t \in Tokens : BeginChangePassword(w, t) \/ BeginSignOutEverywhere(w, t)
    \/ \E u \in Users : BeginResetUserMfa(w, u)
    \/ EndSessions(w) \/ EndSessionsFails(w) \/ DisconnectAfterRevocation(w)
    \/ RevokeOthers(w) \/ DisconnectRealtime(w) \/ Logout(w) \/ CloseLocal(w)
    \/ SignOutFails(w)

StatusStep(w) ==
    \/ \E op \in Operations, u \in Users, s \in Statuses : BeginUpdateStatus(w, op, u, s)
    \/ CommitStatus(w) \/ InvalidateAndAudit(w) \/ InvalidationEscapes(w)
    \/ FinishUpdateStatus(w) \/ FinishUpdateUserStatus(w)

AccessNext ==
    \/ SocketStep
    \/ \E w \in Workers : RevocationStep(w) \/ StatusStep(w)
    \/ ProcessRestart

AccessSpec == AccessInit /\ [][AccessNext]_allVars
-----------------------------------------------------------------------------
(* Properties *)

\* The gateway's environment in NotificationsGateway (revocations, disconnects
\* and status changes at any time) covers every one of these operations, so
\* what is proved of the gateway holds under them.
StaysWithinGateway == Spec

\* Once an operation has reported sessions as ended, no socket that carries one
\* of their tokens is registered or written to again, whatever was being
\* authenticated while the operation ran (account.service.ts:329-338).
PromisedSessionsNeverStream ==
    \A c \in Conns : req[c].token \in promised => ~Registered(c) /\ c \notin heard

\* While a suspension that a tenant admin was told of stands, no ticket opens a
\* stream for the account: the status read at redemption catches the later
\* attempts, the disconnect marker the earlier ones.
SuspensionHoldsOnTicketPath ==
    \A c \in Conns, u \in suspended :
        c \in userSockets[u] => req[c].ticket = None

\* Claimed of the platform console (notifications.gateway.ts:43-46): when its
\* suspension returns, every socket of the account has been closed.
PlatformSuspensionClosesSockets ==
    [][\A u \in platformSuspended' \ platformSuspended : Recipients(u)' = {}]_allVars
=============================================================================
