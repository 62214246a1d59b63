------------------------------ MODULE WsClient ------------------------------
(***************************************************************************)
(* The browser's realtime client, apps/web/lib/ws-client.ts: one WebSocket *)
(* per tab, opened with a freshly minted ticket, reopened after a backoff, *)
(* stopped for good when the credential is refused.  NotificationListener, *)
(* the password form and the sign-out button drive it.                     *)
(*                                                                         *)
(* JavaScript runs one callback at a time, so every action below is a      *)
(* whole callback.  What interleaves is the order of the callbacks: ticket *)
(* answers, timers, close events and the page's own calls.  The cookie jar *)
(* is shared with the other tabs and changes at any moment.                *)
(*                                                                         *)
(* Left out: the length of the backoff (attempt, backoff(), onopen), since *)
(* a timer here may fire at any time; and the shape of the messages.       *)
(***************************************************************************)
EXTENDS Naturals, FiniteSets

CONSTANTS
    Accounts,       \* users the cookies can name
    Sockets,        \* WebSocket objects a tab may create
    None,           \* null; nobody; no cookie
    MaxConnects,    \* bound on connectSeq
    MaxStrays       \* bound on pending timers whose handle was overwritten

ASSUME NoneAssumption == None \notin Accounts \cup Sockets
ASSUME BoundAssumption == MaxConnects \in Nat /\ MaxStrays \in Nat

VARIABLES
    cookie,         \* the account the browser's cookies authenticate
    subscribed,     \* the account the listener's handler is registered for
    socket,         \* module state: the current WebSocket
    stopped,        \* module state: no more attempts
    connectSeq,     \* module state: the number of the last connect()
    timer,          \* whether the timer reconnectTimer names is pending
    strays,         \* pending timers reconnectTimer no longer names
    mints,          \* ticket requests in flight
    ready,          \* readyState of each WebSocket
    attached,       \* sockets that still have their handlers
    who,            \* the account each socket was opened as
    drift,          \* history: the cookies changed since the listener ran
    overtaken       \* history: reconnect() ran while a socket close() had
                    \* given up, handlers and all, was still closing

client == <<socket, stopped, connectSeq, timer, strays, mints>>
wires == <<ready, attached, who>>
vars == <<cookie, subscribed, client, wires, drift, overtaken>>

Mints == [seq : 1..MaxConnects, as : Accounts \cup {None}]

TypeOK ==
    /\ cookie \in Accounts \cup {None} /\ subscribed \in Accounts \cup {None}
    /\ socket \in Sockets \cup {None}
    /\ stopped \in BOOLEAN /\ timer \in BOOLEAN
    /\ drift \in BOOLEAN /\ overtaken \in BOOLEAN
    /\ connectSeq \in 0..MaxConnects /\ strays \in 0..MaxStrays
    /\ mints \subseteq Mints
    /\ ready \in [Sockets -> {"unused", "live", "closing", "closed"}]
    /\ attached \subseteq Sockets
    /\ who \in [Sockets -> Accounts \cup {None}]

Init ==
    /\ cookie = None /\ subscribed = None
    /\ socket = None /\ stopped = FALSE /\ connectSeq = 0
    /\ timer = FALSE /\ strays = 0 /\ mints = {}
    /\ ready = [s \in Sockets |-> "unused"] /\ attached = {}
    /\ who = [s \in Sockets |-> None]
    /\ drift = FALSE /\ overtaken = FALSE

Live == {s \in Sockets : ready[s] = "live"}

-----------------------------------------------------------------------------
(* The module's functions *)

\* Fault: connectSeq++ where ++connectSeq is meant.
ConnectPostIncrement(n) ==
    /\ connectSeq + n <= MaxConnects
    /\ connectSeq' = connectSeq + n
    /\ mints' = mints \cup [seq : connectSeq .. connectSeq + n - 1, as : {cookie}]

\* n calls of connect() in a row that were not stopped: each asks for a ticket.
Connect(n) ==
    /\ connectSeq + n <= MaxConnects
    /\ connectSeq' = connectSeq + n
    /\ mints' = mints \cup [seq : connectSeq + 1 .. connectSeq + n, as : {cookie}]

\* Fault: connect() does not look at stopped.
ConnectAlways == Connect(1)

\* connect() as the backoff timer calls it.
ConnectUnlessStopped ==
    IF stopped THEN UNCHANGED <<connectSeq, mints>> ELSE Connect(1)

\* Whether getWsClient() connects on its way to the singleton.
GetConnects == IF socket = None /\ ~stopped THEN 1 ELSE 0

\* The readyState of sockets the client calls close() on.
Closed(S) == [s \in Sockets |-> IF s \in S /\ ready[s] = "live" THEN "closing"
                                ELSE ready[s]]

\* Fault: an older call's ticket still opens a socket.
MootIfServed(m) == stopped \/ socket # None

\* The continuation of connect() gives up: a newer call, a stop, a socket.
MintIsMoot(m) == stopped \/ m.seq # connectSeq \/ socket # None

OpenSocket(s, account) ==
    /\ socket' = s
    /\ ready' = [ready EXCEPT ![s] = "live"]
    /\ attached' = attached \cup {s}
    /\ who' = [who EXCEPT ![s] = account]

\* socket.onclose.  It empties the module's slot whichever socket fired it.
OnClose(refused) ==
    /\ socket' = None
    /\ stopped' = (stopped \/ refused)
    /\ IF refused \/ stopped
       THEN UNCHANGED <<timer, strays>>
       ELSE /\ timer' = TRUE
            /\ strays' = IF timer THEN strays + 1 ELSE strays
            /\ strays' <= MaxStrays

\* Fault: reconnect() leaves the handlers on the socket it closes.
ReconnectAttached ==
    /\ Connect(GetConnects + 1)
    /\ stopped' = FALSE /\ timer' = FALSE /\ socket' = None
    /\ ready' = Closed({socket})
    /\ UNCHANGED <<attached, overtaken, strays, who>>

\* getWsClient().reconnect(): the handlers come off before the socket closes.
Reconnect ==
    /\ Connect(GetConnects + 1)
    /\ stopped' = FALSE /\ timer' = FALSE /\ socket' = None
    /\ attached' = attached \ {socket}
    /\ ready' = Closed({socket})
    /\ overtaken' = (overtaken \/ \E s \in attached \ {socket} : ready[s] = "closing")
    /\ UNCHANGED <<strays, who>>

-----------------------------------------------------------------------------
(* Callbacks: tickets, timers, close events *)

MintRefused(m) ==
    /\ m \in mints
    /\ mints' = mints \ {m}
    /\ stopped' = (stopped \/ ~MintIsMoot(m))
    /\ UNCHANGED <<cookie, subscribed, socket, connectSeq, timer, strays, wires,
                   drift, overtaken>>

\* Fault: no ticket, no upgrade.
MintSettlesOrGivesUp(m) ==
    /\ m \in mints
    /\ mints' = mints \ {m}
    /\ IF MintIsMoot(m) \/ m.as = None
       THEN UNCHANGED <<socket, wires>>
       ELSE \E s \in Sockets : ready[s] = "unused" /\ OpenSocket(s, m.as)
    /\ UNCHANGED <<cookie, subscribed, stopped, connectSeq, timer, strays,
                   drift, overtaken>>

\* A ticket is redeemed as the account that minted it; without one the upgrade
\* carries the cookies the browser holds now.
MintSettles(m) ==
    /\ m \in mints
    /\ mints' = mints \ {m}
    /\ IF MintIsMoot(m)
       THEN UNCHANGED <<socket, wires>>
       ELSE \E s \in Sockets : \E account \in {cookie} \cup ({m.as} \ {None}) :
              /\ ready[s] = "unused"
              /\ OpenSocket(s, account)
    /\ UNCHANGED <<cookie, subscribed, stopped, connectSeq, timer, strays,
                   drift, overtaken>>

TimerFires ==
    /\ timer
    /\ timer' = FALSE
    /\ ConnectUnlessStopped
    /\ UNCHANGED <<cookie, subscribed, socket, stopped, strays, wires, drift,
                   overtaken>>

StrayTimerFires ==
    /\ strays > 0
    /\ strays' = strays - 1
    /\ ConnectUnlessStopped
    /\ UNCHANGED <<cookie, subscribed, socket, stopped, timer, wires, drift,
                   overtaken>>

\* The gateway, the network or the closing handshake ends a socket; refused
\* stands for the codes 4401 and 4403.
SocketCloses(s, refused) ==
    /\ ready[s] \in {"live", "closing"}
    /\ ready' = [ready EXCEPT ![s] = "closed"]
    /\ IF s \in attached THEN OnClose(refused)
       ELSE UNCHANGED <<socket, stopped, timer, strays>>
    /\ UNCHANGED <<cookie, subscribed, connectSeq, mints, attached, who, drift,
                   overtaken>>

-----------------------------------------------------------------------------
(* What the page and the browser do *)

\* A sign-in, a sign-out or a workspace switch, in this tab or another one.
CookiesChange(account) ==
    /\ cookie' = account
    /\ drift' = TRUE
    /\ UNCHANGED <<subscribed, client, wires, overtaken>>

\* The listener's effect for a user: reconnect, then subscribe.  The session
\* it was rendered with can be older than the cookies.
ListenerRuns(account) ==
    /\ subscribed # account
    /\ Reconnect
    /\ subscribed' = account
    /\ drift' = (account # cookie)
    /\ UNCHANGED cookie

\* The effect after a sign-out: getWsClient().off() and nothing else.
ListenerSignsOut ==
    /\ subscribed # None
    /\ subscribed' = None
    /\ Connect(GetConnects)
    /\ UNCHANGED <<cookie, socket, stopped, timer, strays, wires, drift, overtaken>>

\* The dashboard unmounts: the effect's cleanup alone.
ListenerUnmounts ==
    /\ subscribed # None
    /\ subscribed' = None
    /\ UNCHANGED <<cookie, client, wires, drift, overtaken>>

\* After a password change, and when sign out everywhere fails half-way.
PageReconnects ==
    /\ Reconnect
    /\ UNCHANGED <<cookie, subscribed, drift>>

\* getWsClient().close(): the handlers stay on the socket.
PageCloses ==
    /\ Connect(GetConnects)
    /\ stopped' = TRUE /\ timer' = FALSE /\ socket' = None
    /\ ready' = Closed({socket})
    /\ UNCHANGED <<cookie, subscribed, strays, attached, who, drift, overtaken>>

Next ==
    \/ \E m \in mints : MintRefused(m) \/ MintSettles(m)
    \/ TimerFires \/ StrayTimerFires
    \/ \E s \in Sockets, refused \in BOOLEAN : SocketCloses(s, refused)
    \/ \E u \in Accounts \cup {None} : CookiesChange(u)
    \/ \E u \in Accounts : ListenerRuns(u)
    \/ ListenerSignsOut \/ ListenerUnmounts
    \/ PageReconnects \/ PageCloses

Spec == Init /\ [][Next]_vars

-----------------------------------------------------------------------------
(* Properties *)

\* Every open socket is the one the module holds: no zombie keeps a stream (and
\* its duplicate toasts) that reconnect() and close() no longer reach.  Short of
\* one case, a reconnect() that overtakes the closing of a socket close() ended.
NoZombies == ~overtaken => Live \subseteq {socket}

\* The promise as reconnect() words it: the replacement is the only socket.
ReconnectLeavesOneSocket == Cardinality(Live) <= 1

\* Once the listener has run for the signed-in account, and while the cookies
\* stay what they were, no socket delivers another account's notifications: not
\* the one of the previous user, nor one a ticket minted for them still opens.
StreamIsTheSubscribers ==
    subscribed # None /\ ~drift /\ ~overtaken =>
        \A s \in Live \cap attached : who[s] = subscribed

\* A client that has connected and was not stopped is never left with nothing
\* to wake it: it has a socket, a timer, or an answer it will act on.
NeverStranded ==
    connectSeq > 0 /\ ~stopped =>
        \/ socket # None \/ timer \/ strays > 0
        \/ \E m \in mints : m.seq = connectSeq

\* While the client is stopped, by close() or by a refused credential, nothing
\* it left behind (a timer, a ticket on its way) opens a socket or asks again.
StoppedStaysQuiet ==
    [][stopped /\ stopped' => Live' \subseteq Live /\ mints' \subseteq mints]_vars
=============================================================================
