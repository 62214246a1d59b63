--------------------------- MODULE WsClientProofs ---------------------------
(***************************************************************************)
(* The browser's realtime client keeps its promises whatever the order of  *)
(* its callbacks, for any accounts, sockets and bounds.                    *)
(*                                                                         *)
(* The argument is in three facts about the module's slot: a stopped       *)
(* client holds no socket; the socket it holds is open and has its         *)
(* handlers; and as long as no reconnect() overtook the closing of a       *)
(* socket that still had its handlers, no socket is open but the one it    *)
(* holds, and only a stopped client waits for such a closing.              *)
(***************************************************************************)
EXTENDS WsClient, TLAPS

\* A stopped client has given its socket up.
StoppedHoldsNothing == stopped => socket = None

\* The slot names an open socket, with its handlers.
SlotIsOpen == socket # None => socket \in Live \cap attached

\* A closing socket with handlers is one close() left, and it stopped the client.
ClosingMeansStopped ==
    ~overtaken => \A s \in attached : ready[s] = "closing" => stopped

\* The ticket the client would act on was asked for with the present cookies,
\* which are the subscriber's.
CurrentTicket ==
    subscribed # None /\ ~drift =>
        /\ cookie = subscribed
        /\ \A m \in mints : m.seq = connectSeq => m.as = cookie

\* Tickets are numbered by the connect() that asked for them.
TicketsAreNumbered == \A m \in mints : m.seq <= connectSeq

\* The inductive invariant.
IInv ==
    /\ TypeOK
    /\ StoppedHoldsNothing
    /\ SlotIsOpen
    /\ ClosingMeansStopped
    /\ TicketsAreNumbered
    /\ CurrentTicket
    /\ NoZombies
    /\ StreamIsTheSubscribers
    /\ NeverStranded
-----------------------------------------------------------------------------
LEMMA InvInit == Init => IInv
  <1> SUFFICES ASSUME Init PROVE IInv
    OBVIOUS
  <1> USE DEF Init
  <1>1. Live = {}
    BY DEF Live
  <1>2. TypeOK
    <2>1. connectSeq \in 0..MaxConnects /\ strays \in 0..MaxStrays
      BY BoundAssumption
    <2>2. /\ ready \in [Sockets -> {"unused", "live", "closing", "closed"}]
          /\ who \in [Sockets -> Accounts \cup {None}]
      OBVIOUS
    <2> QED BY <2>1, <2>2 DEF TypeOK
  <1>3. /\ StoppedHoldsNothing /\ SlotIsOpen /\ ClosingMeansStopped
        /\ TicketsAreNumbered /\ CurrentTicket
    BY DEF StoppedHoldsNothing, SlotIsOpen, ClosingMeansStopped, TicketsAreNumbered,
           CurrentTicket
  <1>4. NoZombies /\ StreamIsTheSubscribers /\ NeverStranded
    BY <1>1 DEF NoZombies, StreamIsTheSubscribers, NeverStranded
  <1> QED BY <1>2, <1>3, <1>4 DEF IInv

\* n calls of connect() in a row: their tickets are new, numbered up to
\* connectSeq, and asked for with the present cookies.
LEMMA ConnectFacts ==
  ASSUME TypeOK, TicketsAreNumbered, NEW n \in 0..2, Connect(n)
  PROVE  /\ connectSeq' \in 0..MaxConnects
         /\ mints' \subseteq Mints
         /\ mints \subseteq mints'
         /\ \A m \in mints' : m.seq <= connectSeq'
         /\ n = 0 => connectSeq' = connectSeq /\ mints' = mints
         /\ n > 0 => /\ \E m \in mints' : m.seq = connectSeq'
                     /\ \A m \in mints' : m.seq = connectSeq' => m.as = cookie
  <1> USE BoundAssumption DEF TypeOK, Mints, TicketsAreNumbered, Connect
  <1> DEFINE new == [seq : connectSeq + 1 .. connectSeq + n, as : {cookie}]
  <1>1. new \subseteq Mints
    OBVIOUS
  <1>2. /\ connectSeq' \in 0..MaxConnects
        /\ mints' \subseteq Mints
        /\ mints \subseteq mints'
    BY <1>1
  <1>3. \A m \in mints' : m.seq <= connectSeq'
    OBVIOUS
  <1>4. n = 0 => connectSeq' = connectSeq /\ mints' = mints
    <2>1. n = 0 => new = {}
      OBVIOUS
    <2> QED BY <2>1
  <1>5. n > 0 => \E m \in mints' : m.seq = connectSeq'
    <2> SUFFICES ASSUME n > 0 PROVE \E m \in mints' : m.seq = connectSeq'
      OBVIOUS
    <2> DEFINE last == [seq |-> connectSeq + n, as |-> cookie]
    <2>1. last \in new /\ last.seq = connectSeq'
      OBVIOUS
    <2>2. last \in mints'
      BY <2>1
    <2> QED BY <2>1, <2>2
  <1>6. n > 0 => \A m \in mints' : m.seq = connectSeq' => m.as = cookie
    OBVIOUS
  <1> QED BY <1>2, <1>3, <1>4, <1>5, <1>6

\* What getWsClient() adds to them.
LEMMA GetConnectsFacts ==
  /\ GetConnects \in 0..2 /\ GetConnects + 1 \in 0..2 /\ GetConnects + 1 > 0
  /\ socket = None /\ ~stopped => GetConnects > 0
  /\ ~(socket = None /\ ~stopped) => GetConnects = 0
  BY DEF GetConnects

\* A refused ticket stops the client only where it would have opened a socket.
LEMMA MintRefusedKeeps ==
  ASSUME IInv, NEW m \in mints, MintRefused(m)
  PROVE  IInv'
  <1> USE DEF IInv, MintRefused, MintIsMoot, wires
  <1>1. TypeOK'
    BY DEF TypeOK
  <1>2. StoppedHoldsNothing'
    BY DEF StoppedHoldsNothing
  <1>3. SlotIsOpen'
    BY DEF SlotIsOpen, Live
  <1>4. ClosingMeansStopped'
    BY DEF ClosingMeansStopped
  <1>5. TicketsAreNumbered'
    BY DEF TicketsAreNumbered
  <1>6. CurrentTicket'
    BY DEF CurrentTicket
  <1>7. NoZombies'
    BY DEF NoZombies, Live
  <1>8. StreamIsTheSubscribers'
    BY DEF StreamIsTheSubscribers, Live
  <1>9. NeverStranded'
    BY DEF NeverStranded, TypeOK
  <1> QED BY <1>1, <1>2, <1>3, <1>4, <1>5, <1>6, <1>7, <1>8, <1>9

\* A ticket opens a socket only when the slot is empty and nothing newer was asked.
LEMMA MintSettlesKeeps ==
  ASSUME IInv, NEW m \in mints, MintSettles(m)
  PROVE  IInv'
  <1> USE DEF IInv, MintSettles, MintIsMoot
  <1>a. CASE MintIsMoot(m)
    <2>1. TypeOK'
      BY <1>a DEF TypeOK, wires
    <2>2. Live' = Live
      BY <1>a DEF Live, wires
    <2> QED BY <1>a, <2>1, <2>2
        DEF StoppedHoldsNothing, SlotIsOpen, ClosingMeansStopped, TicketsAreNumbered,
            CurrentTicket, NoZombies, StreamIsTheSubscribers, NeverStranded, wires, TypeOK
  <1>b. CASE ~MintIsMoot(m)
    <2>1. PICK s \in Sockets, account \in {cookie} \cup ({m.as} \ {None}) :
            ready[s] = "unused" /\ OpenSocket(s, account)
      BY <1>b
    <2>2. account \in Accounts \cup {None} /\ s # None
      BY <2>1, NoneAssumption DEF TypeOK, Mints
    <2>3. Live' = Live \cup {s}
      BY <2>1 DEF Live, OpenSocket, TypeOK
    <2>4. socket = None /\ ~stopped /\ m.seq = connectSeq
      BY <1>b
    <2>5. TypeOK'
      BY <2>1, <2>2 DEF OpenSocket, TypeOK
    <2>6. StoppedHoldsNothing' /\ SlotIsOpen'
      BY <2>1, <2>3, <2>4 DEF StoppedHoldsNothing, SlotIsOpen, OpenSocket
    <2>7. ClosingMeansStopped'
      BY <2>1, <2>3 DEF ClosingMeansStopped, OpenSocket, TypeOK
    <2>8. TicketsAreNumbered' /\ CurrentTicket'
      BY DEF TicketsAreNumbered, CurrentTicket
    <2>9. NoZombies'
      BY <2>1, <2>3, <2>4, NoneAssumption DEF NoZombies, OpenSocket, Live
    <2>10. StreamIsTheSubscribers'
      <3> SUFFICES ASSUME subscribed # None, ~drift, ~overtaken PROVE who'[s] = subscribed
        BY <2>1, <2>9 DEF StreamIsTheSubscribers, NoZombies, OpenSocket
      <3>1. account = subscribed
        BY <2>1, <2>4 DEF CurrentTicket
      <3> QED BY <2>1, <3>1 DEF OpenSocket, TypeOK
    <2>11. NeverStranded'
      BY <2>1, <2>2 DEF NeverStranded, OpenSocket
    <2> QED BY <2>5, <2>6, <2>7, <2>8, <2>9, <2>10, <2>11
  <1> QED BY <1>a, <1>b

\* A timer asks for a newer ticket, unless the client has stopped.
LEMMA TimersKeep ==
  ASSUME IInv, TimerFires \/ StrayTimerFires
  PROVE  IInv'
  <1> USE DEF IInv, TimerFires, StrayTimerFires, wires
  <1>a. \/ stopped /\ UNCHANGED <<connectSeq, mints>>
        \/ ~stopped /\ Connect(1)
    BY DEF ConnectUnlessStopped
  <1>b. /\ connectSeq' \in 0..MaxConnects /\ mints' \subseteq Mints
        /\ \A m \in mints' : m.seq <= connectSeq'
        /\ ~stopped => /\ \E m \in mints' : m.seq = connectSeq'
                       /\ \A m \in mints' : m.seq = connectSeq' => m.as = cookie
    BY <1>a, ConnectFacts DEF TypeOK, TicketsAreNumbered
  <1>c. strays' \in 0..MaxStrays
    BY BoundAssumption DEF TypeOK
  <1>1. TypeOK'
    BY <1>b, <1>c DEF TypeOK
  <1>2. StoppedHoldsNothing'
    BY DEF StoppedHoldsNothing
  <1>3. SlotIsOpen'
    BY DEF SlotIsOpen, Live
  <1>4. ClosingMeansStopped'
    BY DEF ClosingMeansStopped
  <1>5. TicketsAreNumbered'
    BY <1>b DEF TicketsAreNumbered
  <1>6. CurrentTicket'
    BY <1>a, <1>b DEF CurrentTicket
  <1>7. NoZombies'
    BY DEF NoZombies, Live
  <1>8. StreamIsTheSubscribers'
    BY DEF StreamIsTheSubscribers, Live
  <1>9. NeverStranded'
    BY <1>b DEF NeverStranded
  <1> QED BY <1>1, <1>2, <1>3, <1>4, <1>5, <1>6, <1>7, <1>8, <1>9

\* The socket that closes is the one in the slot, or one nothing listens to.
LEMMA SocketClosesKeeps ==
  ASSUME IInv, NEW s \in Sockets, NEW refused \in BOOLEAN, SocketCloses(s, refused)
  PROVE  IInv'
  <1> USE DEF IInv, SocketCloses, OnClose
  <1>a. Live' = Live \ {s}
    BY DEF Live, TypeOK
  <1>b. timer' \in BOOLEAN /\ strays' \in 0..MaxStrays
    <2>1. \/ UNCHANGED <<timer, strays>>
          \/ timer' = TRUE /\ strays' \in {strays, strays + 1} /\ strays' <= MaxStrays
      OBVIOUS
    <2>2. timer \in BOOLEAN /\ strays \in 0..MaxStrays
      BY DEF TypeOK
    <2>3. timer' \in BOOLEAN
      BY <2>1, <2>2
    <2>4. strays' \in 0..MaxStrays
      BY <2>1, <2>2, BoundAssumption
    <2> QED BY <2>3, <2>4
  <1>c. ready' \in [Sockets -> {"unused", "live", "closing", "closed"}]
    BY DEF TypeOK
  <1>1. TypeOK'
    BY <1>b, <1>c DEF TypeOK
  <1>2. StoppedHoldsNothing'
    BY DEF StoppedHoldsNothing
  <1>3. SlotIsOpen'
    BY <1>a DEF SlotIsOpen
  <1>4. ClosingMeansStopped'
    BY DEF ClosingMeansStopped, TypeOK
  <1>5. TicketsAreNumbered'
    BY DEF TicketsAreNumbered
  <1>6. CurrentTicket'
    BY DEF CurrentTicket
  <1>7. NoZombies'
    BY <1>a DEF NoZombies, SlotIsOpen, StoppedHoldsNothing, ClosingMeansStopped, Live
  <1>8. StreamIsTheSubscribers'
    BY <1>a DEF StreamIsTheSubscribers
  <1>9. NeverStranded'
    BY DEF NeverStranded, TypeOK
  <1> QED BY <1>1, <1>2, <1>3, <1>4, <1>5, <1>6, <1>7, <1>8, <1>9

\* New cookies put the listener behind.
LEMMA CookiesChangeKeeps ==
  ASSUME IInv, NEW u \in Accounts \cup {None}, CookiesChange(u)
  PROVE  IInv'
  <1> USE DEF IInv, CookiesChange, client, wires
  <1>1. TypeOK'
    BY DEF TypeOK
  <1>2. StoppedHoldsNothing'
    BY DEF StoppedHoldsNothing
  <1>3. SlotIsOpen'
    BY DEF SlotIsOpen, Live
  <1>4. ClosingMeansStopped'
    BY DEF ClosingMeansStopped
  <1>5. TicketsAreNumbered'
    BY DEF TicketsAreNumbered
  <1>6. CurrentTicket'
    BY DEF CurrentTicket
  <1>7. NoZombies'
    BY DEF NoZombies, Live
  <1>8. StreamIsTheSubscribers'
    BY DEF StreamIsTheSubscribers
  <1>9. NeverStranded'
    BY DEF NeverStranded
  <1> QED BY <1>1, <1>2, <1>3, <1>4, <1>5, <1>6, <1>7, <1>8, <1>9

\* reconnect() leaves a closing socket without handlers, and a ticket that is
\* the present account's.
LEMMA ReconnectKeeps ==
  ASSUME IInv, PageReconnects \/ \E u \in Accounts : ListenerRuns(u)
  PROVE  IInv'
  <1> USE DEF IInv, PageReconnects, ListenerRuns, Reconnect
  <1>a. /\ connectSeq' \in 0..MaxConnects /\ mints' \subseteq Mints
        /\ \A m \in mints' : m.seq <= connectSeq'
        /\ \E m \in mints' : m.seq = connectSeq'
        /\ \A m \in mints' : m.seq = connectSeq' => m.as = cookie
    BY ConnectFacts, GetConnectsFacts
  <1>b. Live' = Live \ {socket}
    BY DEF Live, Closed
  <1>c. ready' \in [Sockets -> {"unused", "live", "closing", "closed"}]
    BY DEF Closed, TypeOK
  <1>1. TypeOK'
    BY <1>a, <1>c DEF TypeOK
  <1>2. StoppedHoldsNothing'
    BY DEF StoppedHoldsNothing
  <1>3. SlotIsOpen'
    BY DEF SlotIsOpen
  <1>4. ClosingMeansStopped'
    BY DEF ClosingMeansStopped, Closed, TypeOK
  <1>5. TicketsAreNumbered'
    BY <1>a DEF TicketsAreNumbered
  <1>6. CurrentTicket'
    <2>1. CASE PageReconnects
      BY <1>a, <2>1 DEF CurrentTicket
    <2>2. ASSUME NEW u \in Accounts, ListenerRuns(u) PROVE CurrentTicket'
      <3>1. ~drift' => u = cookie
        BY <2>2
      <3> QED BY <1>a, <2>2, <3>1 DEF CurrentTicket
    <2> QED BY <2>1, <2>2
  <1>7. NoZombies'
    BY <1>b DEF NoZombies
  <1>8. StreamIsTheSubscribers'
    BY <1>b DEF StreamIsTheSubscribers, NoZombies
  <1>9. NeverStranded'
    BY <1>a DEF NeverStranded
  <1> QED BY <1>1, <1>2, <1>3, <1>4, <1>5, <1>6, <1>7, <1>8, <1>9

\* Unsubscribing may connect, and disconnects nothing.
LEMMA ListenerStopsKeeps ==
  ASSUME IInv, ListenerSignsOut \/ ListenerUnmounts
  PROVE  IInv'
  <1> USE DEF IInv, ListenerSignsOut, ListenerUnmounts, client, wires
  <1>a. UNCHANGED <<connectSeq, mints>> \/ Connect(GetConnects)
    OBVIOUS
  <1>b. /\ connectSeq' \in 0..MaxConnects /\ mints' \subseteq Mints
        /\ \A m \in mints' : m.seq <= connectSeq'
        /\ socket = None /\ ~stopped =>
             \/ UNCHANGED <<connectSeq, mints>>
             \/ \E m \in mints' : m.seq = connectSeq'
    BY <1>a, ConnectFacts, GetConnectsFacts DEF TypeOK, TicketsAreNumbered
  <1>1. TypeOK'
    BY <1>b DEF TypeOK
  <1>2. StoppedHoldsNothing'
    BY DEF StoppedHoldsNothing
  <1>3. SlotIsOpen'
    BY DEF SlotIsOpen, Live
  <1>4. ClosingMeansStopped'
    BY DEF ClosingMeansStopped
  <1>5. TicketsAreNumbered'
    BY <1>b DEF TicketsAreNumbered
  <1>6. CurrentTicket'
    BY DEF CurrentTicket
  <1>7. NoZombies'
    BY DEF NoZombies, Live
  <1>8. StreamIsTheSubscribers'
    BY DEF StreamIsTheSubscribers
  <1>9. NeverStranded'
    BY <1>b DEF NeverStranded
  <1> QED BY <1>1, <1>2, <1>3, <1>4, <1>5, <1>6, <1>7, <1>8, <1>9

\* close() leaves a closing socket behind, and a stopped client.
LEMMA PageClosesKeeps ==
  ASSUME IInv, PageCloses
  PROVE  IInv'
  <1> USE DEF IInv, PageCloses
  <1>a. /\ connectSeq' \in 0..MaxConnects /\ mints' \subseteq Mints
        /\ \A m \in mints' : m.seq <= connectSeq'
        /\ \/ UNCHANGED <<connectSeq, mints>>
           \/ \A m \in mints' : m.seq = connectSeq' => m.as = cookie
    BY ConnectFacts, GetConnectsFacts
  <1>b. Live' = Live \ {socket}
    BY DEF Live, Closed
  <1>c. ready' \in [Sockets -> {"unused", "live", "closing", "closed"}]
    BY DEF Closed, TypeOK
  <1>1. TypeOK'
    BY <1>a, <1>c DEF TypeOK
  <1>2. StoppedHoldsNothing'
    BY DEF StoppedHoldsNothing
  <1>3. SlotIsOpen'
    BY DEF SlotIsOpen
  <1>4. ClosingMeansStopped'
    BY DEF ClosingMeansStopped
  <1>5. TicketsAreNumbered'
    BY <1>a DEF TicketsAreNumbered
  <1>6. CurrentTicket'
    BY <1>a DEF CurrentTicket
  <1>7. NoZombies'
    BY <1>b DEF NoZombies
  <1>8. StreamIsTheSubscribers'
    BY <1>b DEF StreamIsTheSubscribers
  <1>9. NeverStranded'
    BY DEF NeverStranded
  <1> QED BY <1>1, <1>2, <1>3, <1>4, <1>5, <1>6, <1>7, <1>8, <1>9

LEMMA InvNext == IInv /\ [Next]_vars => IInv'
  <1> SUFFICES ASSUME IInv, [Next]_vars PROVE IInv'
    OBVIOUS
  <1>1. CASE UNCHANGED vars
    BY <1>1 DEF vars, client, wires, IInv, TypeOK, StoppedHoldsNothing, SlotIsOpen,
       ClosingMeansStopped, TicketsAreNumbered, CurrentTicket, NoZombies,
       StreamIsTheSubscribers, NeverStranded, Live
  <1>2. CASE Next
    BY <1>2, MintRefusedKeeps, MintSettlesKeeps, TimersKeep, SocketClosesKeeps,
       CookiesChangeKeeps, ReconnectKeeps, ListenerStopsKeeps, PageClosesKeeps DEF Next
  <1> QED BY <1>1, <1>2

\* Everything the safety properties rest on holds in every reachable state.
THEOREM ClientInvariance == Spec => []IInv
  BY InvInit, InvNext, PTL DEF Spec
-----------------------------------------------------------------------------
\* The client's state keeps the shape its code gives it.
THEOREM ClientTypeCorrect == Spec => []TypeOK
  <1>1. IInv => TypeOK
    BY DEF IInv
  <1> QED BY <1>1, ClientInvariance, PTL

\* The socket the module holds is the only open one, unless a reconnect()
\* overtook the closing of a socket close() had ended.
THEOREM NoZombieSockets == Spec => []NoZombies
  <1>1. IInv => NoZombies
    BY DEF IInv
  <1> QED BY <1>1, ClientInvariance, PTL

\* No notification of another account reaches the listener while the cookies
\* are the ones it ran with.
THEOREM OwnStream == Spec => []StreamIsTheSubscribers
  <1>1. IInv => StreamIsTheSubscribers
    BY DEF IInv
  <1> QED BY <1>1, ClientInvariance, PTL

\* A client nobody stopped always has something left to wake it.
THEOREM AlwaysAwake == Spec => []NeverStranded
  <1>1. IInv => NeverStranded
    BY DEF IInv
  <1> QED BY <1>1, ClientInvariance, PTL

\* A stopped client opens nothing and asks for nothing.
THEOREM StaysQuiet == Spec => StoppedStaysQuiet
  <1> DEFINE Quiet == Live' \subseteq Live /\ mints' \subseteq mints
  <1>1. IInv /\ [Next]_vars => [stopped /\ stopped' => Quiet]_vars
    <2> SUFFICES ASSUME IInv, Next, stopped, stopped' PROVE Quiet
      OBVIOUS
    <2> USE DEF Live
    <2>1. ASSUME NEW m \in mints, MintRefused(m) \/ MintSettles(m) PROVE Quiet
      BY <2>1 DEF MintRefused, MintSettles, MintIsMoot, wires
    <2>2. CASE TimerFires \/ StrayTimerFires
      BY <2>2 DEF TimerFires, StrayTimerFires, ConnectUnlessStopped, wires
    <2>3. ASSUME NEW s \in Sockets, NEW refused \in BOOLEAN, SocketCloses(s, refused)
          PROVE  Quiet
      BY <2>3 DEF SocketCloses, IInv, TypeOK
    <2>4. ASSUME NEW u \in Accounts \cup {None}, CookiesChange(u) PROVE Quiet
      BY <2>4 DEF CookiesChange, client, wires
    <2>5. CASE PageReconnects \/ \E u \in Accounts : ListenerRuns(u)
      BY <2>5 DEF PageReconnects, ListenerRuns, Reconnect
    <2>6. CASE ListenerSignsOut \/ ListenerUnmounts \/ PageCloses
      <3>1. Connect(GetConnects) => mints' = mints
        BY ConnectFacts, GetConnectsFacts DEF IInv
      <3>2. mints' = mints
        BY <2>6, <3>1 DEF ListenerSignsOut, ListenerUnmounts, PageCloses, client
      <3>3. Live' \subseteq Live
        BY <2>6 DEF ListenerSignsOut, ListenerUnmounts, PageCloses, Closed, client, wires
      <3> QED BY <3>2, <3>3
    <2> QED BY <2>1, <2>2, <2>3, <2>4, <2>5, <2>6 DEF Next
  <1> QED BY <1>1, ClientInvariance, PTL DEF Spec, StoppedStaysQuiet
=============================================================================
