---------------------- MODULE NotificationsGatewayProofs --------------------
(***************************************************************************)
(* Proofs about NotificationsGateway, for any accounts, sockets, tokens    *)
(* and tickets.                                                            *)
(***************************************************************************)
EXTENDS NotificationsGateway, TLAPS

(* Type correctness: one step per action. *)
LEMMA TypeInit == Init => TypeOK
  BY TokenAssumption, NoneAssumption, ClockAssumption
     DEF Init, TypeOK, Awaits, Answers, ReadyStates, TokenStates, Requests, Undefined

LEMMA TypeNext == TypeOK /\ InFlightClaims /\ [Next]_vars => TypeOK'
  <1> SUFFICES ASSUME TypeOK, InFlightClaims, [Next]_vars PROVE TypeOK'
    OBVIOUS
  <1> USE TokenAssumption, NoneAssumption, ClockAssumption
      DEF TypeOK, Awaits, Answers, ReadyStates, TokenStates, Requests, Undefined,
          socketVars, registryVars, libraryVars, historyVars
  <1>1. ASSUME NEW c \in Conns, Arrival(c) PROVE TypeOK'
    <2>1. ASSUME NEW k \in Tickets, NEW t \in Tokens \cup {None}, ConnectWithTicket(c, k, t)
          PROVE  TypeOK'
      <3>1. [ticket |-> k, token |-> t] \in Requests
        OBVIOUS
      <3> QED BY <2>1, <3>1 DEF ConnectWithTicket
    <2>2. ASSUME NEW t \in Tokens, ConnectWithJwt(c, t) PROVE TypeOK'
      <3>1. [ticket |-> None, token |-> t] \in Requests
        OBVIOUS
      <3> QED BY <2>2, <3>1 DEF ConnectWithJwt
    <2>3. CASE ConnectRefused(c)
      BY <2>3 DEF ConnectRefused
    <2> QED BY <1>1, <2>1, <2>2, <2>3 DEF Arrival
  <1>2. ASSUME NEW c \in Conns, Lookup(c) PROVE TypeOK'
    <2>1. CASE RedeemAnswers(c)
      <3>1. spent' \subseteq Tickets
        BY <2>1 DEF RedeemAnswers, InFlightClaims
      <3> QED BY <2>1, <3>1 DEF RedeemAnswers
    <2>2. CASE RevocationAnswers(c)
      BY <2>2 DEF RevocationAnswers
    <2>3. CASE RevocationFails(c)
      BY <2>3 DEF RevocationFails
    <2> QED BY <1>2, <2>1, <2>2, <2>3 DEF Lookup
  <1>3. ASSUME NEW c \in Conns, Continuation(c) PROVE TypeOK'
    <2>1. CASE ResumeRedeemed(c)
      BY <2>1 DEF ResumeRedeemed
    <2>2. CASE RefuseRedeemed(c) \/ RefuseRevoked(c)
      <3>1. ready' \in [Conns -> ReadyStates]
        BY <2>2 DEF RefuseRedeemed, RefuseRevoked, Refuse, Closing
      <3> Settle(c)
        BY <2>2 DEF RefuseRedeemed, RefuseRevoked, Refuse
      <3>2. /\ pc' \in [Conns -> Awaits]
            /\ answer' \in [Conns -> Answers]
            /\ startedAt' \in [Conns -> 0..MaxClock]
        BY DEF Settle
      <3> QED BY <2>2, <3>1, <3>2 DEF RefuseRedeemed, RefuseRevoked, Refuse
    <2>3. CASE ResumeChecked(c)
      <3>1. Claim(c) \in Users \cup {None}
        BY DEF Claim
      <3>2. userSockets' \in [Users -> SUBSET Conns]
        BY <2>3 DEF ResumeChecked, AdmitSocket
      <3> QED BY <2>3, <3>1, <3>2 DEF ResumeChecked, AdmitSocket, Settle, Closing
    <2> QED BY <1>3, <2>1, <2>2, <2>3 DEF Continuation
  <1>4. ASSUME NEW c \in Conns, PeerCloses(c) \/ SocketClosed(c) PROVE TypeOK'
    <2>1. CASE PeerCloses(c)
      BY <2>1 DEF PeerCloses
    <2>2. CASE SocketClosed(c)
      <3>1. userSockets' \in [Users -> SUBSET Conns]
        BY <2>2 DEF SocketClosed, HandleDisconnect
      <3> QED BY <2>2, <3>1 DEF SocketClosed
    <2> QED BY <1>4, <2>1, <2>2
  <1>5. ASSUME NEW u \in Users, EmitNewNotification(u) PROVE TypeOK'
    BY <1>5 DEF EmitNewNotification, Recipients
  <1>6. CASE Restart
    BY <1>6 DEF Restart
  <1>7. CASE Tick
    BY <1>7 DEF Tick
  <1>8. CASE TokenStep
    BY <1>8 DEF TokenStep, Login, Expire, MintTicket, ExpireTicket
  <1>9. ASSUME NEW u \in Users, ForceDisconnect(u) PROVE TypeOK'
    BY <1>9 DEF ForceDisconnect, DisconnectUser, Closing
  <1>10. ASSUME NEW u \in Users, SetStatus(u) PROVE TypeOK'
    BY <1>10 DEF SetStatus
  <1>11. ASSUME NEW S \in SUBSET Tokens, Revoke(S) PROVE TypeOK'
    BY <1>11 DEF Revoke
  <1>12. CASE UNCHANGED vars
    BY <1>12 DEF vars
  <1> QED
    BY <1>1, <1>2, <1>3, <1>4, <1>5, <1>6, <1>7, <1>8, <1>9, <1>10, <1>11, <1>12
       DEF Next, GatewayStep

-----------------------------------------------------------------------------
(* The inductive invariant: one lemma per action (or pair of actions that *)
(* touch the same state), and in it one step per conjunct.                *)

\* A new attempt had left no trace, so nothing is known against it yet.
LEMMA ConnectWithTicketKeeps ==
  ASSUME IInv, TypeOK',
         NEW c \in Conns, NEW k \in Tickets, NEW t \in Tokens \cup {None},
         ConnectWithTicket(c, k, t)
  PROVE  IInv'
  <1> USE TokenAssumption, NoneAssumption
      DEF IInv, TypeOK, Requests, socketVars, registryVars, libraryVars, historyVars,
          ConnectWithTicket
  <1>a. /\ \A d \in Conns \ {c} : /\ req'[d] = req[d] /\ pc'[d] = pc[d]
                                /\ answer'[d] = answer[d] /\ startedAt'[d] = startedAt[d]
        /\ UNCHANGED <<clock, userId, registryVars, libraryVars, historyVars>>
    OBVIOUS
  <1>b. /\ pc'[c] = "redeeming" /\ startedAt'[c] = clock
        /\ req'[c].ticket = k /\ req'[c].token = t
    OBVIOUS
  <1>1. IdleIsBlank'
    BY <1>a, <1>b DEF IdleIsBlank, Registered
  <1>2. InFlightClaims'
    BY <1>a, <1>b DEF InFlightClaims, InFlight, Claim
  <1>3. RegistryMatchesClaims'
    BY <1>a, <1>b DEF RegistryMatchesClaims, IdleIsBlank, Claim, Registered
  <1>4. OvertakenWillBeRefused'
    BY <1>a, <1>b DEF OvertakenWillBeRefused, IdleIsBlank, InFlight, DisconnectRaced,
       Claim, Registered
  <1>5. CutOffWillBeRefused'
    BY <1>a, <1>b DEF CutOffWillBeRefused, DisconnectRaced, Claim
  <1>6. DisconnectIsFinal'
    BY <1>a, <1>b DEF DisconnectIsFinal, Registered
  <1>7. CutOffCredentialNeverStreams'
    BY <1>a, <1>b DEF CutOffCredentialNeverStreams, IdleIsBlank, Registered
  <1> QED BY <1>1, <1>2, <1>3, <1>4, <1>5, <1>6, <1>7

LEMMA ConnectWithJwtKeeps ==
  ASSUME IInv, TypeOK',
         NEW c \in Conns, NEW t \in Tokens,
         ConnectWithJwt(c, t)
  PROVE  IInv'
  <1> USE TokenAssumption, NoneAssumption
      DEF IInv, TypeOK, Requests, socketVars, registryVars, libraryVars, historyVars,
          ConnectWithJwt, VerifyDashboardToken
  <1>a. /\ \A d \in Conns \ {c} : /\ req'[d] = req[d] /\ pc'[d] = pc[d]
                                /\ answer'[d] = answer[d] /\ startedAt'[d] = startedAt[d]
        /\ UNCHANGED <<clock, userId, registryVars, libraryVars, historyVars>>
    OBVIOUS
  <1>b. /\ pc'[c] = "checking" /\ startedAt'[c] = clock /\ answer'[c] = answer[c]
        /\ req'[c].ticket = None /\ req'[c].token = t
    OBVIOUS
  <1>1. IdleIsBlank'
    BY <1>a, <1>b DEF IdleIsBlank, Registered
  <1>2. InFlightClaims'
    BY <1>a, <1>b DEF InFlightClaims, InFlight, Claim
  <1>3. RegistryMatchesClaims'
    BY <1>a, <1>b DEF RegistryMatchesClaims, Claim
  <1>4. OvertakenWillBeRefused'
    BY <1>a, <1>b DEF OvertakenWillBeRefused, IdleIsBlank, InFlight, DisconnectRaced,
       Claim, Registered
  <1>5. CutOffWillBeRefused'
    BY <1>a, <1>b DEF CutOffWillBeRefused, IdleIsBlank, DisconnectRaced, Claim, Registered
  <1>6. DisconnectIsFinal'
    BY <1>a, <1>b DEF DisconnectIsFinal, Registered
  <1>7. CutOffCredentialNeverStreams'
    BY <1>a, <1>b DEF CutOffCredentialNeverStreams, IdleIsBlank, Registered
  <1> QED BY <1>1, <1>2, <1>3, <1>4, <1>5, <1>6, <1>7

LEMMA ConnectRefusedKeeps ==
  ASSUME IInv, TypeOK',
         NEW c \in Conns,
         ConnectRefused(c)
  PROVE  IInv'
  <1> USE TokenAssumption, NoneAssumption
      DEF IInv, TypeOK, Requests, socketVars, registryVars, libraryVars, historyVars,
          ConnectRefused
  <1>1. IdleIsBlank'
    BY DEF IdleIsBlank, Registered
  <1>2. InFlightClaims'
    BY DEF InFlightClaims, InFlight, Claim
  <1>3. RegistryMatchesClaims'
    BY DEF RegistryMatchesClaims, Claim
  <1>4. OvertakenWillBeRefused'
    BY DEF OvertakenWillBeRefused, InFlight, DisconnectRaced, Claim
  <1>5. CutOffWillBeRefused'
    BY DEF CutOffWillBeRefused, DisconnectRaced, Claim
  <1>6. DisconnectIsFinal'
    BY DEF DisconnectIsFinal, Registered
  <1>7. CutOffCredentialNeverStreams'
    BY DEF CutOffCredentialNeverStreams, Registered
  <1> QED BY <1>1, <1>2, <1>3, <1>4, <1>5, <1>6, <1>7

\* A token that was cut off is revoked, so its lookup cannot answer "live".
LEMMA LookupKeeps ==
  ASSUME IInv, TypeOK',
         NEW c \in Conns,
         Lookup(c)
  PROVE  IInv'
  <1> USE TokenAssumption, NoneAssumption
      DEF IInv, TypeOK, Requests, socketVars, registryVars, libraryVars, historyVars,
          Lookup, RedeemAnswers, RevocationAnswers, RevocationFails
  <1>1. IdleIsBlank'
    BY DEF IdleIsBlank, Registered
  <1>2. InFlightClaims'
    BY DEF InFlightClaims, InFlight, Claim
  <1>3. RegistryMatchesClaims'
    BY DEF RegistryMatchesClaims, Claim
  <1>4. OvertakenWillBeRefused'
    BY DEF OvertakenWillBeRefused, InFlight, DisconnectRaced, Claim
  <1>5. CutOffWillBeRefused'
    BY DEF CutOffWillBeRefused, DisconnectRaced, Claim
  <1>6. DisconnectIsFinal'
    BY DEF DisconnectIsFinal, Registered
  <1>7. CutOffCredentialNeverStreams'
    BY DEF CutOffCredentialNeverStreams, Registered
  <1> QED BY <1>1, <1>2, <1>3, <1>4, <1>5, <1>6, <1>7

LEMMA ResumeRedeemedKeeps ==
  ASSUME IInv, TypeOK',
         NEW c \in Conns,
         ResumeRedeemed(c)
  PROVE  IInv'
  <1> USE TokenAssumption, NoneAssumption
      DEF IInv, TypeOK, Requests, socketVars, registryVars, libraryVars, historyVars,
          ResumeRedeemed, CarriesCredentialFor, VerifyDashboardToken
  <1>1. IdleIsBlank'
    BY DEF IdleIsBlank, Registered
  <1>2. InFlightClaims'
    BY DEF InFlightClaims, InFlight, Claim
  <1>3. RegistryMatchesClaims'
    BY DEF RegistryMatchesClaims, Claim
  <1>4. OvertakenWillBeRefused'
    BY DEF OvertakenWillBeRefused, InFlight, DisconnectRaced, Claim
  <1>5. CutOffWillBeRefused'
    BY DEF CutOffWillBeRefused, DisconnectRaced, Claim
  <1>6. DisconnectIsFinal'
    BY DEF DisconnectIsFinal, Registered
  <1>7. CutOffCredentialNeverStreams'
    BY DEF CutOffCredentialNeverStreams, Registered
  <1> QED BY <1>1, <1>2, <1>3, <1>4, <1>5, <1>6, <1>7

LEMMA RefusalKeeps ==
  ASSUME IInv, TypeOK',
         NEW c \in Conns,
         RefuseRedeemed(c) \/ RefuseRevoked(c)
  PROVE  IInv'
  <1> USE TokenAssumption, NoneAssumption
      DEF IInv, TypeOK, Requests, socketVars, registryVars, libraryVars, historyVars,
          RefuseRedeemed, RefuseRevoked, Refuse, Settle
  <1>1. IdleIsBlank'
    BY DEF IdleIsBlank, Registered
  <1>2. InFlightClaims'
    BY DEF InFlightClaims, InFlight, Claim
  <1>3. RegistryMatchesClaims'
    BY DEF RegistryMatchesClaims, Claim
  <1>4. OvertakenWillBeRefused'
    BY DEF OvertakenWillBeRefused, InFlight, DisconnectRaced, Claim
  <1>5. CutOffWillBeRefused'
    BY DEF CutOffWillBeRefused, DisconnectRaced, Claim
  <1>6. DisconnectIsFinal'
    BY DEF DisconnectIsFinal, Registered
  <1>7. CutOffCredentialNeverStreams'
    BY DEF CutOffCredentialNeverStreams, Registered
  <1> QED BY <1>1, <1>2, <1>3, <1>4, <1>5, <1>6, <1>7

\* What is admitted was neither overtaken nor cut off: those are refused.
LEMMA ResumeCheckedKeeps ==
  ASSUME IInv, TypeOK',
         NEW c \in Conns,
         ResumeChecked(c)
  PROVE  IInv'
  <1> USE TokenAssumption, NoneAssumption
      DEF IInv, TypeOK, Requests, socketVars, registryVars, libraryVars, historyVars,
          ResumeChecked, AdmitSocket, Settle
  <1>a. \A d \in Conns :
           Registered(d)' => Registered(d) \/ (d = c /\ ~DisconnectRaced(Claim(c), c))
    BY DEF Registered
  <1>1. IdleIsBlank'
    BY DEF IdleIsBlank, InFlightClaims, Registered, InFlight, Claim
  <1>2. InFlightClaims'
    BY DEF InFlightClaims, InFlight, Claim
  <1>3. RegistryMatchesClaims'
    BY DEF RegistryMatchesClaims, IdleIsBlank, InFlightClaims, Claim, Registered, InFlight
  <1>4. OvertakenWillBeRefused'
    BY DEF OvertakenWillBeRefused, InFlight, DisconnectRaced, Claim
  <1>5. CutOffWillBeRefused'
    BY DEF CutOffWillBeRefused, DisconnectRaced, Claim
  <1>6. DisconnectIsFinal'
    BY DEF DisconnectIsFinal, OvertakenWillBeRefused, Registered, InFlight,
       DisconnectRaced, Claim
  <1>7. CutOffCredentialNeverStreams'
    BY <1>a DEF CutOffCredentialNeverStreams, CutOffWillBeRefused, Registered,
       DisconnectRaced, Claim
  <1> QED BY <1>1, <1>2, <1>3, <1>4, <1>5, <1>6, <1>7

LEMMA SocketEndKeeps ==
  ASSUME IInv, TypeOK',
         NEW c \in Conns,
         PeerCloses(c) \/ SocketClosed(c)
  PROVE  IInv'
  <1> USE TokenAssumption, NoneAssumption
      DEF IInv, TypeOK, Requests, socketVars, registryVars, libraryVars, historyVars,
          PeerCloses, SocketClosed, HandleDisconnect
  <1>a. \A d \in Conns : Registered(d)' => Registered(d)
    BY DEF Registered
  <1>1. IdleIsBlank'
    BY DEF IdleIsBlank, Registered
  <1>2. InFlightClaims'
    BY DEF InFlightClaims, InFlight, Claim
  <1>3. RegistryMatchesClaims'
    BY DEF RegistryMatchesClaims, OvertakenWillBeRefused, Claim, InFlight, DisconnectRaced
  <1>4. OvertakenWillBeRefused'
    BY DEF OvertakenWillBeRefused, InFlight, DisconnectRaced, Claim
  <1>5. CutOffWillBeRefused'
    BY DEF CutOffWillBeRefused, DisconnectRaced, Claim
  <1>6. DisconnectIsFinal'
    BY DEF DisconnectIsFinal, Registered
  <1>7. CutOffCredentialNeverStreams'
    BY <1>a DEF CutOffCredentialNeverStreams, Registered
  <1> QED BY <1>1, <1>2, <1>3, <1>4, <1>5, <1>6, <1>7

LEMMA EmissionKeeps ==
  ASSUME IInv, TypeOK',
         NEW u \in Users,
         EmitNewNotification(u)
  PROVE  IInv'
  <1> USE TokenAssumption, NoneAssumption
      DEF IInv, TypeOK, Requests, socketVars, registryVars, libraryVars, historyVars,
          EmitNewNotification, Recipients
  <1>1. IdleIsBlank'
    BY DEF IdleIsBlank, Registered
  <1>2. InFlightClaims'
    BY DEF InFlightClaims, InFlight, Claim
  <1>3. RegistryMatchesClaims'
    BY DEF RegistryMatchesClaims, Claim
  <1>4. OvertakenWillBeRefused'
    BY DEF OvertakenWillBeRefused, InFlight, DisconnectRaced, Claim
  <1>5. CutOffWillBeRefused'
    BY DEF CutOffWillBeRefused, DisconnectRaced, Claim
  <1>6. DisconnectIsFinal'
    BY DEF DisconnectIsFinal, Registered
  <1>7. CutOffCredentialNeverStreams'
    BY DEF CutOffCredentialNeverStreams, Registered
  <1> QED BY <1>1, <1>2, <1>3, <1>4, <1>5, <1>6, <1>7

LEMMA RestartKeeps ==
  ASSUME IInv, TypeOK',
         Restart
  PROVE  IInv'
  <1> USE TokenAssumption, NoneAssumption
      DEF IInv, TypeOK, Requests, socketVars, registryVars, libraryVars, historyVars,
          Restart
  <1>1. IdleIsBlank'
    BY DEF IdleIsBlank, Registered
  <1>2. InFlightClaims'
    BY DEF InFlightClaims, InFlight, Claim
  <1>3. RegistryMatchesClaims'
    BY DEF RegistryMatchesClaims, Claim
  <1>4. OvertakenWillBeRefused'
    BY DEF OvertakenWillBeRefused, InFlight, DisconnectRaced, Claim
  <1>5. CutOffWillBeRefused'
    BY DEF CutOffWillBeRefused, DisconnectRaced, Claim
  <1>6. DisconnectIsFinal'
    BY DEF DisconnectIsFinal, Registered
  <1>7. CutOffCredentialNeverStreams'
    BY DEF CutOffCredentialNeverStreams, Registered
  <1> QED BY <1>1, <1>2, <1>3, <1>4, <1>5, <1>6, <1>7

LEMMA TickKeeps ==
  ASSUME IInv, TypeOK',
         Tick
  PROVE  IInv'
  <1> USE TokenAssumption, NoneAssumption
      DEF IInv, TypeOK, Requests, socketVars, registryVars, libraryVars, historyVars,
          Tick
  <1>1. IdleIsBlank'
    BY DEF IdleIsBlank, Registered
  <1>2. InFlightClaims'
    BY DEF InFlightClaims, InFlight, Claim
  <1>3. RegistryMatchesClaims'
    BY DEF RegistryMatchesClaims, Claim
  <1>4. OvertakenWillBeRefused'
    BY DEF OvertakenWillBeRefused, InFlight, DisconnectRaced, Claim
  <1>5. CutOffWillBeRefused'
    BY DEF CutOffWillBeRefused, DisconnectRaced, Claim
  <1>6. DisconnectIsFinal'
    BY DEF DisconnectIsFinal, Registered
  <1>7. CutOffCredentialNeverStreams'
    BY DEF CutOffCredentialNeverStreams, Registered
  <1> QED BY <1>1, <1>2, <1>3, <1>4, <1>5, <1>6, <1>7

LEMMA TokenStepKeeps ==
  ASSUME IInv, TypeOK',
         TokenStep
  PROVE  IInv'
  <1> USE TokenAssumption, NoneAssumption
      DEF IInv, TypeOK, Requests, socketVars, registryVars, libraryVars, historyVars,
          TokenStep, Login, Expire, MintTicket, ExpireTicket
  <1>1. IdleIsBlank'
    BY DEF IdleIsBlank, Registered
  <1>2. InFlightClaims'
    BY DEF InFlightClaims, InFlight, Claim
  <1>3. RegistryMatchesClaims'
    BY DEF RegistryMatchesClaims, Claim
  <1>4. OvertakenWillBeRefused'
    BY DEF OvertakenWillBeRefused, InFlightClaims, InFlight, DisconnectRaced, Claim
  <1>5. CutOffWillBeRefused'
    BY DEF CutOffWillBeRefused, InFlightClaims, DisconnectRaced, Claim, InFlight
  <1>6. DisconnectIsFinal'
    BY DEF DisconnectIsFinal, Registered
  <1>7. CutOffCredentialNeverStreams'
    BY DEF CutOffCredentialNeverStreams, Registered
  <1> QED BY <1>1, <1>2, <1>3, <1>4, <1>5, <1>6, <1>7

\* The stamp is no older than any attempt under way.
LEMMA DisconnectKeeps ==
  ASSUME IInv, TypeOK',
         NEW u \in Users,
         ForceDisconnect(u)
  PROVE  IInv'
  <1> USE TokenAssumption, NoneAssumption
      DEF IInv, TypeOK, Requests, socketVars, registryVars, libraryVars, historyVars,
          ForceDisconnect, DisconnectUser
  <1>a. forcedDisconnectAt'[u] = clock /\ clock # Undefined
    BY ClockAssumption DEF Undefined
  <1>1. IdleIsBlank'
    BY <1>a DEF IdleIsBlank, InFlightClaims, Registered, InFlight, Claim
  <1>2. InFlightClaims'
    BY <1>a DEF InFlightClaims, InFlight, Claim
  <1>3. RegistryMatchesClaims'
    BY <1>a DEF RegistryMatchesClaims, Claim
  <1>4. OvertakenWillBeRefused'
    BY <1>a DEF OvertakenWillBeRefused, InFlightClaims, InFlight, DisconnectRaced, Claim
  <1>5. CutOffWillBeRefused'
    BY <1>a DEF CutOffWillBeRefused, InFlightClaims, DisconnectRaced, Claim, InFlight
  <1>6. DisconnectIsFinal'
    BY <1>a DEF DisconnectIsFinal, RegistryMatchesClaims, Registered, Claim
  <1>7. CutOffCredentialNeverStreams'
    BY <1>a DEF CutOffCredentialNeverStreams, RegistryMatchesClaims, Registered, Claim
  <1> QED BY <1>1, <1>2, <1>3, <1>4, <1>5, <1>6, <1>7

LEMMA EnvironmentKeeps ==
  ASSUME IInv, TypeOK',
         \/ \E u \in Users : SetStatus(u)
         \/ \E S \in SUBSET Tokens : Revoke(S)
  PROVE  IInv'
  <1> USE TokenAssumption, NoneAssumption
      DEF IInv, TypeOK, Requests, socketVars, registryVars, libraryVars, historyVars,
          SetStatus, Revoke
  <1>1. IdleIsBlank'
    BY DEF IdleIsBlank, Registered
  <1>2. InFlightClaims'
    BY DEF InFlightClaims, InFlight, Claim
  <1>3. RegistryMatchesClaims'
    BY DEF RegistryMatchesClaims, Claim
  <1>4. OvertakenWillBeRefused'
    BY DEF OvertakenWillBeRefused, InFlight, DisconnectRaced, Claim
  <1>5. CutOffWillBeRefused'
    BY DEF CutOffWillBeRefused, DisconnectRaced, Claim
  <1>6. DisconnectIsFinal'
    BY DEF DisconnectIsFinal, Registered
  <1>7. CutOffCredentialNeverStreams'
    BY DEF CutOffCredentialNeverStreams, Registered
  <1> QED BY <1>1, <1>2, <1>3, <1>4, <1>5, <1>6, <1>7
-----------------------------------------------------------------------------
LEMMA InvInit == Init => IInv
  BY TypeInit DEF Init, IInv, IdleIsBlank, InFlightClaims, RegistryMatchesClaims,
     OvertakenWillBeRefused, CutOffWillBeRefused, DisconnectIsFinal,
     CutOffCredentialNeverStreams, Registered, InFlight

LEMMA InvNext == IInv /\ [Next]_vars => IInv'
  <1> SUFFICES ASSUME IInv, [Next]_vars PROVE IInv'
    OBVIOUS
  <1>1. TypeOK'
    BY TypeNext DEF IInv
  <1>2. CASE GatewayStep
    BY <1>1, <1>2, ConnectWithTicketKeeps, ConnectWithJwtKeeps, ConnectRefusedKeeps,
       LookupKeeps, ResumeRedeemedKeeps, RefusalKeeps, ResumeCheckedKeeps, SocketEndKeeps,
       EmissionKeeps, RestartKeeps, TickKeeps
       DEF GatewayStep, Arrival, Continuation
  <1>3. CASE TokenStep
    BY <1>1, <1>3, TokenStepKeeps
  <1>4. ASSUME NEW u \in Users, ForceDisconnect(u) PROVE IInv'
    BY <1>1, <1>4, DisconnectKeeps
  <1>5. CASE \/ \E u \in Users : SetStatus(u)
             \/ \E S \in SUBSET Tokens : Revoke(S)
    BY <1>1, <1>5, EnvironmentKeeps
  <1>6. CASE UNCHANGED vars
    BY <1>1, <1>6 DEF vars, socketVars, registryVars, libraryVars, historyVars, IInv,
       IdleIsBlank, InFlightClaims, RegistryMatchesClaims, OvertakenWillBeRefused,
       CutOffWillBeRefused, DisconnectIsFinal, CutOffCredentialNeverStreams, Registered,
       InFlight, DisconnectRaced, Claim
  <1> QED BY <1>2, <1>3, <1>4, <1>5, <1>6 DEF Next

\* Everything the safety properties rest on holds in every reachable state.
THEOREM Invariance == Spec => []IInv
  BY InvInit, InvNext, PTL DEF Spec
-----------------------------------------------------------------------------
\* The gateway's state keeps the shape its code gives it.
THEOREM TypeCorrect == Spec => []TypeOK
  <1>1. IInv => TypeOK
    BY DEF IInv
  <1> QED BY <1>1, Invariance, PTL

\* disconnectUser is final for every socket it finds, registered or still being
\* authenticated: none of them is registered or written to again.
THEOREM DisconnectFinal == Spec => []DisconnectIsFinal
  <1>1. IInv => DisconnectIsFinal
    BY DEF IInv
  <1> QED BY <1>1, Invariance, PTL

\* A token revoked before its user was disconnected never opens a stream again.
THEOREM CutOffFinal == Spec => []CutOffCredentialNeverStreams
  <1>1. IInv => CutOffCredentialNeverStreams
    BY DEF IInv
  <1> QED BY <1>1, Invariance, PTL

\* A registered socket sits under the one account its token and ticket name.
THEOREM OwnIdentity == Spec => []RegisteredUnderOwnIdentity
  <1>1. IInv => RegisteredUnderOwnIdentity
    BY DEF IInv, RegistryMatchesClaims, RegisteredUnderOwnIdentity, Claim
  <1> QED BY <1>1, Invariance, PTL
-----------------------------------------------------------------------------
(* The gateway implements the abstract channel: with every claim and every *)
(* disconnect where the mapping puts it, each step of the gateway is one    *)
(* of the channel, or none.                                                 *)

Unmoved(c) == Phase(c)' = Phase(c) /\ Claim(c)' = Claim(c)

\* Nothing the channel can see has changed.
LEMMA NothingSeen ==
  ASSUME \A c \in Conns : Unmoved(c), UNCHANGED <<overtaken, heard>>
  PROVE  UNCHANGED Channel!vars
  BY DEF Channel!vars, Unmoved

\* Only the phase of one connection has changed, and the channel admits it.
LEMMA OneAdmitted ==
  ASSUME NEW c \in Conns, \A d \in Conns \ {c} : Unmoved(d),
         Phase(c) = "pending", Phase(c)' = "streaming", Claim(c)' = Claim(c),
         UNCHANGED <<overtaken, heard>>
  PROVE  Channel!Next
  <1>1. Channel!Admit(c)
    BY DEF Channel!Admit, Unmoved
  <1> QED BY <1>1 DEF Channel!Next

\* Some attempts and streams may have ended; nothing else has changed.
Ends(c) == Phase(c) \in {"pending", "streaming"} /\ Phase(c)' = "ended"

LEMMA SomeEnded ==
  ASSUME \A c \in Conns : (Phase(c)' = Phase(c) \/ Ends(c)) /\ Claim(c)' = Claim(c),
         UNCHANGED <<overtaken, heard>>
  PROVE  Channel!Next
  <1> DEFINE S == {c \in Conns : Ends(c)}
  <1>1. S \in SUBSET {c \in Conns : Channel!Active(c)}
    BY DEF Channel!Active, Ends
  <1>2. Channel!End(S)
    BY DEF Channel!End, Ends
  <1> HIDE DEF S
  <1> QED BY <1>1, <1>2 DEF Channel!Next

\* A connection arrived and claims an account, or none.
LEMMA OneAttempted ==
  ASSUME NEW c \in Conns, \A d \in Conns \ {c} : Unmoved(d),
         NEW u \in Users \cup {None},
         Phase(c) = "idle", Phase(c)' \in {"pending", "ended"}, Claim(c)' = u,
         UNCHANGED <<overtaken, heard>>
  PROVE  Channel!Next
  <1>1. Channel!Attempt(c, u)
    BY DEF Channel!Attempt, Unmoved
  <1> QED BY <1>1 DEF Channel!Next

LEMMA ArrivalAttempts ==
  ASSUME IInv, NEW c \in Conns, Arrival(c)
  PROVE  Channel!Next
  <1> USE TokenAssumption, NoneAssumption
      DEF IInv, TypeOK, Requests, socketVars, registryVars, libraryVars, historyVars
  <1>a. /\ pc[c] = "idle" /\ c \notin overtaken /\ ~Registered(c)
        /\ req[c].ticket = None /\ req[c].token = None
    BY DEF Arrival, ConnectWithTicket, ConnectWithJwt, ConnectRefused, IdleIsBlank
  <1>b. /\ \A d \in Conns \ {c} : /\ req'[d] = req[d] /\ pc'[d] = pc[d]
                                  /\ ready'[d] = ready[d]
        /\ UNCHANGED <<ticketOwner, userSockets, overtaken, heard>>
    BY DEF Arrival, ConnectWithTicket, ConnectWithJwt, ConnectRefused
  <1>1. \A d \in Conns \ {c} : Unmoved(d)
    BY <1>b DEF Unmoved, Phase, Claim, Registered, InFlight
  <1>2. Phase(c) = "idle"
    BY <1>a DEF Phase
  <1>3. ASSUME NEW k \in Tickets, NEW t \in Tokens \cup {None}, ConnectWithTicket(c, k, t)
        PROVE  Channel!Next
    <2>1. /\ pc'[c] = "redeeming" /\ ready'[c] = "open" /\ req'[c].ticket = k
      BY <1>3 DEF ConnectWithTicket
    <2>2. Phase(c)' = "pending"
      BY <2>1, <1>a, <1>b DEF Phase, InFlight, Registered
    <2>3. Claim(c)' = ticketOwner[k] /\ ticketOwner[k] \in Users
      BY <2>1, <1>3 DEF Claim, ConnectWithTicket
    <2> QED BY <1>1, <1>2, <1>b, <2>2, <2>3, OneAttempted
  <1>4. ASSUME NEW t \in Tokens, ConnectWithJwt(c, t) PROVE Channel!Next
    <2>1. /\ pc'[c] = "checking" /\ ready'[c] = "open"
          /\ req'[c].ticket = None /\ req'[c].token = t
      BY <1>4 DEF ConnectWithJwt
    <2>2. Phase(c)' = "pending"
      BY <2>1, <1>a, <1>b DEF Phase, InFlight, Registered
    <2>3. Claim(c)' = TokenUser[t] /\ TokenUser[t] \in Users
      BY <2>1, <1>4 DEF Claim
    <2> QED BY <1>1, <1>2, <1>b, <2>2, <2>3, OneAttempted
  <1>5. CASE ConnectRefused(c)
    <2>1. /\ pc'[c] = "settled" /\ ready'[c] = "closing" /\ req' = req
      BY <1>5 DEF ConnectRefused
    <2>2. Phase(c)' = "ended"
      BY <2>1 DEF Phase
    <2>3. Claim(c)' = None
      BY <2>1, <1>a DEF Claim
    <2> QED BY <1>1, <1>2, <1>b, <2>2, <2>3, OneAttempted
  <1> QED BY <1>3, <1>4, <1>5, Arrival(c) DEF Arrival

\* A lookup is not seen, unless it fails: then the attempt is over.
LEMMA LookupSeen ==
  ASSUME IInv, NEW c \in Conns, Lookup(c)
  PROVE  [Channel!Next]_Channel!vars
  <1> USE DEF IInv, TypeOK, socketVars, registryVars, libraryVars, historyVars
  <1>1. CASE RedeemAnswers(c) \/ RevocationAnswers(c)
    <2>1. UNCHANGED <<pc, req, ready, ticketOwner, userSockets, overtaken, heard>>
      BY <1>1 DEF RedeemAnswers, RevocationAnswers
    <2>2. \A d \in Conns : Unmoved(d)
      BY <2>1 DEF Unmoved, Phase, Claim, Registered, InFlight
    <2> QED BY <2>1, <2>2, NothingSeen
  <1>2. CASE RevocationFails(c)
    <2>1. /\ \A d \in Conns \ {c} : pc'[d] = pc[d]
          /\ pc[c] = "checking" /\ pc'[c] = "settled"
          /\ UNCHANGED <<req, ready, ticketOwner, userSockets, overtaken, heard>>
      BY <1>2 DEF RevocationFails
    <2>2. \A d \in Conns \ {c} : Unmoved(d)
      BY <2>1 DEF Unmoved, Phase, Claim, Registered, InFlight
    <2>3. Claim(c)' = Claim(c)
      BY <2>1 DEF Claim
    <2>4. ~Registered(c) /\ ~Registered(c)'
      BY <2>1 DEF RegistryMatchesClaims, Registered
    <2>5. Phase(c)' = "ended" /\ Phase(c) \in {"pending", "ended"}
      BY <2>1, <2>4 DEF Phase, InFlight
    <2>6. \A d \in Conns : (Phase(d)' = Phase(d) \/ Ends(d)) /\ Claim(d)' = Claim(d)
      BY <2>2, <2>3, <2>5 DEF Unmoved, Ends
    <2> QED BY <2>1, <2>6, SomeEnded
  <1> QED BY <1>1, <1>2, Lookup(c) DEF Lookup

\* A refused attempt and a socket that starts to close are over.
LEMMA ClosingSeen ==
  ASSUME IInv, NEW c \in Conns, RefuseRedeemed(c) \/ RefuseRevoked(c) \/ PeerCloses(c)
  PROVE  [Channel!Next]_Channel!vars
  <1> USE DEF IInv, TypeOK, socketVars, registryVars, libraryVars, historyVars, ReadyStates
  <1>1. /\ \A d \in Conns \ {c} : pc'[d] = pc[d] /\ ready'[d] = ready[d]
        /\ pc'[c] = "idle" <=> pc[c] = "idle"
        /\ ready'[c] # "open"
        /\ UNCHANGED <<req, ticketOwner, userSockets, overtaken, heard>>
    BY DEF RefuseRedeemed, RefuseRevoked, Refuse, Settle, Closing, PeerCloses
  <1>2. \A d \in Conns \ {c} : Unmoved(d)
    BY <1>1 DEF Unmoved, Phase, Claim, Registered, InFlight
  <1>3. Claim(c)' = Claim(c)
    BY <1>1 DEF Claim
  <1>4. Phase(c)' = Phase(c) \/ Ends(c)
    BY <1>1 DEF Phase, Ends
  <1>5. \A d \in Conns : (Phase(d)' = Phase(d) \/ Ends(d)) /\ Claim(d)' = Claim(d)
    BY <1>2, <1>3, <1>4 DEF Unmoved
  <1> QED BY <1>1, <1>5, SomeEnded

\* What admitSocket registers had not been cut off, and what a disconnect
\* raced ends.
LEMMA AdmissionSeen ==
  ASSUME IInv, NEW c \in Conns, ResumeChecked(c)
  PROVE  [Channel!Next]_Channel!vars
  <1> USE DEF IInv, TypeOK, socketVars, registryVars, libraryVars, historyVars, ReadyStates
  <1>1. /\ \A d \in Conns \ {c} : pc'[d] = pc[d]
        /\ pc[c] = "checking" /\ pc'[c] = "settled"
        /\ UNCHANGED <<req, ticketOwner, overtaken, heard>>
    BY DEF ResumeChecked, Settle
  <1>2. Claim(c) \in Users
    BY <1>1, TokenAssumption DEF InFlightClaims
  <1>3. \A d \in Conns \ {c} : ready'[d] = ready[d] /\ (Registered(d)' <=> Registered(d))
    BY <1>2 DEF ResumeChecked, AdmitSocket, Closing, Registered
  <1>4. \A d \in Conns \ {c} : Unmoved(d)
    BY <1>1, <1>3 DEF Unmoved, Phase, Claim, InFlight
  <1>5. Claim(c)' = Claim(c)
    BY <1>1 DEF Claim
  <1>6. ~Registered(c)
    BY <1>1 DEF RegistryMatchesClaims, Registered
  <1>7. CASE DisconnectRaced(Claim(c), c)
    <2>1. ready'[c] # "open"
      BY <1>7 DEF ResumeChecked, AdmitSocket, Closing
    <2>2. Phase(c)' = "ended"
      BY <1>1, <2>1 DEF Phase
    <2>3. Phase(c)' = Phase(c) \/ Ends(c)
      BY <1>1, <1>6, <2>2 DEF Phase, Ends
    <2>4. \A d \in Conns : (Phase(d)' = Phase(d) \/ Ends(d)) /\ Claim(d)' = Claim(d)
      BY <1>4, <1>5, <2>3 DEF Unmoved
    <2> QED BY <1>1, <2>4, SomeEnded
  <1>8. CASE ~DisconnectRaced(Claim(c), c)
    <2>1. c \notin overtaken
      BY <1>1, <1>8 DEF OvertakenWillBeRefused, InFlight
    <2>2. ready' = ready /\ Registered(c)'
      BY <1>2, <1>8 DEF ResumeChecked, AdmitSocket, Registered
    <2>3. CASE ready[c] = "open"
      <3>1. Phase(c) = "pending"
        BY <1>1, <1>6, <2>1, <2>3 DEF Phase, InFlight
      <3>2. Phase(c)' = "streaming"
        BY <1>1, <2>2, <2>3 DEF Phase
      <3> QED BY <1>1, <1>4, <1>5, <3>1, <3>2, OneAdmitted
    <2>4. CASE ready[c] # "open"
      <3>1. Phase(c)' = "ended" /\ Phase(c) = "ended"
        BY <1>1, <2>2, <2>4 DEF Phase
      <3>2. \A d \in Conns : Unmoved(d)
        BY <1>4, <1>5, <3>1 DEF Unmoved
      <3> QED BY <1>1, <3>2, NothingSeen
    <2> QED BY <2>3, <2>4
  <1> QED BY <1>7, <1>8

\* A socket that has closed was no stream any more.
LEMMA ClosedUnseen ==
  ASSUME IInv, NEW c \in Conns, SocketClosed(c)
  PROVE  UNCHANGED Channel!vars
  <1> USE DEF IInv, TypeOK, socketVars, registryVars, libraryVars, historyVars, ReadyStates
  <1>1. /\ \A d \in Conns \ {c} : ready'[d] = ready[d]
        /\ ready[c] = "closing" /\ ready'[c] = "closed"
        /\ UNCHANGED <<pc, req, ticketOwner, overtaken, heard>>
    BY DEF SocketClosed
  <1>2. \A d \in Conns \ {c} : Registered(d)' <=> Registered(d)
    BY DEF SocketClosed, HandleDisconnect, Registered
  <1>3. \A d \in Conns : Unmoved(d)
    BY <1>1, <1>2 DEF Unmoved, Phase, Claim, InFlight
  <1> QED BY <1>1, <1>3, NothingSeen

\* emitNewNotification reaches exactly the account's streams.
LEMMA EmissionDelivers ==
  ASSUME IInv, NEW u \in Users, EmitNewNotification(u)
  PROVE  Channel!Next
  <1> USE DEF IInv, TypeOK, socketVars, registryVars, libraryVars, historyVars
  <1>1. /\ heard' = heard \cup Recipients(u)
        /\ UNCHANGED <<pc, req, ready, ticketOwner, userSockets, overtaken>>
    BY DEF EmitNewNotification
  <1>2. Recipients(u) = {c \in Conns : Phase(c) = "streaming" /\ Claim(c) = u}
    BY DEF Recipients, Phase, Registered, RegistryMatchesClaims
  <1>3. \A d \in Conns : Unmoved(d)
    BY <1>1 DEF Unmoved, Phase, Claim, Registered, InFlight
  <1>4. Channel!Deliver(u)
    BY <1>1, <1>2, <1>3 DEF Channel!Deliver, Unmoved
  <1> QED BY <1>4 DEF Channel!Next

\* disconnectUser takes every attempt and stream of the account down at once.
LEMMA DisconnectImplementsCutOff ==
  ASSUME IInv, NEW u \in Users, ForceDisconnect(u)
  PROVE  Channel!Next
  <1> USE DEF IInv, TypeOK, socketVars, registryVars, libraryVars, historyVars, ReadyStates
  <1> DEFINE gone == {c \in Conns : Phase(c) \in {"pending", "streaming"} /\ Claim(c) = u}
  <1>1. UNCHANGED <<pc, req, ticketOwner>>
    BY DEF ForceDisconnect
  <1>2. \A c \in Conns : Claim(c)' = Claim(c)
    BY <1>1 DEF Claim
  <1>3. \A c \in Conns : Registered(c) =>
           pc[c] = "settled" /\ (c \in userSockets[u] <=> Claim(c) = u)
    BY DEF RegistryMatchesClaims, Registered
  <1>4. \A c \in Conns : Registered(c)' <=> Registered(c) /\ Claim(c) # u
    BY <1>3 DEF ForceDisconnect, DisconnectUser, Registered, RegistryMatchesClaims
  <1>5. overtaken' = overtaken \cup gone
    BY <1>3 DEF ForceDisconnect, DisconnectUser, Phase, InFlight
  <1>6. \A c \in Conns : ready'[c] = "open" <=> ready[c] = "open" /\ c \notin userSockets[u]
    BY DEF ForceDisconnect, DisconnectUser, Closing
  <1>7. \A c \in gone : Phase(c)' = "ended"
    BY <1>1, <1>4, <1>5 DEF Phase, InFlight
  <1>8. \A c \in Conns \ gone : Phase(c)' = Phase(c)
    <2> SUFFICES ASSUME NEW c \in Conns \ gone PROVE Phase(c)' = Phase(c)
      OBVIOUS
    <2>1. c \in userSockets[u] => pc[c] = "settled" /\ Claim(c) = u
      BY DEF RegistryMatchesClaims
    <2>2. CASE Phase(c) \in {"pending", "streaming"}
      BY <1>1, <1>3, <1>4, <1>5, <1>6, <2>1, <2>2 DEF Phase, InFlight
    <2>3. CASE Phase(c) \notin {"pending", "streaming"}
      BY <1>1, <1>3, <1>4, <1>5, <1>6, <2>1, <2>3 DEF Phase, InFlight
    <2> QED BY <2>2, <2>3
  <1>9. heard' = heard \ {c \in Conns : Claim(c) = u}
    BY DEF ForceDisconnect, DisconnectUser
  <1>10. Channel!CutOff(u)
    BY <1>2, <1>5, <1>7, <1>8, <1>9 DEF Channel!CutOff, Channel!Active
  <1> QED BY <1>10 DEF Channel!Next

\* A crash ends whatever was under way.
LEMMA RestartEnds ==
  ASSUME IInv, Restart
  PROVE  Channel!Next
  <1> USE DEF IInv, TypeOK, socketVars, registryVars, libraryVars, historyVars
  <1>1. /\ \A c \in Conns : /\ pc'[c] = "idle" <=> pc[c] = "idle"
                            /\ ready'[c] # "open"
        /\ UNCHANGED <<req, ticketOwner, overtaken, heard>>
    BY DEF Restart
  <1>2. \A c \in Conns : Claim(c)' = Claim(c)
    BY <1>1 DEF Claim
  <1>3. \A c \in Conns : Phase(c)' = Phase(c) \/ Ends(c)
    BY <1>1 DEF Phase, Ends
  <1> QED BY <1>1, <1>2, <1>3, SomeEnded

\* Neither the clock nor what becomes of tokens, tickets and statuses is
\* seen: a ticket that is still to be minted is on no request.
LEMMA SurroundingsUnseen ==
  ASSUME IInv,
         \/ Tick
         \/ TokenStep
         \/ \E u \in Users : SetStatus(u)
         \/ \E S \in SUBSET Tokens : Revoke(S)
         \/ \E c \in Conns : ResumeRedeemed(c)
         \/ UNCHANGED vars
  PROVE  UNCHANGED Channel!vars
  <1> USE DEF IInv, TypeOK, socketVars, registryVars, libraryVars, historyVars
  <1>1. UNCHANGED <<req, ready, userSockets, overtaken, heard>>
    BY DEF Tick, TokenStep, Login, Expire, MintTicket, ExpireTicket, SetStatus, Revoke,
       ResumeRedeemed, vars
  <1>2. \A c \in Conns : /\ pc'[c] = "idle" <=> pc[c] = "idle"
                         /\ InFlight(c)' <=> InFlight(c)
    BY DEF Tick, TokenStep, Login, Expire, MintTicket, ExpireTicket, SetStatus, Revoke,
       ResumeRedeemed, vars, InFlight
  <1>3. \A k \in Tickets : ticketOwner[k] # None => ticketOwner'[k] = ticketOwner[k]
    BY DEF Tick, TokenStep, Login, Expire, MintTicket, ExpireTicket, SetStatus, Revoke,
       ResumeRedeemed, vars
  <1>4. \A c \in Conns : Claim(c)' = Claim(c)
    BY <1>1, <1>3 DEF Claim, InFlightClaims, Requests
  <1>5. \A c \in Conns : Phase(c)' = Phase(c)
    BY <1>1, <1>2 DEF Phase, Registered
  <1>6. \A c \in Conns : Unmoved(c)
    BY <1>4, <1>5 DEF Unmoved
  <1> QED BY <1>1, <1>6, NothingSeen

LEMMA ChannelInit == Init => Channel!Init
  BY NoneAssumption DEF Init, Channel!Init, Phase, Claim

LEMMA ChannelNext == IInv /\ [Next]_vars => [Channel!Next]_Channel!vars
  <1> SUFFICES ASSUME IInv, [Next]_vars PROVE [Channel!Next]_Channel!vars
    OBVIOUS
  <1>1. CASE GatewayStep
    BY <1>1, ArrivalAttempts, LookupSeen, ClosingSeen, AdmissionSeen, ClosedUnseen,
       EmissionDelivers, RestartEnds, SurroundingsUnseen DEF GatewayStep, Continuation
  <1>2. ASSUME NEW u \in Users, ForceDisconnect(u) PROVE Channel!Next
    BY <1>2, DisconnectImplementsCutOff
  <1> QED BY <1>1, <1>2, SurroundingsUnseen DEF Next

\* Admission is atomic with the disconnect, and deliveries go to streams
\* only: the gateway implements the abstract channel.
THEOREM GatewayImplementsChannel == Spec => ImplementsRealtimeCutoff
  <1>1. Init => Channel!Init
    BY ChannelInit
  <1>2. IInv /\ [Next]_vars => [Channel!Next]_Channel!vars
    BY ChannelNext
  <1> QED BY <1>1, <1>2, Invariance, PTL DEF Spec, Channel!Spec, ImplementsRealtimeCutoff

-----------------------------------------------------------------------------
(* What the abstract channel gives.                                        *)

\* Every step of the channel leaves ended what was cut off.
LEMMA ChannelCutsOffForGood ==
  ASSUME Channel!CutOffIsFinal, [Channel!Next]_(Channel!vars)
  PROVE  Channel!CutOffIsFinal'
  <1> USE DEF Channel!CutOffIsFinal
  <1>1. CASE UNCHANGED Channel!vars
    BY <1>1 DEF Channel!vars
  <1>2. ASSUME NEW c \in Conns, NEW u \in Users \cup {None}, Channel!Attempt(c, u)
        PROVE  Channel!CutOffIsFinal'
    BY <1>2 DEF Channel!Attempt
  <1>3. ASSUME NEW c \in Conns, Channel!Admit(c)
        PROVE  Channel!CutOffIsFinal'
    BY <1>3 DEF Channel!Admit
  <1>4. ASSUME NEW S \in SUBSET {c \in Conns : Channel!Active(c)}, Channel!End(S)
        PROVE  Channel!CutOffIsFinal'
    BY <1>4 DEF Channel!End
  <1>5. ASSUME NEW u \in Users, Channel!CutOff(u)
        PROVE  Channel!CutOffIsFinal'
    BY <1>5 DEF Channel!CutOff, Channel!Active
  <1>6. ASSUME NEW u \in Users, Channel!Deliver(u)
        PROVE  Channel!CutOffIsFinal'
    BY <1>6 DEF Channel!Deliver
  <1> QED BY <1>1, <1>2, <1>3, <1>4, <1>5, <1>6 DEF Channel!Next

(* The channel's promise, from its own steps alone; and so the gateway's:  *)
(* a connection that disconnectUser took down stays down and is written    *)
(* nothing more, whatever was being authenticated meanwhile.               *)
THEOREM CutOffForGood == Spec => []Channel!CutOffIsFinal
  <1>1. Channel!Init => Channel!CutOffIsFinal
    BY DEF Channel!Init, Channel!CutOffIsFinal
  <1>2. Channel!CutOffIsFinal /\ [Channel!Next]_(Channel!vars) => Channel!CutOffIsFinal'
    BY ChannelCutsOffForGood
  <1>3. Channel!Spec => []Channel!CutOffIsFinal
    BY <1>1, <1>2, PTL DEF Channel!Spec
  <1> QED BY <1>3, GatewayImplementsChannel DEF ImplementsRealtimeCutoff

=============================================================================
