------------------------ MODULE AccessRevocationProofs ------------------------
(***************************************************************************)
(* For any accounts, sockets, tokens, tickets and workers: the operations  *)
(* that end access stay within what the gateway was proved correct for,    *)
(* what they report as ended never streams again, and a suspension that    *)
(* was reported holds on the ticket path.                                  *)
(*                                                                         *)
(* The first makes the gateway's inductive invariant hold of the operations *)
(* too.  The second then needs only that an operation disconnects after it *)
(* revoked, so that what it promises was cut off; the third, that a        *)
(* redemption which saw the account active before the suspension began     *)
(* before its disconnect, and is refused for it.                           *)
(***************************************************************************)
EXTENDS AccessRevocation, NotificationsGatewayProofs

Steps == {"none", "revoke", "disconnect", "logout", "closeLocal", "commit", "cache", "finish"}
Tasks == [op : AllOperations \cup {"none"}, step : Steps, user : Users \cup {None},
          token : Tokens \cup {None}, status : Statuses]

TaskTypes ==
    /\ task \in [Workers -> Tasks]
    /\ ended \in [Workers -> SUBSET Tokens]
    /\ \A w \in Workers : task[w].step # "none" => task[w].user \in Users

\* What an operation ended is revoked before its disconnect and cut off after it.
EndedInOrder ==
    /\ \A w \in Workers :
        /\ task[w].step = "disconnect" =>
              \A t \in ended[w] : tokenState[t] = "revoked" /\ TokenUser[t] = task[w].user
        /\ task[w].step \in {"logout", "closeLocal"} => ended[w] \subseteq cutOff
    /\ promised \subseteq cutOff

\* A redemption that saw a suspended account active began before its disconnect.
TicketsRaced(S) ==
    /\ \A c \in Conns, u \in S :
        (/\ req[c].ticket # None /\ ticketOwner[req[c].ticket] = u
         /\ pc[c] = "checking" \/ (pc[c] = "redeeming" /\ answer[c] = "active"))
        => DisconnectRaced(u, c)
    /\ \A c \in Conns, u \in S : c \in userSockets[u] => req[c].ticket = None

SuspendedStay == suspended \subseteq blocked /\ TicketsRaced(suspended)

AccInv == IInv /\ TaskTypes /\ EndedInOrder /\ SuspendedStay

-----------------------------------------------------------------------------
(* Every operation is a step of the gateway's environment.                 *)
LEMMA RevokeAnyIsNext ==
  ASSUME NEW S \in SUBSET Tokens, RevokeAny(S)
  PROVE  [Next]_vars
BY DEF RevokeAny, Next

LEMMA StepIsNext ==
  ASSUME TaskTypes, [AccessNext]_allVars
  PROVE  [Next]_vars
<1>1. CASE UNCHANGED allVars BY <1>1 DEF allVars
<1>2. CASE SocketStep BY <1>2 DEF SocketStep, Next, GatewayStep
<1>3. CASE ProcessRestart BY <1>3 DEF ProcessRestart, Next, GatewayStep
<1>4. ASSUME NEW w \in Workers, RevocationStep(w) PROVE [Next]_vars
  <2>u. task[w].step # "none" => task[w].user \in Users BY DEF TaskTypes
  <2>v. ValidOf(task[w].user) \in SUBSET Tokens BY DEF ValidOf
  <2>1. CASE \/ \E t \in Tokens : BeginChangePassword(w, t) \/ BeginSignOutEverywhere(w, t)
             \/ \E u \in Users : BeginResetUserMfa(w, u)
    BY <2>1 DEF BeginChangePassword, BeginSignOutEverywhere, BeginResetUserMfa, Begin
  <2>2. CASE EndSessions(w) BY <2>2, <2>v, RevokeAnyIsNext DEF EndSessions
  <2>3. CASE EndSessionsFails(w)
    <3>1. PICK S \in SUBSET ValidOf(task[w].user) : RevokeAny(S) BY <2>3 DEF EndSessionsFails
    <3> QED BY <2>v, <3>1, RevokeAnyIsNext
  <2>4. CASE DisconnectAfterRevocation(w) BY <2>4, <2>u DEF DisconnectAfterRevocation, At, Next
  <2>5. CASE RevokeOthers(w)
    <3>1. RevokeAny(ValidOf(task[w].user) \ {task[w].token}) BY <2>5 DEF RevokeOthers
    <3> QED BY <2>v, <3>1, RevokeAnyIsNext
  <2>6. CASE DisconnectRealtime(w) BY <2>6, <2>u DEF DisconnectRealtime, At, Next
  <2>7. CASE Logout(w)
    <3>1. RevokeAny({task[w].token} \cap ValidOf(task[w].user)) BY <2>7 DEF Logout
    <3> QED BY <2>v, <3>1, RevokeAnyIsNext
  <2>8. CASE CloseLocal(w) BY <2>8 DEF CloseLocal, Next, GatewayStep
  <2>9. CASE SignOutFails(w) BY <2>9 DEF SignOutFails
  <2> QED BY <1>4, <2>1, <2>2, <2>3, <2>4, <2>5, <2>6, <2>7, <2>8, <2>9 DEF RevocationStep
<1>5. ASSUME NEW w \in Workers, StatusStep(w) PROVE [Next]_vars
  <2>u. task[w].step # "none" => task[w].user \in Users BY DEF TaskTypes
  <2>1. CASE \E op \in Operations, u \in Users, s \in Statuses : BeginUpdateStatus(w, op, u, s)
    BY <2>1 DEF BeginUpdateStatus, Begin
  <2>2. CASE CommitStatus(w) BY <2>2, <2>u DEF CommitStatus, At, Next
  <2>3. CASE InvalidateAndAudit(w) \/ InvalidationEscapes(w) \/ FinishUpdateUserStatus(w)
    BY <2>3 DEF InvalidateAndAudit, InvalidationEscapes, FinishUpdateUserStatus
  <2>4. CASE FinishUpdateStatus(w) BY <2>4, <2>u DEF FinishUpdateStatus, At, Next
  <2> QED BY <1>5, <2>1, <2>2, <2>3, <2>4 DEF StatusStep
<1> QED BY <1>1, <1>2, <1>3, <1>4, <1>5 DEF AccessNext

-----------------------------------------------------------------------------
(* What a gateway step leaves of the facts the operations rely on.         *)
LEMMA RevokedStays ==
  ASSUME IInv, [Next]_vars
  PROVE  /\ \A t \in Tokens : tokenState[t] = "revoked" => tokenState'[t] = "revoked"
         /\ cutOff \subseteq cutOff'
<1> USE DEF IInv, TypeOK, socketVars, registryVars, libraryVars, historyVars
<1>1. CASE UNCHANGED vars BY <1>1 DEF vars
<1>2. CASE GatewayStep
  <2>1. UNCHANGED <<tokenState, cutOff>>
    BY <1>2 DEF GatewayStep, Arrival, Lookup, Continuation, ConnectWithTicket, ConnectWithJwt,
       ConnectRefused, RedeemAnswers, RevocationAnswers, RevocationFails, ResumeRedeemed,
       RefuseRedeemed, ResumeChecked, RefuseRevoked, PeerCloses, SocketClosed,
       EmitNewNotification, Restart, Tick
  <2> QED BY <2>1
<1>3. CASE TokenStep BY <1>3 DEF TokenStep, Login, Expire, MintTicket, ExpireTicket
<1>4. ASSUME NEW u \in Users, ForceDisconnect(u) \/ SetStatus(u)
      PROVE  UNCHANGED tokenState /\ cutOff \subseteq cutOff'
  BY <1>4 DEF ForceDisconnect, DisconnectUser, SetStatus
<1>5. ASSUME NEW S \in SUBSET Tokens, Revoke(S)
      PROVE  /\ \A t \in Tokens : tokenState[t] = "revoked" => tokenState'[t] = "revoked"
             /\ UNCHANGED cutOff
  BY <1>5 DEF Revoke
<1> QED BY <1>1, <1>2, <1>3, <1>4, <1>5 DEF Next

\* A revocation leaves none of its tokens valid.
LEMMA AnyIsRevoked ==
  ASSUME IInv, NEW S \in SUBSET Tokens, RevokeAny(S)
  PROVE  \A t \in S : tokenState'[t] = "revoked"
BY DEF RevokeAny, Revoke

\* Everything that is revoked at a disconnect of its user is cut off by it.
LEMMA DisconnectCutsOff ==
  ASSUME NEW u \in Users, ForceDisconnect(u), NEW S \in SUBSET Tokens,
         \A t \in S : tokenState[t] = "revoked" /\ TokenUser[t] = u
  PROVE  S \subseteq cutOff'
BY DEF ForceDisconnect, DisconnectUser

LEMMA TicketsStayRaced ==
  ASSUME IInv, [Next]_vars, NEW S \in SUBSET Users, S \subseteq blocked, TicketsRaced(S)
  PROVE  TicketsRaced(S)'
<1> USE TokenAssumption, NoneAssumption, ClockAssumption
    DEF IInv, TypeOK, Requests, Undefined, TicketsRaced, DisconnectRaced, socketVars, registryVars,
        libraryVars, historyVars
<1>1. CASE UNCHANGED vars BY <1>1 DEF vars
<1>2. ASSUME NEW c \in Conns, Arrival(c) PROVE TicketsRaced(S)'
  <2>1. /\ pc[c] = "idle" /\ answer[c] = "none"
        /\ pc'[c] = "checking" => req'[c].ticket = None
        /\ answer' = answer
        /\ \A d \in Conns \ {c} : req'[d] = req[d] /\ pc'[d] = pc[d] /\ startedAt'[d] = startedAt[d]
        /\ UNCHANGED <<registryVars, ticketOwner>>
    <3>1. CASE \E k \in Tickets, t \in Tokens \cup {None} : ConnectWithTicket(c, k, t)
      BY <3>1 DEF ConnectWithTicket, IdleIsBlank
    <3>2. CASE \E t \in Tokens : ConnectWithJwt(c, t)
      BY <3>2 DEF ConnectWithJwt, IdleIsBlank
    <3>3. CASE ConnectRefused(c) BY <3>3 DEF ConnectRefused, IdleIsBlank
    <3> QED BY <1>2, <3>1, <3>2, <3>3 DEF Arrival
  <2>2. \A u \in Users : c \notin userSockets[u] BY <2>1 DEF IdleIsBlank, Registered
  <2>3. /\ req'[c].ticket # None => pc'[c] # "checking"
        /\ answer'[c] = "none"
    BY <2>1
  <2>4. ASSUME NEW d \in Conns \ {c}
        PROVE  /\ req'[d] = req[d] /\ pc'[d] = pc[d] /\ startedAt'[d] = startedAt[d]
               /\ answer'[d] = answer[d]
    BY <2>1
  <2>5. UNCHANGED <<userSockets, forcedDisconnectAt, ticketOwner>> BY <2>1
  <2>6. ASSUME NEW d \in Conns, NEW u \in S,
               req'[d].ticket # None, ticketOwner'[req'[d].ticket] = u,
               pc'[d] = "checking" \/ (pc'[d] = "redeeming" /\ answer'[d] = "active")
        PROVE  DisconnectRaced(u, d)'
    <3>1. d # c BY <2>3, <2>6
    <3> QED BY <2>4, <2>5, <2>6, <3>1
  <2>7. ASSUME NEW d \in Conns, NEW u \in S, d \in userSockets'[u] PROVE req'[d].ticket = None
    BY <2>2, <2>4, <2>5, <2>7
  <2> QED BY <2>6, <2>7
<1>3. ASSUME NEW c \in Conns, Lookup(c) PROVE TicketsRaced(S)'
  <2>1. CASE RedeemAnswers(c)
    <3>1. /\ answer'[c] = "active" => ticketOwner[req[c].ticket] \notin blocked
          /\ pc[c] = "redeeming"
          /\ \A d \in Conns \ {c} : answer'[d] = answer[d]
          /\ UNCHANGED <<pc, startedAt, req, registryVars, ticketOwner>>
      BY <2>1 DEF RedeemAnswers
    <3> QED BY <3>1
  <2>2. CASE RevocationAnswers(c)
    <3>1. /\ pc[c] = "checking"
          /\ \A d \in Conns \ {c} : answer'[d] = answer[d]
          /\ UNCHANGED <<pc, startedAt, req, registryVars, ticketOwner>>
      BY <2>2 DEF RevocationAnswers
    <3> QED BY <3>1
  <2>3. CASE RevocationFails(c) BY <2>3 DEF RevocationFails
  <2> QED BY <1>3, <2>1, <2>2, <2>3 DEF Lookup
<1>4. ASSUME NEW c \in Conns, ResumeRedeemed(c) \/ RefuseRedeemed(c) \/ RefuseRevoked(c)
      PROVE  TicketsRaced(S)'
  <2>1. /\ \A d \in Conns \ {c} : pc'[d] = pc[d] /\ startedAt'[d] = startedAt[d]
        /\ \A d \in Conns \ {c} : answer'[d] = answer[d]
        /\ UNCHANGED <<req, ticketOwner, userSockets, forcedDisconnectAt>>
    BY <1>4 DEF ResumeRedeemed, RefuseRedeemed, RefuseRevoked, Refuse, Settle
  <2>2. \/ pc'[c] = "settled"
        \/ /\ pc[c] = "redeeming" /\ answer[c] = "active"
           /\ startedAt'[c] = startedAt[c]
    BY <1>4 DEF ResumeRedeemed, RefuseRedeemed, RefuseRevoked, Refuse, Settle
  <2>3. ASSUME NEW d \in Conns, NEW u \in S,
               req'[d].ticket # None, ticketOwner'[req'[d].ticket] = u,
               pc'[d] = "checking" \/ (pc'[d] = "redeeming" /\ answer'[d] = "active")
        PROVE  DisconnectRaced(u, d)'
    <3>1. CASE d = c
      <4>1. DisconnectRaced(u, c) BY <2>1, <2>2, <2>3, <3>1
      <4> QED BY <2>1, <2>2, <2>3, <3>1, <4>1
    <3>2. CASE d # c
      <4>1. DisconnectRaced(u, d) BY <2>1, <2>3, <3>2
      <4> QED BY <2>1, <3>2, <4>1
    <3> QED BY <3>1, <3>2
  <2>4. ASSUME NEW d \in Conns, NEW u \in S, d \in userSockets'[u] PROVE req'[d].ticket = None
    BY <2>1, <2>4
  <2> QED BY <2>3, <2>4
<1>5. ASSUME NEW c \in Conns, ResumeChecked(c) PROVE TicketsRaced(S)'
  BY <1>5 DEF ResumeChecked, AdmitSocket, Settle, Claim
<1>6. ASSUME NEW c \in Conns, PeerCloses(c) \/ SocketClosed(c) PROVE TicketsRaced(S)'
  <2>1. /\ \A u \in Users : userSockets'[u] \subseteq userSockets[u]
        /\ UNCHANGED <<pc, answer, startedAt, req, forcedDisconnectAt, ticketOwner>>
    BY <1>6 DEF PeerCloses, SocketClosed, HandleDisconnect
  <2> QED BY <2>1
<1>7. ASSUME NEW u \in Users, EmitNewNotification(u) PROVE TicketsRaced(S)'
  BY <1>7 DEF EmitNewNotification
<1>8. CASE Restart BY <1>8 DEF Restart
<1>9. CASE Tick BY <1>9 DEF Tick
<1>10. CASE TokenStep
  BY <1>10 DEF TokenStep, Login, Expire, MintTicket, ExpireTicket, InFlightClaims
<1>11. ASSUME NEW u \in Users, ForceDisconnect(u) PROVE TicketsRaced(S)'
  BY <1>11 DEF ForceDisconnect, DisconnectUser, InFlightClaims, InFlight
<1>12. ASSUME NEW u \in Users, SetStatus(u) PROVE TicketsRaced(S)'
  BY <1>12 DEF SetStatus
<1>13. ASSUME NEW R \in SUBSET Tokens, Revoke(R) PROVE TicketsRaced(S)'
  BY <1>13 DEF Revoke
<1> HIDE DEF TicketsRaced
<1> QED BY <1>1, <1>2, <1>3, <1>4, <1>5, <1>6, <1>7, <1>8, <1>9, <1>10, <1>11, <1>12, <1>13
       DEF Next, GatewayStep, Continuation

-----------------------------------------------------------------------------
(* The operations.                                                         *)

\* Where a worker's step leads, for every operation.
LEMMA TaskTypesNext ==
  ASSUME TaskTypes, IInv, [AccessNext]_allVars
  PROVE  TaskTypes'
<1> USE TokenAssumption, NoneAssumption, OperationsAssumption
    DEF TaskTypes, Tasks, Steps, Statuses, NoTask, AllOperations
<1>1. CASE UNCHANGED taskVars BY <1>1 DEF taskVars
<1>2. CASE ProcessRestart BY <1>2 DEF ProcessRestart
<1>3. ASSUME NEW w \in Workers, NEW op \in Operations, NEW step \in Steps, NEW u \in Users,
             NEW t \in Tokens \cup {None}, NEW s \in Statuses, Begin(w, op, step, u, t, s)
      PROVE  TaskTypes'
  BY <1>3 DEF Begin
<1>4. ASSUME NEW w \in Workers, NEW step \in Steps \ {"none"}, task[w].step # "none",
             Proceed(w, step), ended' \in [Workers -> SUBSET Tokens]
      PROVE  TaskTypes'
  <2>1. /\ task'[w] = [task[w] EXCEPT !.step = step]
        /\ DOMAIN task' = Workers
        /\ task' = [x \in Workers |-> task'[x]]
    BY <1>4 DEF Proceed
  <2>2. \A x \in Workers \ {w} : task'[x] = task[x] BY <1>4 DEF Proceed
  <2>3. task'[w] \in Tasks /\ task'[w].user \in Users BY <1>4, <2>1
  <2>4. \A x \in Workers : task'[x] \in Tasks BY <2>2, <2>3
  <2>5. task' \in [Workers -> Tasks] BY <2>1, <2>4
  <2>6. \A x \in Workers : task'[x].step # "none" => task'[x].user \in Users BY <2>2, <2>3
  <2> QED BY <1>4, <2>5, <2>6
<1>5. ASSUME NEW w \in Workers, Return(w) PROVE TaskTypes'
  BY <1>5 DEF Return
<1> HIDE DEF TaskTypes, Tasks, NoTask
<1>6. ASSUME NEW w \in Workers, RevocationStep(w) PROVE TaskTypes'
  <2>1. CASE \E t \in Tokens : BeginChangePassword(w, t)
    BY <1>3, <2>1 DEF BeginChangePassword, Begin
  <2>2. CASE \E t \in Tokens : BeginSignOutEverywhere(w, t)
    BY <1>3, <2>2 DEF BeginSignOutEverywhere, Begin
  <2>3. CASE \E u \in Users : BeginResetUserMfa(w, u)
    BY <1>3, <2>3 DEF BeginResetUserMfa, Begin
  <2>e. /\ ended \in [Workers -> SUBSET Tokens]
        /\ \A S \in SUBSET Tokens : [ended EXCEPT ![w] = S] \in [Workers -> SUBSET Tokens]
    BY DEF TaskTypes
  <2>4. CASE EndSessions(w)
    <3>1. ended' \in [Workers -> SUBSET Tokens] BY <2>4, <2>e DEF EndSessions, ValidOf
    <3> QED BY <1>4, <2>4, <3>1 DEF EndSessions, At
  <2>5. CASE RevokeOthers(w)
    <3>1. CASE GiveUp(w) BY <1>5, <3>1 DEF GiveUp
    <3>2. CASE /\ ended' = [ended EXCEPT ![w] = ValidOf(task[w].user) \ {task[w].token}]
               /\ Proceed(w, "disconnect")
      <4>1. ended' \in [Workers -> SUBSET Tokens] BY <2>e, <3>2 DEF ValidOf
      <4> QED BY <1>4, <2>5, <3>2, <4>1 DEF RevokeOthers, At
    <3> QED BY <2>5, <3>1, <3>2 DEF RevokeOthers
  <2>6. CASE DisconnectRealtime(w) \/ Logout(w)
    <3>1. CASE GiveUp(w) BY <1>5, <3>1 DEF GiveUp
    <3>2. CASE Proceed(w, "logout") /\ UNCHANGED ended
      BY <1>4, <2>6, <2>e, <3>2 DEF DisconnectRealtime, Logout, At
    <3>3. CASE Proceed(w, "closeLocal") /\ UNCHANGED ended
      BY <1>4, <2>6, <2>e, <3>3 DEF DisconnectRealtime, Logout, At
    <3> QED BY <2>6, <3>1, <3>2, <3>3 DEF DisconnectRealtime, Logout
  <2>7. CASE EndSessionsFails(w) \/ SignOutFails(w) \/ DisconnectAfterRevocation(w) \/ CloseLocal(w)
    BY <1>5, <2>7
       DEF EndSessionsFails, SignOutFails, GiveUp, DisconnectAfterRevocation, CloseLocal
  <2> QED BY <1>6, <2>1, <2>2, <2>3, <2>4, <2>5, <2>6, <2>7 DEF RevocationStep
<1>7. ASSUME NEW w \in Workers, StatusStep(w) PROVE TaskTypes'
  <2>1. CASE \E op \in Operations, u \in Users, s \in Statuses : BeginUpdateStatus(w, op, u, s)
    BY <1>3, <2>1 DEF BeginUpdateStatus
  <2>2. CASE CommitStatus(w)
    <3>1. ended' \in [Workers -> SUBSET Tokens] BY <2>2 DEF CommitStatus, TaskTypes
    <3> QED BY <1>4, <2>2, <3>1 DEF CommitStatus, At
  <2>3. CASE InvalidateAndAudit(w)
    <3>1. ended' \in [Workers -> SUBSET Tokens] BY <2>3 DEF InvalidateAndAudit, TaskTypes
    <3> QED BY <1>4, <2>3, <3>1 DEF InvalidateAndAudit, At
  <2>4. CASE InvalidationEscapes(w) \/ FinishUpdateUserStatus(w) \/ FinishUpdateStatus(w)
    BY <1>5, <2>4 DEF InvalidationEscapes, GiveUp, FinishUpdateUserStatus, FinishUpdateStatus
  <2> QED BY <1>7, <2>1, <2>2, <2>3, <2>4 DEF StatusStep
<1> QED BY <1>1, <1>2, <1>6, <1>7 DEF AccessNext, SocketStep, allVars

\* The revocation comes before the disconnect in every operation.
LEMMA EndedInOrderNext ==
  ASSUME AccInv, [AccessNext]_allVars
  PROVE  EndedInOrder'
<1>a. /\ \A t \in Tokens : tokenState[t] = "revoked" => tokenState'[t] = "revoked"
      /\ cutOff \subseteq cutOff'
  BY StepIsNext, RevokedStays DEF AccInv
<1>b. /\ task \in [Workers -> Tasks] /\ ended \in [Workers -> SUBSET Tokens]
      /\ \A w \in Workers : task[w].step # "none" => task[w].user \in Users
  BY DEF AccInv, TaskTypes
<1>c. EndedInOrder BY DEF AccInv
<1>1. CASE UNCHANGED taskVars BY <1>1, <1>a, <1>b, <1>c DEF taskVars, promiseVars, EndedInOrder
<1>2. CASE ProcessRestart
  BY <1>2, <1>a, <1>c DEF ProcessRestart, promiseVars, EndedInOrder, NoTask
<1>3. ASSUME NEW w \in Workers, NEW r, task' = [task EXCEPT ![w] = r],
             r.step \notin {"disconnect", "logout", "closeLocal"},
             \A x \in Workers \ {w} : ended'[x] = ended[x], promised' \subseteq cutOff'
      PROVE  EndedInOrder'
  BY <1>3, <1>a, <1>b, <1>c DEF EndedInOrder
<1>4. ASSUME NEW w \in Workers, Return(w), promised' \subseteq cutOff' PROVE EndedInOrder'
  <2>1. task' = [task EXCEPT ![w] = NoTask] /\ \A x \in Workers \ {w} : ended'[x] = ended[x]
    BY <1>4, <1>b DEF Return
  <2>2. NoTask.step = "none" BY DEF NoTask
  <2> QED BY <1>3, <1>4, <2>1, <2>2
<1>p. promised \subseteq cutOff' BY <1>a, <1>c DEF EndedInOrder
<1>5. ASSUME NEW w \in Workers, NEW op, NEW step \in {"revoke", "commit"}, NEW u, NEW t, NEW s,
             Begin(w, op, step, u, t, s)
      PROVE  EndedInOrder'
  <2>1. /\ task' = [task EXCEPT ![w] =
                     [op |-> op, step |-> step, user |-> u, token |-> t, status |-> s]]
        /\ UNCHANGED <<ended, promised>>
    BY <1>5 DEF Begin, promiseVars
  <2> QED BY <1>3, <1>p, <2>1
<1>6. ASSUME NEW w \in Workers, NEW step \in Steps, Proceed(w, step)
      PROVE  /\ \A x \in Workers \ {w} : task'[x] = task[x]
             /\ task'[w].step = step /\ task'[w].user = task[w].user
  BY <1>6, <1>b DEF Proceed, Tasks
<1>7. ASSUME NEW w \in Workers, NEW S \in SUBSET Tokens, Proceed(w, "disconnect"), RevokeAny(S),
             ended' = [ended EXCEPT ![w] = S], \A t \in S : TokenUser[t] = task[w].user,
             promised' = promised
      PROVE  EndedInOrder'
  <2>1. \A t \in S : tokenState'[t] = "revoked" BY <1>7, AnyIsRevoked DEF AccInv
  <2> QED BY <1>7, <1>6, <1>a, <1>b, <1>c, <1>p, <2>1 DEF EndedInOrder, Steps
<1>8. ASSUME NEW w \in Workers, RevocationStep(w) PROVE EndedInOrder'
  <2>1. CASE \/ \E t \in Tokens : BeginChangePassword(w, t) \/ BeginSignOutEverywhere(w, t)
             \/ \E u \in Users : BeginResetUserMfa(w, u)
    BY <1>5, <2>1 DEF BeginChangePassword, BeginSignOutEverywhere, BeginResetUserMfa
  <2>v. /\ ValidOf(task[w].user) \in SUBSET Tokens
        /\ \A t \in ValidOf(task[w].user) : TokenUser[t] = task[w].user
    BY DEF ValidOf
  <2>g. ASSUME GiveUp(w) PROVE EndedInOrder' BY <1>4, <1>p, <2>g DEF GiveUp, promiseVars
  <2>2. CASE EndSessions(w)
    BY <1>7, <2>2, <2>v DEF EndSessions, promiseVars
  <2>3. CASE RevokeOthers(w)
    <3>1. CASE /\ ended' = [ended EXCEPT ![w] = ValidOf(task[w].user) \ {task[w].token}]
               /\ Proceed(w, "disconnect") /\ UNCHANGED promiseVars
      <4>1. RevokeAny(ValidOf(task[w].user) \ {task[w].token}) BY <2>3 DEF RevokeOthers
      <4> QED BY <1>7, <2>v, <3>1, <4>1 DEF promiseVars
    <3> QED BY <2>3, <2>g, <3>1 DEF RevokeOthers
  <2>4. CASE DisconnectAfterRevocation(w)
    <3>1. task[w].user \in Users /\ task[w].step = "disconnect" /\ ForceDisconnect(task[w].user)
      BY <2>4, <1>b DEF DisconnectAfterRevocation, At
    <3>2. ended[w] \subseteq cutOff'
      BY <1>b, <1>c, <3>1, DisconnectCutsOff DEF EndedInOrder
    <3>3. promised' \subseteq cutOff' BY <1>p, <2>4, <3>2 DEF DisconnectAfterRevocation
    <3> QED BY <1>4, <2>4, <3>3 DEF DisconnectAfterRevocation
  <2>5. CASE DisconnectRealtime(w)
    <3>1. task[w].user \in Users /\ task[w].step = "disconnect" /\ ForceDisconnect(task[w].user)
      BY <2>5, <1>b DEF DisconnectRealtime, At
    <3>2. ended[w] \subseteq cutOff'
      BY <1>b, <1>c, <3>1, DisconnectCutsOff DEF EndedInOrder
    <3>3. CASE Proceed(w, "logout") /\ UNCHANGED <<ended, promiseVars>>
      <4>1. "logout" \in Steps BY DEF Steps
      <4> QED BY <1>6, <1>a, <1>b, <1>c, <1>p, <3>2, <3>3, <4>1 DEF EndedInOrder, promiseVars
    <3> QED BY <2>5, <2>g, <3>3 DEF DisconnectRealtime
  <2>6. CASE Logout(w)
    <3>1. CASE Proceed(w, "closeLocal") /\ UNCHANGED <<ended, promiseVars>>
      <4>1. "closeLocal" \in Steps /\ task[w].step = "logout" BY <2>6 DEF Steps, Logout, At
      <4> QED BY <1>6, <1>a, <1>b, <1>c, <1>p, <3>1, <4>1 DEF EndedInOrder, promiseVars
    <3> QED BY <2>6, <2>g, <3>1 DEF Logout
  <2>7. CASE CloseLocal(w)
    <3>1. task[w].step = "closeLocal" BY <2>7 DEF CloseLocal, At
    <3>2. promised' \subseteq cutOff' BY <1>a, <1>c, <1>p, <2>7, <3>1 DEF CloseLocal, EndedInOrder
    <3> QED BY <1>4, <2>7, <3>2 DEF CloseLocal
  <2>8. CASE EndSessionsFails(w) \/ SignOutFails(w)
    BY <2>8, <2>g DEF EndSessionsFails, SignOutFails
  <2> QED BY <1>8, <2>1, <2>2, <2>3, <2>4, <2>5, <2>6, <2>7, <2>8 DEF RevocationStep
<1>9. ASSUME NEW w \in Workers, StatusStep(w) PROVE EndedInOrder'
  <2>1. CASE \E op \in Operations, u \in Users, s \in Statuses : BeginUpdateStatus(w, op, u, s)
    BY <1>5, <2>1 DEF BeginUpdateStatus
  <2>2. ASSUME NEW step \in {"cache", "finish"}, Proceed(w, step), UNCHANGED <<ended, promised>>
        PROVE  EndedInOrder'
    <3>1. step \in Steps BY DEF Steps
    <3> QED BY <1>6, <1>a, <1>b, <1>c, <1>p, <2>2, <3>1 DEF EndedInOrder
  <2>3. CASE CommitStatus(w) \/ InvalidateAndAudit(w)
    BY <2>2, <2>3 DEF CommitStatus, InvalidateAndAudit, promiseVars
  <2>4. CASE InvalidationEscapes(w) \/ FinishUpdateUserStatus(w) \/ FinishUpdateStatus(w)
    BY <1>4, <1>p, <2>4
       DEF InvalidationEscapes, GiveUp, FinishUpdateUserStatus, FinishUpdateStatus, promiseVars
  <2> QED BY <1>9, <2>1, <2>2, <2>3, <2>4 DEF StatusStep
<1> QED BY <1>1, <1>2, <1>8, <1>9 DEF AccessNext, SocketStep, allVars

\* Only a change of status moves anyone in or out of blocked.
LEMMA BlockedStays ==
  ASSUME IInv, GatewayStep \/ TokenStep \/ (\E u \in Users : ForceDisconnect(u))
               \/ (\E S \in SUBSET Tokens : RevokeAny(S))
  PROVE  blocked' = blocked
<1>1. CASE GatewayStep
  BY <1>1 DEF GatewayStep, Arrival, Lookup, Continuation, ConnectWithTicket, ConnectWithJwt,
     ConnectRefused, RedeemAnswers, RevocationAnswers, RevocationFails, ResumeRedeemed,
     RefuseRedeemed, ResumeChecked, RefuseRevoked, PeerCloses, SocketClosed,
     EmitNewNotification, Restart, Tick, libraryVars
<1>2. CASE TokenStep BY <1>2 DEF TokenStep, Login, Expire, MintTicket, ExpireTicket
<1>3. CASE \E u \in Users : ForceDisconnect(u) BY <1>3 DEF ForceDisconnect, libraryVars
<1>4. CASE \E S \in SUBSET Tokens : RevokeAny(S)
  BY <1>4 DEF RevokeAny, Revoke, vars, libraryVars
<1> QED BY <1>1, <1>2, <1>3, <1>4

\* The disconnect that ends a suspension overtakes every redemption before it.
LEMMA DisconnectRaces ==
  ASSUME IInv, NEW u \in Users, ForceDisconnect(u)
  PROVE  TicketsRaced({u})'
<1> USE ClockAssumption DEF IInv, TypeOK, InFlightClaims, InFlight, Undefined
<1>1. /\ forcedDisconnectAt'[u] = clock /\ userSockets'[u] = {}
      /\ UNCHANGED <<pc, answer, startedAt, req, ticketOwner>>
  BY DEF ForceDisconnect, DisconnectUser, libraryVars
<1>2. clock # -1 BY SMT
<1>3. \A c \in Conns : InFlight(c) => startedAt[c] <= clock OBVIOUS
<1> QED BY <1>1, <1>2, <1>3 DEF TicketsRaced, DisconnectRaced

\* Only CommitStatus changes who is blocked, only FinishUpdateStatus promises a suspension.
LEMMA SuspendedStayNext ==
  ASSUME AccInv, [AccessNext]_allVars
  PROVE  SuspendedStay'
<1>n. [Next]_vars /\ IInv /\ TaskTypes BY StepIsNext DEF AccInv
<1>s. suspended \subseteq blocked /\ TicketsRaced(suspended) /\ blocked \subseteq Users
  BY DEF AccInv, SuspendedStay, IInv, TypeOK
<1>r. ASSUME NEW S \in SUBSET suspended PROVE TicketsRaced(S)'
  <2>1. TicketsRaced(S) BY <1>s DEF TicketsRaced
  <2>2. S \in SUBSET Users /\ S \subseteq blocked BY <1>s
  <2> QED BY <1>n, <2>1, <2>2, TicketsStayRaced
<1>1. ASSUME suspended' \subseteq suspended, suspended' \subseteq blocked' PROVE SuspendedStay'
  <2>1. PICK S \in SUBSET suspended : S = suspended' BY <1>1
  <2>2. TicketsRaced(S)' BY <1>r
  <2>3. TicketsRaced(suspended)' BY <2>1, <2>2 DEF TicketsRaced
  <2> QED BY <1>1, <2>3 DEF SuspendedStay
<1>2. ASSUME UNCHANGED suspended, blocked' = blocked PROVE SuspendedStay'
  BY <1>1, <1>2, <1>s
<1>u. \A w \in Workers : task[w].step # "none" => task[w].user \in Users
  BY <1>n DEF TaskTypes
<1>v. \A w \in Workers : ValidOf(task[w].user) \in SUBSET Tokens BY DEF ValidOf
<1>3. CASE UNCHANGED allVars
  BY <1>2, <1>3 DEF allVars, vars, libraryVars, taskVars, promiseVars
<1>4. CASE SocketStep
  <2>1. UNCHANGED suspended BY <1>4 DEF SocketStep, taskVars, promiseVars
  <2>2. GatewayStep \/ TokenStep BY <1>4 DEF SocketStep, GatewayStep
  <2> QED BY <1>2, <1>n, <2>1, <2>2, BlockedStays
<1>5. CASE ProcessRestart
  <2>1. UNCHANGED suspended BY <1>5 DEF ProcessRestart, promiseVars
  <2>2. GatewayStep BY <1>5 DEF ProcessRestart, GatewayStep
  <2> QED BY <1>2, <1>n, <2>1, <2>2, BlockedStays
<1>6. ASSUME NEW w \in Workers, RevocationStep(w) PROVE SuspendedStay'
  <2>1. UNCHANGED suspended
    BY <1>6 DEF RevocationStep, BeginChangePassword, BeginSignOutEverywhere,
       BeginResetUserMfa, Begin, EndSessions, EndSessionsFails, DisconnectAfterRevocation,
       RevokeOthers, DisconnectRealtime, Logout, CloseLocal, SignOutFails, GiveUp, promiseVars
  <2>2. CASE \/ \E t \in Tokens : BeginChangePassword(w, t) \/ BeginSignOutEverywhere(w, t)
             \/ \E u \in Users : BeginResetUserMfa(w, u)
             \/ SignOutFails(w)
    BY <1>2, <2>1, <2>2 DEF BeginChangePassword, BeginSignOutEverywhere, BeginResetUserMfa,
       Begin, SignOutFails, vars, libraryVars
  <2>3. CASE EndSessions(w) \/ EndSessionsFails(w) \/ RevokeOthers(w) \/ Logout(w)
    <3>1. \E S \in SUBSET Tokens : RevokeAny(S)
      <4>1. CASE EndSessions(w) BY <1>v, <4>1 DEF EndSessions
      <4>2. CASE EndSessionsFails(w)
        <5>1. PICK S \in SUBSET ValidOf(task[w].user) : RevokeAny(S)
          BY <4>2 DEF EndSessionsFails
        <5> QED BY <1>v, <5>1
      <4>3. CASE RevokeOthers(w)
        <5>1. RevokeAny(ValidOf(task[w].user) \ {task[w].token}) BY <4>3 DEF RevokeOthers
        <5> QED BY <1>v, <5>1
      <4>4. CASE Logout(w)
        <5>1. RevokeAny({task[w].token} \cap ValidOf(task[w].user)) BY <4>4 DEF Logout
        <5> QED BY <1>v, <5>1
      <4> QED BY <2>3, <4>1, <4>2, <4>3, <4>4
    <3> QED BY <1>2, <1>n, <2>1, <3>1, BlockedStays
  <2>4. CASE DisconnectAfterRevocation(w) \/ DisconnectRealtime(w)
    <3>1. task[w].user \in Users /\ ForceDisconnect(task[w].user)
      BY <1>u, <2>4 DEF DisconnectAfterRevocation, DisconnectRealtime, At
    <3> QED BY <1>2, <1>n, <2>1, <3>1, BlockedStays
  <2>5. CASE CloseLocal(w)
    <3>1. (\E c \in Conns : PeerCloses(c)) \/ UNCHANGED vars BY <2>5 DEF CloseLocal
    <3>2. blocked' = blocked BY <3>1 DEF PeerCloses, vars, libraryVars
    <3> QED BY <1>2, <2>1, <3>2
  <2> QED BY <1>6, <2>2, <2>3, <2>4, <2>5 DEF RevocationStep
<1>7. ASSUME NEW w \in Workers, StatusStep(w) PROVE SuspendedStay'
  <2>1. CASE (\E op \in Operations, u \in Users, s \in Statuses : BeginUpdateStatus(w, op, u, s))
             \/ InvalidateAndAudit(w) \/ InvalidationEscapes(w) \/ FinishUpdateUserStatus(w)
    BY <1>2, <2>1 DEF BeginUpdateStatus, Begin, InvalidateAndAudit, InvalidationEscapes, GiveUp,
       FinishUpdateUserStatus, vars, libraryVars, promiseVars
  <2>2. CASE CommitStatus(w)
    <3> DEFINE u == task[w].user
    <3>1. CASE task[w].status = "active"
      <4>1. suspended' = suspended \ {u} BY <2>2, <3>1 DEF CommitStatus
      <4>2. \A x \in blocked : x # u => x \in blocked'
        BY <2>2 DEF CommitStatus, SetStatus, vars, libraryVars
      <4> QED BY <1>1, <1>s, <4>1, <4>2
    <3>2. CASE task[w].status # "active"
      <4>0. task[w].status = "blocked"
        BY <1>n, <2>2, <3>2 DEF TaskTypes, Tasks, Statuses, CommitStatus
      <4>1. suspended' = suspended BY <2>2, <3>2 DEF CommitStatus
      <4>2. \A x \in blocked : x \in blocked'
        BY <2>2, <4>0 DEF CommitStatus, SetStatus, vars, libraryVars
      <4> QED BY <1>1, <1>s, <4>1, <4>2
    <3> QED BY <3>1, <3>2
  <2>3. CASE FinishUpdateStatus(w)
    <3>1. CASE task[w].status # "blocked"
      BY <1>2, <2>3, <3>1 DEF FinishUpdateStatus, vars, libraryVars
    <3>2. CASE task[w].status = "blocked"
      <4>1. PICK u \in Users : u = task[w].user
        BY <1>u, <2>3 DEF FinishUpdateStatus, At
      <4>2. ForceDisconnect(u) /\ suspended' = suspended \cup ({u} \cap blocked)
        BY <2>3, <3>2, <4>1 DEF FinishUpdateStatus
      <4>3. blocked' = blocked BY <1>n, <4>2, BlockedStays
      <4>4. PICK S \in SUBSET suspended : S = suspended OBVIOUS
      <4>5. TicketsRaced(S)' BY <1>r
      <4>6. TicketsRaced({u})' BY <1>n, <4>2, DisconnectRaces
      <4>7. suspended' \subseteq S \cup {u} BY <4>2, <4>4
      <4>8. TicketsRaced(suspended)' BY <4>5, <4>6, <4>7 DEF TicketsRaced
      <4> QED BY <1>s, <4>2, <4>3, <4>8 DEF SuspendedStay
    <3> QED BY <3>1, <3>2
  <2> QED BY <1>7, <2>1, <2>2, <2>3 DEF StatusStep
<1> QED BY <1>3, <1>4, <1>5, <1>6, <1>7 DEF AccessNext

-----------------------------------------------------------------------------
LEMMA AccInit == AccessInit => AccInv
<1> SUFFICES ASSUME AccessInit PROVE AccInv OBVIOUS
<1>1. IInv BY InvInit DEF AccessInit
<1>2. TaskTypes
  BY NoneAssumption DEF AccessInit, TaskTypes, Tasks, Steps, Statuses, NoTask
<1>3. EndedInOrder BY DEF AccessInit, EndedInOrder, NoTask
<1>4. SuspendedStay BY DEF AccessInit, SuspendedStay, TicketsRaced
<1> QED BY <1>1, <1>2, <1>3, <1>4 DEF AccInv

LEMMA AccNext == AccInv /\ [AccessNext]_allVars => AccInv'
<1> SUFFICES ASSUME AccInv, [AccessNext]_allVars PROVE AccInv' OBVIOUS
<1>1. IInv' BY StepIsNext, InvNext DEF AccInv
<1>2. TaskTypes' BY TaskTypesNext DEF AccInv
<1> QED BY <1>1, <1>2, EndedInOrderNext, SuspendedStayNext DEF AccInv

\* The gateway's invariant, the order of the operations' steps and what a
\* reported suspension rests on hold in every reachable state.
THEOREM AccInvariance == AccessSpec => []AccInv
BY AccInit, AccNext, PTL DEF AccessSpec

\* Every behaviour of the operations is a behaviour of the gateway in its
\* environment, so all that is proved of the gateway holds under them
\* (the calls of UserConnectionPort in account, users and platform services).
THEOREM OperationsStayWithinGateway == AccessSpec => StaysWithinGateway
<1>1. AccessInit => Init BY DEF AccessInit
<1>2. AccInv /\ [AccessNext]_allVars => [Next]_vars BY StepIsNext DEF AccInv
<1> QED BY <1>1, <1>2, AccInvariance, PTL DEF AccessSpec, StaysWithinGateway, Spec

\* Whatever the operations do, each of their disconnects takes an account off
\* the realtime channel at once, and no admission undoes it: the composed
\* system implements the abstract channel (notifications.gateway.ts:448-481).
THEOREM OperationsImplementChannel == AccessSpec => ImplementsRealtimeCutoff
BY OperationsStayWithinGateway, GatewayImplementsChannel, PTL DEF StaysWithinGateway

\* The sessions a password change, an MFA reset or a sign-out everywhere
\* reported as ended never stream again (account.service.ts:329-338).
THEOREM PromisesHold == AccessSpec => []PromisedSessionsNeverStream
<1>1. AccInv => PromisedSessionsNeverStream
  BY DEF AccInv, EndedInOrder, IInv, CutOffCredentialNeverStreams, PromisedSessionsNeverStream
<1> QED BY <1>1, AccInvariance, PTL

\* No ticket opens a stream for an account while the suspension its tenant
\* admin was told of stands (users.service.ts: maybeDisconnectBlockedUser).
THEOREM SuspensionHolds == AccessSpec => []SuspensionHoldsOnTicketPath
<1>1. AccInv => SuspensionHoldsOnTicketPath
  BY DEF AccInv, SuspendedStay, TicketsRaced, SuspensionHoldsOnTicketPath
<1> QED BY <1>1, AccInvariance, PTL
=============================================================================
