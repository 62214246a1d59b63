--------------------------- MODULE RealtimeCutoff ---------------------------
(***************************************************************************)
(* What the realtime channel promises, apart from how the gateway keeps    *)
(* it.  A connection attempt claims an account, may be admitted to that    *)
(* account's stream, and ends for good.  Cutting an account off takes      *)
(* every attempt and every stream of that account down in one step: an     *)
(* attempt that was under way cannot come back as a stream, and nothing    *)
(* further is delivered to it.                                             *)
(*                                                                         *)
(* The promise is the one notifications.gateway.ts states for admission    *)
(* ("atomic with the disconnect", lines 36-41 and 448-462); the module     *)
(* NotificationsGateway is shown to implement it.                          *)
(***************************************************************************)

CONSTANTS
    Conns,      \* connection attempts
    Users,      \* accounts
    None        \* no account

VARIABLES
    phase,      \* where each connection is in its life
    account,    \* the account each connection claims
    cut,        \* connections taken down by a cut-off
    heard       \* connections served since their account was last cut off

vars == <<phase, account, cut, heard>>

Phases == {"idle", "pending", "streaming", "ended"}

TypeOK ==
    /\ phase \in [Conns -> Phases]
    /\ account \in [Conns -> Users \cup {None}]
    /\ cut \subseteq Conns
    /\ heard \subseteq Conns

Active(c) == phase[c] \in {"pending", "streaming"}

Init ==
    /\ phase = [c \in Conns |-> "idle"]
    /\ account = [c \in Conns |-> None]
    /\ cut = {}
    /\ heard = {}

\* A connection arrives; it may be turned away at once.
Attempt(c, u) ==
    /\ phase[c] = "idle"
    /\ \E p \in {"pending", "ended"} : phase' = [phase EXCEPT ![c] = p]
    /\ account' = [account EXCEPT ![c] = u]
    /\ UNCHANGED <<cut, heard>>

Admit(c) ==
    /\ phase[c] = "pending"
    /\ phase' = [phase EXCEPT ![c] = "streaming"]
    /\ UNCHANGED <<account, cut, heard>>

\* Refusals, closed sockets and restarts: any number of connections end.
End(S) ==
    /\ phase' = [c \in Conns |-> IF c \in S THEN "ended" ELSE phase[c]]
    /\ UNCHANGED <<account, cut, heard>>

\* The account's attempts and streams all end, in one step.
CutOff(u) ==
    LET gone == {c \in Conns : Active(c) /\ account[c] = u} IN
    /\ phase' = [c \in Conns |-> IF c \in gone THEN "ended" ELSE phase[c]]
    /\ cut' = cut \cup gone
    /\ heard' = heard \ {c \in Conns : account[c] = u}
    /\ UNCHANGED account

\* A notification reaches the account's streams and nothing else.
Deliver(u) ==
    /\ heard' = heard \cup {c \in Conns : phase[c] = "streaming" /\ account[c] = u}
    /\ UNCHANGED <<phase, account, cut>>

Next ==
    \/ \E c \in Conns, u \in Users \cup {None} : Attempt(c, u)
    \/ \E c \in Conns : Admit(c)
    \/ \E S \in SUBSET {c \in Conns : Active(c)} : End(S)
    \/ \E u \in Users : CutOff(u) \/ Deliver(u)

Spec == Init /\ [][Next]_vars

\* Whatever arrives, is admitted or is delivered later: a connection that was
\* cut off has ended, and nothing reached it since.
CutOffIsFinal == \A c \in Conns : c \in cut => phase[c] = "ended" /\ c \notin heard
=============================================================================
