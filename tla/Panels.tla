-------------------------------- MODULE Panels --------------------------------
(***************************************************************************)
(* A mounted table of the dashboard or of the platform console over the    *)
(* rows of the server: the platform's users by workspace, the team, the    *)
(* sessions, the projects, the invitations, and the two that are only      *)
(* read.  A call is made, done by the server and answered in three steps,  *)
(* and answers travel apart, so they may arrive in another order.          *)
(***************************************************************************)
EXTENDS Integers, Sequences

CONSTANTS
    Rows,
    TenantOf,       \* the workspace each row belongs to
    Self,           \* the signed-in person's own row
    Home,           \* the workspace they are signed in to
    Handled,        \* bound: the rows the person acts on
    Contested,      \* bound: those that somebody else changes too, or that are added
    MaxCalls        \* bound: calls in flight

Nothing == "nothing"
Awaited == "awaited"

ASSUME PanelsAssumption ==
    /\ Self \in Rows /\ TenantOf[Self] = Home
    /\ Contested \subseteq Handled /\ Handled \subseteq Rows /\ Self \notin Contested
    /\ MaxCalls \in Nat \ {0}
    /\ Nothing \notin Rows /\ \A i \in Rows : TenantOf[i] # Nothing
Gone == [status |-> "gone", mfa |-> FALSE]
Listed(status) == [status |-> status, mfa |-> FALSE]
Places == {TenantOf[i] : i \in Rows}

VARIABLES
    table,              \* which table the page shows
    selected,           \* the workspace it lists
    server,             \* the rows as the database holds them
    rows,               \* the rows as the table holds them
    isLoading,
    toggling, resetting,    \* the row whose button is disabled, one of each at most
    isPending,          \* the dialog or form that adds a row
    asked, answered,    \* calls on their way; answers on theirs, in the order of the server
    crossed,            \* rows about which two calls were in flight at once
    adrift              \* something happened after which only a reload shows the rows

controls == <<toggling, resetting, isPending>>
panelVars == <<table, selected, server, rows, isLoading, controls, asked, answered, crossed, adrift>>

(* The tables: whose rows they list, what a row's buttons do, whether rows *)
(* are added beside them, and whether the person's own row has a button.   *)
(* Those that differ in wording alone are one and the same here.           *)
PlatformUsersTable == [lists |-> "picked", acts |-> {"set", "clear"}, adds |-> FALSE, own |-> FALSE]
TeamTable == [lists |-> "home", acts |-> {"set"}, adds |-> FALSE, own |-> FALSE]
SessionsTable == [lists |-> "home", acts |-> {"remove"}, adds |-> FALSE, own |-> FALSE]
ProjectsList == [lists |-> "home", acts |-> {"remove"}, adds |-> TRUE, own |-> TRUE]
InvitationsTable == [lists |-> "home", acts |-> {"remove"}, adds |-> TRUE, own |-> TRUE]
TenantsTable == [lists |-> "home", acts |-> {}, adds |-> FALSE, own |-> FALSE]
AuditLogPage == [lists |-> "home", acts |-> {}, adds |-> FALSE, own |-> FALSE]
NoTable == [lists |-> Nothing, acts |-> {}, adds |-> FALSE, own |-> FALSE]

Tables == {PlatformUsersTable, TeamTable, SessionsTable, ProjectsList, InvitationsTable,
           TenantsTable, AuditLogPage}
Optimistic == table.lists = "picked"

(* The statuses that have a button on the team page, and what it writes.   *)
STATUS_ACTIONS ==
    [ACTIVE |-> {"SUSPENDED"}, PENDING |-> {"ACTIVE"}, SUSPENDED |-> {"ACTIVE"},
     INACTIVE |-> {"ACTIVE"}, BANNED |-> {}]

(* The console's button is a toggle.                                       *)
NewStatus(status) == IF status = "SUSPENDED" THEN "ACTIVE" ELSE "SUSPENDED"

Listing(t) == [i \in Rows |-> IF TenantOf[i] = t THEN server[i] ELSE Gone]

-----------------------------------------------------------------------------
Call(op, i, to, was) == [op |-> op, row |-> i, to |-> to, was |-> was]
Load(t, by) == Call("load", Nothing, t, by)     \* by: the handler that awaits it, or nothing

Room == Len(asked) + Len(answered) < MaxCalls
InFlight == {asked[n] : n \in DOMAIN asked} \cup {answered[n].call : n \in DOMAIN answered}
Crossed(i) == crossed \cup {c.row : c \in {d \in InFlight : d.row = i}}
Without(s, k) == [n \in 1..(Len(s) - 1) |-> IF n < k THEN s[n] ELSE s[n + 1]]

(* What reached the server before answer k and has not arrived is late.    *)
After(k) ==
    Without([n \in DOMAIN answered |->
               IF n < k THEN [answered[n] EXCEPT !.late = TRUE] ELSE answered[n]], k)

PanelInit ==
    /\ table \in Tables \cup {NoTable}
    /\ selected = IF table.lists = "home" THEN Home ELSE Nothing
    /\ server = [i \in Rows |->
                   [status |-> "ACTIVE", mfa |-> Optimistic /\ i \in Contested]]
    /\ rows = [i \in Rows |-> Gone]
    /\ isLoading = TRUE
    /\ toggling = Nothing /\ resetting = Nothing /\ isPending = FALSE
    /\ asked = IF table.lists = "home" THEN <<Load(Home, Nothing)>> ELSE <<>>
    /\ answered = <<>>
    /\ crossed = {} /\ adrift = FALSE

-----------------------------------------------------------------------------
(* The person.                                                             *)

(* The picker replaces the URL; the table stays mounted and loads again.   *)
ChooseTenant(t) ==
    /\ Optimistic /\ t # selected /\ Room
    /\ selected' = t
    /\ isLoading' = TRUE
    /\ asked' = Append(asked, Load(t, Nothing))
    /\ UNCHANGED <<table, server, rows, controls, answered, crossed, adrift>>

CanAct(op, i) ==
    /\ ~isLoading /\ rows[i] # Gone /\ Room
    /\ op \in table.acts
    /\ i = Self /\ op \in {"set", "remove"} => table.own

(* The row shows the new status before the server has it.                  *)
handleToggle(i) ==
    /\ Optimistic /\ CanAct("set", i) /\ i # toggling
    /\ toggling' = i
    /\ LET to == NewStatus(rows[i].status) IN
       /\ rows' = [rows EXCEPT ![i].status = to]
       /\ asked' = Append(asked, Call("set", i, to, rows[i].status))
    /\ crossed' = Crossed(i)
    /\ UNCHANGED <<table, selected, server, isLoading, resetting, isPending, answered, adrift>>

handleResetMfa(i) ==
    /\ CanAct("clear", i) /\ rows[i].mfa /\ i # resetting
    /\ resetting' = i
    /\ asked' = Append(asked, Call("clear", i, Nothing, Nothing))
    /\ crossed' = Crossed(i)
    /\ UNCHANGED <<table, selected, server, rows, isLoading, toggling, isPending, answered, adrift>>

handleStatusAction(i, to) ==
    /\ ~Optimistic /\ CanAct("set", i) /\ i # toggling
    /\ to \in STATUS_ACTIONS[rows[i].status]
    /\ toggling' = i
    /\ asked' = Append(asked, Call("set", i, to, Nothing))
    /\ crossed' = Crossed(i)
    /\ UNCHANGED <<table, selected, server, rows, isLoading, resetting, isPending, answered, adrift>>

(* handleRevoke, handleDelete: the session in use has no button.           *)
handleRemove(i) ==
    /\ CanAct("remove", i) /\ i # toggling
    /\ toggling' = i
    /\ asked' = Append(asked, Call("remove", i, Nothing, Nothing))
    /\ crossed' = Crossed(i)
    /\ UNCHANGED <<table, selected, server, rows, isLoading, resetting, isPending, answered, adrift>>

(* The dialog and the form are beside the table, whatever it is doing.     *)
SubmitAdd(i) ==
    /\ table.adds /\ ~isPending /\ Room
    /\ server[i] = Gone
    /\ isPending' = TRUE
    /\ asked' = Append(asked, Call("add", i, Nothing, Nothing))
    /\ UNCHANGED <<table, selected, server, rows, isLoading, toggling, resetting, answered, crossed, adrift>>

-----------------------------------------------------------------------------
(* The server does the k-th call; what it answers is what it then holds.   *)
ServerDoes(k) ==
    LET c == asked[k]
        done == CASE c.op = "set" -> [server EXCEPT ![c.row].status = c.to]
                  [] c.op = "clear" -> [server EXCEPT ![c.row].mfa = FALSE]
                  [] c.op = "remove" -> [server EXCEPT ![c.row] = Gone]
                  [] c.op = "add" -> [server EXCEPT ![c.row] = Listed("ACTIVE")]
                  [] c.op = "load" -> server
    IN  /\ c.op \in {"set", "clear"} => server[c.row] # Gone
        /\ server' = done
        /\ answered' = Append(answered,
             [call |-> c, late |-> FALSE,
              got |-> IF c.op = "load" THEN Listing(c.to) ELSE [i \in {c.row} |-> done[i]]])
        /\ asked' = Without(asked, k)
        /\ UNCHANGED <<table, selected, rows, isLoading, controls, crossed, adrift>>

(* Somebody else changes, adds or removes a row (bound: once between loads *)
(* that show it).                                                          *)
SomebodyElse(i, row) ==
    /\ table.acts # {}
    /\ row # server[i] /\ ~adrift
    /\ server' = [server EXCEPT ![i] = row]
    /\ adrift' = TRUE
    /\ answered' = [n \in DOMAIN answered |-> [answered[n] EXCEPT !.late = TRUE]]
    /\ UNCHANGED <<table, selected, rows, isLoading, controls, crossed, asked>>

-----------------------------------------------------------------------------
(* The answers.                                                            *)

(* What the handler of a row's button waits for last: its own load, or     *)
(* nothing more once its change has failed.  Then its finally runs.        *)
EndsHandler(c) == c.op \in {"set", "remove"} \/ c.was = Awaited

(* load: whichever workspace or moment the rows are of, they are shown.    *)
LoadAnswers(k) ==
    /\ answered[k].call.op = "load"
    /\ toggling' = IF EndsHandler(answered[k].call) THEN Nothing ELSE toggling
    /\ rows' = answered[k].got
    /\ isLoading' = FALSE
    /\ answered' = After(k)
    /\ adrift' = \/ answered[k].late \/ answered[k].call.to # selected
                 \/ adrift /\ Len(asked) + Len(answered) > 1
    /\ crossed' = IF Len(asked) + Len(answered) > 1 THEN crossed ELSE {}
    /\ UNCHANGED <<table, selected, server, resetting, isPending, asked>>

(* The console writes the row it is answered into the table, by its id.    *)
RowAnswers(k) ==
    /\ Optimistic /\ answered[k].call.op \in {"set", "clear"}
    /\ LET i == answered[k].call.row IN
       rows' = IF rows[i] = Gone THEN rows ELSE [rows EXCEPT ![i] = answered[k].got[i]]
    /\ IF answered[k].call.op = "set" THEN toggling' = Nothing /\ UNCHANGED resetting
       ELSE resetting' = Nothing /\ UNCHANGED toggling
    /\ answered' = After(k)
    /\ adrift' = (adrift \/ answered[k].late)
    /\ UNCHANGED <<table, selected, server, isLoading, isPending, crossed, asked>>

(* The dashboard's tables load again: the handler of a change awaits it,   *)
(* the button still disabled; an added row does it through refreshKey.     *)
ChangeAnswers(k) ==
    LET op == answered[k].call.op IN
    /\ ~Optimistic /\ op # "load"
    /\ isPending' = (isPending /\ op # "add")
    /\ answered' = After(k)
    /\ isLoading' = TRUE
    /\ asked' = Append(asked, Load(Home, IF op = "add" THEN Nothing ELSE Awaited))
    /\ UNCHANGED <<table, selected, server, rows, toggling, resetting, crossed, adrift>>

(* Fault: the catch block only says so.                                    *)
KeepOptimistic(c) == rows

(* The toggled row goes back to what it showed; other failures only say so. *)
RolledBack(c) ==
    IF Optimistic /\ c.op = "set" /\ rows[c.row] # Gone
    THEN [rows EXCEPT ![c.row].status = c.was]
    ELSE rows

(* A call fails: refused, so nothing happened, or done and its answer lost. *)
Fails(c) ==
    /\ rows' = RolledBack(c)
    /\ isLoading' = (isLoading /\ c.op # "load")
    /\ toggling' = IF EndsHandler(c) THEN Nothing ELSE toggling
    /\ resetting' = IF c.op = "clear" THEN Nothing ELSE resetting
    /\ isPending' = (isPending /\ c.op # "add")
    /\ UNCHANGED <<table, selected, server, crossed>>

CallRefused(k) ==
    LET c == asked[k] IN
    /\ asked' = Without(asked, k)
    /\ UNCHANGED answered
    /\ adrift' = (adrift \/ c.op = "load" \/ c.row \in crossed)
    /\ Fails(c)

AnswerLost(k) ==
    /\ answered' = After(k)
    /\ UNCHANGED asked
    /\ adrift' = TRUE
    /\ Fails(answered[k].call)

-----------------------------------------------------------------------------
RowStates(i) ==
    IF Optimistic THEN {[server[i] EXCEPT !.status = s] : s \in {"ACTIVE", "SUSPENDED"}}
    ELSE IF table = TeamTable THEN {Listed(s) : s \in DOMAIN STATUS_ACTIONS}
    ELSE {Listed("ACTIVE"), Gone}

PanelNext ==
    \/ \E t \in Places : ChooseTenant(t)
    \/ \E i \in Handled : handleToggle(i) \/ handleResetMfa(i) \/ handleRemove(i)
    \/ \E i \in Contested : SubmitAdd(i)
    \/ \E i \in Handled, to \in {"ACTIVE", "SUSPENDED"} : handleStatusAction(i, to)
    \/ \E i \in Contested : \E row \in RowStates(i) : SomebodyElse(i, row)
    \/ \E k \in DOMAIN asked : ServerDoes(k) \/ CallRefused(k)
    \/ \E k \in DOMAIN answered :
         LoadAnswers(k) \/ RowAnswers(k) \/ ChangeAnswers(k) \/ AnswerLost(k)

-----------------------------------------------------------------------------
(* With nothing in flight a table shows the rows the server has, and of    *)
(* the workspace selected: whatever calls overlapped, changed a row ahead  *)
(* of the server and were refused.  Not after an answer overtook a later   *)
(* one or was lost, a load failed, two calls about one row met a refusal,  *)
(* or somebody else changed a row, until the next load on its own.         *)
SettledTableIsServerState ==
    (asked = <<>> /\ answered = <<>> /\ selected # Nothing /\ ~adrift)
        => rows = Listing(selected)

=============================================================================
