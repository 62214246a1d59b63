---------------------------- MODULE PanelsProofs ----------------------------
(***************************************************************************)
(* For any rows, workspaces and number of calls in flight: with nothing    *)
(* under way a table shows what the server has, and a disabled control is  *)
(* one whose call is under way.                                            *)
(*                                                                         *)
(* An answer that was not overtaken says what the server has, or a later   *)
(* one about the same row is on its way; a row shows what the server has,  *)
(* or an answer about it is on its way, or it is ahead of the server by a  *)
(* toggle on its way.  Arriving or failing, a call about a row with no     *)
(* other in flight leaves that row right: a rolled-back toggle goes back   *)
(* to what the server has unless it crossed another call, which is what    *)
(* the history variable crossed remembers.                                 *)
(***************************************************************************)
EXTENDS Panels, TLAPS

SpecPanel == PanelInit /\ [][PanelNext]_panelVars

-----------------------------------------------------------------------------
(* The inductive invariant.                                                *)

Statuses == DOMAIN STATUS_ACTIONS
RowValues == {Gone} \cup [status : Statuses, mfa : BOOLEAN]
Ops == {"load", "set", "clear", "remove", "add"}
Calls == [op : Ops, row : Rows \cup {Nothing}, to : Places \cup Statuses \cup {Nothing},
          was : Statuses \cup {Nothing, Awaited}]
Answers == [call : Calls, late : BOOLEAN, got : UNION {[S -> RowValues] : S \in SUBSET Rows}]

(* A load is of a workspace, every other call about a row; the console's   *)
(* calls keep its rows what they are.                                      *)
WellFormed(c) ==
    /\ c \in Calls
    /\ c.op = "load" => c.row = Nothing /\ c.to \in Places
    /\ c.op # "load" => c.row \in Rows
    /\ c.op = "set" => c.to \in Statuses
    /\ Optimistic => c.op \in {"load", "set", "clear"}
    /\ Optimistic /\ c.op = "set" => c.was \in Statuses
    /\ c.was = Awaited => c.op = "load" /\ ~Optimistic

(* An answer says what the rows it is about are, a load's of them all.     *)
WellAnswered(a) ==
    /\ WellFormed(a.call)
    /\ a.call.op = "load" => a.got \in [Rows -> RowValues]
    /\ a.call.op # "load" => a.got \in [{a.call.row} -> RowValues]

PanelTypes ==
    /\ table \in Tables \cup {NoTable}
    /\ selected \in Places \cup {Nothing}
    /\ server \in [Rows -> RowValues] /\ rows \in [Rows -> RowValues]
    /\ isLoading \in BOOLEAN /\ isPending \in BOOLEAN /\ adrift \in BOOLEAN
    /\ asked \in Seq(Calls) /\ \A n \in DOMAIN asked : WellFormed(asked[n])
    /\ answered \in Seq(Answers) /\ \A n \in DOMAIN answered : WellAnswered(answered[n])

(* What a server with these rows would answer now, about one of them.      *)
Fresh(c, held, i) == IF c.op = "load" /\ TenantOf[i] # c.to THEN Gone ELSE held[i]

(* An answer that is not late says of a row what the server has, unless a  *)
(* later answer about that row is on its way.                              *)
AnswersAreFresh ==
    \A k \in DOMAIN answered : ~answered[k].late =>
        \A i \in DOMAIN answered[k].got :
            \/ answered[k].got[i] = Fresh(answered[k].call, server, i)
            \/ \E n \in DOMAIN answered : n > k /\ answered[n].call.row = i

(* A table that says it is loading has a load in flight.                   *)
LoadingLoads ==
    isLoading /\ selected # Nothing =>
        \/ \E n \in DOMAIN asked : asked[n].op = "load"
        \/ \E n \in DOMAIN answered : answered[n].call.op = "load"

(* The console's rows are all there, and its table shows the selected ones. *)
ConsoleRows ==
    Optimistic =>
        /\ \A i \in Rows : server[i] # Gone
        /\ \A n \in DOMAIN answered : \A i \in DOMAIN answered[n].got :
              answered[n].got[i] = Gone <=>
                  answered[n].call.op = "load" /\ TenantOf[i] # answered[n].call.to
        /\ ~isLoading /\ ~adrift =>
              \A i \in Rows : rows[i] = Gone <=> TenantOf[i] # selected

(* Two calls about one row are known to have crossed.                      *)
CrossedCalls ==
    Optimistic =>
        /\ \A m, n \in DOMAIN asked :
              m # n /\ asked[m].row = asked[n].row /\ asked[m].row # Nothing
                  => asked[m].row \in crossed
        /\ \A m \in DOMAIN asked, n \in DOMAIN answered :
              asked[m].row = answered[n].call.row /\ asked[m].row # Nothing
                  => asked[m].row \in crossed

(* A toggle that crossed no other call would be rolled back to what the    *)
(* server has.                                                             *)
RollbackIsRight ==
    Optimistic /\ ~adrift =>
        \A n \in DOMAIN asked :
            asked[n].op = "set" /\ asked[n].row \notin crossed
                => asked[n].was = server[asked[n].row].status

(* A row shows what the server has, or an answer about it is on its way,   *)
(* or only its status is ahead of the server, by a toggle on its way.      *)
RowMatches(i) ==
    \/ rows[i] = Listing(selected)[i]
    \/ \E n \in DOMAIN answered : answered[n].call.row = i
    \/ /\ Optimistic /\ \E n \in DOMAIN asked : asked[n].op = "set" /\ asked[n].row = i
       /\ rows[i].mfa = server[i].mfa

TableMatches == ~isLoading /\ ~adrift => \A i \in Rows : RowMatches(i)

PanInv ==
    /\ PanelTypes
    /\ AnswersAreFresh
    /\ LoadingLoads
    /\ ConsoleRows
    /\ CrossedCalls
    /\ RollbackIsRight
    /\ TableMatches
-----------------------------------------------------------------------------
(* The queues.                                                             *)

LEMMA FunctionIsSeq ==
  ASSUME NEW S, NEW n \in Nat, NEW f \in [1..n -> S]
  PROVE  f \in Seq(S) /\ Len(f) = n /\ DOMAIN f = 1..n
  OBVIOUS

\* What is asked comes last.
LEMMA Appended ==
  ASSUME NEW S, NEW s \in Seq(S), NEW e \in S, NEW t, t = Append(s, e)
  PROVE  /\ t \in Seq(S)
         /\ \A n \in DOMAIN s : n \in DOMAIN t /\ t[n] = s[n] /\ n < Len(s) + 1
         /\ Len(s) + 1 \in DOMAIN t /\ Len(s) + 1 \notin DOMAIN s /\ t[Len(s) + 1] = e
         /\ \A n \in DOMAIN t : n \in DOMAIN s \/ n = Len(s) + 1
  OBVIOUS

\* Without its k-th element a queue holds the others, in their order.
Before(n, k) == IF n < k THEN n ELSE n + 1
Behind(n, k) == IF n < k THEN n ELSE n - 1

LEMMA WithoutAnswer ==
  ASSUME NEW s \in Seq(Answers), NEW k \in DOMAIN s, NEW t, t = Without(s, k)
  PROVE  /\ t \in Seq(Answers)
         /\ \A n \in DOMAIN t : Before(n, k) \in DOMAIN s \ {k} /\ t[n] = s[Before(n, k)]
         /\ \A n \in DOMAIN s \ {k} : Behind(n, k) \in DOMAIN t /\ t[Behind(n, k)] = s[n]
         /\ DOMAIN t = {} => DOMAIN s = {k}
         /\ Len(t) = Len(s) - 1
  <1>1. Len(s) \in Nat \ {0} /\ DOMAIN s = 1..Len(s) /\ k \in 1..Len(s)
    OBVIOUS
  <1>2. t = [n \in 1..(Len(s) - 1) |-> IF n < k THEN s[n] ELSE s[n + 1]]
    BY DEF Without
  <1>3. Len(s) - 1 \in Nat /\ t \in [1..(Len(s) - 1) -> Answers]
    BY <1>1, <1>2
  <1>4. t \in Seq(Answers) /\ Len(t) = Len(s) - 1 /\ DOMAIN t = 1..(Len(s) - 1)
    BY <1>3, FunctionIsSeq
  <1>5. \A n \in DOMAIN t : Before(n, k) \in DOMAIN s \ {k} /\ t[n] = s[Before(n, k)]
    BY <1>1, <1>2, <1>4 DEF Before
  <1>6. \A n \in DOMAIN s \ {k} : Behind(n, k) \in DOMAIN t /\ t[Behind(n, k)] = s[n]
    BY <1>1, <1>2, <1>4 DEF Behind
  <1>7. DOMAIN t = {} => DOMAIN s = {k}
    BY <1>1, <1>4
  <1> QED BY <1>4, <1>5, <1>6, <1>7

LEMMA WithoutCall ==
  ASSUME asked \in Seq(Calls), NEW k \in DOMAIN asked, NEW t, t = Without(asked, k)
  PROVE  /\ t \in Seq(Calls)
         /\ \A n \in DOMAIN t : Before(n, k) \in DOMAIN asked \ {k} /\ t[n] = asked[Before(n, k)]
         /\ \A n \in DOMAIN asked \ {k} :
               Behind(n, k) \in DOMAIN t /\ t[Behind(n, k)] = asked[n]
         /\ DOMAIN t = {} => DOMAIN asked = {k}
         /\ Len(t) = Len(asked) - 1
  <1>1. Len(asked) \in Nat \ {0} /\ DOMAIN asked = 1..Len(asked) /\ k \in 1..Len(asked)
    OBVIOUS
  <1>2. t = [n \in 1..(Len(asked) - 1) |-> IF n < k THEN asked[n] ELSE asked[n + 1]]
    BY DEF Without
  <1>3. Len(asked) - 1 \in Nat /\ t \in [1..(Len(asked) - 1) -> Calls]
    BY <1>1, <1>2
  <1>4. t \in Seq(Calls) /\ Len(t) = Len(asked) - 1 /\ DOMAIN t = 1..(Len(asked) - 1)
    BY <1>3, FunctionIsSeq
  <1>5. \A n \in DOMAIN t : Before(n, k) \in DOMAIN asked \ {k} /\ t[n] = asked[Before(n, k)]
    BY <1>1, <1>2, <1>4 DEF Before
  <1>6. \A n \in DOMAIN asked \ {k} : Behind(n, k) \in DOMAIN t /\ t[Behind(n, k)] = asked[n]
    BY <1>1, <1>2, <1>4 DEF Behind
  <1>7. DOMAIN t = {} => DOMAIN asked = {k}
    BY <1>1, <1>4
  <1> QED BY <1>4, <1>5, <1>6, <1>7

\* An answer that arrives makes those before it late.
LEMMA AfterOne ==
  ASSUME answered \in Seq(Answers), NEW k \in DOMAIN answered, NEW t, t = After(k)
  PROVE  /\ t \in Seq(Answers)
         /\ \A n \in DOMAIN t :
               /\ Before(n, k) \in DOMAIN answered \ {k}
               /\ t[n].call = answered[Before(n, k)].call
               /\ t[n].got = answered[Before(n, k)].got
               /\ ~t[n].late => ~answered[Before(n, k)].late /\ k < Before(n, k)
         /\ \A n \in DOMAIN answered \ {k} :
               Behind(n, k) \in DOMAIN t /\ t[Behind(n, k)].call = answered[n].call
         /\ DOMAIN t = {} => DOMAIN answered = {k}
         /\ Len(t) = Len(answered) - 1
  <1> DEFINE old == [n \in DOMAIN answered |->
                       IF n < k THEN [answered[n] EXCEPT !.late = TRUE] ELSE answered[n]]
  <1>1. DOMAIN answered = 1..Len(answered) /\ Len(answered) \in Nat
    OBVIOUS
  <1>2. \A n \in DOMAIN answered : answered[n] \in Answers
    OBVIOUS
  <1>3. \A n \in DOMAIN answered :
           /\ old[n] \in Answers
           /\ old[n].call = answered[n].call /\ old[n].got = answered[n].got
           /\ ~old[n].late => ~answered[n].late /\ ~(n < k)
    BY <1>2 DEF Answers
  <1>4. old \in [1..Len(answered) -> Answers]
    BY <1>1, <1>3
  <1>5. old \in Seq(Answers) /\ DOMAIN old = DOMAIN answered /\ Len(old) = Len(answered)
    BY <1>1, <1>4, FunctionIsSeq
  <1>6. k \in DOMAIN old /\ t = Without(old, k)
    BY <1>5 DEF After
  <1> HIDE DEF old
  <1>7. /\ t \in Seq(Answers)
        /\ \A n \in DOMAIN t : Before(n, k) \in DOMAIN old \ {k} /\ t[n] = old[Before(n, k)]
        /\ \A n \in DOMAIN old \ {k} : Behind(n, k) \in DOMAIN t /\ t[Behind(n, k)] = old[n]
        /\ DOMAIN t = {} => DOMAIN old = {k}
        /\ Len(t) = Len(old) - 1
    <2>1. old \in Seq(Answers)
      BY <1>5
    <2>2. k \in DOMAIN old /\ t = Without(old, k)
      BY <1>6
    <2> QED BY <2>1, <2>2, WithoutAnswer
  <1>8. \A n \in DOMAIN t : ~(Before(n, k) < k) => k < Before(n, k)
    BY <1>1, <1>5, <1>7
  <1> QED BY <1>3, <1>5, <1>7, <1>8

\* A change by somebody else makes every answer on its way late.
LEMMA AllLate ==
  ASSUME answered \in Seq(Answers), NEW t,
         t = [n \in DOMAIN answered |-> [answered[n] EXCEPT !.late = TRUE]]
  PROVE  /\ t \in Seq(Answers) /\ DOMAIN t = DOMAIN answered
         /\ \A n \in DOMAIN t : /\ t[n].late
                                /\ t[n].call = answered[n].call /\ t[n].got = answered[n].got
  <1>1. DOMAIN answered = 1..Len(answered) /\ Len(answered) \in Nat
    OBVIOUS
  <1>2. \A n \in DOMAIN answered : answered[n] \in Answers
    OBVIOUS
  <1>3. \A n \in DOMAIN answered :
           /\ t[n] \in Answers /\ t[n].late
           /\ t[n].call = answered[n].call /\ t[n].got = answered[n].got
    BY <1>2 DEF Answers
  <1>4. t \in [1..Len(answered) -> Answers]
    BY <1>1, <1>3
  <1> QED BY <1>1, <1>3, <1>4, FunctionIsSeq
-----------------------------------------------------------------------------
(* Rows and tables.                                                        *)

LEMMA StatusNames == Statuses = {"ACTIVE", "PENDING", "SUSPENDED", "INACTIVE", "BANNED"}
  BY DEF Statuses, STATUS_ACTIONS

LEMMA RowFacts ==
  /\ \A r \in RowValues : r # Gone =>
        /\ r.status \in Statuses /\ r.mfa \in BOOLEAN
        /\ \A s \in Statuses : /\ [r EXCEPT !.status = s] \in RowValues \ {Gone}
                               /\ [r EXCEPT !.status = s].status = s
                               /\ [r EXCEPT !.status = s].mfa = r.mfa
        /\ [r EXCEPT !.mfa = FALSE] \in RowValues \ {Gone}
        /\ [r EXCEPT !.mfa = FALSE].status = r.status
  /\ \A s \in Statuses : Listed(s) \in RowValues \ {Gone}
  /\ Gone \in RowValues
  BY StatusNames DEF RowValues, Gone, Listed

LEMMA SameRow ==
  ASSUME NEW r \in RowValues, NEW q \in RowValues, r # Gone, q # Gone,
         r.status = q.status, r.mfa = q.mfa
  PROVE  r = q
  BY DEF RowValues

LEMMA TableFacts ==
  ASSUME table \in Tables \cup {NoTable}
  PROVE  /\ table.acts \subseteq {"set", "clear", "remove"}
         /\ Optimistic => table.acts = {"set", "clear"} /\ ~table.adds
  BY DEF Tables, PlatformUsersTable, TeamTable, SessionsTable, ProjectsList, InvitationsTable,
     TenantsTable, AuditLogPage, NoTable, Optimistic, Nothing

\* Only the console's table resets second factors.
LEMMA OnlyConsoleClears ==
  table \in Tables \cup {NoTable} /\ "clear" \in table.acts => Optimistic
  BY DEF Tables, PlatformUsersTable, TeamTable, SessionsTable, ProjectsList, InvitationsTable,
     TenantsTable, AuditLogPage, NoTable, Optimistic

LEMMA HomeIsAPlace == Home \in Places /\ Nothing \notin Places /\ Nothing \notin Rows
  BY PanelsAssumption DEF Places

-----------------------------------------------------------------------------
(* What is asked of the server.                                            *)

LEMMA AskKeeps ==
  ASSUME PanInv, NEW c, WellFormed(c), asked' = Append(asked, c),
         UNCHANGED <<table, server, answered, adrift>>,
         crossed \subseteq crossed',
         Optimistic /\ c.row # Nothing => crossed' = Crossed(c.row),
         rows' \in [Rows -> RowValues], selected' \in Places \cup {Nothing},
         isLoading' \in BOOLEAN, isPending' \in BOOLEAN,
         Optimistic /\ ~isLoading' /\ ~adrift =>
            \A i \in Rows : rows'[i] = Gone <=> TenantOf[i] # selected',
         isLoading' => c.op = "load" \/ (isLoading /\ selected' = selected),
         Optimistic /\ ~adrift /\ c.op = "set" /\ c.row \notin crossed' =>
            c.was = server[c.row].status,
         ~isLoading' /\ ~adrift => \A i \in Rows : RowMatches(i)'
  PROVE  PanInv'
  <1> c \in Calls
    BY DEF WellFormed
  <1>a. /\ asked' \in Seq(Calls)
        /\ \A n \in DOMAIN asked : n \in DOMAIN asked' /\ asked'[n] = asked[n]
        /\ Len(asked) + 1 \in DOMAIN asked' /\ asked'[Len(asked) + 1] = c
        /\ \A n \in DOMAIN asked' : n \in DOMAIN asked \/ n = Len(asked) + 1
    BY Appended DEF PanInv, PanelTypes
  <1>b. Optimistic' <=> Optimistic
    BY DEF Optimistic
  <1>1. PanelTypes'
    <2>1. ASSUME NEW n \in DOMAIN asked' PROVE WellFormed(asked[n])'
      <3>1. CASE n \in DOMAIN asked
        <4>1. asked'[n] = asked[n] /\ WellFormed(asked[n])
          BY <1>a, <3>1 DEF PanInv, PanelTypes
        <4> QED BY <4>1, <1>b DEF WellFormed
      <3>2. CASE n = Len(asked) + 1
        <4>1. asked'[n] = c
          BY <1>a, <3>2
        <4> QED BY <4>1, <1>b DEF WellFormed
      <3> QED BY <1>a, <3>1, <3>2
    <2>2. ASSUME NEW n \in DOMAIN answered' PROVE WellAnswered(answered[n])'
      BY <1>b DEF WellFormed, WellAnswered, PanInv, PanelTypes
    <2> QED BY <1>a, <2>1, <2>2 DEF PanInv, PanelTypes
  <1>2. AnswersAreFresh'
    BY DEF PanInv, AnswersAreFresh, Fresh
  <1>3. LoadingLoads'
    BY <1>a DEF PanInv, LoadingLoads
  <1>4. ConsoleRows'
    BY <1>b DEF PanInv, ConsoleRows
  <1>5. CrossedCalls'
    <2> SUFFICES ASSUME Optimistic PROVE CrossedCalls'
      BY <1>b DEF CrossedCalls
    <2>1. ASSUME c.row # Nothing
          PROVE  /\ \A n \in DOMAIN asked : asked[n].row = c.row => c.row \in crossed'
                 /\ \A n \in DOMAIN answered : answered[n].call.row = c.row => c.row \in crossed'
      BY <2>1 DEF Crossed, InFlight
    <2>2. ASSUME NEW m \in DOMAIN asked', NEW n \in DOMAIN asked', m # n,
                 asked'[m].row = asked'[n].row, asked'[m].row # Nothing
          PROVE  asked'[m].row \in crossed'
      BY <1>a, <2>1, <2>2 DEF PanInv, CrossedCalls
    <2>3. ASSUME NEW m \in DOMAIN asked', NEW n \in DOMAIN answered',
                 asked'[m].row = answered'[n].call.row, asked'[m].row # Nothing
          PROVE  asked'[m].row \in crossed'
      BY <1>a, <2>1, <2>3 DEF PanInv, CrossedCalls
    <2> QED BY <2>2, <2>3 DEF CrossedCalls
  <1>6. RollbackIsRight'
    BY <1>a, <1>b DEF PanInv, RollbackIsRight
  <1>7. TableMatches'
    BY DEF TableMatches
  <1> QED BY <1>1, <1>2, <1>3, <1>4, <1>5, <1>6, <1>7 DEF PanInv

\* A row that matched still does when something more is asked.
LEMMA MatchesOnceAsked ==
  ASSUME PanInv, NEW c \in Calls, asked' = Append(asked, c),
         UNCHANGED <<table, selected, server, answered>>,
         NEW i \in Rows, RowMatches(i), rows'[i] = rows[i]
  PROVE  RowMatches(i)'
  <1>1. \A n \in DOMAIN asked : n \in DOMAIN asked' /\ asked'[n] = asked[n]
    BY Appended DEF PanInv, PanelTypes
  <1>2. Listing(selected)[i]' = Listing(selected)[i]
    BY DEF Listing
  <1> QED BY <1>1, <1>2 DEF RowMatches, Optimistic

LEMMA ChooseTenantKeeps ==
  ASSUME PanInv, NEW t \in Places, ChooseTenant(t)
  PROVE  PanInv'
  <1>1. WellFormed(Load(t, Nothing)) /\ Load(t, Nothing).op = "load"
        /\ Load(t, Nothing).row = Nothing
    BY DEF WellFormed, Awaited, Nothing, Load, Call, Calls, Ops
  <1>2. isLoading' = TRUE /\ selected' = t /\ asked' = Append(asked, Load(t, Nothing))
    BY DEF ChooseTenant
  <1>3. UNCHANGED <<table, server, rows, isPending, answered, crossed, adrift>>
    BY DEF ChooseTenant, controls
  <1>4. rows' \in [Rows -> RowValues] /\ isPending' \in BOOLEAN
    BY <1>3 DEF PanInv, PanelTypes
  <1> QED BY <1>1, <1>2, <1>3, <1>4, AskKeeps

\* The row that is toggled was as the server has it, unless calls crossed.
LEMMA ToggleKeeps ==
  ASSUME PanInv, NEW i \in Rows, handleToggle(i)
  PROVE  PanInv'
  <1> DEFINE to == NewStatus(rows[i].status)
             c == Call("set", i, to, rows[i].status)
  <1>1. /\ Optimistic /\ ~isLoading /\ rows[i] # Gone
        /\ rows' = [rows EXCEPT ![i].status = to] /\ asked' = Append(asked, c)
        /\ crossed' = Crossed(i)
        /\ UNCHANGED <<table, selected, server, isLoading, isPending, answered, adrift>>
    BY DEF handleToggle, CanAct
  <1>2. rows[i] \in RowValues /\ rows[i].status \in Statuses /\ to \in Statuses
    BY <1>1, RowFacts, StatusNames DEF PanInv, PanelTypes, NewStatus
  <1>3. WellFormed(c) /\ c.op = "set" /\ c.row = i /\ c.was = rows[i].status
    BY <1>2, HomeIsAPlace, StatusNames DEF WellFormed, Call, Calls, Ops, Awaited, Nothing
  <1>4. /\ rows' \in [Rows -> RowValues]
        /\ \A j \in Rows \ {i} : rows'[j] = rows[j]
        /\ rows'[i] # Gone /\ rows'[i].mfa = rows[i].mfa
    BY <1>1, <1>2, RowFacts DEF PanInv, PanelTypes
  <1> HIDE DEF c, to
  <1>5. ~adrift => \A j \in Rows : rows'[j] = Gone <=> TenantOf[j] # selected
    BY <1>1, <1>4 DEF PanInv, ConsoleRows
  <1>6. ASSUME ~adrift, i \notin crossed' PROVE rows[i] = server[i]
    <2>1. /\ \A n \in DOMAIN asked : asked[n].row # i
          /\ \A n \in DOMAIN answered : answered[n].call.row # i
      BY <1>1, <1>6 DEF Crossed, InFlight
    <2>2. RowMatches(i)
      BY <1>1, <1>6 DEF PanInv, TableMatches
    <2>3. rows[i] = Listing(selected)[i]
      BY <2>1, <2>2 DEF RowMatches
    <2> QED BY <1>1, <2>3 DEF Listing
  <1>7. ASSUME ~adrift, NEW j \in Rows PROVE RowMatches(j)'
    <2>1. RowMatches(j)
      BY <1>1, <1>7 DEF PanInv, TableMatches
    <2>2. CASE j # i
      BY <1>1, <1>3, <1>4, <2>1, <2>2, MatchesOnceAsked DEF WellFormed
    <2>3. CASE j = i
      <3>1. \E n \in DOMAIN asked' : asked'[n].op = "set" /\ asked'[n].row = i
        BY <1>1, <1>3, Appended DEF PanInv, PanelTypes, WellFormed
      <3>2. \/ rows[i].mfa = server[i].mfa
            \/ \E n \in DOMAIN answered : answered[n].call.row = i
        <4>1. rows[i] = Listing(selected)[i] => rows[i] = server[i]
          BY <1>1 DEF Listing
        <4> QED BY <2>1, <2>3, <4>1 DEF RowMatches
      <3> QED BY <1>1, <1>4, <2>3, <3>1, <3>2 DEF RowMatches, Optimistic
    <2> QED BY <2>2, <2>3
  <1>8. crossed \subseteq crossed' /\ selected' \in Places \cup {Nothing}
        /\ isLoading' \in BOOLEAN /\ isPending' \in BOOLEAN
    BY <1>1 DEF Crossed, PanInv, PanelTypes
  <1> QED BY <1>1, <1>3, <1>4, <1>5, <1>6, <1>7, <1>8, AskKeeps

\* The other calls leave the table as it is until they are answered.
LEMMA PlainAskKeeps ==
  ASSUME PanInv, NEW c, WellFormed(c), c.op \notin {"load", "set"} \/ ~Optimistic,
         asked' = Append(asked, c), ~isLoading \/ ~Optimistic,
         UNCHANGED <<table, selected, server, rows, isLoading, answered, adrift>>,
         crossed \subseteq crossed', Optimistic => crossed' = Crossed(c.row),
         isPending' \in BOOLEAN
  PROVE  PanInv'
  <1>1. c \in Calls
    BY DEF WellFormed
  <1>2. /\ rows' \in [Rows -> RowValues] /\ selected' \in Places \cup {Nothing}
        /\ isLoading' \in BOOLEAN
    BY DEF PanInv, PanelTypes
  <1>3. Optimistic /\ ~isLoading' /\ ~adrift =>
           \A i \in Rows : rows'[i] = Gone <=> TenantOf[i] # selected'
    BY DEF PanInv, ConsoleRows
  <1>4. ~isLoading' /\ ~adrift => \A i \in Rows : RowMatches(i)'
    BY <1>1, MatchesOnceAsked DEF PanInv, TableMatches
  <1>5. Optimistic => c.op # "set"
    OBVIOUS
  <1> QED BY <1>2, <1>3, <1>4, <1>5, AskKeeps

LEMMA OtherAsksKeep ==
  ASSUME PanInv, NEW i \in Rows,
         \/ handleResetMfa(i) \/ handleRemove(i) \/ SubmitAdd(i)
         \/ \E to \in {"ACTIVE", "SUSPENDED"} : handleStatusAction(i, to)
  PROVE  PanInv'
  <1> isPending \in BOOLEAN /\ table \in Tables \cup {NoTable}
    BY DEF PanInv, PanelTypes
  <1>0. crossed \subseteq Crossed(i)
    BY DEF Crossed
  <1>1. CASE handleResetMfa(i)
    <2> DEFINE c == Call("clear", i, Nothing, Nothing)
    <2>1. WellFormed(c) /\ c.op = "clear" /\ c.row = i
      BY DEF WellFormed, Call, Calls, Ops, Awaited, Nothing
    <2> HIDE DEF c
    <2>2. /\ asked' = Append(asked, c) /\ ~isLoading /\ crossed' = Crossed(i)
          /\ UNCHANGED <<table, selected, server, rows, isLoading, isPending, answered, adrift>>
      BY <1>1 DEF handleResetMfa, CanAct, c
    <2> QED BY <1>0, <2>1, <2>2, PlainAskKeeps
  <1>2. CASE handleRemove(i)
    <2> DEFINE c == Call("remove", i, Nothing, Nothing)
    <2>1. ~Optimistic
      BY <1>2, TableFacts DEF handleRemove, CanAct
    <2>2. WellFormed(c) /\ c.row = i
      BY <2>1 DEF WellFormed, Call, Calls, Ops, Awaited, Nothing
    <2> HIDE DEF c
    <2>3. /\ asked' = Append(asked, c) /\ crossed' = Crossed(i)
          /\ UNCHANGED <<table, selected, server, rows, isLoading, isPending, answered, adrift>>
      BY <1>2 DEF handleRemove, CanAct, c
    <2> QED BY <1>0, <2>1, <2>2, <2>3, PlainAskKeeps
  <1>3. CASE SubmitAdd(i)
    <2> DEFINE c == Call("add", i, Nothing, Nothing)
    <2>1. ~Optimistic
      BY <1>3, TableFacts DEF SubmitAdd
    <2>2. WellFormed(c)
      BY <2>1 DEF WellFormed, Call, Calls, Ops, Awaited, Nothing
    <2> HIDE DEF c
    <2>3. /\ asked' = Append(asked, c) /\ crossed' = crossed /\ isPending' = TRUE
          /\ UNCHANGED <<table, selected, server, rows, isLoading, answered, adrift>>
      BY <1>3 DEF SubmitAdd, c
    <2> QED BY <2>1, <2>2, <2>3, PlainAskKeeps
  <1>4. ASSUME NEW to \in {"ACTIVE", "SUSPENDED"}, handleStatusAction(i, to) PROVE PanInv'
    <2> DEFINE c == Call("set", i, to, Nothing)
    <2>1. ~Optimistic
      BY <1>4 DEF handleStatusAction
    <2>2. WellFormed(c) /\ c.row = i
      BY <2>1, StatusNames DEF WellFormed, Call, Calls, Ops, Awaited, Nothing
    <2> HIDE DEF c
    <2>3. /\ asked' = Append(asked, c) /\ crossed' = Crossed(i)
          /\ UNCHANGED <<table, selected, server, rows, isLoading, isPending, answered, adrift>>
      BY <1>4 DEF handleStatusAction, CanAct, c
    <2> QED BY <1>0, <2>1, <2>2, <2>3, PlainAskKeeps
  <1> QED BY <1>1, <1>2, <1>3, <1>4
-----------------------------------------------------------------------------
(* What the server does.                                                   *)

\* The call that is done leaves one queue and its answer joins the other; the
\* server changes in the row the call is about, if it is about one.
LEMMA ServerDoesShape ==
  ASSUME PanInv, NEW k \in DOMAIN asked, ServerDoes(k)
  PROVE  \E a :
           /\ answered' = Append(answered, a) /\ a \in Answers /\ WellAnswered(a)
           /\ a.call = asked[k] /\ a.late = FALSE
           /\ server' \in [Rows -> RowValues]
           /\ \A i \in Rows : i # a.call.row => server'[i] = server[i]
           /\ \A i \in DOMAIN a.got : a.got[i] = Fresh(a.call, server', i)
           /\ Optimistic => \A i \in Rows : server'[i] # Gone
  <1> DEFINE c == asked[k]
             done == CASE c.op = "set" -> [server EXCEPT ![c.row].status = c.to]
                       [] c.op = "clear" -> [server EXCEPT ![c.row].mfa = FALSE]
                       [] c.op = "remove" -> [server EXCEPT ![c.row] = Gone]
                       [] c.op = "add" -> [server EXCEPT ![c.row] = Listed("ACTIVE")]
                       [] c.op = "load" -> server
             got == IF c.op = "load" THEN Listing(c.to) ELSE [i \in {c.row} |-> done[i]]
             a == [call |-> c, late |-> FALSE, got |-> got]
  <1>1. /\ c.op \in {"set", "clear"} => server[c.row] # Gone
        /\ server' = done /\ answered' = Append(answered, a)
    BY DEF ServerDoes
  <1>2. WellFormed(c) /\ c \in Calls /\ c.op \in Ops /\ server \in [Rows -> RowValues]
    BY DEF PanInv, PanelTypes, WellFormed, Calls
  <1>3. /\ done \in [Rows -> RowValues]
        /\ \A i \in Rows : i # c.row => done[i] = server[i]
        /\ Optimistic => \A i \in Rows : done[i] # Gone
    <2>1. CASE c.op = "load"
      <3>1. done = server
        BY <2>1
      <3> QED BY <1>2, <3>1 DEF PanInv, ConsoleRows
    <2>2. CASE c.op = "set"
      <3>1. done = [server EXCEPT ![c.row] = [server[c.row] EXCEPT !.status = c.to]]
        BY <2>2
      <3>2. c.row \in Rows /\ [server[c.row] EXCEPT !.status = c.to] \in RowValues \ {Gone}
        BY <1>1, <1>2, <2>2, RowFacts DEF WellFormed
      <3>3. done[c.row] # Gone /\ \A i \in Rows : i # c.row => done[i] = server[i]
        BY <1>2, <3>1, <3>2
      <3>4. done \in [Rows -> RowValues]
        BY <1>2, <3>1, <3>2
      <3> QED BY <1>2, <3>3, <3>4 DEF PanInv, ConsoleRows
    <2>3. CASE c.op = "clear"
      <3>1. done = [server EXCEPT ![c.row] = [server[c.row] EXCEPT !.mfa = FALSE]]
        BY <2>3
      <3>2. c.row \in Rows /\ [server[c.row] EXCEPT !.mfa = FALSE] \in RowValues \ {Gone}
        BY <1>1, <1>2, <2>3, RowFacts DEF WellFormed
      <3>3. done[c.row] # Gone /\ \A i \in Rows : i # c.row => done[i] = server[i]
        BY <1>2, <3>1, <3>2
      <3>4. done \in [Rows -> RowValues]
        BY <1>2, <3>1, <3>2
      <3> QED BY <1>2, <3>3, <3>4 DEF PanInv, ConsoleRows
    <2>4. CASE c.op \in {"remove", "add"}
      <3>1. ~Optimistic /\ c.row \in Rows
        BY <1>2, <2>4 DEF WellFormed
      <3>2. Listed("ACTIVE") \in RowValues /\ Gone \in RowValues
        BY RowFacts, StatusNames
      <3>3. \/ done = [server EXCEPT ![c.row] = Gone]
            \/ done = [server EXCEPT ![c.row] = Listed("ACTIVE")]
        BY <2>4
      <3> QED BY <1>2, <3>1, <3>2, <3>3
    <2> QED BY <1>2, <2>1, <2>2, <2>3, <2>4 DEF Ops
  <1> HIDE DEF done
  <1>4. c.op = "load" => got \in [Rows -> RowValues] /\ \A i \in Rows : got[i] = Fresh(c, server', i)
    <2> SUFFICES ASSUME c.op = "load"
                 PROVE  got \in [Rows -> RowValues] /\ \A i \in Rows : got[i] = Fresh(c, server', i)
      OBVIOUS
    <2>1. server' = server
      BY <1>1 DEF done
    <2>2. got = [i \in Rows |-> IF TenantOf[i] = c.to THEN server[i] ELSE Gone]
      BY DEF Listing
    <2> QED BY <1>2, <2>1, <2>2, RowFacts DEF Fresh
  <1>5. c.op # "load" => /\ c.row \in Rows /\ got \in [{c.row} -> RowValues]
                         /\ got[c.row] = Fresh(c, server', c.row)
    BY <1>1, <1>2, <1>3 DEF WellFormed, Fresh
  <1>6. got \in UNION {[S -> RowValues] : S \in SUBSET Rows}
    <2>1. CASE c.op = "load"
      BY <1>4, <2>1
    <2>2. CASE c.op # "load"
      BY <1>5, <2>2
    <2> QED BY <2>1, <2>2
  <1> HIDE DEF got
  <1>7. a \in Answers /\ a.call = c /\ a.late = FALSE /\ a.got = got
    BY <1>2, <1>6 DEF Answers
  <1>8. WellAnswered(a)
    BY <1>2, <1>4, <1>5, <1>7 DEF WellAnswered
  <1>9. \A i \in DOMAIN a.got : a.got[i] = Fresh(a.call, server', i)
    <2>1. CASE c.op = "load"
      BY <1>4, <1>7, <2>1
    <2>2. CASE c.op # "load"
      BY <1>5, <1>7, <2>2
    <2> QED BY <2>1, <2>2
  <1> HIDE DEF a
  <1> WITNESS a
  <1> QED BY <1>1, <1>3, <1>7, <1>8, <1>9

LEMMA ServerDoesKeeps ==
  ASSUME PanInv, NEW k \in DOMAIN asked, ServerDoes(k)
  PROVE  PanInv'
  <1> DEFINE c == asked[k]
  <1>0. PICK a :
           /\ answered' = Append(answered, a) /\ a \in Answers /\ WellAnswered(a)
           /\ a.call = c /\ a.late = FALSE
           /\ server' \in [Rows -> RowValues]
           /\ \A i \in Rows : i # a.call.row => server'[i] = server[i]
           /\ \A i \in DOMAIN a.got : a.got[i] = Fresh(a.call, server', i)
           /\ Optimistic => \A i \in Rows : server'[i] # Gone
    BY ServerDoesShape
  <1> DEFINE last == Len(answered) + 1
  <1>1. asked' = Without(asked, k)
        /\ UNCHANGED <<table, selected, rows, isLoading, isPending, crossed, adrift>>
    BY DEF ServerDoes, controls
  <1>2. asked \in Seq(Calls) /\ answered \in Seq(Answers)
    BY DEF PanInv, PanelTypes
  <1>3. /\ asked' \in Seq(Calls)
        /\ \A n \in DOMAIN asked' :
              Before(n, k) \in DOMAIN asked \ {k} /\ asked'[n] = asked[Before(n, k)]
        /\ \A n \in DOMAIN asked \ {k} :
              Behind(n, k) \in DOMAIN asked' /\ asked'[Behind(n, k)] = asked[n]
        /\ DOMAIN asked' = {} => DOMAIN asked = {k}
        /\ Len(asked') = Len(asked) - 1
    <2>1. asked \in Seq(Calls) /\ asked' = Without(asked, k)
      BY <1>1, <1>2
    <2> QED BY <2>1, WithoutCall
  <1>4. /\ answered' \in Seq(Answers)
        /\ \A n \in DOMAIN answered :
              n \in DOMAIN answered' /\ answered'[n] = answered[n] /\ n < last
        /\ last \in DOMAIN answered' /\ answered'[last] = a
        /\ \A n \in DOMAIN answered' : n \in DOMAIN answered \/ n = last
    BY <1>0, <1>2, Appended
  <1>5. WellFormed(c) /\ (Optimistic' <=> Optimistic)
    BY <1>1 DEF PanInv, PanelTypes, Optimistic
  <1> HIDE DEF c, last
  <1>6. PanelTypes'
    <2>1. ASSUME NEW n \in DOMAIN asked' PROVE WellFormed(asked[n])'
      <3>1. WellFormed(asked[Before(n, k)]) /\ asked'[n] = asked[Before(n, k)]
        BY <1>3 DEF PanInv, PanelTypes
      <3> QED BY <1>5, <3>1 DEF WellFormed
    <2>2. ASSUME NEW n \in DOMAIN answered' PROVE WellAnswered(answered[n])'
      <3>1. WellAnswered(answered'[n])
        <4>1. CASE n \in DOMAIN answered
          BY <1>4, <4>1 DEF PanInv, PanelTypes
        <4>2. CASE n = last
          BY <1>0, <1>4, <4>2
        <4> QED BY <1>4, <4>1, <4>2
      <3> QED BY <1>5, <3>1 DEF WellAnswered, WellFormed
    <2> QED BY <1>0, <1>1, <1>3, <1>4, <2>1, <2>2 DEF PanInv, PanelTypes
  <1>7. AnswersAreFresh'
    <2> SUFFICES ASSUME NEW n \in DOMAIN answered', ~answered'[n].late,
                        NEW i \in DOMAIN answered'[n].got
                 PROVE  \/ answered'[n].got[i] = Fresh(answered'[n].call, server', i)
                        \/ \E m \in DOMAIN answered' : m > n /\ answered'[m].call.row = i
      BY DEF AnswersAreFresh
    <2>1. CASE n = last
      BY <1>0, <1>4, <2>1 DEF Fresh
    <2>2. CASE n \in DOMAIN answered
      <3>0. answered'[n] = answered[n] /\ n < last /\ n \in Nat /\ last \in Nat
        BY <1>2, <1>4, <2>2 DEF last
      <3>1. CASE i = c.row
        BY <1>0, <1>4, <3>0, <3>1
      <3>2. CASE i # c.row
        <4>1. i \in Rows
          BY <2>2, <3>0 DEF PanInv, PanelTypes, WellAnswered, WellFormed
        <4>2. server'[i] = server[i]
          BY <1>0, <3>2, <4>1
        <4>3. \/ answered[n].got[i] = Fresh(answered[n].call, server, i)
              \/ \E m \in DOMAIN answered : m > n /\ answered[m].call.row = i
          BY <2>2, <3>0 DEF PanInv, AnswersAreFresh
        <4> QED BY <1>4, <3>0, <4>2, <4>3 DEF Fresh
      <3> QED BY <3>1, <3>2
    <2> QED BY <1>4, <2>1, <2>2
  <1>8. LoadingLoads'
    <2> SUFFICES ASSUME isLoading', selected' # Nothing
                 PROVE  \/ \E n \in DOMAIN asked' : asked'[n].op = "load"
                        \/ \E n \in DOMAIN answered' : answered'[n].call.op = "load"
      BY DEF LoadingLoads
    <2>1. CASE \E n \in DOMAIN answered : answered[n].call.op = "load"
      BY <1>4, <2>1
    <2>2. ASSUME NEW n \in DOMAIN asked, asked[n].op = "load" PROVE LoadingLoads'
      <3>1. CASE n = k
        BY <1>0, <1>4, <2>2, <3>1 DEF LoadingLoads, c
      <3>2. CASE n # k
        BY <1>3, <2>2, <3>2 DEF LoadingLoads
      <3> QED BY <3>1, <3>2
    <2> QED BY <1>1, <2>1, <2>2 DEF PanInv, LoadingLoads
  <1>9. ConsoleRows'
    <2> SUFFICES ASSUME Optimistic PROVE ConsoleRows'
      BY <1>5 DEF ConsoleRows
    <2>1. ASSUME NEW n \in DOMAIN answered', NEW i \in DOMAIN answered'[n].got
          PROVE  answered'[n].got[i] = Gone <=>
                    answered'[n].call.op = "load" /\ TenantOf[i] # answered'[n].call.to
      <3>1. CASE n \in DOMAIN answered
        BY <1>4, <2>1, <3>1 DEF PanInv, ConsoleRows
      <3>2. CASE n = last
        <4>1. answered'[n] = a /\ a.got[i] = Fresh(a.call, server', i)
          BY <1>0, <1>4, <2>1, <3>2
        <4>2. i \in Rows
          BY <1>0, <2>1, <4>1 DEF WellAnswered, WellFormed
        <4> QED BY <1>0, <4>1, <4>2 DEF Fresh
      <3> QED BY <1>4, <3>1, <3>2
    <2> QED BY <1>0, <1>1, <2>1 DEF PanInv, ConsoleRows
  <1>10. CrossedCalls'
    <2> SUFFICES ASSUME Optimistic PROVE CrossedCalls'
      BY <1>5 DEF CrossedCalls
    <2>1. \A m, n \in DOMAIN asked : m # n /\ asked[m].row = asked[n].row /\ asked[m].row # Nothing
             => asked[m].row \in crossed
      BY DEF PanInv, CrossedCalls
    <2>2. \A m \in DOMAIN asked, n \in DOMAIN answered :
             asked[m].row = answered[n].call.row /\ asked[m].row # Nothing
                => asked[m].row \in crossed
      BY DEF PanInv, CrossedCalls
    <2>3. ASSUME NEW m \in DOMAIN asked', NEW n \in DOMAIN asked', m # n,
                 asked'[m].row = asked'[n].row, asked'[m].row # Nothing
          PROVE  asked'[m].row \in crossed'
      <3>1. Before(m, k) # Before(n, k)
        BY <1>2, <1>3, <2>3 DEF Before
      <3> QED BY <1>1, <1>3, <2>1, <2>3, <3>1
    <2>4. ASSUME NEW m \in DOMAIN asked', NEW n \in DOMAIN answered',
                 asked'[m].row = answered'[n].call.row, asked'[m].row # Nothing
          PROVE  asked'[m].row \in crossed'
      <3>1. CASE n \in DOMAIN answered
        BY <1>1, <1>3, <1>4, <2>2, <2>4, <3>1
      <3>2. CASE n = last
        <4>1. answered'[n].call = asked[k]
          BY <1>0, <1>4, <3>2 DEF c
        <4> QED BY <1>1, <1>3, <2>1, <2>4, <4>1
      <3> QED BY <1>4, <3>1, <3>2
    <2> QED BY <2>3, <2>4 DEF CrossedCalls
  <1>11. RollbackIsRight'
    <2> SUFFICES ASSUME Optimistic, ~adrift, NEW n \in DOMAIN asked', asked'[n].op = "set",
                        asked'[n].row \notin crossed
                 PROVE  asked'[n].was = server'[asked'[n].row].status
      BY <1>1, <1>5 DEF RollbackIsRight
    <2> DEFINE m == Before(n, k)
    <2>1. m \in DOMAIN asked /\ m # k /\ asked'[n] = asked[m]
      BY <1>3
    <2> HIDE DEF m
    <2>2. asked[m].was = server[asked[m].row].status
      BY <2>1 DEF PanInv, RollbackIsRight
    <2>3. asked[m].row \in Rows
      BY <2>1 DEF PanInv, PanelTypes, WellFormed
    <2>4. asked[m].row # c.row
      BY <2>1, <2>3, HomeIsAPlace DEF PanInv, CrossedCalls, c
    <2>5. server'[asked[m].row] = server[asked[m].row]
      BY <1>0, <2>3, <2>4
    <2> QED BY <2>1, <2>2, <2>5
  <1>12. TableMatches'
    <2> SUFFICES ASSUME ~isLoading, ~adrift, NEW i \in Rows PROVE RowMatches(i)'
      BY <1>1 DEF TableMatches
    <2>1. RowMatches(i)
      BY DEF PanInv, TableMatches
    <2>2. CASE i = c.row
      BY <1>0, <1>4, <2>2 DEF RowMatches
    <2>3. CASE i # c.row
      <3>1. server'[i] = server[i] /\ Listing(selected)[i]' = Listing(selected)[i]
        BY <1>0, <1>1, <2>3 DEF Listing
      <3>2. CASE rows[i] = Listing(selected)[i]
        BY <1>1, <3>1, <3>2 DEF RowMatches
      <3>3. CASE \E n \in DOMAIN answered : answered[n].call.row = i
        BY <1>4, <3>3 DEF RowMatches
      <3>4. CASE /\ Optimistic /\ \E n \in DOMAIN asked : asked[n].op = "set" /\ asked[n].row = i
                 /\ rows[i].mfa = server[i].mfa
        <4>1. \E n \in DOMAIN asked' : asked'[n].op = "set" /\ asked'[n].row = i
          BY <1>3, <2>3, <3>4 DEF c
        <4> QED BY <1>1, <1>5, <3>1, <3>4, <4>1 DEF RowMatches
      <3> QED BY <2>1, <3>2, <3>3, <3>4 DEF RowMatches
    <2> QED BY <2>2, <2>3
  <1> QED BY <1>6, <1>7, <1>8, <1>9, <1>10, <1>11, <1>12 DEF PanInv
\* Somebody else's change is seen with the next load.
LEMMA SomebodyElseKeeps ==
  ASSUME PanInv, NEW i \in Contested, NEW row \in RowStates(i), SomebodyElse(i, row)
  PROVE  PanInv'
  <1>1. /\ server' = [server EXCEPT ![i] = row] /\ adrift' = TRUE
        /\ answered' = [n \in DOMAIN answered |-> [answered[n] EXCEPT !.late = TRUE]]
        /\ UNCHANGED <<table, selected, rows, isLoading, isPending, crossed, asked>>
    BY DEF SomebodyElse, controls
  <1>2. answered \in Seq(Answers) /\ server \in [Rows -> RowValues]
    BY DEF PanInv, PanelTypes
  <1>3. /\ answered' \in Seq(Answers) /\ DOMAIN answered' = DOMAIN answered
        /\ \A n \in DOMAIN answered' :
              /\ answered'[n].late
              /\ answered'[n].call = answered[n].call /\ answered'[n].got = answered[n].got
    BY <1>1, <1>2, AllLate
  <1>4. Optimistic' <=> Optimistic
    BY <1>1 DEF Optimistic
  <1>5. i \in Rows /\ row \in RowValues /\ (Optimistic => row # Gone)
    <2>1. i \in Rows
      BY PanelsAssumption
    <2>2. CASE Optimistic
      <3>1. server[i] \in RowValues /\ server[i] # Gone
        BY <1>2, <2>1, <2>2 DEF PanInv, ConsoleRows
      <3>2. PICK s \in {"ACTIVE", "SUSPENDED"} : row = [server[i] EXCEPT !.status = s]
        BY <2>2 DEF RowStates
      <3>3. [server[i] EXCEPT !.status = s] \in RowValues \ {Gone}
        BY <3>1, RowFacts, StatusNames
      <3> QED BY <2>1, <3>2, <3>3
    <2>3. CASE ~Optimistic
      <3>1. row = Gone \/ \E s \in Statuses : row = Listed(s)
        BY <2>3, StatusNames DEF RowStates, Statuses
      <3> QED BY <2>1, <2>3, <3>1, RowFacts
    <2> QED BY <2>2, <2>3
  <1>6. PanelTypes'
    <2>1. ASSUME NEW n \in DOMAIN asked' PROVE WellFormed(asked[n])'
      BY <1>1, <1>4 DEF WellFormed, PanInv, PanelTypes
    <2>2. ASSUME NEW n \in DOMAIN answered' PROVE WellAnswered(answered[n])'
      <3>1. WellAnswered(answered[n])
        BY <1>3 DEF PanInv, PanelTypes
      <3>2. WellAnswered(answered'[n])
        BY <1>3, <3>1 DEF WellAnswered
      <3> QED BY <1>4, <3>2 DEF WellAnswered, WellFormed
    <2> QED BY <1>1, <1>2, <1>3, <1>5, <2>1, <2>2 DEF PanInv, PanelTypes
  <1>7. AnswersAreFresh'
    BY <1>3 DEF AnswersAreFresh
  <1>8. LoadingLoads'
    BY <1>1, <1>3 DEF PanInv, LoadingLoads
  <1>9. ConsoleRows'
    BY <1>1, <1>2, <1>3, <1>4, <1>5 DEF PanInv, ConsoleRows
  <1>10. CrossedCalls'
    BY <1>1, <1>3, <1>4 DEF PanInv, CrossedCalls
  <1>11. RollbackIsRight' /\ TableMatches'
    BY <1>1 DEF RollbackIsRight, TableMatches
  <1> QED BY <1>6, <1>7, <1>8, <1>9, <1>10, <1>11 DEF PanInv

-----------------------------------------------------------------------------
(* The answers.                                                            *)

\* Answers that have not been overtaken by the one that arrives stay fresh.
LEMMA StillFresh ==
  ASSUME PanInv, NEW k \in DOMAIN answered, answered' = After(k), server' = server
  PROVE  AnswersAreFresh'
  <1>a. answered \in Seq(Answers)
    BY DEF PanInv, PanelTypes
  <1>b. /\ answered' \in Seq(Answers)
        /\ \A n \in DOMAIN answered' :
              /\ Before(n, k) \in DOMAIN answered \ {k}
              /\ answered'[n].call = answered[Before(n, k)].call
              /\ answered'[n].got = answered[Before(n, k)].got
              /\ ~answered'[n].late => ~answered[Before(n, k)].late /\ k < Before(n, k)
        /\ \A n \in DOMAIN answered \ {k} :
              Behind(n, k) \in DOMAIN answered' /\ answered'[Behind(n, k)].call = answered[n].call
    BY <1>a, AfterOne
  <1> SUFFICES ASSUME NEW n \in DOMAIN answered', ~answered'[n].late,
                      NEW i \in DOMAIN answered'[n].got
               PROVE  \/ answered'[n].got[i] = Fresh(answered'[n].call, server, i)
                      \/ \E m \in DOMAIN answered' : m > n /\ answered'[m].call.row = i
    BY DEF AnswersAreFresh
  <1> DEFINE o == Before(n, k)
  <1>1. /\ o \in DOMAIN answered /\ k < o /\ ~answered[o].late /\ o = n + 1
        /\ n \in Nat /\ k \in Nat
        /\ answered'[n].call = answered[o].call /\ answered'[n].got = answered[o].got
    <2>1. n \in Nat /\ k \in Nat
      BY <1>a, <1>b
    <2>2. /\ o \in DOMAIN answered /\ k < o /\ ~answered[o].late
          /\ answered'[n].call = answered[o].call /\ answered'[n].got = answered[o].got
      BY <1>b
    <2>3. o = n + 1
      BY <2>1, <2>2 DEF Before
    <2> QED BY <2>1, <2>2, <2>3
  <1> HIDE DEF o
  <1>2. CASE answered[o].got[i] = Fresh(answered[o].call, server, i)
    BY <1>1, <1>2
  <1>3. ASSUME NEW m \in DOMAIN answered, m > o, answered[m].call.row = i
        PROVE  \E j \in DOMAIN answered' : j > n /\ answered'[j].call.row = i
    <2>1. m \in Nat /\ m # k /\ Behind(m, k) = m - 1 /\ m - 1 > n
      BY <1>a, <1>1, <1>3 DEF Behind
    <2>2. m - 1 \in DOMAIN answered' /\ answered'[m - 1].call.row = i
      BY <1>b, <1>3, <2>1
    <2> QED BY <2>1, <2>2
  <1> QED BY <1>1, <1>2, <1>3 DEF PanInv, AnswersAreFresh

\* What an answer that leaves its queue does not touch.
LEMMA ArrivalKeeps ==
  ASSUME PanInv, NEW k \in DOMAIN answered, answered' = After(k), asked' = asked,
         UNCHANGED <<table, selected, server>>,
         rows' \in [Rows -> RowValues], isLoading' \in BOOLEAN, isPending' \in BOOLEAN,
         adrift' \in BOOLEAN,
         adrift /\ ~adrift' => DOMAIN asked = {},
         Len(asked) + Len(answered) > 1 => crossed' = crossed,
         isLoading' => isLoading /\ answered[k].call.op # "load",
         Optimistic /\ ~isLoading' /\ ~adrift' =>
            \A i \in Rows : rows'[i] = Gone <=> TenantOf[i] # selected,
         ~isLoading' /\ ~adrift' => \A i \in Rows : RowMatches(i)'
  PROVE  PanInv'
  <1>1. answered \in Seq(Answers) /\ asked \in Seq(Calls)
    BY DEF PanInv, PanelTypes
  <1>2. /\ answered' \in Seq(Answers)
        /\ \A n \in DOMAIN answered' :
              /\ Before(n, k) \in DOMAIN answered \ {k}
              /\ answered'[n].call = answered[Before(n, k)].call
              /\ answered'[n].got = answered[Before(n, k)].got
              /\ ~answered'[n].late => ~answered[Before(n, k)].late /\ k < Before(n, k)
        /\ \A n \in DOMAIN answered \ {k} :
              Behind(n, k) \in DOMAIN answered' /\ answered'[Behind(n, k)].call = answered[n].call
        /\ DOMAIN answered' = {} => DOMAIN answered = {k}
        /\ Len(answered') = Len(answered) - 1
    BY <1>1, AfterOne
  <1>3. Optimistic' <=> Optimistic
    BY DEF Optimistic
  <1>4. PanelTypes'
    <2>1. ASSUME NEW n \in DOMAIN asked' PROVE WellFormed(asked[n])'
      BY <1>3 DEF WellFormed, PanInv, PanelTypes
    <2>2. ASSUME NEW n \in DOMAIN answered' PROVE WellAnswered(answered[n])'
      <3>1. WellAnswered(answered[Before(n, k)])
        BY <1>2 DEF PanInv, PanelTypes
      <3>2. WellAnswered(answered'[n])
        BY <1>2, <3>1 DEF WellAnswered
      <3> QED BY <1>3, <3>2 DEF WellAnswered, WellFormed
    <2> QED BY <1>2, <2>1, <2>2 DEF PanInv, PanelTypes
  <1>5. AnswersAreFresh'
    BY StillFresh
  <1>6. LoadingLoads'
    BY <1>2 DEF PanInv, LoadingLoads
  <1>7. ConsoleRows'
    <2> SUFFICES ASSUME Optimistic PROVE ConsoleRows'
      BY <1>3 DEF ConsoleRows
    <2>1. ASSUME NEW n \in DOMAIN answered', NEW i \in DOMAIN answered'[n].got
          PROVE  answered'[n].got[i] = Gone <=>
                    answered'[n].call.op = "load" /\ TenantOf[i] # answered'[n].call.to
      <3> DEFINE o == Before(n, k)
      <3>1. /\ o \in DOMAIN answered /\ answered'[n].call = answered[o].call
            /\ answered'[n].got = answered[o].got
        BY <1>2
      <3> HIDE DEF o
      <3>2. \A j \in DOMAIN answered[o].got : answered[o].got[j] = Gone <=>
               answered[o].call.op = "load" /\ TenantOf[j] # answered[o].call.to
        BY <3>1 DEF PanInv, ConsoleRows
      <3> QED BY <3>1, <3>2
    <2> QED BY <2>1 DEF PanInv, ConsoleRows
  <1>8. CrossedCalls'
    <2> SUFFICES ASSUME Optimistic, NEW m \in DOMAIN asked PROVE
             /\ \A n \in DOMAIN asked :
                   m # n /\ asked[m].row = asked[n].row /\ asked[m].row # Nothing
                      => asked[m].row \in crossed'
             /\ \A n \in DOMAIN answered' :
                   asked[m].row = answered'[n].call.row /\ asked[m].row # Nothing
                      => asked[m].row \in crossed'
      BY <1>3 DEF CrossedCalls
    <2>1. Len(asked) > 0 /\ Len(answered) > 0
      BY <1>1
    <2>2. crossed' = crossed
      BY <1>1, <2>1
    <2> QED BY <1>2, <2>2 DEF PanInv, CrossedCalls
  <1>9. RollbackIsRight'
    BY <1>3 DEF PanInv, RollbackIsRight
  <1>10. TableMatches'
    BY DEF TableMatches
  <1> QED BY <1>4, <1>5, <1>6, <1>7, <1>8, <1>9, <1>10 DEF PanInv

\* A load that is not late shows the rows the server has, but for those
\* about which a later answer is on its way.
LEMMA LoadAnswersKeeps ==
  ASSUME PanInv, NEW k \in DOMAIN answered, LoadAnswers(k)
  PROVE  PanInv'
  <1> DEFINE a == answered[k]
  <1>1. /\ a.call.op = "load" /\ rows' = a.got /\ isLoading' = FALSE
        /\ answered' = After(k)
        /\ adrift' = \/ a.late \/ a.call.to # selected
                     \/ adrift /\ Len(asked) + Len(answered) > 1
        /\ crossed' = IF Len(asked) + Len(answered) > 1 THEN crossed ELSE {}
        /\ UNCHANGED <<table, selected, server, isPending, asked>>
    BY DEF LoadAnswers, controls
  <1>2. /\ answered \in Seq(Answers) /\ asked \in Seq(Calls) /\ WellAnswered(a)
        /\ adrift \in BOOLEAN /\ isPending \in BOOLEAN
    BY DEF PanInv, PanelTypes
  <1>3. a.got \in [Rows -> RowValues] /\ a.late \in BOOLEAN
    <2>1. a \in Answers
      BY <1>2
    <2> HIDE DEF a
    <2> QED BY <1>1, <1>2, <2>1 DEF WellAnswered, Answers
  <1>4. adrift /\ ~adrift' => DOMAIN asked = {}
    <2>1. Len(answered) > 0 /\ Len(asked) \in Nat /\ Len(answered) \in Nat
      BY <1>2
    <2>2. adrift /\ ~adrift' => Len(asked) = 0
      BY <1>1, <2>1
    <2> QED BY <1>2, <2>2
  <1>5. Optimistic /\ ~adrift' => \A i \in Rows : rows'[i] = Gone <=> TenantOf[i] # selected
    BY <1>1, <1>3 DEF PanInv, ConsoleRows
  <1>6. ASSUME ~adrift', NEW i \in Rows PROVE RowMatches(i)'
    <2>1. ~a.late /\ a.call.to = selected
      BY <1>1, <1>6
    <2>2. \/ a.got[i] = Fresh(a.call, server, i)
          \/ \E n \in DOMAIN answered : n > k /\ answered[n].call.row = i
      BY <1>3, <1>6, <2>1 DEF PanInv, AnswersAreFresh
    <2>3. CASE a.got[i] = Fresh(a.call, server, i)
      BY <1>1, <2>1, <2>3 DEF RowMatches, Fresh, Listing
    <2>4. ASSUME NEW n \in DOMAIN answered, n > k, answered[n].call.row = i
          PROVE  RowMatches(i)'
      <3>1. n # k
        BY <1>2, <2>4
      <3>2. \A m \in DOMAIN answered \ {k} : /\ Behind(m, k) \in DOMAIN answered'
                                             /\ answered'[Behind(m, k)].call = answered[m].call
        BY <1>1, <1>2, AfterOne
      <3> QED BY <2>4, <3>1, <3>2 DEF RowMatches
    <2> QED BY <2>2, <2>3, <2>4
  <1>7. adrift' \in BOOLEAN /\ (Len(asked) + Len(answered) > 1 => crossed' = crossed)
    BY <1>1
  <1> HIDE DEF a
  <1> QED BY <1>1, <1>2, <1>3, <1>4, <1>5, <1>6, <1>7, ArrivalKeeps
\* The row the console is answered is the server's, unless a later answer
\* about it is on its way.
LEMMA RowAnswersKeeps ==
  ASSUME PanInv, NEW k \in DOMAIN answered, RowAnswers(k)
  PROVE  PanInv'
  <1> DEFINE a == answered[k]
             i == a.call.row
  <1>1. /\ Optimistic /\ a.call.op \in {"set", "clear"}
        /\ rows' = IF rows[i] = Gone THEN rows ELSE [rows EXCEPT ![i] = a.got[i]]
        /\ answered' = After(k) /\ adrift' = (adrift \/ a.late)
        /\ UNCHANGED <<table, selected, server, isLoading, isPending, crossed, asked>>
    BY DEF RowAnswers
  <1>2. /\ answered \in Seq(Answers) /\ WellAnswered(a) /\ a \in Answers
        /\ rows \in [Rows -> RowValues] /\ server \in [Rows -> RowValues]
        /\ adrift \in BOOLEAN /\ isPending \in BOOLEAN /\ isLoading \in BOOLEAN
    BY DEF PanInv, PanelTypes
  <1>3. /\ \A n \in DOMAIN answered' : Before(n, k) \in DOMAIN answered
        /\ \A m \in DOMAIN answered \ {k} : /\ Behind(m, k) \in DOMAIN answered'
                                            /\ answered'[Behind(m, k)].call = answered[m].call
    BY <1>1, <1>2, AfterOne
  <1>4. /\ i \in Rows /\ a.got \in [{i} -> RowValues] /\ a.late \in BOOLEAN
        /\ a.got[i] # Gone
    <2>1. i \in Rows /\ a.got \in [{i} -> RowValues] /\ a.late \in BOOLEAN
      BY <1>1, <1>2 DEF WellAnswered, WellFormed, Answers
    <2> QED BY <1>1, <2>1 DEF PanInv, ConsoleRows
  <1>5. a.late \/ a.got[i] = server[i]
               \/ \E n \in DOMAIN answered : n > k /\ answered[n].call.row = i
    BY <1>1, <1>4 DEF PanInv, AnswersAreFresh, Fresh
  <1> HIDE DEF a, i
  <1>6. /\ rows' \in [Rows -> RowValues]
        /\ \A j \in Rows : j # i => rows'[j] = rows[j]
        /\ rows[i] = Gone => rows'[i] = Gone
        /\ rows[i] # Gone => rows'[i] = a.got[i]
    BY <1>1, <1>2, <1>4
  <1>7. ~isLoading /\ ~adrift' =>
           \A j \in Rows : rows'[j] = Gone <=> TenantOf[j] # selected
    BY <1>1, <1>4, <1>6 DEF PanInv, ConsoleRows
  <1>8. ASSUME ~isLoading, ~adrift', NEW j \in Rows PROVE RowMatches(j)'
    <2>1. ~adrift /\ ~a.late
      BY <1>1, <1>8
    <2>2. RowMatches(j) /\ (rows[j] = Gone <=> TenantOf[j] # selected)
      BY <1>1, <1>8, <2>1 DEF PanInv, TableMatches, ConsoleRows
    <2>3. Listing(selected)[j]' = Listing(selected)[j]
          /\ Listing(selected)[j] = IF TenantOf[j] = selected THEN server[j] ELSE Gone
      BY <1>1 DEF Listing
    <2>4. ASSUME NEW n \in DOMAIN answered, n # k, answered[n].call.row = j PROVE RowMatches(j)'
      BY <1>3, <2>4 DEF RowMatches
    <2>5. CASE j = i
      <3>1. CASE rows[i] = Gone
        BY <1>6, <2>2, <2>3, <2>5, <3>1 DEF RowMatches
      <3>2. CASE rows[i] # Gone /\ a.got[i] = server[i]
        BY <1>6, <2>2, <2>3, <2>5, <3>2 DEF RowMatches
      <3>3. ASSUME NEW n \in DOMAIN answered, n > k, answered[n].call.row = i
            PROVE  RowMatches(j)'
        <4>1. n # k
          BY <1>2, <3>3
        <4> QED BY <2>4, <2>5, <3>3, <4>1
      <3> QED BY <1>5, <2>1, <3>1, <3>2, <3>3
    <2>6. CASE j # i
      <3>1. rows'[j] = rows[j]
        BY <1>6, <2>6
      <3>2. CASE rows[j] = Listing(selected)[j]
        BY <2>3, <3>1, <3>2 DEF RowMatches
      <3>3. ASSUME NEW n \in DOMAIN answered, answered[n].call.row = j PROVE RowMatches(j)'
        <4>1. n # k
          BY <2>6, <3>3 DEF i, a
        <4> QED BY <2>4, <3>3, <4>1
      <3>4. CASE /\ Optimistic /\ \E n \in DOMAIN asked : asked[n].op = "set" /\ asked[n].row = j
                 /\ rows[j].mfa = server[j].mfa
        BY <1>1, <3>1, <3>4 DEF RowMatches, Optimistic
      <3> QED BY <2>2, <3>2, <3>3, <3>4 DEF RowMatches
    <2> QED BY <2>5, <2>6
  <1>9. adrift' \in BOOLEAN /\ (adrift => adrift') /\ a.call.op # "load"
    BY <1>1
  <1> QED BY <1>1, <1>2, <1>6, <1>7, <1>8, <1>9, ArrivalKeeps DEF a

\* A row is rolled back to a status of its own.
LEMMA RollbackTypes ==
  ASSUME PanInv, NEW c, WellFormed(c)
  PROVE  /\ RolledBack(c) \in [Rows -> RowValues]
         /\ \A i \in Rows :
               IF Optimistic /\ c.op = "set" /\ i = c.row /\ rows[i] # Gone
               THEN /\ RolledBack(c)[i] # Gone /\ RolledBack(c)[i].status = c.was
                    /\ RolledBack(c)[i].mfa = rows[i].mfa
               ELSE RolledBack(c)[i] = rows[i]
  <1>1. rows \in [Rows -> RowValues]
    BY DEF PanInv, PanelTypes
  <1>2. CASE Optimistic /\ c.op = "set" /\ rows[c.row] # Gone
    <2> DEFINE r == [rows[c.row] EXCEPT !.status = c.was]
    <2>1. c.row \in Rows /\ c.was \in Statuses
      BY <1>2 DEF WellFormed
    <2>2. r \in RowValues /\ r # Gone /\ r.status = c.was /\ r.mfa = rows[c.row].mfa
      <3>1. rows[c.row] \in [status : Statuses, mfa : BOOLEAN]
        BY <1>1, <1>2, <2>1 DEF RowValues
      <3>2. r \in [status : Statuses, mfa : BOOLEAN] /\ r.status = c.was
            /\ r.mfa = rows[c.row].mfa
        BY <2>1, <3>1
      <3>3. r # Gone
        BY <2>1, <3>2, StatusNames DEF Gone
      <3> QED BY <3>2, <3>3 DEF RowValues
    <2>3. RolledBack(c) = [rows EXCEPT ![c.row] = r]
      BY <1>2 DEF RolledBack
    <2> HIDE DEF r
    <2> QED BY <1>1, <1>2, <2>1, <2>2, <2>3
  <1>3. CASE ~(Optimistic /\ c.op = "set" /\ rows[c.row] # Gone)
    BY <1>1, <1>3 DEF RolledBack
  <1> QED BY <1>2, <1>3

\* An answer that is lost leaves the table to the next load.
LEMMA AnswerLostKeeps ==
  ASSUME PanInv, NEW k \in DOMAIN answered, AnswerLost(k)
  PROVE  PanInv'
  <1> DEFINE c == answered[k].call
  <1>1. /\ answered' = After(k) /\ asked' = asked /\ adrift' = TRUE
        /\ rows' = RolledBack(c) /\ isLoading' = (isLoading /\ c.op # "load")
        /\ isPending' = (isPending /\ c.op # "add")
        /\ UNCHANGED <<table, selected, server, crossed>>
    BY DEF AnswerLost, Fails
  <1>2. /\ WellFormed(c) /\ rows \in [Rows -> RowValues]
        /\ isLoading \in BOOLEAN /\ isPending \in BOOLEAN
    BY DEF PanInv, PanelTypes, WellAnswered
  <1> HIDE DEF c
  <1>3. rows' \in [Rows -> RowValues]
    BY <1>1, <1>2, RollbackTypes
  <1> QED BY <1>1, <1>2, <1>3, ArrivalKeeps DEF c

\* The dashboard's table loads again: every row is then the server's.
LEMMA ChangeAnswersKeeps ==
  ASSUME PanInv, NEW k \in DOMAIN answered, ChangeAnswers(k)
  PROVE  PanInv'
  <1> DEFINE by == IF answered[k].call.op = "add" THEN Nothing ELSE Awaited
             l == Load(Home, by)
  <1>1. /\ ~Optimistic /\ isLoading' = TRUE /\ answered' = After(k)
        /\ isPending' = (isPending /\ answered[k].call.op # "add")
        /\ asked' = Append(asked, l)
        /\ UNCHANGED <<table, selected, server, rows, crossed, adrift>>
    BY DEF ChangeAnswers
  <1>2. WellFormed(l) /\ l \in Calls /\ l.op = "load" /\ l.row = Nothing
    BY <1>1, HomeIsAPlace DEF WellFormed, Load, Call, Calls, Ops
  <1>3. answered \in Seq(Answers) /\ asked \in Seq(Calls) /\ isPending \in BOOLEAN
    BY DEF PanInv, PanelTypes
  <1>4. /\ asked' \in Seq(Calls)
        /\ Len(asked) + 1 \in DOMAIN asked' /\ asked'[Len(asked) + 1] = l
        /\ \A n \in DOMAIN asked : n \in DOMAIN asked' /\ asked'[n] = asked[n]
        /\ \A n \in DOMAIN asked' : n \in DOMAIN asked \/ n = Len(asked) + 1
    BY <1>1, <1>2, <1>3, Appended
  <1>5. Optimistic' <=> Optimistic
    BY <1>1 DEF Optimistic
  <1>6. /\ answered' \in Seq(Answers)
        /\ \A n \in DOMAIN answered' :
              /\ Before(n, k) \in DOMAIN answered
              /\ answered'[n].call = answered[Before(n, k)].call
              /\ answered'[n].got = answered[Before(n, k)].got
    BY <1>1, <1>3, AfterOne
  <1>7. PanelTypes'
    <2>1. ASSUME NEW n \in DOMAIN asked' PROVE WellFormed(asked[n])'
      <3>1. WellFormed(asked'[n])
        <4>1. CASE n \in DOMAIN asked
          BY <1>4, <4>1 DEF PanInv, PanelTypes
        <4>2. CASE n = Len(asked) + 1
          BY <1>2, <1>4, <4>2
        <4> QED BY <1>4, <4>1, <4>2
      <3> QED BY <1>5, <3>1 DEF WellFormed
    <2>2. ASSUME NEW n \in DOMAIN answered' PROVE WellAnswered(answered[n])'
      <3>1. WellAnswered(answered[Before(n, k)])
        BY <1>6 DEF PanInv, PanelTypes
      <3>2. WellAnswered(answered'[n])
        BY <1>6, <3>1 DEF WellAnswered
      <3> QED BY <1>5, <3>2 DEF WellAnswered, WellFormed
    <2> QED BY <1>1, <1>3, <1>4, <1>6, <2>1, <2>2 DEF PanInv, PanelTypes
  <1>8. AnswersAreFresh'
    BY <1>1, StillFresh
  <1>9. LoadingLoads'
    BY <1>2, <1>4 DEF LoadingLoads
  <1>10. ConsoleRows' /\ CrossedCalls' /\ RollbackIsRight'
    BY <1>1, <1>5 DEF ConsoleRows, CrossedCalls, RollbackIsRight
  <1>11. TableMatches'
    BY <1>1 DEF TableMatches
  <1> QED BY <1>7, <1>8, <1>9, <1>10, <1>11 DEF PanInv

\* A call that is refused changes nothing, and the row it was about shows
\* again what the server has, unless calls crossed.
LEMMA CallRefusedKeeps ==
  ASSUME PanInv, NEW k \in DOMAIN asked, CallRefused(k)
  PROVE  PanInv'
  <1> DEFINE c == asked[k]
  <1>1. /\ asked' = Without(asked, k)
        /\ adrift' = (adrift \/ c.op = "load" \/ c.row \in crossed)
        /\ rows' = RolledBack(c) /\ isLoading' = (isLoading /\ c.op # "load")
        /\ isPending' = (isPending /\ c.op # "add")
        /\ UNCHANGED <<table, selected, server, crossed, answered>>
    BY DEF CallRefused, Fails
  <1>2. /\ WellFormed(c) /\ rows \in [Rows -> RowValues] /\ asked \in Seq(Calls)
        /\ server \in [Rows -> RowValues]
        /\ isLoading \in BOOLEAN /\ isPending \in BOOLEAN /\ adrift \in BOOLEAN
    BY DEF PanInv, PanelTypes
  <1>3. /\ asked' \in Seq(Calls)
        /\ \A n \in DOMAIN asked' :
              Before(n, k) \in DOMAIN asked \ {k} /\ asked'[n] = asked[Before(n, k)]
        /\ \A n \in DOMAIN asked \ {k} :
              Behind(n, k) \in DOMAIN asked' /\ asked'[Behind(n, k)] = asked[n]
    BY <1>1, <1>2, WithoutCall
  <1>4. Optimistic' <=> Optimistic
    BY <1>1 DEF Optimistic
  <1>5. /\ rows' \in [Rows -> RowValues]
        /\ \A i \in Rows :
              IF Optimistic /\ c.op = "set" /\ i = c.row /\ rows[i] # Gone
              THEN rows'[i] # Gone /\ rows'[i].status = c.was /\ rows'[i].mfa = rows[i].mfa
              ELSE rows'[i] = rows[i]
    BY <1>1, <1>2, RollbackTypes
  <1>c. c = asked[k]
    OBVIOUS
  <1> HIDE DEF c
  <1>6. PanelTypes'
    <2>1. ASSUME NEW n \in DOMAIN asked' PROVE WellFormed(asked[n])'
      <3>1. WellFormed(asked[Before(n, k)]) /\ asked'[n] = asked[Before(n, k)]
        BY <1>3 DEF PanInv, PanelTypes
      <3> QED BY <1>4, <3>1 DEF WellFormed
    <2>2. ASSUME NEW n \in DOMAIN answered' PROVE WellAnswered(answered[n])'
      BY <1>1, <1>4 DEF PanInv, PanelTypes, WellAnswered, WellFormed
    <2> QED BY <1>1, <1>2, <1>3, <1>5, <2>1, <2>2 DEF PanInv, PanelTypes
  <1>7. AnswersAreFresh'
    BY <1>1 DEF PanInv, AnswersAreFresh
  <1>8. LoadingLoads'
    <2> SUFFICES ASSUME isLoading, c.op # "load", selected # Nothing
                 PROVE  \/ \E n \in DOMAIN asked' : asked'[n].op = "load"
                        \/ \E n \in DOMAIN answered : answered[n].call.op = "load"
      BY <1>1 DEF LoadingLoads
    <2>1. CASE \E n \in DOMAIN answered : answered[n].call.op = "load"
      BY <2>1
    <2>2. ASSUME NEW n \in DOMAIN asked, asked[n].op = "load"
          PROVE  \E m \in DOMAIN asked' : asked'[m].op = "load"
      <3>1. n # k
        BY <1>c, <2>2
      <3> QED BY <1>3, <2>2, <3>1
    <2> QED BY <2>1, <2>2 DEF PanInv, LoadingLoads
  <1>9. ConsoleRows'
    <2> SUFFICES ASSUME Optimistic PROVE ConsoleRows'
      BY <1>4 DEF ConsoleRows
    <2>1. \A i \in Rows : rows'[i] = Gone <=> rows[i] = Gone
      BY <1>5
    <2>2. ~isLoading' /\ ~adrift' => ~isLoading /\ ~adrift
      BY <1>1
    <2> QED BY <1>1, <2>1, <2>2 DEF PanInv, ConsoleRows
  <1>10. CrossedCalls'
    <2> SUFFICES ASSUME Optimistic PROVE CrossedCalls'
      BY <1>4 DEF CrossedCalls
    <2>1. ASSUME NEW m \in DOMAIN asked', NEW n \in DOMAIN asked', m # n,
                 asked'[m].row = asked'[n].row, asked'[m].row # Nothing
          PROVE  asked'[m].row \in crossed'
      <3>1. Before(m, k) # Before(n, k)
        BY <1>2, <1>3, <2>1 DEF Before
      <3>2. \A o, q \in DOMAIN asked :
               o # q /\ asked[o].row = asked[q].row /\ asked[o].row # Nothing
                  => asked[o].row \in crossed
        BY DEF PanInv, CrossedCalls
      <3> QED BY <1>1, <1>3, <2>1, <3>1, <3>2
    <2>2. ASSUME NEW m \in DOMAIN asked', NEW n \in DOMAIN answered,
                 asked'[m].row = answered[n].call.row, asked'[m].row # Nothing
          PROVE  asked'[m].row \in crossed'
      <3>1. \A o \in DOMAIN asked :
               asked[o].row = answered[n].call.row /\ asked[o].row # Nothing
                  => asked[o].row \in crossed
        BY DEF PanInv, CrossedCalls
      <3> QED BY <1>1, <1>3, <2>2, <3>1
    <2> QED BY <1>1, <2>1, <2>2 DEF CrossedCalls
  <1>11. RollbackIsRight'
    <2> SUFFICES ASSUME Optimistic, ~adrift, NEW n \in DOMAIN asked', asked'[n].op = "set",
                        asked'[n].row \notin crossed
                 PROVE  asked'[n].was = server[asked'[n].row].status
      BY <1>1, <1>4 DEF RollbackIsRight
    <2>1. \A o \in DOMAIN asked : asked[o].op = "set" /\ asked[o].row \notin crossed
             => asked[o].was = server[asked[o].row].status
      BY DEF PanInv, RollbackIsRight
    <2> QED BY <1>3, <2>1
  <1>12. TableMatches'
    <2> SUFFICES ASSUME ~isLoading', ~adrift', NEW i \in Rows PROVE RowMatches(i)'
      BY DEF TableMatches
    <2>1. /\ ~isLoading /\ ~adrift /\ c.op # "load" /\ c.row \notin crossed
      BY <1>1
    <2>2. RowMatches(i)
      BY <2>1 DEF PanInv, TableMatches
    <2>3. Listing(selected)[i]' = Listing(selected)[i]
          /\ Listing(selected)[i] = IF TenantOf[i] = selected THEN server[i] ELSE Gone
      BY <1>1 DEF Listing
    <2>4. CASE \E n \in DOMAIN answered : answered[n].call.row = i
      BY <1>1, <2>4 DEF RowMatches
    <2>5. CASE ~(Optimistic /\ c.op = "set" /\ i = c.row /\ rows[i] # Gone)
      <3>1. rows'[i] = rows[i]
        BY <1>5, <2>5
      <3>2. CASE rows[i] = Listing(selected)[i]
        BY <2>3, <3>1, <3>2 DEF RowMatches
      <3>3. ASSUME Optimistic, NEW n \in DOMAIN asked, asked[n].op = "set", asked[n].row = i,
                   rows[i].mfa = server[i].mfa
            PROVE  RowMatches(i)'
        <4>1. CASE n # k
          BY <1>1, <1>3, <1>4, <3>1, <3>3, <4>1 DEF RowMatches
        <4>2. CASE n = k
          <5>1. rows[i] = Gone
            BY <1>c, <2>5, <3>3, <4>2
          <5>2. TenantOf[i] # selected
            BY <2>1, <3>3, <5>1 DEF PanInv, ConsoleRows
          <5> QED BY <2>3, <3>1, <5>1, <5>2 DEF RowMatches
        <4> QED BY <4>1, <4>2
      <3> QED BY <2>2, <2>4, <3>2, <3>3 DEF RowMatches
    <2>6. CASE /\ Optimistic /\ c.op = "set" /\ i = c.row /\ rows[i] # Gone
               /\ \A n \in DOMAIN answered : answered[n].call.row # i
      <3>1. TenantOf[i] = selected /\ server[i] # Gone
        BY <2>1, <2>6 DEF PanInv, ConsoleRows
      <3>2. rows[i].mfa = server[i].mfa
        BY <2>2, <2>3, <2>6, <3>1 DEF RowMatches
      <3>3. c.was = server[i].status
        BY <1>c, <2>1, <2>6 DEF PanInv, RollbackIsRight
      <3>4. rows'[i] # Gone /\ rows'[i].status = server[i].status /\ rows'[i].mfa = server[i].mfa
        BY <1>5, <2>6, <3>2, <3>3
      <3>5. rows'[i] = server[i]
        BY <1>2, <1>5, <3>1, <3>4, SameRow
      <3> QED BY <1>1, <2>3, <3>1, <3>5 DEF RowMatches
    <2> QED BY <2>4, <2>5, <2>6
  <1> QED BY <1>6, <1>7, <1>8, <1>9, <1>10, <1>11, <1>12 DEF PanInv

-----------------------------------------------------------------------------
LEMMA PanInit == PanelInit => PanInv
  <1> SUFFICES ASSUME PanelInit PROVE PanInv
    OBVIOUS
  <1>1. /\ table \in Tables \cup {NoTable}
        /\ selected = IF table.lists = "home" THEN Home ELSE Nothing
        /\ server = [i \in Rows |-> [status |-> "ACTIVE", mfa |-> Optimistic /\ i \in Contested]]
        /\ rows = [i \in Rows |-> Gone] /\ isLoading = TRUE /\ isPending = FALSE
        /\ asked = IF table.lists = "home" THEN <<Load(Home, Nothing)>> ELSE <<>>
        /\ answered = <<>> /\ crossed = {} /\ adrift = FALSE
    BY DEF PanelInit
  <1>2. server \in [Rows -> RowValues] /\ \A i \in Rows : server[i] # Gone
    BY <1>1, StatusNames DEF RowValues, Gone
  <1>3. WellFormed(Load(Home, Nothing)) /\ Load(Home, Nothing) \in Calls /\ Load(Home, Nothing).op = "load"
    BY HomeIsAPlace DEF WellFormed, Awaited, Nothing, Load, Call, Calls, Ops
  <1>4. /\ asked \in Seq(Calls)
        /\ \A n \in DOMAIN asked : asked[n] = Load(Home, Nothing) /\ n = 1
        /\ table.lists = "home" => 1 \in DOMAIN asked /\ asked[1] = Load(Home, Nothing)
    BY <1>1, <1>3
  <1>5. Optimistic => \A n \in DOMAIN asked : FALSE
    BY <1>1 DEF Optimistic
  <1>6. PanelTypes
    <2>1. selected \in Places \cup {Nothing}
      BY <1>1, HomeIsAPlace
    <2>2. rows \in [Rows -> RowValues]
      BY <1>1 DEF RowValues
    <2>3. \A n \in DOMAIN asked : WellFormed(asked[n])
      BY <1>3, <1>4
    <2>4. answered \in Seq(Answers) /\ \A n \in DOMAIN answered : FALSE
      BY <1>1
    <2> QED BY <1>1, <1>2, <1>4, <2>1, <2>2, <2>3, <2>4 DEF PanelTypes
  <1>7. AnswersAreFresh /\ LoadingLoads /\ ConsoleRows
    BY <1>1, <1>2, <1>3, <1>4 DEF AnswersAreFresh, LoadingLoads, ConsoleRows
  <1>8. CrossedCalls /\ RollbackIsRight /\ TableMatches
    BY <1>1, <1>5 DEF CrossedCalls, RollbackIsRight, TableMatches
  <1> QED BY <1>6, <1>7, <1>8 DEF PanInv

\* A step that changes nothing.
LEMMA QuietKeeps ==
  ASSUME PanInv, UNCHANGED panelVars
  PROVE  PanInv'
  <1>1. UNCHANGED <<table, selected, server, rows, isLoading, isPending, asked, answered,
                    crossed, adrift>>
    BY DEF panelVars, controls
  <1>2. Optimistic' <=> Optimistic
    BY <1>1 DEF Optimistic
  <1>3. PanelTypes'
    BY <1>1, <1>2 DEF PanInv, PanelTypes, WellAnswered, WellFormed
  <1>4. AnswersAreFresh' /\ LoadingLoads'
    BY <1>1 DEF PanInv, AnswersAreFresh, LoadingLoads
  <1>5. ConsoleRows' /\ CrossedCalls' /\ RollbackIsRight'
    BY <1>1, <1>2 DEF PanInv, ConsoleRows, CrossedCalls, RollbackIsRight
  <1>6. TableMatches'
    BY <1>1, <1>2 DEF PanInv, TableMatches, RowMatches, Listing
  <1> QED BY <1>3, <1>4, <1>5, <1>6 DEF PanInv

LEMMA PanNext == PanInv /\ [PanelNext]_panelVars => PanInv'
  <1> SUFFICES ASSUME PanInv, [PanelNext]_panelVars PROVE PanInv'
    OBVIOUS
  <1> Handled \subseteq Rows /\ Contested \subseteq Rows
    BY PanelsAssumption
  <1> QED
    BY ChooseTenantKeeps, ToggleKeeps, OtherAsksKeep, ServerDoesKeeps, SomebodyElseKeeps,
       LoadAnswersKeeps, RowAnswersKeeps, ChangeAnswersKeeps, AnswerLostKeeps, CallRefusedKeeps,
       QuietKeeps DEF PanelNext

(* The queues, the table and the server's rows through every overlap of    *)
(* loads, changes, refusals and lost answers.                              *)
THEOREM PanelInvariance == SpecPanel => []PanInv
  BY PanInit, PanNext, PTL DEF SpecPanel

(* Every table of the dashboard and of the console: once its calls are     *)
(* answered it shows the server's rows, the optimistic toggle of           *)
(* platform-users-table.tsx and its rollback included.                     *)
THEOREM SettledTables == SpecPanel => []SettledTableIsServerState
  <1>1. PanInv => SettledTableIsServerState
    <2> SUFFICES ASSUME PanInv, asked = <<>>, answered = <<>>, selected # Nothing, ~adrift
                 PROVE  rows = Listing(selected)
      BY DEF SettledTableIsServerState
    <2>1. (\A n \in DOMAIN asked : FALSE) /\ (\A n \in DOMAIN answered : FALSE)
      OBVIOUS
    <2>2. ~isLoading
      BY <2>1 DEF PanInv, LoadingLoads
    <2>3. \A i \in Rows : RowMatches(i)
      BY <2>2 DEF PanInv, TableMatches
    <2>4. \A i \in Rows : rows[i] = Listing(selected)[i]
      BY <2>1, <2>3 DEF RowMatches
    <2> QED BY <2>4 DEF PanInv, PanelTypes, Listing
  <1> QED BY <1>1, PanelInvariance, PTL
-----------------------------------------------------------------------------
(* The controls.                                                           *)

(* Answered or failing, a call that releases the row's button: of the      *)
(* console, the change of that row; of the dashboard, a change or the load *)
(* that one's handler awaits.                                              *)
Releases(c, i) == IF Optimistic THEN c.op = "set" /\ c.row = i ELSE EndsHandler(c)

(* A disabled button has a call in flight that will release it, and so has *)
(* a form that waits; none of the dashboard's tables resets a second       *)
(* factor.                                                                 *)
BusyControls ==
    /\ toggling # Nothing => \E c \in InFlight : Releases(c, toggling)
    /\ resetting # Nothing =>
          Optimistic /\ \E c \in InFlight : c.op = "clear" /\ c.row = resetting
    /\ isPending => \E c \in InFlight : c.op = "add"

\* What is asked comes last, and what was in flight stays so.
LEMMA Asked ==
  ASSUME PanInv, NEW c, asked' = Append(asked, c)
  PROVE  /\ \A n \in DOMAIN asked : n \in DOMAIN asked' /\ asked'[n] = asked[n]
         /\ \E n \in DOMAIN asked' : asked'[n] = c
         /\ answered' = answered => InFlight \subseteq InFlight' /\ c \in InFlight'
  <1>1. asked \in Seq(Calls)
    BY DEF PanInv, PanelTypes
  <1>2. \A n \in DOMAIN asked : n \in DOMAIN asked' /\ asked'[n] = asked[n]
    BY <1>1
  <1>3. Len(asked) + 1 \in DOMAIN asked' /\ asked'[Len(asked) + 1] = c
    BY <1>1
  <1> QED BY <1>2, <1>3 DEF InFlight

\* A call leaves the air only when its answer is given or it fails: neither
\* the server nor somebody else ends one.
LEMMA DoneIsInFlight ==
  ASSUME PanInv, NEW k \in DOMAIN asked, ServerDoes(k)
  PROVE  InFlight \subseteq InFlight'
  <1>1. answered \in Seq(Answers) /\ asked \in Seq(Calls)
    BY DEF PanInv, PanelTypes
  <1>2. PICK a : answered' = Append(answered, a) /\ a.call = asked[k]
    BY ServerDoesShape
  <1>3. /\ \A n \in DOMAIN answered : n \in DOMAIN answered' /\ answered'[n] = answered[n]
        /\ Len(answered) + 1 \in DOMAIN answered' /\ answered'[Len(answered) + 1] = a
    BY <1>1, <1>2
  <1>4. asked' = Without(asked, k)
    BY DEF ServerDoes
  <1>5. \A n \in DOMAIN asked \ {k} :
           Behind(n, k) \in DOMAIN asked' /\ asked'[Behind(n, k)] = asked[n]
    BY <1>1, <1>4, WithoutCall
  <1> QED BY <1>2, <1>3, <1>5 DEF InFlight

LEMMA LateIsInFlight ==
  ASSUME PanInv, asked' = asked,
         \/ answered' = answered
         \/ answered' = [n \in DOMAIN answered |-> [answered[n] EXCEPT !.late = TRUE]]
  PROVE  InFlight \subseteq InFlight'
  <1>1. answered \in Seq(Answers)
    BY DEF PanInv, PanelTypes
  <1>2. DOMAIN answered' = DOMAIN answered
        /\ \A n \in DOMAIN answered' : answered'[n].call = answered[n].call
    BY <1>1, AllLate
  <1> QED BY <1>2 DEF InFlight

LEMMA OneAnswered ==
  ASSUME PanInv, NEW k \in DOMAIN answered, answered' = After(k),
         \/ asked' = asked
         \/ \E c : asked' = Append(asked, c)
  PROVE  InFlight \subseteq InFlight' \cup {answered[k].call}
  <1>1. answered \in Seq(Answers) /\ asked \in Seq(Calls)
    BY DEF PanInv, PanelTypes
  <1>2. \A n \in DOMAIN answered \ {k} :
           Behind(n, k) \in DOMAIN answered' /\ answered'[Behind(n, k)].call = answered[n].call
    BY <1>1, AfterOne
  <1>3. \A n \in DOMAIN asked : n \in DOMAIN asked' /\ asked'[n] = asked[n]
    BY Asked
  <1> QED BY <1>2, <1>3 DEF InFlight

LEMMA OneRefused ==
  ASSUME PanInv, NEW k \in DOMAIN asked, asked' = Without(asked, k), answered' = answered
  PROVE  InFlight \subseteq InFlight' \cup {asked[k]}
  <1>1. asked \in Seq(Calls)
    BY DEF PanInv, PanelTypes
  <1>2. \A n \in DOMAIN asked \ {k} :
           Behind(n, k) \in DOMAIN asked' /\ asked'[Behind(n, k)] = asked[n]
    BY <1>1, WithoutCall
  <1> QED BY <1>2 DEF InFlight

\* A control that was busy is released by its own call, one that becomes busy
\* has made one.
LEMMA StillBusy ==
  ASSUME BusyControls, NEW gone, InFlight \subseteq InFlight' \cup {gone}, UNCHANGED table,
         toggling' # Nothing =>
            \/ toggling' = toggling /\ (gone \notin InFlight' => ~Releases(gone, toggling))
            \/ \E c \in InFlight' : Releases(c, toggling'),
         resetting' # Nothing =>
            \/ resetting' = resetting /\ (gone \notin InFlight' => gone.op # "clear")
            \/ Optimistic /\ \E c \in InFlight' : c.op = "clear" /\ c.row = resetting',
         isPending' =>
            \/ isPending /\ (gone \notin InFlight' => gone.op # "add")
            \/ \E c \in InFlight' : c.op = "add"
  PROVE  BusyControls'
  <1>1. Optimistic' <=> Optimistic
    BY DEF Optimistic
  <1>2. \A c, i : Releases(c, i)' <=> Releases(c, i)
    BY <1>1 DEF Releases, EndsHandler
  <1>3. toggling' # Nothing => \E c \in InFlight' : Releases(c, toggling')
    BY DEF BusyControls
  <1> QED BY <1>1, <1>2, <1>3 DEF BusyControls

LEMMA BusyInit == PanelInit => BusyControls
  BY DEF PanelInit, BusyControls

LEMMA AskingIsBusy ==
  ASSUME PanInv, BusyControls, NEW i, NEW t, NEW to,
         \/ ChooseTenant(t) \/ handleToggle(i) \/ handleResetMfa(i) \/ handleRemove(i)
         \/ SubmitAdd(i) \/ handleStatusAction(i, to)
  PROVE  BusyControls'
  <1>1. CASE ChooseTenant(t)
    <2>1. InFlight \subseteq InFlight' /\ UNCHANGED <<table, toggling, resetting, isPending>>
      BY <1>1, Asked DEF ChooseTenant, controls
    <2> QED BY <2>1 DEF BusyControls, Releases, EndsHandler, Optimistic
  <1>2. CASE handleToggle(i)
    <2> DEFINE c == Call("set", i, NewStatus(rows[i].status), rows[i].status)
    <2>1. asked' = Append(asked, c) /\ toggling' = i
          /\ UNCHANGED <<table, resetting, isPending, answered>>
      BY <1>2 DEF handleToggle
    <2>2. c.op = "set" /\ c.row = i
      BY DEF Call
    <2> HIDE DEF c
    <2>3. InFlight \subseteq InFlight' /\ c \in InFlight'
      BY <2>1, Asked
    <2> QED BY <2>1, <2>2, <2>3 DEF BusyControls, Releases, EndsHandler, Optimistic
  <1>3. CASE handleResetMfa(i)
    <2> DEFINE c == Call("clear", i, Nothing, Nothing)
    <2>1. asked' = Append(asked, c) /\ resetting' = i /\ Optimistic
          /\ UNCHANGED <<table, toggling, isPending, answered>>
      <3>1. "clear" \in table.acts
        BY <1>3 DEF handleResetMfa, CanAct
      <3>2. Optimistic
        BY <3>1, OnlyConsoleClears DEF PanInv, PanelTypes
      <3> QED BY <1>3, <3>2 DEF handleResetMfa
    <2>2. c.op = "clear" /\ c.row = i
      BY DEF Call
    <2> HIDE DEF c
    <2>3. InFlight \subseteq InFlight' /\ c \in InFlight'
      BY <2>1, Asked
    <2> QED BY <2>1, <2>2, <2>3 DEF BusyControls, Releases, EndsHandler, Optimistic
  <1>4. CASE handleRemove(i)
    <2> DEFINE c == Call("remove", i, Nothing, Nothing)
    <2>1. ~Optimistic
      BY <1>4, TableFacts DEF handleRemove, CanAct, PanInv, PanelTypes
    <2>2. asked' = Append(asked, c) /\ UNCHANGED <<table, resetting, isPending, answered>>
      BY <1>4 DEF handleRemove
    <2>3. c.op = "remove"
      BY DEF Call
    <2> HIDE DEF c
    <2>4. InFlight \subseteq InFlight' /\ c \in InFlight'
      BY <2>2, Asked
    <2> QED BY <2>1, <2>2, <2>3, <2>4 DEF BusyControls, Releases, EndsHandler, Optimistic
  <1>5. CASE SubmitAdd(i)
    <2> DEFINE c == Call("add", i, Nothing, Nothing)
    <2>1. asked' = Append(asked, c) /\ UNCHANGED <<table, toggling, resetting, answered>>
      BY <1>5 DEF SubmitAdd
    <2>2. c.op = "add"
      BY DEF Call
    <2> HIDE DEF c
    <2>3. InFlight \subseteq InFlight' /\ c \in InFlight'
      BY <2>1, Asked
    <2> QED BY <2>1, <2>2, <2>3 DEF BusyControls, Releases, EndsHandler, Optimistic
  <1>6. CASE handleStatusAction(i, to)
    <2> DEFINE c == Call("set", i, to, Nothing)
    <2>1. asked' = Append(asked, c) /\ ~Optimistic
          /\ UNCHANGED <<table, resetting, isPending, answered>>
      BY <1>6 DEF handleStatusAction
    <2>2. c.op = "set"
      BY DEF Call
    <2> HIDE DEF c
    <2>3. InFlight \subseteq InFlight' /\ c \in InFlight'
      BY <2>1, Asked
    <2> QED BY <2>1, <2>2, <2>3 DEF BusyControls, Releases, EndsHandler, Optimistic
  <1> QED BY <1>1, <1>2, <1>3, <1>4, <1>5, <1>6

LEMMA AnswersReleaseTheirOwn ==
  ASSUME PanInv, BusyControls, NEW k \in DOMAIN answered,
         LoadAnswers(k) \/ RowAnswers(k) \/ ChangeAnswers(k) \/ AnswerLost(k)
  PROVE  BusyControls'
  <1> DEFINE c == answered[k].call
  <1>1. InFlight \subseteq InFlight' \cup {c} /\ UNCHANGED table
    BY OneAnswered DEF LoadAnswers, RowAnswers, ChangeAnswers, AnswerLost, Fails
  <1>2. CASE LoadAnswers(k)
    <2>1. /\ c.op = "load" /\ UNCHANGED <<resetting, isPending>>
          /\ toggling' = IF EndsHandler(c) THEN Nothing ELSE toggling
      BY <1>2 DEF LoadAnswers
    <2> HIDE DEF c
    <2> QED BY <1>1, <2>1, StillBusy DEF Releases
  <1>3. CASE RowAnswers(k)
    <2>1. /\ c.op \in {"set", "clear"} /\ isPending' = isPending
          /\ c.op = "set" => toggling' = Nothing /\ resetting' = resetting
          /\ c.op = "clear" => resetting' = Nothing /\ toggling' = toggling
      BY <1>3 DEF RowAnswers
    <2> HIDE DEF c
    <2> QED BY <1>1, <1>3, <2>1, StillBusy DEF RowAnswers, Releases
  <1>4. CASE ChangeAnswers(k)
    <2>1. /\ ~Optimistic /\ UNCHANGED <<toggling, resetting>>
          /\ isPending' = (isPending /\ c.op # "add")
      BY <1>4 DEF ChangeAnswers
    <2>2. resetting = Nothing
      BY <2>1 DEF BusyControls
    <2>3. c.op # "add" => \E d \in InFlight' : EndsHandler(d)
      <3>1. c.op # "add" => asked' = Append(asked, Load(Home, Awaited))
        BY <1>4 DEF ChangeAnswers
      <3>2. EndsHandler(Load(Home, Awaited))
        BY DEF EndsHandler, Load, Call
      <3> QED BY <3>1, <3>2, Asked DEF InFlight
    <2>4. c.op = "add" => ~EndsHandler(c)
      BY <1>4 DEF EndsHandler, PanInv, PanelTypes, WellAnswered, WellFormed, ChangeAnswers
    <2> HIDE DEF c
    <2> QED BY <1>1, <2>1, <2>2, <2>3, <2>4, StillBusy DEF Releases
  <1>5. CASE AnswerLost(k)
    <2>1. /\ toggling' = IF EndsHandler(c) THEN Nothing ELSE toggling
          /\ resetting' = IF c.op = "clear" THEN Nothing ELSE resetting
          /\ isPending' = (isPending /\ c.op # "add")
      BY <1>5 DEF AnswerLost, Fails
    <2> HIDE DEF c
    <2> QED BY <1>1, <2>1, StillBusy DEF Releases, EndsHandler
  <1> QED BY <1>2, <1>3, <1>4, <1>5

LEMMA RefusalReleasesItsOwn ==
  ASSUME PanInv, BusyControls, NEW k \in DOMAIN asked, CallRefused(k)
  PROVE  BusyControls'
  <1> DEFINE c == asked[k]
  <1>1. InFlight \subseteq InFlight' \cup {c} /\ UNCHANGED table
    BY OneRefused DEF CallRefused, Fails
  <1>2. /\ toggling' = IF EndsHandler(c) THEN Nothing ELSE toggling
        /\ resetting' = IF c.op = "clear" THEN Nothing ELSE resetting
        /\ isPending' = (isPending /\ c.op # "add")
    BY DEF CallRefused, Fails
  <1> HIDE DEF c
  <1> QED BY <1>1, <1>2, StillBusy DEF Releases, EndsHandler

LEMMA OthersLeaveControls ==
  ASSUME PanInv, BusyControls,
         \/ \E k \in DOMAIN asked : ServerDoes(k)
         \/ \E i, row : SomebodyElse(i, row)
         \/ UNCHANGED panelVars
  PROVE  BusyControls'
  <1>1. CASE \E k \in DOMAIN asked : ServerDoes(k)
    <2>1. InFlight \subseteq InFlight' /\ UNCHANGED <<table, toggling, resetting, isPending>>
      BY <1>1, DoneIsInFlight DEF ServerDoes, controls
    <2> QED BY <2>1 DEF BusyControls, Releases, EndsHandler, Optimistic
  <1>2. CASE \E i, row : SomebodyElse(i, row)
    <2>1. InFlight \subseteq InFlight' /\ UNCHANGED <<table, toggling, resetting, isPending>>
      BY <1>2, LateIsInFlight DEF SomebodyElse, controls
    <2> QED BY <2>1 DEF BusyControls, Releases, EndsHandler, Optimistic
  <1>3. CASE UNCHANGED panelVars
    <2>1. InFlight \subseteq InFlight' /\ UNCHANGED <<table, toggling, resetting, isPending>>
      BY <1>3, LateIsInFlight DEF panelVars, controls
    <2> QED BY <2>1 DEF BusyControls, Releases, EndsHandler, Optimistic
  <1> QED BY <1>1, <1>2, <1>3

(* Whatever answers crossed or failed, no button or form stays disabled    *)
(* without a call that will release it: the catch and finally blocks of    *)
(* the tables' handlers reset their own state and no other's.              *)
THEOREM DisabledControlsAreBusy == SpecPanel => []BusyControls
  <1>1. PanInv /\ BusyControls /\ [PanelNext]_panelVars => BusyControls'
    BY AskingIsBusy, AnswersReleaseTheirOwn, RefusalReleasesItsOwn, OthersLeaveControls
       DEF PanelNext
  <1> QED BY <1>1, BusyInit, PanelInvariance, PTL DEF SpecPanel

=============================================================================
