-------------------------- MODULE AccountStatusProofs --------------------------
(***************************************************************************)
(* The status of an account, its cached copy and its audit rows keep their *)
(* agreement for any number of accounts, concurrent changes and guards.    *)
(*                                                                         *)
(* The argument follows the three things a change in progress relies on:   *)
(* a snapshot that still is the last version of the row still says its     *)
(* status; a platform change past its write is among the writes; and once  *)
(* an entry is dropped with no older fill to land, every fill under way    *)
(* holds nothing but the row's own status.                                 *)
(***************************************************************************)
EXTENDS AccountStatus, TLAPS

\* While the row has not been written since the snapshot, the snapshot is right.
SnapshotsAreOrdered ==
    \A a \in Admins : At(a, {"platform"}, "update") =>
        /\ change[a].version <= Len(writes[change[a].user])
        /\ change[a].version = Len(writes[change[a].user])
              => change[a].from = status[change[a].user]

\* What a platform change will put in its audit row is one of the writes.
CommittedIsWritten ==
    \A a \in Admins : change[a].by = "platform" /\ change[a].step # "update" =>
        AuditRow(a) \in ToSet(writes[change[a].user])

\* The last step comes after the audit.
AuditComesFirst ==
    \A a \in Admins : change[a].step = "disconnect" => change[a].audited

\* No stale status is on its way to a cache entry that was dropped cleanly.
NoStaleFill == \A u \in Users : dropped[u] = "clean" => ~StaleFill(u)

\* The inductive invariant.
IInv ==
    /\ TypeOK
    /\ SnapshotsAreOrdered
    /\ CommittedIsWritten
    /\ AuditComesFirst
    /\ NoStaleFill
    /\ SettledCacheIsCurrent
    /\ PlatformAuditIsExact
    /\ PlatformChangeIsAudited
-----------------------------------------------------------------------------
(* The shape of a change in progress.                                      *)

LEMMA ChangeShape ==
  ASSUME TypeOK, NEW a \in Admins
  PROVE  /\ change[a] \in Changes
         /\ change[a].by \in Actors =>
              /\ change[a] # NoChange
              /\ change[a].user \in Users /\ change[a].from \in Statuses
              /\ change[a].to \in Statuses /\ change[a].version \in 0..MaxChanges
              /\ change[a].audited \in BOOLEAN
              /\ change[a].step \in {"update", "invalidate", "audit", "disconnect"}
         /\ change[a].by \notin Actors => change[a] = NoChange
  BY DEF TypeOK, Changes, NoChange, Actors

LEMMA ProceedType ==
  ASSUME TypeOK, NEW a \in Admins, change[a].by \in Actors,
         NEW step \in {"update", "invalidate", "audit", "disconnect"}, Proceed(a, step)
  PROVE  /\ change' \in [Admins -> Changes]
         /\ change'[a] = [change[a] EXCEPT !.step = step]
         /\ \A b \in Admins \ {a} : change'[b] = change[b]
  <1>1. [change[a] EXCEPT !.step = step] \in Changes
    BY ChangeShape DEF Changes, Actors, NoChange
  <1> QED BY <1>1 DEF TypeOK, Proceed

LEMMA WriteType ==
  ASSUME TypeOK, NEW u \in Users, NEW s \in Statuses, NEW by \in Actors \cup {"hook"},
         Write(u, s, by)
  PROVE  /\ status' \in [Users -> Statuses]
         /\ writes' \in [Users -> Seq(Rows)]
         /\ dropped' \in [Users -> {"kept", "overlapped", "clean"}]
         /\ Len(writes'[u]) = Len(writes[u]) + 1
         /\ status'[u] = s /\ dropped'[u] = "kept"
         /\ writes'[u] = Append(writes[u],
                            [user |-> u, from |-> status[u], to |-> s, by |-> by])
         /\ \A v \in Users \ {u} : /\ writes'[v] = writes[v] /\ status'[v] = status[v]
                                   /\ dropped'[v] = dropped[v]
  <1> DEFINE row == [user |-> u, from |-> status[u], to |-> s, by |-> by]
  <1>1. row \in Rows /\ writes[u] \in Seq(Rows)
    BY DEF TypeOK, Rows
  <1>2. Append(writes[u], row) \in Seq(Rows) /\ Len(Append(writes[u], row)) = Len(writes[u]) + 1
    BY <1>1
  <1> QED BY <1>2 DEF TypeOK, Write

\* The writes of a row only grow.
LEMMA AppendKeeps ==
  ASSUME NEW S, NEW s \in Seq(S), NEW x \in S
  PROVE  /\ ToSet(s) \subseteq ToSet(Append(s, x))
         /\ x \in ToSet(Append(s, x))
         /\ Last(Append(s, x)) = x
  <1>1. /\ Len(Append(s, x)) = Len(s) + 1 /\ Append(s, x)[Len(s) + 1] = x
        /\ \A i \in 1..Len(s) : Append(s, x)[i] = s[i]
        /\ DOMAIN s = 1..Len(s) /\ DOMAIN Append(s, x) = 1..(Len(s) + 1) /\ Len(s) \in Nat
    OBVIOUS
  <1>2. Last(Append(s, x)) = x
    BY <1>1 DEF Last
  <1>3. x \in ToSet(Append(s, x))
    BY <1>1 DEF ToSet
  <1>4. ToSet(s) \subseteq ToSet(Append(s, x))
    BY <1>1 DEF ToSet
  <1> QED BY <1>2, <1>3, <1>4

LEMMA WriteKeeps ==
  ASSUME TypeOK, NEW u \in Users, NEW s \in Statuses, NEW by \in Actors \cup {"hook"},
         Write(u, s, by)
  PROVE  /\ \A v \in Users : ToSet(writes[v]) \subseteq ToSet(writes'[v])
         /\ [user |-> u, from |-> status[u], to |-> s, by |-> by] \in ToSet(writes'[u])
         /\ Last(writes'[u]).by = by
  <1> DEFINE row == [user |-> u, from |-> status[u], to |-> s, by |-> by]
  <1>1. row \in Rows /\ \A v \in Users : writes[v] \in Seq(Rows)
    BY DEF TypeOK, Rows
  <1>2. /\ ToSet(writes[u]) \subseteq ToSet(Append(writes[u], row))
        /\ row \in ToSet(Append(writes[u], row))
        /\ Last(Append(writes[u], row)) = row
    BY <1>1, AppendKeeps
  <1>3. writes'[u] = Append(writes[u], row) /\ \A v \in Users \ {u} : writes'[v] = writes[v]
    BY WriteType
  <1>4. row.by = by
    OBVIOUS
  <1> QED BY <1>2, <1>3, <1>4
-----------------------------------------------------------------------------
LEMMA InvInit == Init => IInv
  <1> SUFFICES ASSUME Init PROVE IInv
    OBVIOUS
  <1> USE DEF Init
  <1>1. TypeOK
    <2>1. status \in [Users -> Statuses]
      BY StatusAssumption
    <2>2. outcome \in Outcomes
      BY StatusAssumption DEF Outcomes, Actors
    <2>3. \A u \in Users : <<>> \in Seq(Rows)
      OBVIOUS
    <2>4. writes \in [Users -> Seq(Rows)] /\ cache \in [Users -> Statuses \cup {Miss}]
      BY <2>3
    <2>5. guard \in [Guards -> [user : Users \cup {"none"}, seen : Statuses \cup {Miss}]]
      BY DEF NoFill
    <2>6. change \in [Admins -> Changes]
      BY DEF Changes
    <2>7. promotion \in [Users -> {"unverified", "promote", "verified"}]
      OBVIOUS
    <2>8. dropped \in [Users -> {"kept", "overlapped", "clean"}] /\ audit \subseteq Rows
      OBVIOUS
    <2> QED BY <2>1, <2>2, <2>4, <2>5, <2>6, <2>7, <2>8 DEF TypeOK
  <1>2. SnapshotsAreOrdered /\ CommittedIsWritten /\ AuditComesFirst
    BY DEF SnapshotsAreOrdered, CommittedIsWritten, AuditComesFirst, At, NoChange
  <1>3. NoStaleFill /\ SettledCacheIsCurrent
    BY DEF NoStaleFill, SettledCacheIsCurrent
  <1>4. PlatformAuditIsExact /\ PlatformChangeIsAudited
    BY DEF PlatformAuditIsExact, PlatformChangeIsAudited
  <1> QED BY <1>1, <1>2, <1>3, <1>4 DEF IInv

\* Beginning a change only adds a snapshot of the row as it is.
LEMMA BeginStep ==
  ASSUME IInv, NEW a \in Admins, NEW u \in Users, NEW s \in Statuses,
         FindForUpdate(a, u, s) \/ BeginTransaction(a, u, s),
         \A v \in Users : Len(writes[v]) <= MaxChanges
  PROVE  IInv'
  <1> DEFINE other == <<status, writes, cache, guard, promotion, audit, outcome, dropped>>
  <1>1. UNCHANGED other /\ \A b \in Admins \ {a} : change'[b] = change[b]
    BY DEF FindForUpdate, BeginTransaction, IInv, TypeOK
  <1>2. \E by \in Actors, n \in 0..MaxChanges :
           /\ change'[a] = [by |-> by, step |-> "update", user |-> u, from |-> status[u],
                            to |-> s, version |-> n, audited |-> FALSE]
           /\ change' = [change EXCEPT ![a] = change'[a]]
           /\ by = "platform" => n = Len(writes[u])
    <2>1. Len(writes[u]) \in 0..MaxChanges /\ 0 \in 0..MaxChanges
      BY MaxChangesAssumption DEF IInv, TypeOK
    <2>2. CASE FindForUpdate(a, u, s)
      BY <2>1, <2>2 DEF FindForUpdate, IInv, TypeOK, Actors
    <2>3. CASE BeginTransaction(a, u, s)
      BY <2>1, <2>3 DEF BeginTransaction, IInv, TypeOK, Actors
    <2> QED BY <2>2, <2>3
  <1>3. PICK by \in Actors, n \in 0..MaxChanges :
           /\ change'[a] = [by |-> by, step |-> "update", user |-> u, from |-> status[u],
                            to |-> s, version |-> n, audited |-> FALSE]
           /\ change' = [change EXCEPT ![a] = change'[a]]
           /\ by = "platform" => n = Len(writes[u])
    BY <1>2
  <1>4. change'[a] \in Changes
    BY <1>3 DEF Changes, IInv, TypeOK
  <1>5. TypeOK'
    BY <1>1, <1>3, <1>4 DEF IInv, TypeOK
  <1>6. SnapshotsAreOrdered'
    <2>1. Len(writes[u]) \in Nat
      BY DEF IInv, TypeOK
    <2> QED BY <1>1, <1>3, <2>1 DEF IInv, SnapshotsAreOrdered, At
  <1>7. CommittedIsWritten' /\ AuditComesFirst'
    BY <1>1, <1>3 DEF IInv, CommittedIsWritten, AuditComesFirst, AuditRow
  <1>8. NoStaleFill' /\ SettledCacheIsCurrent'
    BY <1>1 DEF IInv, NoStaleFill, SettledCacheIsCurrent, StaleFill
  <1>9. PlatformAuditIsExact' /\ PlatformChangeIsAudited'
    BY <1>1 DEF IInv, PlatformAuditIsExact, PlatformChangeIsAudited
  <1> QED BY <1>5, <1>6, <1>7, <1>8, <1>9 DEF IInv

\* A write takes the snapshots of its row out of date, and is in its history.
LEMMA CommitStep ==
  ASSUME IInv, NEW a \in Admins, UpdateStatus(a) \/ CommitTransaction(a)
  PROVE  IInv'
  <1> DEFINE u == change[a].user
             by == change[a].by
             row == [user |-> u, from |-> status[u], to |-> change[a].to, by |-> by]
  <1>1. /\ Write(u, change[a].to, by) /\ Proceed(a, "invalidate")
        /\ by \in Actors /\ change[a].step = "update"
        /\ by = "platform" => change[a].version = Len(writes[u])
        /\ UNCHANGED <<cache, guard, promotion, audit, outcome>>
    BY DEF UpdateStatus, CommitTransaction, At, Actors
  <1>2. TypeOK /\ u \in Users /\ change[a].to \in Statuses
    BY <1>1, ChangeShape DEF IInv
  <1>3. /\ status' \in [Users -> Statuses] /\ writes' \in [Users -> Seq(Rows)]
        /\ dropped' \in [Users -> {"kept", "overlapped", "clean"}]
        /\ Len(writes'[u]) = Len(writes[u]) + 1 /\ dropped'[u] = "kept"
        /\ \A v \in Users \ {u} : /\ writes'[v] = writes[v] /\ status'[v] = status[v]
                                  /\ dropped'[v] = dropped[v]
    BY <1>1, <1>2, WriteType
  <1>4. /\ \A v \in Users : ToSet(writes[v]) \subseteq ToSet(writes'[v])
        /\ row \in ToSet(writes'[u])
    BY <1>1, <1>2, WriteKeeps
  <1>5. /\ change' \in [Admins -> Changes]
        /\ change'[a] = [change[a] EXCEPT !.step = "invalidate"]
        /\ \A b \in Admins \ {a} : change'[b] = change[b]
    BY <1>1, <1>2, ProceedType
  <1>6. change'[a].step = "invalidate" /\ change'[a].by = by /\ change'[a].user = u
        /\ change'[a].from = change[a].from /\ change'[a].to = change[a].to
        /\ change'[a].audited = change[a].audited
    BY <1>1, <1>2, <1>5, ChangeShape DEF Changes, NoChange, Actors
  <1>7. TypeOK'
    BY <1>1, <1>2, <1>3, <1>5 DEF TypeOK
  <1>8. SnapshotsAreOrdered'
    <2> SUFFICES ASSUME NEW b \in Admins, At(b, {"platform"}, "update")'
                 PROVE  /\ change'[b].version <= Len(writes'[change'[b].user])
                        /\ change'[b].version = Len(writes'[change'[b].user])
                              => change'[b].from = status'[change'[b].user]
      BY DEF SnapshotsAreOrdered
    <2>1. b # a /\ change'[b] = change[b] /\ At(b, {"platform"}, "update")
      BY <1>5, <1>6 DEF At
    <2>2. change[b].user \in Users /\ change[b].version \in Nat
      BY <1>2, <2>1, ChangeShape DEF At, Actors
    <2>3. Len(writes[u]) \in Nat /\ Len(writes[change[b].user]) \in Nat
      BY <1>2, <2>2 DEF TypeOK
    <2>4. /\ change[b].version <= Len(writes[change[b].user])
          /\ change[b].version = Len(writes[change[b].user])
                => change[b].from = status[change[b].user]
      BY <2>1 DEF IInv, SnapshotsAreOrdered
    <2>5. CASE change[b].user = u
      <3>1. Len(writes'[change[b].user]) = Len(writes[u]) + 1
        BY <1>3, <2>5
      <3>2. change[b].version < Len(writes'[change[b].user])
        BY <2>2, <2>3, <2>4, <2>5, <3>1
      <3> QED BY <2>1, <2>2, <2>3, <2>5, <3>1, <3>2
    <2>6. CASE change[b].user # u
      <3>1. /\ writes'[change[b].user] = writes[change[b].user]
            /\ status'[change[b].user] = status[change[b].user]
        BY <1>3, <2>2, <2>6
      <3> QED BY <2>1, <2>4, <3>1
    <2> QED BY <2>5, <2>6
  <1>9. CommittedIsWritten'
    <2> SUFFICES ASSUME NEW b \in Admins, change'[b].by = "platform", change'[b].step # "update"
                 PROVE  AuditRow(b)' \in ToSet(writes'[change'[b].user])
      BY DEF CommittedIsWritten
    <2>1. CASE b = a
      <3>1. change[a].from = status[u]
        BY <1>1, <1>6, <2>1 DEF IInv, SnapshotsAreOrdered, At
      <3> QED BY <1>4, <1>6, <2>1, <3>1 DEF AuditRow
    <2>2. CASE b # a
      <3>1. change'[b] = change[b] /\ change[b].user \in Users
        BY <1>2, <1>5, <2>2, ChangeShape DEF Actors
      <3>2. AuditRow(b) \in ToSet(writes[change[b].user])
        BY <3>1 DEF IInv, CommittedIsWritten
      <3> QED BY <1>4, <3>1, <3>2 DEF AuditRow
    <2> QED BY <2>1, <2>2
  <1>10. AuditComesFirst'
    BY <1>5, <1>6 DEF IInv, AuditComesFirst
  <1>11. NoStaleFill' /\ SettledCacheIsCurrent'
    BY <1>1, <1>3 DEF IInv, NoStaleFill, SettledCacheIsCurrent, StaleFill
  <1>12. PlatformAuditIsExact'
    <2>1. \A r \in audit : r.user \in Users
      BY <1>2 DEF TypeOK, Rows
    <2> QED BY <1>1, <1>4, <2>1 DEF IInv, PlatformAuditIsExact
  <1>13. PlatformChangeIsAudited'
    BY <1>1 DEF IInv, PlatformChangeIsAudited
  <1> QED BY <1>7, <1>8, <1>9, <1>10, <1>11, <1>12, <1>13 DEF IInv

\* A step past the write neither writes the row nor forgets what it wrote.
LEMMA LaterStep ==
  ASSUME IInv, NEW a \in Admins, change[a].by \in Actors, change[a].step # "update",
         change' \in [Admins -> Changes],
         \A b \in Admins \ {a} : change'[b] = change[b],
         \/ change'[a] = NoChange
         \/ /\ change'[a].by = change[a].by /\ change'[a].step # "update"
            /\ change'[a].user = change[a].user /\ AuditRow(a)' = AuditRow(a)
            /\ change'[a].step = "disconnect" => change'[a].audited,
         UNCHANGED <<status, writes>>
  PROVE  SnapshotsAreOrdered' /\ CommittedIsWritten' /\ AuditComesFirst'
  <1>1. SnapshotsAreOrdered'
    BY DEF IInv, SnapshotsAreOrdered, At, NoChange
  <1>2. CommittedIsWritten'
    <2> SUFFICES ASSUME NEW b \in Admins, change'[b].by = "platform", change'[b].step # "update"
                 PROVE  AuditRow(b)' \in ToSet(writes'[change'[b].user])
      BY DEF CommittedIsWritten
    <2>1. CASE b = a
      BY <2>1 DEF IInv, CommittedIsWritten, NoChange
    <2>2. CASE b # a
      BY <2>2 DEF IInv, CommittedIsWritten, AuditRow
    <2> QED BY <2>1, <2>2
  <1>3. AuditComesFirst'
    BY DEF IInv, AuditComesFirst, NoChange
  <1> QED BY <1>1, <1>2, <1>3

\* A request that is over leaves nothing in progress.
LEMMA CloseFacts ==
  ASSUME TypeOK, NEW a \in Admins, change[a].by \in Actors, Close(a)
  PROVE  /\ change' \in [Admins -> Changes] /\ change'[a] = NoChange
         /\ \A b \in Admins \ {a} : change'[b] = change[b]
         /\ outcome' \in Outcomes
         /\ outcome'.by = change[a].by /\ outcome'.audited = change[a].audited
  <1>1. NoChange \in Changes
    BY DEF Changes
  <1>2. outcome' \in Outcomes
    BY ChangeShape DEF Close, Outcomes
  <1> QED BY <1>1, <1>2 DEF Close, TypeOK

\* The steps after the write.
LEMMA AfterWriteStep ==
  ASSUME IInv, NEW a \in Admins,
         \/ Invalidate(a) \/ InvalidateFailsLogged(a) \/ InvalidateFailsEscapes(a)
         \/ AuditChange(a) \/ Finish(a)
  PROVE  IInv'
  <1>1. TypeOK /\ change[a].by \in Actors /\ change[a].step # "update"
        /\ UNCHANGED <<status, writes, guard, promotion>>
    BY DEF IInv, Invalidate, InvalidateFailsLogged, InvalidateFailsEscapes, AuditChange,
           Finish, At, Actors
  <1>2. /\ change[a] \in Changes /\ change[a].user \in Users /\ change[a].from \in Statuses
        /\ change[a].to \in Statuses /\ change[a] # NoChange /\ AuditRow(a) \in Rows
    BY <1>1, ChangeShape DEF AuditRow, Rows
  <1>3. CASE Invalidate(a) \/ InvalidateFailsLogged(a)
    <2>1. /\ change' \in [Admins -> Changes]
          /\ change'[a] = [change[a] EXCEPT !.step = "audit"]
          /\ \A b \in Admins \ {a} : change'[b] = change[b]
      BY <1>1, <1>3, ProceedType DEF Invalidate, InvalidateFailsLogged
    <2>2. /\ change'[a].by = change[a].by /\ change'[a].step = "audit"
          /\ change'[a].user = change[a].user /\ AuditRow(a)' = AuditRow(a)
      BY <1>1, <2>1, ChangeShape DEF AuditRow, Changes, NoChange, Actors
    <2>3. SnapshotsAreOrdered' /\ CommittedIsWritten' /\ AuditComesFirst'
      BY <1>1, <2>1, <2>2, LaterStep
    <2>4. UNCHANGED <<audit, outcome>>
      BY <1>3 DEF Invalidate, InvalidateFailsLogged
    <2>5. /\ cache' \in [Users -> Statuses \cup {Miss}]
          /\ dropped' \in [Users -> {"kept", "overlapped", "clean"}]
      BY <1>1, <1>3 DEF Invalidate, InvalidateFailsLogged, TypeOK
    <2>6. TypeOK'
      BY <1>1, <2>1, <2>4, <2>5 DEF TypeOK
    <2>7. NoStaleFill' /\ SettledCacheIsCurrent'
      <3> SUFFICES ASSUME NEW u \in Users, dropped'[u] = "clean"
                   PROVE  ~StaleFill(u)' /\ cache'[u] \in {Miss, status'[u]}
        BY DEF NoStaleFill, SettledCacheIsCurrent
      <3>1. StaleFill(u)' <=> StaleFill(u)
        BY <1>1 DEF StaleFill
      <3>2. CASE Invalidate(a) /\ u = change[a].user
        BY <1>1, <3>1, <3>2 DEF Invalidate, TypeOK
      <3>3. CASE ~Invalidate(a) \/ u # change[a].user
        <4>1. dropped[u] = "clean" /\ cache'[u] = cache[u]
          BY <1>1, <1>3, <3>3 DEF Invalidate, InvalidateFailsLogged, TypeOK
        <4> QED BY <1>1, <3>1, <4>1 DEF IInv, NoStaleFill, SettledCacheIsCurrent
      <3> QED BY <3>2, <3>3
    <2>8. PlatformAuditIsExact' /\ PlatformChangeIsAudited'
      BY <1>1, <2>4 DEF IInv, PlatformAuditIsExact, PlatformChangeIsAudited
    <2> QED BY <2>3, <2>6, <2>7, <2>8 DEF IInv
  <1>4. CASE InvalidateFailsEscapes(a) \/ Finish(a)
    <2>1. Close(a) /\ UNCHANGED <<cache, audit, dropped>>
      BY <1>4 DEF InvalidateFailsEscapes, Finish
    <2>2. /\ change' \in [Admins -> Changes] /\ change'[a] = NoChange
          /\ \A b \in Admins \ {a} : change'[b] = change[b]
          /\ outcome' \in Outcomes
          /\ outcome'.by = change[a].by /\ outcome'.audited = change[a].audited
      BY <1>1, <2>1, CloseFacts
    <2>3. SnapshotsAreOrdered' /\ CommittedIsWritten' /\ AuditComesFirst'
      BY <1>1, <2>2, LaterStep
    <2>4. TypeOK'
      BY <1>1, <2>1, <2>2 DEF TypeOK
    <2>5. NoStaleFill' /\ SettledCacheIsCurrent'
      BY <1>1, <2>1 DEF IInv, NoStaleFill, SettledCacheIsCurrent, StaleFill
    <2>6. PlatformAuditIsExact'
      BY <1>1, <2>1 DEF IInv, PlatformAuditIsExact
    <2>7. PlatformChangeIsAudited'
      BY <1>4, <2>2 DEF IInv, AuditComesFirst, PlatformChangeIsAudited, Finish,
         InvalidateFailsEscapes, At
    <2> QED BY <2>3, <2>4, <2>5, <2>6, <2>7 DEF IInv
  <1>5. CASE AuditChange(a)
    <2>1. /\ change' = [change EXCEPT ![a].step = "disconnect", ![a].audited = TRUE]
          /\ audit' = audit \cup {AuditRow(a)} \/ audit' = audit
          /\ UNCHANGED <<cache, outcome, dropped>>
      BY <1>5 DEF AuditChange
    <2>2. [change[a] EXCEPT !.step = "disconnect", !.audited = TRUE] \in Changes
      BY <1>1, ChangeShape DEF Changes, NoChange, Actors
    <2>3. /\ change' \in [Admins -> Changes]
          /\ change'[a] = [change[a] EXCEPT !.step = "disconnect", !.audited = TRUE]
          /\ \A b \in Admins \ {a} : change'[b] = change[b]
      BY <1>1, <2>1, <2>2 DEF TypeOK
    <2>4. /\ change'[a].by = change[a].by /\ change'[a].step = "disconnect"
          /\ change'[a].user = change[a].user /\ AuditRow(a)' = AuditRow(a)
          /\ change'[a].audited = TRUE
      BY <1>1, <2>3, ChangeShape DEF AuditRow, Changes, NoChange, Actors
    <2>5. SnapshotsAreOrdered' /\ CommittedIsWritten' /\ AuditComesFirst'
      BY <1>1, <2>3, <2>4, LaterStep
    <2>6. TypeOK'
      BY <1>1, <1>2, <2>1, <2>3 DEF TypeOK
    <2>7. NoStaleFill' /\ SettledCacheIsCurrent'
      BY <1>1, <2>1 DEF IInv, NoStaleFill, SettledCacheIsCurrent, StaleFill
    <2>8. PlatformAuditIsExact'
      <3>1. change[a].by = "platform" => AuditRow(a) \in ToSet(writes[change[a].user])
        BY <1>1 DEF IInv, CommittedIsWritten
      <3>2. AuditRow(a).by = change[a].by /\ AuditRow(a).user = change[a].user
        BY DEF AuditRow
      <3> QED BY <1>1, <2>1, <3>1, <3>2 DEF IInv, PlatformAuditIsExact
    <2>9. PlatformChangeIsAudited'
      BY <2>1 DEF IInv, PlatformChangeIsAudited
    <2> QED BY <2>5, <2>6, <2>7, <2>8, <2>9 DEF IInv
  <1> QED BY <1>3, <1>4, <1>5

\* A request or the whole process ends before its write, or in the middle.
LEMMA GoneStep ==
  ASSUME IInv, Crash \/ \E a \in Admins : WriteFails(a)
  PROVE  IInv'
  <1>1. /\ UNCHANGED <<status, writes, cache, audit, outcome, dropped>>
        /\ TypeOK
    BY DEF Crash, WriteFails, IInv
  <1>2. /\ change' \in [Admins -> Changes]
        /\ \A b \in Admins : change'[b] \in {change[b], NoChange}
    BY <1>1 DEF Crash, WriteFails, TypeOK, Changes
  <1>3. /\ guard' \in [Guards -> [user : Users \cup {"none"}, seen : Statuses \cup {Miss}]]
        /\ \A g \in Guards : guard'[g] \in {guard[g], NoFill}
    BY <1>1 DEF Crash, WriteFails, TypeOK, NoFill
  <1>4. promotion' \in [Users -> {"unverified", "promote", "verified"}]
    BY <1>1 DEF Crash, WriteFails, TypeOK
  <1>5. TypeOK'
    BY <1>1, <1>2, <1>3, <1>4 DEF TypeOK
  <1>6. SnapshotsAreOrdered'
    BY <1>1, <1>2 DEF IInv, SnapshotsAreOrdered, At, NoChange
  <1>7. CommittedIsWritten'
    <2> SUFFICES ASSUME NEW b \in Admins, change'[b].by = "platform", change'[b].step # "update"
                 PROVE  AuditRow(b)' \in ToSet(writes'[change'[b].user])
      BY DEF CommittedIsWritten
    <2>1. change'[b] = change[b]
      BY <1>2 DEF NoChange
    <2> QED BY <1>1, <2>1 DEF IInv, CommittedIsWritten, AuditRow
  <1>8. AuditComesFirst'
    BY <1>2 DEF IInv, AuditComesFirst, NoChange
  <1>9. NoStaleFill' /\ SettledCacheIsCurrent'
    <2>1. \A u \in Users : StaleFill(u)' => StaleFill(u)
      BY <1>1, <1>3 DEF StaleFill, NoFill
    <2> QED BY <1>1, <2>1 DEF IInv, NoStaleFill, SettledCacheIsCurrent
  <1>10. PlatformAuditIsExact' /\ PlatformChangeIsAudited'
    BY <1>1 DEF IInv, PlatformAuditIsExact, PlatformChangeIsAudited
  <1> QED BY <1>5, <1>6, <1>7, <1>8, <1>9, <1>10 DEF IInv

\* The hook's conditional write is a write like the others.
LEMMA VerificationStep ==
  ASSUME IInv, NEW u \in Users, VerifyEmail(u) \/ AfterEmailVerified(u)
  PROVE  IInv'
  <1>1. TypeOK /\ UNCHANGED <<cache, guard, change, audit, outcome>>
    BY DEF IInv, VerifyEmail, AfterEmailVerified
  <1>2. promotion' \in [Users -> {"unverified", "promote", "verified"}]
    BY <1>1 DEF VerifyEmail, AfterEmailVerified, TypeOK
  <1>3. CASE UNCHANGED <<status, writes, dropped>>
    <2>1. TypeOK'
      BY <1>1, <1>2, <1>3 DEF TypeOK
    <2>2. SnapshotsAreOrdered' /\ CommittedIsWritten' /\ AuditComesFirst'
      BY <1>1, <1>3 DEF IInv, SnapshotsAreOrdered, CommittedIsWritten, AuditComesFirst, At,
         AuditRow
    <2>3. NoStaleFill' /\ SettledCacheIsCurrent'
      BY <1>1, <1>3 DEF IInv, NoStaleFill, SettledCacheIsCurrent, StaleFill
    <2>4. PlatformAuditIsExact' /\ PlatformChangeIsAudited'
      BY <1>1, <1>3 DEF IInv, PlatformAuditIsExact, PlatformChangeIsAudited
    <2> QED BY <2>1, <2>2, <2>3, <2>4 DEF IInv
  <1>4. CASE Write(u, "ACTIVE", "hook")
    <2>1. "ACTIVE" \in Statuses
      BY StatusAssumption
    <2>2. /\ status' \in [Users -> Statuses] /\ writes' \in [Users -> Seq(Rows)]
          /\ dropped' \in [Users -> {"kept", "overlapped", "clean"}]
          /\ Len(writes'[u]) = Len(writes[u]) + 1 /\ dropped'[u] = "kept"
          /\ \A v \in Users \ {u} : /\ writes'[v] = writes[v] /\ status'[v] = status[v]
                                    /\ dropped'[v] = dropped[v]
      BY <1>1, <1>4, <2>1, WriteType
    <2>3. \A v \in Users : ToSet(writes[v]) \subseteq ToSet(writes'[v])
      BY <1>1, <1>4, <2>1, WriteKeeps
    <2>4. TypeOK'
      BY <1>1, <1>2, <2>2 DEF TypeOK
    <2>5. SnapshotsAreOrdered'
      <3> SUFFICES ASSUME NEW b \in Admins, At(b, {"platform"}, "update")
                   PROVE  /\ change[b].version <= Len(writes'[change[b].user])
                          /\ change[b].version = Len(writes'[change[b].user])
                                => change[b].from = status'[change[b].user]
        BY <1>1 DEF SnapshotsAreOrdered, At
      <3>1. change[b].user \in Users /\ change[b].version \in Nat
        BY <1>1, ChangeShape DEF At, Actors
      <3>2. Len(writes[u]) \in Nat
        BY <1>1 DEF TypeOK
      <3>3. /\ change[b].version <= Len(writes[change[b].user])
            /\ change[b].version = Len(writes[change[b].user])
                  => change[b].from = status[change[b].user]
        BY DEF IInv, SnapshotsAreOrdered
      <3>4. CASE change[b].user = u
        <4>1. Len(writes'[change[b].user]) = Len(writes[u]) + 1
          BY <2>2, <3>4
        <4> QED BY <3>1, <3>2, <3>3, <3>4, <4>1
      <3>5. CASE change[b].user # u
        BY <2>2, <3>1, <3>3, <3>5
      <3> QED BY <3>4, <3>5
    <2>6. CommittedIsWritten'
      <3> SUFFICES ASSUME NEW b \in Admins, change[b].by = "platform", change[b].step # "update"
                   PROVE  AuditRow(b) \in ToSet(writes'[change[b].user])
        BY <1>1 DEF CommittedIsWritten, AuditRow
      <3>1. change[b].user \in Users
        BY <1>1, ChangeShape DEF Actors
      <3> QED BY <2>3, <3>1 DEF IInv, CommittedIsWritten
    <2>7. AuditComesFirst'
      BY <1>1 DEF IInv, AuditComesFirst
    <2>8. NoStaleFill' /\ SettledCacheIsCurrent'
      BY <1>1, <2>2 DEF IInv, NoStaleFill, SettledCacheIsCurrent, StaleFill
    <2>9. PlatformAuditIsExact'
      <3>1. \A r \in audit : r.user \in Users
        BY <1>1 DEF TypeOK, Rows
      <3> QED BY <1>1, <2>3, <3>1 DEF IInv, PlatformAuditIsExact
    <2>10. PlatformChangeIsAudited'
      BY <1>1 DEF IInv, PlatformChangeIsAudited
    <2> QED BY <2>4, <2>5, <2>6, <2>7, <2>8, <2>9, <2>10 DEF IInv
  <1> QED BY <1>3, <1>4 DEF VerifyEmail, AfterEmailVerified

\* The guard's reads, fills and expiries.
LEMMA GuardStep ==
  ASSUME IInv,
         \/ \E g \in Guards : GuardReads(g) \/ GuardFills(g) \/ \E u \in Users : GuardMisses(g, u)
         \/ \E u \in Users : EntryExpires(u)
  PROVE  IInv'
  <1>1. TypeOK /\ UNCHANGED <<status, writes, change, promotion, audit, outcome, dropped>>
    BY DEF IInv, GuardReads, GuardFills, GuardMisses, EntryExpires
  <1> DEFINE Fill == [user : Users \cup {"none"}, seen : Statuses \cup {Miss}]
  <1>2. SnapshotsAreOrdered' /\ CommittedIsWritten' /\ AuditComesFirst'
    BY <1>1 DEF IInv, SnapshotsAreOrdered, CommittedIsWritten, AuditComesFirst, At, AuditRow
  <1>3. PlatformAuditIsExact' /\ PlatformChangeIsAudited'
    BY <1>1 DEF IInv, PlatformAuditIsExact, PlatformChangeIsAudited
  <1>4. ASSUME guard' \in [Guards -> Fill], cache' \in [Users -> Statuses \cup {Miss}]
        PROVE  TypeOK'
    BY <1>1, <1>4 DEF TypeOK
  <1>5. ASSUME NEW g \in Guards, NEW u \in Users, GuardMisses(g, u) PROVE IInv'
    <2>1. guard' = [guard EXCEPT ![g] = [user |-> u, seen |-> Miss]] /\ cache' = cache
      BY <1>5 DEF GuardMisses
    <2>2. guard' \in [Guards -> Fill] /\ cache' \in [Users -> Statuses \cup {Miss}]
      BY <1>1, <2>1 DEF TypeOK
    <2>3. \A v \in Users : StaleFill(v)' => StaleFill(v)
      BY <1>1, <2>1 DEF StaleFill, TypeOK
    <2>4. NoStaleFill' /\ SettledCacheIsCurrent'
      BY <1>1, <2>1, <2>3 DEF IInv, NoStaleFill, SettledCacheIsCurrent
    <2> QED BY <1>2, <1>3, <1>4, <2>2, <2>4 DEF IInv
  <1>6. ASSUME NEW g \in Guards, GuardReads(g) PROVE IInv'
    <2>1. /\ guard[g] # NoFill /\ guard[g].seen = Miss /\ cache' = cache
          /\ guard' = [guard EXCEPT ![g].seen = status[guard[g].user]]
          /\ guard[g] \in Fill
      BY <1>1, <1>6 DEF GuardReads, TypeOK
    <2>2. guard[g].user \in Users
      BY <2>1 DEF NoFill
    <2>3. status[guard[g].user] \in Statuses
      BY <1>1, <2>2 DEF TypeOK
    <2>4. guard' \in [Guards -> Fill] /\ cache' \in [Users -> Statuses \cup {Miss}]
      BY <1>1, <2>1, <2>2, <2>3 DEF TypeOK
    <2>5. \A v \in Users : StaleFill(v)' => StaleFill(v)
      BY <1>1, <2>1 DEF StaleFill, TypeOK
    <2>6. NoStaleFill' /\ SettledCacheIsCurrent'
      BY <1>1, <2>1, <2>5 DEF IInv, NoStaleFill, SettledCacheIsCurrent
    <2> QED BY <1>2, <1>3, <1>4, <2>4, <2>6 DEF IInv
  <1>7. ASSUME NEW g \in Guards, GuardFills(g) PROVE IInv'
    <2>1. /\ cache' = [cache EXCEPT ![guard[g].user] = guard[g].seen]
          /\ guard' = [guard EXCEPT ![g] = NoFill]
          /\ guard[g] \in Fill /\ guard[g].seen # Miss
      BY <1>1, <1>7 DEF GuardFills, TypeOK
    <2>2. guard' \in [Guards -> Fill] /\ cache' \in [Users -> Statuses \cup {Miss}]
      BY <1>1, <2>1 DEF TypeOK, NoFill
    <2>3. \A v \in Users : StaleFill(v)' => StaleFill(v)
      BY <1>1, <2>1 DEF StaleFill, TypeOK, NoFill
    <2>4. \A v \in Users : dropped[v] = "clean" /\ v = guard[g].user => guard[g].seen = status[v]
      BY <2>1 DEF IInv, NoStaleFill, StaleFill
    <2>5. NoStaleFill' /\ SettledCacheIsCurrent'
      BY <1>1, <2>1, <2>3, <2>4 DEF IInv, NoStaleFill, SettledCacheIsCurrent, TypeOK
    <2> QED BY <1>2, <1>3, <1>4, <2>2, <2>5 DEF IInv
  <1>8. ASSUME NEW u \in Users, EntryExpires(u) PROVE IInv'
    <2>1. cache' = [cache EXCEPT ![u] = Miss] /\ guard' = guard
      BY <1>8 DEF EntryExpires
    <2>2. guard' \in [Guards -> Fill] /\ cache' \in [Users -> Statuses \cup {Miss}]
      BY <1>1, <2>1 DEF TypeOK
    <2>3. NoStaleFill' /\ SettledCacheIsCurrent'
      BY <1>1, <2>1 DEF IInv, NoStaleFill, SettledCacheIsCurrent, StaleFill, TypeOK
    <2> QED BY <1>2, <1>3, <1>4, <2>2, <2>3 DEF IInv
  <1> QED BY <1>5, <1>6, <1>7, <1>8

\* A row has at most MaxChanges versions, so a snapshot's number has its type.
HistoriesAreBounded == \A u \in Users : Len(writes[u]) <= MaxChanges

LEMMA BoundStep == IInv /\ HistoriesAreBounded /\ [Next]_vars => HistoriesAreBounded'
  <1> SUFFICES ASSUME IInv, HistoriesAreBounded, [Next]_vars PROVE HistoriesAreBounded'
    OBVIOUS
  <1>1. TypeOK
    BY DEF IInv
  <1>2. ASSUME NEW u \in Users, NEW s \in Statuses, NEW by \in Actors \cup {"hook"},
               Write(u, s, by)
        PROVE  HistoriesAreBounded'
    <2>1. Len(writes[u]) < MaxChanges /\ Len(writes[u]) \in Nat
      BY <1>1, <1>2 DEF Write, TypeOK
    <2>2. /\ Len(writes'[u]) = Len(writes[u]) + 1
          /\ \A v \in Users \ {u} : writes'[v] = writes[v]
      BY <1>1, <1>2, WriteType
    <2>3. \A v \in Users : Len(writes'[v]) <= MaxChanges
      BY <2>1, <2>2, MaxChangesAssumption DEF HistoriesAreBounded
    <2> QED BY <2>3 DEF HistoriesAreBounded
  <1>3. CASE UNCHANGED writes
    BY <1>3 DEF HistoriesAreBounded
  <1>4. ASSUME NEW a \in Admins, UpdateStatus(a) \/ CommitTransaction(a)
        PROVE  HistoriesAreBounded'
    <2>1. Write(change[a].user, change[a].to, change[a].by) /\ change[a].by \in Actors
      BY <1>4 DEF UpdateStatus, CommitTransaction, At, Actors
    <2> QED BY <1>1, <1>2, <2>1, ChangeShape
  <1>5. ASSUME NEW u \in Users, AfterEmailVerified(u) PROVE HistoriesAreBounded'
    BY <1>2, <1>3, <1>5, StatusAssumption DEF AfterEmailVerified
  <1>6. CASE UNCHANGED vars
    BY <1>3, <1>6 DEF vars
  <1> QED BY <1>3, <1>4, <1>5, <1>6 DEF Next, ChangeStep, WriteFails, Invalidate,
        InvalidateFailsLogged, InvalidateFailsEscapes, AuditChange, Finish, FindForUpdate,
        BeginTransaction, VerifyEmail, EntryExpires, GuardReads, GuardFills, GuardMisses, Crash

LEMMA InvStep == IInv /\ HistoriesAreBounded /\ [Next]_vars => IInv'
  <1> SUFFICES ASSUME IInv, HistoriesAreBounded, [Next]_vars PROVE IInv'
    OBVIOUS
  <1>1. ASSUME NEW a \in Admins, ChangeStep(a) PROVE IInv'
    BY <1>1, CommitStep, AfterWriteStep, GoneStep DEF ChangeStep
  <1>2. ASSUME NEW a \in Admins, NEW u \in Users, NEW s \in Statuses,
               FindForUpdate(a, u, s) \/ BeginTransaction(a, u, s)
        PROVE  IInv'
    BY <1>2, BeginStep DEF HistoriesAreBounded
  <1>3. CASE UNCHANGED vars
    BY <1>3 DEF vars, IInv, TypeOK, SnapshotsAreOrdered, CommittedIsWritten, AuditComesFirst,
       NoStaleFill, SettledCacheIsCurrent, PlatformAuditIsExact, PlatformChangeIsAudited, At,
       AuditRow, StaleFill
  <1> QED BY <1>1, <1>2, <1>3, VerificationStep, GuardStep, GoneStep DEF Next
-----------------------------------------------------------------------------
(* The theorems.                                                           *)

\* The inductive invariant holds throughout.
THEOREM StatusInvariance == Spec => [](IInv /\ HistoriesAreBounded)
  <1>1. Init => HistoriesAreBounded
    BY MaxChangesAssumption DEF Init, HistoriesAreBounded
  <1> QED BY <1>1, InvInit, InvStep, BoundStep, PTL DEF Spec

\* Rows, cache, changes in progress and audit keep the shape the code gives them.
THEOREM StatusTypeCorrect == Spec => []TypeOK
  <1>1. IInv => TypeOK
    BY DEF IInv
  <1> QED BY <1>1, StatusInvariance, PTL

\* A status cache entry dropped after the last write, with no older fill still
\* to land, is current (the delete after the commit in both status changes).
THEOREM CacheIsCurrent == Spec => []SettledCacheIsCurrent
  <1>1. IInv => SettledCacheIsCurrent
    BY DEF IInv
  <1> QED BY <1>1, StatusInvariance, PTL

\* A platform audit row names a transition that took place: the previous status
\* is read inside the transaction that writes the new one.
THEOREM AuditIsExact == Spec => []PlatformAuditIsExact
  <1>1. IInv => PlatformAuditIsExact
    BY DEF IInv
  <1> QED BY <1>1, StatusInvariance, PTL

\* A committed platform change is over only after its audit was attempted.
THEOREM ChangeIsAudited == Spec => []PlatformChangeIsAudited
  <1>1. IInv => PlatformChangeIsAudited
    BY DEF IInv
  <1> QED BY <1>1, StatusInvariance, PTL

\* No verification of an address lifts a suspension (afterEmailVerified updates
\* only a row that is still pending).
THEOREM SuspensionStands == Spec => SuspensionOutlivesVerification
  <1> DEFINE Lifted(u) == status[u] \in Blocked /\ status'[u] \notin Blocked
             ByAdmin(u) == Last(writes'[u]).by \in Actors
  <1>1. IInv /\ [Next]_vars => [\A u \in Users : Lifted(u) => ByAdmin(u)]_vars
    <2> SUFFICES ASSUME IInv, Next, NEW u \in Users, Lifted(u) PROVE ByAdmin(u)
      OBVIOUS
    <2>1. TypeOK
      BY DEF IInv
    <2>2. status' # status
      OBVIOUS
    <2>3. ASSUME NEW a \in Admins, UpdateStatus(a) \/ CommitTransaction(a) PROVE ByAdmin(u)
      <3>1. Write(change[a].user, change[a].to, change[a].by) /\ change[a].by \in Actors
        BY <2>3 DEF UpdateStatus, CommitTransaction, At, Actors
      <3>2. change[a].user = u
        <4>1. change[a].user # u => status'[u] = status[u]
          BY <2>1, <3>1 DEF Write, TypeOK
        <4> QED BY <4>1
      <3>3. change[a].to \in Statuses
        BY <2>1, <3>1, ChangeShape
      <3>4. change[a].by \in Actors \cup {"hook"}
        BY <3>1
      <3>5. Last(writes'[u]).by = change[a].by
        <4> HIDE DEF Lifted, ByAdmin
        <4>1. Write(u, change[a].to, change[a].by)
          BY <3>1, <3>2
        <4> QED BY <2>1, <3>3, <3>4, <4>1, WriteKeeps
      <3> QED BY <3>1, <3>5
    <2>4. ASSUME NEW v \in Users, AfterEmailVerified(v) PROVE FALSE
      <3>1. status[v] = "PENDING" /\ Write(v, "ACTIVE", "hook")
        BY <2>2, <2>4 DEF AfterEmailVerified
      <3>2. v = u
        BY <2>1, <3>1, WriteType, StatusAssumption
      <3> QED BY <3>1, <3>2, StatusAssumption
    <2> QED BY <2>2, <2>3, <2>4 DEF Next, ChangeStep, WriteFails, Invalidate,
          InvalidateFailsLogged, InvalidateFailsEscapes, AuditChange, Finish, FindForUpdate,
          BeginTransaction, VerifyEmail, EntryExpires, GuardReads, GuardFills, GuardMisses, Crash
  <1> QED BY <1>1, StatusInvariance, PTL DEF Spec, SuspensionOutlivesVerification
=============================================================================
