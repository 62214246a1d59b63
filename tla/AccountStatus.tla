---------------------------- MODULE AccountStatus ---------------------------
(***************************************************************************)
(* Changes of an account's status and what has to follow each of them:     *)
(* UsersService.updateStatus (tenant admins), PlatformService              *)
(* .updateUserStatus (platform admins) and AppAuthHooks.afterEmailVerified *)
(* write User.status; the first two also drop the library guard's cached   *)
(* copy, write an audit row and (tenant admins only) disconnect sockets.   *)
(*                                                                         *)
(* The calls to PostgreSQL and Redis are awaits: any of them can fail, the *)
(* process can crash between any two, and concurrent requests interleave.  *)
(* The guard (library code, external) fills its cache on a miss with what  *)
(* the database held when it asked.                                        *)
(***************************************************************************)
EXTENDS Integers, Sequences, SequencesExt

CONSTANTS
    Users,          \* account rows
    Admins,         \* concurrent status-change requests
    Guards,         \* concurrent authenticated requests
    Statuses,       \* UserStatus
    Blocked,        \* BLOCKED_USER_STATUSES
    MaxChanges      \* bound on the writes to a row

ASSUME StatusAssumption ==
    /\ Blocked \subseteq Statuses
    /\ {"PENDING", "ACTIVE"} \subseteq Statuses \ Blocked
ASSUME MaxChangesAssumption == MaxChanges \in Nat

\* No cached entry.
Miss == "miss"
Actors == {"tenant", "platform"}

VARIABLES
    status,         \* User.status
    writes,         \* the writes of each row, oldest first: its row versions
    cache,          \* the guard's us: entries
    guard,          \* the guard's fills under way
    change,         \* the status changes under way
    promotion,      \* where each account's email verification is
    audit,          \* the status rows of AuditLog
    outcome,        \* history: the change that was over last, crashes aside
    dropped         \* history: what became of each cache entry since the last write

vars == <<status, writes, cache, guard, change, promotion, audit, outcome, dropped>>

NoFill == [user |-> "none", seen |-> Miss]
NoChange == [by |-> "none", step |-> "none"]

\* A write of User.status, and the shape of the audit row that describes it.
Rows == [user : Users, from : Statuses, to : Statuses, by : Actors \cup {"hook"}]

Changes == {NoChange} \cup
    [by : Actors, step : {"update", "invalidate", "audit", "disconnect"},
     user : Users, from : Statuses, to : Statuses, version : 0..MaxChanges,
     audited : BOOLEAN]

Outcomes == [by : Actors \cup {"none"}, to : Statuses, audited : BOOLEAN]

TypeOK ==
    /\ status \in [Users -> Statuses]
    /\ writes \in [Users -> Seq(Rows)]
    /\ cache \in [Users -> Statuses \cup {Miss}]
    /\ guard \in [Guards -> [user : Users \cup {"none"}, seen : Statuses \cup {Miss}]]
    /\ change \in [Admins -> Changes]
    /\ promotion \in [Users -> {"unverified", "promote", "verified"}]
    /\ audit \subseteq Rows
    /\ outcome \in Outcomes
    /\ dropped \in [Users -> {"kept", "overlapped", "clean"}]

Init ==
    /\ status \in [Users -> {"PENDING", "ACTIVE"}]
    /\ writes = [u \in Users |-> <<>>]
    /\ cache = [u \in Users |-> Miss]
    /\ guard = [g \in Guards |-> NoFill]
    /\ change = [a \in Admins |-> NoChange]
    /\ promotion = [u \in Users |->
                       IF status[u] = "PENDING" THEN "unverified" ELSE "verified"]
    /\ audit = {}
    /\ outcome = [by |-> "none", to |-> "ACTIVE", audited |-> FALSE]
    /\ dropped = [u \in Users |-> "kept"]
-----------------------------------------------------------------------------
At(a, by, step) == change[a].by \in by /\ change[a].step = step

Proceed(a, step) == change' = [change EXCEPT ![a].step = step]

\* A committed write of the row: a new row version.
Write(u, s, by) ==
    /\ Len(writes[u]) < MaxChanges
    /\ status' = [status EXCEPT ![u] = s]
    /\ writes' = [writes EXCEPT ![u] =
                     Append(@, [user |-> u, from |-> status[u], to |-> s, by |-> by])]
    /\ dropped' = [dropped EXCEPT ![u] = "kept"]

\* The request is over, with or without an error answer.
Close(a) ==
    /\ outcome' = [by |-> change[a].by, to |-> change[a].to,
                   audited |-> change[a].audited]
    /\ change' = [change EXCEPT ![a] = NoChange]
-----------------------------------------------------------------------------
(* UsersService.updateStatus *)

\* findById outside any transaction: the status read here is the audited "from".
FindForUpdate(a, u, s) ==
    /\ change[a] = NoChange
    /\ change' = [change EXCEPT ![a] =
          [by |-> "tenant", step |-> "update", user |-> u, from |-> status[u], to |-> s,
           version |-> 0, audited |-> FALSE]]
    /\ UNCHANGED <<status, writes, cache, guard, promotion, audit, outcome, dropped>>

UpdateStatus(a) ==
    /\ At(a, {"tenant"}, "update")
    /\ Write(change[a].user, change[a].to, "tenant")
    /\ Proceed(a, "invalidate")
    /\ UNCHANGED <<cache, guard, promotion, audit, outcome>>

(* PlatformService.updateUserStatus *)

\* The SERIALIZABLE transaction takes its snapshot with the read.
BeginTransaction(a, u, s) ==
    /\ change[a] = NoChange
    /\ change' = [change EXCEPT ![a] =
          [by |-> "platform", step |-> "update", user |-> u, from |-> status[u], to |-> s,
           version |-> Len(writes[u]), audited |-> FALSE]]
    /\ UNCHANGED <<status, writes, cache, guard, promotion, audit, outcome, dropped>>

\* Fault: the read and the write do not share a SERIALIZABLE transaction.
CommitOverAnyVersion(a) ==
    /\ At(a, {"platform"}, "update")
    /\ Write(change[a].user, change[a].to, "platform")
    /\ Proceed(a, "invalidate")
    /\ UNCHANGED <<cache, guard, promotion, audit, outcome>>

\* The update commits only over the row version the snapshot saw.
CommitTransaction(a) ==
    LET u == change[a].user IN
    /\ At(a, {"platform"}, "update")
    /\ change[a].version = Len(writes[u])
    /\ Write(u, change[a].to, "platform")
    /\ Proceed(a, "invalidate")
    /\ UNCHANGED <<cache, guard, promotion, audit, outcome>>

\* The write fails (for the transaction: a serialization failure too); nothing
\* was changed and the request answers with an error.
WriteFails(a) ==
    /\ At(a, Actors, "update")
    /\ change' = [change EXCEPT ![a] = NoChange]
    /\ UNCHANGED <<status, writes, cache, guard, promotion, audit, outcome, dropped>>

(* the steps after the write *)

\* A guard is about to cache a status the row no longer has.
StaleFill(u) == \E g \in Guards : guard[g].user = u /\ guard[g].seen \notin {Miss, status[u]}

\* Fault: the key is built without the tenant, so the delete removes nothing.
InvalidateBareKey(a) ==
    LET u == change[a].user IN
    /\ At(a, Actors, "invalidate")
    /\ dropped' = [dropped EXCEPT ![u] = IF StaleFill(u) THEN "overlapped" ELSE "clean"]
    /\ Proceed(a, "audit")
    /\ UNCHANGED <<status, writes, cache, guard, promotion, audit, outcome>>

\* authRedis.del(us: key)
Invalidate(a) ==
    LET u == change[a].user IN
    /\ At(a, Actors, "invalidate")
    /\ cache' = [cache EXCEPT ![u] = Miss]
    /\ dropped' = [dropped EXCEPT ![u] = IF StaleFill(u) THEN "overlapped" ELSE "clean"]
    /\ Proceed(a, "audit")
    /\ UNCHANGED <<status, writes, guard, promotion, audit, outcome>>

\* Fault: the failed delete ends the platform request too.
InvalidateFailureEnds(a) ==
    /\ At(a, {"platform"}, "invalidate")
    /\ Close(a)
    /\ UNCHANGED <<status, writes, cache, guard, promotion, audit, dropped>>

\* PlatformService logs a failed delete and goes on.
InvalidateFailsLogged(a) ==
    /\ At(a, {"platform"}, "invalidate")
    /\ Proceed(a, "audit")
    /\ UNCHANGED <<status, writes, cache, guard, promotion, audit, outcome, dropped>>

\* UsersService lets it escape: the request ends here.
InvalidateFailsEscapes(a) ==
    /\ At(a, {"tenant"}, "invalidate")
    /\ Close(a)
    /\ UNCHANGED <<status, writes, cache, guard, promotion, audit, dropped>>

\* Fault: the row's account and its previous status are swapped.
AuditRowSwapped(a) == [user |-> change[a].from, from |-> change[a].user,
                       to |-> change[a].to, by |-> change[a].by]

AuditRow(a) == [user |-> change[a].user, from |-> change[a].from,
                to |-> change[a].to, by |-> change[a].by]

\* auditLog.create in its try/catch: the row may be lost, the change goes on.
AuditChange(a) ==
    /\ At(a, Actors, "audit")
    /\ audit' = audit \cup {AuditRow(a)} \/ UNCHANGED audit
    /\ change' = [change EXCEPT ![a].step = "disconnect", ![a].audited = TRUE]
    /\ UNCHANGED <<status, writes, cache, guard, promotion, outcome, dropped>>

\* maybeDisconnectBlockedUser (the tenant change only) closes sockets, which
\* AccessRevocation models, and the request answers.
Finish(a) ==
    /\ At(a, Actors, "disconnect")
    /\ Close(a)
    /\ UNCHANGED <<status, writes, cache, guard, promotion, audit, dropped>>

\* The process dies with the requests it was serving.
Crash ==
    /\ change' = [a \in Admins |-> NoChange]
    /\ guard' = [g \in Guards |-> NoFill]
    /\ promotion' = [u \in Users |->
                        IF promotion[u] = "promote" THEN "verified" ELSE promotion[u]]
    /\ UNCHANGED <<status, writes, cache, audit, outcome, dropped>>
-----------------------------------------------------------------------------
(* email verification: the library consumes the code, then calls the hook *)

VerifyEmail(u) ==
    /\ promotion[u] = "unverified"
    /\ promotion' = [promotion EXCEPT ![u] = "promote"]
    /\ UNCHANGED <<status, writes, cache, guard, change, audit, outcome, dropped>>

\* Fault: an unconditional update of the row.
ActivateUnconditionally(u) ==
    /\ promotion[u] = "promote"
    /\ promotion' = [promotion EXCEPT ![u] = "verified"]
    /\ Write(u, "ACTIVE", "hook") \/ UNCHANGED <<status, writes, dropped>>
    /\ UNCHANGED <<cache, guard, change, audit, outcome>>

\* updateMany WHERE status = PENDING; a failed write is logged and not retried.
AfterEmailVerified(u) ==
    /\ promotion[u] = "promote"
    /\ promotion' = [promotion EXCEPT ![u] = "verified"]
    /\ \/ status[u] = "PENDING" /\ Write(u, "ACTIVE", "hook")
       \/ UNCHANGED <<status, writes, dropped>>
    /\ UNCHANGED <<cache, guard, change, audit, outcome>>
-----------------------------------------------------------------------------
(* UserStatusGuard (external): a cache-aside read with a TTL *)

GuardMisses(g, u) ==
    /\ guard[g] = NoFill /\ cache[u] = Miss
    /\ guard' = [guard EXCEPT ![g] = [user |-> u, seen |-> Miss]]
    /\ UNCHANGED <<status, writes, cache, change, promotion, audit, outcome, dropped>>

GuardReads(g) ==
    /\ guard[g] # NoFill /\ guard[g].seen = Miss
    /\ guard' = [guard EXCEPT ![g].seen = status[guard[g].user]]
    /\ UNCHANGED <<status, writes, cache, change, promotion, audit, outcome, dropped>>

GuardFills(g) ==
    /\ guard[g].seen # Miss
    /\ cache' = [cache EXCEPT ![guard[g].user] = guard[g].seen]
    /\ guard' = [guard EXCEPT ![g] = NoFill]
    /\ UNCHANGED <<status, writes, change, promotion, audit, outcome, dropped>>

\* Fault: only refusals are cached with a TTL.
RefusalExpires(u) ==
    /\ cache[u] \in Blocked
    /\ cache' = [cache EXCEPT ![u] = Miss]
    /\ UNCHANGED <<status, writes, guard, change, promotion, audit, outcome, dropped>>

EntryExpires(u) ==
    /\ cache[u] # Miss
    /\ cache' = [cache EXCEPT ![u] = Miss]
    /\ UNCHANGED <<status, writes, guard, change, promotion, audit, outcome, dropped>>

\* What the guard decides from the cache for a request that arrives now.
GuardAdmits(u) == cache[u] \notin Blocked \cup {Miss}
-----------------------------------------------------------------------------
ChangeStep(a) ==
    \/ UpdateStatus(a) \/ CommitTransaction(a) \/ WriteFails(a)
    \/ Invalidate(a) \/ InvalidateFailsLogged(a) \/ InvalidateFailsEscapes(a)
    \/ AuditChange(a) \/ Finish(a)

Next ==
    \/ \E a \in Admins :
          \/ ChangeStep(a)
          \/ \E u \in Users, s \in Statuses : FindForUpdate(a, u, s) \/ BeginTransaction(a, u, s)
    \/ \E u \in Users : VerifyEmail(u) \/ AfterEmailVerified(u) \/ EntryExpires(u)
    \/ \E g \in Guards : GuardReads(g) \/ GuardFills(g) \/ \E u \in Users : GuardMisses(g, u)
    \/ Crash

Spec == Init /\ [][Next]_vars

\* Started calls return and a cache entry lives no longer than its TTL; nobody
\* is obliged to change a status or to send a request.
Fairness ==
    /\ \A a \in Admins : WF_vars(ChangeStep(a))
    /\ \A g \in Guards : WF_vars(GuardReads(g) \/ GuardFills(g))
    /\ \A u \in Users : WF_vars(EntryExpires(u))

FairSpec == Spec /\ Fairness
-----------------------------------------------------------------------------
(* Properties *)

\* Once a cache entry has been dropped after the last write, with no older fill
\* still to land, the guard never decides on anything but the row's own status
\* (users.service.ts:116-129, platform.service.ts:253-277).
SettledCacheIsCurrent ==
    \A u \in Users : dropped[u] = "clean" => cache[u] \in {Miss, status[u]}

\* Every platform audit row describes a transition that took place: a write from
\* exactly that status to that one, by a platform admin, whatever tenant admins
\* and verification hooks wrote meanwhile (platform.service.ts:224-228).
PlatformAuditIsExact ==
    \A row \in audit : row.by = "platform" => row \in ToSet(writes[row.user])

\* A committed platform change is never left without an audit attempt when its
\* request is over, even if the cache could not be invalidated
\* (platform.service.ts:258-263).
PlatformChangeIsAudited ==
    outcome.by = "platform" => outcome.audited

\* Verifying an email address never lifts a suspension: an account leaves a
\* blocked status only by an admin's write of that row (app-auth.hooks.ts:362-369).
SuspensionOutlivesVerification ==
    [][\A u \in Users :
          status[u] \in Blocked /\ status'[u] \notin Blocked
              => Last(writes'[u]).by \in Actors]_vars

\* A block that stands is enforced in the end: even when the delete failed, the
\* process crashed before it, or a fill overtook it, the guard stops admitting
\* the account once the stale entry has expired (platform.service.ts:261-263).
BlockIsEventuallyEnforced ==
    \A u \in Users : <>[](status[u] \in Blocked) => <>[](~GuardAdmits(u))
=============================================================================
