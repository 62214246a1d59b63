# nest-auth-example: a TLA+ development

The repository is a reference application for the `@bymax-one/nest-auth` library: a NestJS API
(`apps/api`), a Next.js web application (`apps/web`), PostgreSQL through Prisma, Redis, and a
WebSocket gateway for notifications. Tokens, sessions, tickets and most guards are library code and
are not in the repository; they appear here as the environment the application's code meets. What the
repository adds, and what can go wrong in it, is how several actors keep one fact consistent across
stores that do not share a transaction: an account that lost its access must lose it in the token
store, in the guard's cache, in the row and on every open socket; an invitation is a Redis key, a row
and a mail; the account a page shows, the cookies of the browser and the session of the server are
three copies of one thing.

Run everything from this directory: `tlc -config X.cfg MCX.tla` for a run of `PROJECT.json`,
`tlapm XProofs.tla` for the proofs of a module.

## 1. Inventory

| Component | Where | State it keeps | Operations | Modelled in |
|---|---|---|---|---|
| Notifications gateway | `apps/api/src/notifications/notifications.gateway.ts`, `realtime/` | `userSockets`, `forcedDisconnectAt`, `client.data` | `handleConnection` (ticket, header, cookie), `handleDisconnect`, `emitNewNotification`, `disconnectUser` | `NotificationsGateway`, `RealtimeCutoff` |
| Access-ending operations | `account.service.ts`, `platform.service.ts`, `users.service.ts`, `sign-out-everywhere-button.tsx`, the logout route | none of their own | change password, reset MFA, sign out everywhere, suspend (tenant, platform) | `AccessRevocation` |
| Account status and its cache | `users.service.ts`, `platform.service.ts`, `user-status-cache-key.ts`, `auth.constants.ts` | `User.status`, the guard's Redis entry, `AuditLog` | both `updateStatus` paths, the guard's fill, expiry, verification | `AccountStatus` |
| Lifecycle hooks | `auth/app-auth.hooks.ts` | rows and audit entries | `beforeRegister`, `afterEmailVerified`, `onOAuthLogin`, `beforeLogin`, `afterLogin`; audit-only hooks | `Onboarding`, `AccountStatus` (partly) |
| Invitations | `invitations/` | Redis key, `Invitation` row, mail | create, list, revoke; the library's accept | `Onboarding` |
| OAuth sign-in and user repository | `prisma-user.repository.ts`, hooks | `User` rows under two unique indexes | create, link, refuse | `Onboarding` |
| Workspace switch | `account.service.ts` 206-293, `tenant-switcher.tsx` | tokens of two rows of one person; page and cookies | candidate check and issue; the switcher's three calls | `Onboarding`, `WebSession` |
| HTTP guard chain | `app-jwt-auth.guard.ts`, `tenant-mfa-policy.guard.ts`, `app.module.ts` | `requiredTenantIds` | admit or refuse a request | `ApiRequests` |
| Tenants, projects, users, audit, account, platform controllers | `apps/api/src/{tenants,projects,users,audit,account,platform}` | rows; the memo of the MFA policy | the routes with their decorators and scope | `ApiRequests` |
| Environment and boot | `config/`, `main.ts`, `auth.module.ts`, `auth.config.ts` | what four readings of the environment decided | import, validate, construct, listen | `BootConfig` |
| Exception filter and error catalogue | `auth-exception.filter.ts`, `lib/auth-errors.ts`, `lib/auth-client.ts` | none | thrown error to body to sentence | `ErrorPath` |
| Web sign-in pages, proxy, workspace lookup | `apps/web/app/auth`, `proxy.ts`, `lib/tenants.ts`, `app/providers.tsx` | picker, form handlers, cookies shared by all tabs | login, register, verify, forgot, reset, accept, confirm, MFA challenge, Google button | `WebSession` |
| Dashboard and platform tables | `components/dashboard/*-table.tsx`, `components/platform` | rows, disabled buttons | load, change (optimistic or not), add, remove | `Panels` |
| Second-factor pages | `mfa-setup-card.tsx`, `mfa-disable-card.tsx`, `recovery-codes-modal.tsx`, both security pages | profile, card, codes shown | enrol, disable, regenerate, count | `SecondFactor` |
| Browser realtime client | `lib/ws-client.ts`, `notification-listener.tsx` | `socket`, `stopped`, `connectSeq`, `reconnectTimer` | `connect`, `openSocket`, `onclose`, `close`, `reconnect`, the listener's effect | `WsClient` (partly) |
| Platform console, account pages, emails | `lib/platform-auth.ts`, `components/platform`, the account forms, the email providers | see section 7 | | `Panels`, `SecondFactor`, `AccessRevocation`, `WsClient`, `WebSession`, `BootConfig` (partly) |
| Logger, health, debug, UI primitives, migrations, seed | | | | not modelled, see section 7 |

How they interact. A controller calls a service behind the guards; the service writes PostgreSQL,
deletes a Redis key, writes an audit row, and calls `UserConnectionPort.disconnectUser`, which the
gateway implements synchronously. The library's guard reads the Redis key and fills it on a miss. The
gateway awaits the library twice before it admits a socket; the browser's client asks for a ticket,
upgrades, and reacts to the close code. The pages talk to the API through cookies that belong to
every tab, and each page handler goes on after an await with what it captured before it.

What is hard: an await against a synchronous disconnect; a restart that forgets markers and memos
while Redis and rows live on; a cache fill that overtakes an invalidation; the failure of one of
several steps after the first has committed; two admins on one row; answers that overtake each other;
a close event of a socket already replaced; a cookie another tab writes between a choice and the
request it was for. `PROJECT.json` lists each under "hazards", at its line, with the properties that
would catch it going wrong; two have none, because the code lets them happen, and say so; others name in
a note the case their property excepts.

What makes each component correct:

* gateway: a cut-off takes every stream and every attempt under way with it, for good; a socket is
  only registered under its own account; what is cut off is also closed;
* access-ending operations: what they report as ended no longer streams;
* account status: the guard ends up deciding on the row; audit rows describe real transitions; a
  verification does not undo a suspension; no committed change loses its follow-up;
* invitations: a working link can be found and revoked; a revoked one is dead; no chain of them
  raises a role or leaves the workspace;
* sign-in and switch: tokens go to accounts that earned them, whatever happened between the steps;
  a Google identity stays with the account it made;
* guard chain and services: each handler has the caller it relies on; no request leaves its
  workspace; the MFA policy that is shown is the one enforced;
* boot: what four readings of one environment decided belongs together;
* pages: a credential goes to the workspace named; what is shown is what the cookies act as, what the
  server holds, and what the factor is; an error is told as what it was; controls come back;
* realtime client: one open socket per tab, the subscriber's; never stuck unless stopped, silent
  once stopped.

## 2. Modules

| Module | Role |
|---|---|
| `RealtimeCutoff` | abstract specification: attempts, streams, an atomic cut-off, delivery to streams |
| `NotificationsGateway` | the gateway, one action per stretch between awaits; implements `RealtimeCutoff` |
| `AccessRevocation` | extends the gateway with the five operations, each a sequence of a worker's steps; its steps make the gateway's environment concrete |
| `AccountStatus` | the status row, the cached copy, the audit rows, failures and crashes |
| `Onboarding` | accounts, invitations, registrations, verification, Google sign-in, login, workspace switch, on the server |
| `BootConfig` | the process from its environment to listening |
| `ApiRequests` | extends `BootConfig`: the guards in their order, the routes, the shared tables, restarts |
| `WebSession` | one tab: sign-in pages, dashboard, switcher, and the cookies it shares |
| `Panels`, `SecondFactor`, `ErrorPath` | the tables, the security pages, the path of an error |
| `WsClient` | the browser's realtime client, one action per callback |
| `MC…` | instances: constants' values, symmetry; `MCBrowser` puts the four web modules in one tab |
| `…Proofs` | inductive invariants and theorems; `BrowserProofs` for `WebSession`, `SecondFactor` and `ErrorPath` |

Everywhere a handler is cut at its awaits: a stretch of code without an await is one action, and
anything may happen between two of them. A call that can fail has a failing branch, and where the
code has none the handler ends as the code would.

**NotificationsGateway.** An account is a `(sub, tenantId)` pair. `pc[c]` is the await an admission is
at, `answer[c]` what the awaited call returned and nobody read yet. `handleConnection` is
`ConnectWithTicket`, `ConnectWithJwt` or `ConnectRefused`; `authenticateWithTicket` goes on in
`ResumeRedeemed` or `RefuseRedeemed`; the revocation lookup in `ResumeChecked` (which ends in
`AdmitSocket`, with the marker comparison) or `RefuseRevoked`. `Restart` loses the registry and the
markers and keeps what the library stores. `heard`, `overtaken` and `cutOff` are history.

**AccessRevocation.** A worker carries one operation and its next step; every step is the gateway's
`Revoke`, `SetStatus`, `ForceDisconnect`, `PeerCloses`, or nothing the sockets see. The revocation may
throw part of the way (`EndSessionsFails`), the cache delete may escape (`InvalidationEscapes`), a
browser's call may fail or its response be lost (`SignOutFails`, `GiveUp`), the process may restart.

**AccountStatus.** One action per database or Redis call. The tenant change reads the previous status
outside its write (`FindForUpdate`), the platform change inside the transaction (`BeginTransaction`,
`CommitTransaction`). The guard's fill is two awaits (`GuardMisses`, `GuardReads`, `GuardFills`),
which is what lets an old status land after the delete.

**Onboarding.** `users` is the table, with `from` remembering how a row came to be; `invKeys` and
`invRows` are the two halves of an invitation, `mail` what was delivered. A handler in `call` holds a
row or a token across its awaits: `InviteStoresKey`, `InviteStoresRow`, `InviteMails`;
`RevokeDeletesRow`, `RevokeDeletesKey`; `AcceptTakes`, `AcceptCreates`; and so on. `Conflicts` are
the unique indexes. `CallFails` ends any handler where it stands: an error or the process going away.
External: the library's accept, registration, login and verification around the hooks, and expiry.

**BootConfig, ApiRequests.** The environment is a function from variables to strings; decorators,
schema, factories and `main.ts` each read it (`ImportModules`, `Validate`, `Assemble`, `Bootstrap`).
`Routes` is
the table of the controllers' decorators; a request arrives with any cookie and any bearer together,
passes `AppJwtAuthGuard`, `TenantMfaPolicyGuard`, the role guards and `JwtPlatformGuard` in `Receive`,
and then runs its handler. `required` is the guard's copy of the MFA policy, read at start; `memo` the
account service's, read at the first request. A restart loses both.

**WebSession.** The person has an account in every workspace, so a workspace also names the account.
`jar` is the cookie jar, written by the other tabs as well. A form handler remembers what it sent and
what was meant. Nothing disables the Google button while its handler runs, so `clicks` is a set of
lookups under way, for whatever the picker showed at each click, and a form may be submitted beside
them. A lookup that answers stores the cookie and asks for the navigation (`OAuthResolved`), in the
place of one already asked for; the page and its handlers run on until the browser has read the cookie
(`OAuthLeaves`) and shows the next page (`OAuthGone`), and may write the cookie again (`Store`).
`Arrive` is a page load, which ends every handler; `Push` a navigation by the router, by the form's own
handler when it is done or by a link (`Follow`), which leaves the Google handlers running. `user` is
what AuthProvider shows, `probe` the answer to come of its `GET /me`.

**Panels.** One mounted table at a time, described by whose rows it lists, what its buttons do,
whether rows are added, and whether it changes a row ahead of the server. A call is made, done by the
server and answered in three steps, and answers may arrive in any order. A button that was pressed is
released where the handler's `finally` runs: with the load that follows its change, or with the change where
there is none (`EndsHandler`), whatever else is under way. `adrift` marks what the code does not repair
before the next load: see the exceptions in section 4.

**SecondFactor.** Both security pages, their cards and the modal, over the library's enrolment (codes
come with the set-up, the first code turns the factor on, and every session ends). A verification
carries the typed code alone, and so it may be one of an authenticator that another tab set up;
`typed` remembers of which.

**ErrorPath.** `catch` is the filter, `buildAuthClientError` and `readAuthErrorCode` the two readers,
`translateAuthError` and `mapAuthClientError` the catalogue, `pageSays` what the two pages that parse
the body themselves make of it, a body that is no JSON included. The module is a pure translation, checked
and proved for every kind of exception over two releases of the body.

**WsClient.** JavaScript callbacks do not interleave, so each is one action, in any order. A ticket
request records its `connectSeq` and the cookies it was sent with. A timer whose handle has been
overwritten is a stray: it fires and cannot be cancelled. `reconnect()` takes a socket's handlers off
before it closes it, `close()` does not.

## 3. Runs

| Run | Instance | Shows |
|---|---|---|
| `GatewayRaces` | two sockets of one account, one session, one ticket, a clock of two ticks | a disconnect is final for registered and for authenticating sockets; a token already revoked at a disconnect opens no stream afterwards, across restarts; every step is a step of the abstract channel (`ImplementsRealtimeCutoff`) |
| `GatewayAccounts` | two accounts, a token of another type, one socket, fairness | a socket sits under the account its token and ticket both name; a socket a disconnect overtook is closed in the end, unless its revocation lookup rejected |
| `AccessOperations` | the five operations, one worker, one socket, two sessions | what a returned operation promised does not stream; a suspension holds on the ticket path; every step is one the gateway's environment allows |
| `StatusChanges` | two admins, one request filling the cache, one verification | the settled cache is current, platform audit rows are exact and never missing, a suspension outlives a verification |
| `StatusLiveness` | one admin, one request, fairness | a block that stands is enforced in the end |
| `WsClientStreams` | two accounts, three sockets, five ticket requests | no zombie, the right account's stream, never stranded, quiet once stopped |
| `Onboarding` | two handlers of any route, two workspaces, two addresses, two ids, one invitation token, one Google identity | mailed links are listed, listed links work, revoked links are dead, roles never rise, a Google identity stays, tokens are earned |
| `ApiRequests` | every environment (boots or dies); one of them serves two handlers, three accounts, two workspaces, one of which is created meanwhile | the boot is consistent; callers are known; no request leaves its workspace; the policy shown is the one enforced; enrolment is forced |
| `Browser` | one tab on one part of the application, two workspaces, four rows, two calls in flight, two sets of codes | credentials go where named; the account shown is the session's; a settled table is the server's; codes shown are live; the card shows the factor; errors keep their meaning; controls come back |
| `PlatformSuspension` (violated) | one account, one socket | a platform suspension returns with the account's socket open |
| `WsClientZombies` (violated) | one account, three sockets | `close()` followed by `reconnect()` before the close event leaves two open sockets |
| `FailedSwitch` (violated) | one tab, two workspaces | a switch whose cookies were rotated and whose next call failed leaves the former account on the page over the session of the new one |

**Bounds.** One admission attempt per socket, and two sockets, are enough for an attempt under way
beside a registered stream of the same account. `MaxClock = 1` gives "same tick", "before" and
"after"; `admitSocket` distinguishes nothing else. `AccessOperations` runs at `MaxClock = 0`, where
every pair of instants ties; what it checks is proved for any clock. `MaxChanges = 2` writes to a row
are what a lost update or a stale "from" needs. Three WebSocket objects are one more than a
replacement needs, and five ticket requests let every pair of `connect()` callers overlap twice;
`MaxStrays = 1` because a second stray timer does what the first does. Two handlers in `Onboarding`
and `ApiRequests` give every pair of routes in every order of their awaits; `Asked` leaves the second
handler of `ApiRequests` the routes that take several steps or change what others read. `MaxCalls = 2`
is what one answer needs to overtake another; `Contested` and `Handled` keep three rows of a workspace
apart as acted on, also changed by others, and the person's own. `MaxSets = 2` lets another tab
enrol beside this one. `MaxHandlers = 2` handlers of the tab under way at once are two Google clicks
whose lookups overtake each other, a click beside a submitted form, or a click beside a navigation that
has not left; what `CredentialsGoWhereNamed` says of them is proved for any number. Symmetry is used only in runs without liveness, over sets whose members no
definition tells apart.

In `MCBrowser` the four web modules share a tab, one at a time: the pages do not run beside each
other, so a product of their states would only repeat each one's. The choice is made at the start.

**Fairness.** `FairSpec` of the gateway: a pending library call answers or rejects, the event loop
runs a ready continuation, and the `ws` close timeout ends every closing handshake. `FairSpec` of
`AccountStatus`: a started request goes on, a started fill goes on, the TTL ends a cache entry.
`AnswersCome` in `WebSession`: a request the browser has sent is answered or fails, as `fetch` does;
nothing is assumed of what the person or the other tabs do. Nobody is obliged to connect, log in,
suspend or send a request.

**Deadlock** is not checked in `ApiRequests`, where a process with a refused environment exits, and in
`Browser`, where a table that is only read stops once its rows are there.

## 4. Where the code and its documentation part

The three violated runs give the traces: `notifications.gateway.ts:43` (platform suspensions
disconnect), `CHANGELOG.md:97` (no zombie sockets), `tenant-switcher.test.tsx:401` (a failed switch
stays put).

Seen while modelling, without a run of their own. Realtime and status:

* `handleDisconnect` of a socket that closes while it is being authenticated finds no `client.data`,
  so `admitSocket` registers a dead socket (`notifications.gateway.ts:509`, `515`);
* the header and cookie paths of the gateway do not read the account status although its header
  (20-22) speaks of suspended users: `SuspensionHoldsOnTicketPath` is about tickets only;
* `sign-out-everywhere-button.tsx:113` disconnects before it logs out, so a tab that connects in
  between keeps streaming, against its header (line 2);
* `users.service.ts:116-118` speaks of a change enforced at once; a fill that read the row before the
  write can land after the delete and lasts until the TTL. Hence `SettledCacheIsCurrent` excludes an
  overlapped fill and `BlockIsEventuallyEnforced` is a liveness property;
* `users.service.ts:123` lets a failed delete escape where `platform.service.ts:258` catches it: audit
  row, notice and disconnect are skipped;
* `users.service.ts:107` reads the previous status outside the write: the tenant audit row can name a
  transition that never happened.

Sign-up, invitations, workspaces:

* `invitations.service.ts:222` says that the Redis entry expires naturally; `revoke` deletes it, and
  only logs when that fails; the library's own `POST /api/auth/invitations` stores the key only;
  nothing writes `acceptedAt`, so a used invitation stays listed;
* `docs/OAUTH_GOOGLE.md:112` links a matching email; `onOAuthLogin` refuses it;
* `beforeLogin` (`app-auth.hooks.ts:159-161`) records the address as typed, against lines 206-211;
* `README.md:77` and `account.controller.ts:134-136` say that switching logs out and never swaps a
  live context; the switcher swaps in place. When its fallback's logout call throws, `isSwitching`
  stays true;
* `account.service.ts:270-272` says that the dropdown never offers a workspace the caller cannot enter;
  it lists active siblings with an unverified address, which the token issue refuses;
* the `tenant_id` cookie is said to follow the session (`auth-client.ts:147`,
  `e2e/notifications-isolation.spec.ts:13`); the switcher never writes it. "Forgot password?" (login
  page 342) and the success pages of reset and verify drop the workspace of the link;
* `default-email.provider` describes mails without a workspace as a matter of a missing cookie only;
  with a stale cookie the confirmation goes to that cookie's workspace.

Guards, configuration, errors:

* `tenant-mfa-policy.guard.ts:14` (and `auth-client.mfa.ts:72`) says 403; the guard answers 400;
* `env.schema.ts:277-279` and `account.service.ts:144-146` describe when the MFA policy is read
  otherwise than `onModuleInit` and the lazy memo do; `env.schema.ts:200-207` asks for two Google
  variables, `resolveGoogleOauth` for three; `ConfigService` reads strings, not what the schema made
  of them; `app.module.ts:5` and `62` count five and four guards;
* the Stryker comment of `app-jwt-auth.guard.ts:77-85` calls a mutant equivalent that
  `HandlersKnowTheirCaller` tells apart; `tenants.controller.ts:26` says that both routes need a token;
* `auth-exception.filter.ts:232` and `auth-client.ts:441` say that the message of a 4xx reaches the
  person; `mapAuthClientError` drops it.

Pages:

* the Google buttons of `login/page.tsx:407` and `register/page.tsx:309` stay enabled while their lookup
  is under way: of two clicks for two workspaces the one answered last is carried out, which need not
  be the one made last. `CredentialsGoWhereNamed` speaks of the answered one. After
  `location.assign` the page runs on, and a form submitted before the click may store its own workspace
  (`login/page.tsx:163`) before the browser reads the cookie, although lines 389-391 say that the
  workspace is stored before navigating: excepted, with what another tab writes then;
* `mfa-setup-card.tsx:149` sends the typed code and nothing of the set-up it was read for.
  With a code of an authenticator that another tab set up later the modal shows codes that open
  nothing, against `docs/FEATURES.md:95`; `ShownCodesAreLive` excepts it;
* `verify-email/page.tsx:81` and `accept-invitation/page.tsx:86` parse a refusal inside the `try` whose
  catch says that the server could not be reached, so that a gateway's page is told as one, against the
  comment of `verify-email/page.tsx:89-90`; the pages that go through `apiFetch` answer the same
  gateway page with the general sentence. `ErrorsKeepTheirMeaning` says both;
* `platform-users-table.tsx` has no guard against an overtaken load, which then shows another
  workspace's rows; and a refusal restores what was captured while another call for the row was under
  way, a status the server may never have had. `SettledTableIsServerState` excepts both;
* `platform-login-form.tsx:72` goes to `/platform/mfa-challenge`, which does not exist; `redirectTo`
  is computed for callers that pass a router, and none does;
* `security/page.tsx:49-56` expects the refetch after disabling to find the session alive and calls
  enabling "not symmetric"; disabling the factor ends every session as well.
  Recovery codes are lost when another request finds the session dead before the modal is confirmed;
* `password-change-form.tsx` says that only the other sessions are revoked;
  `account.service.ts:316-330` ends this one as well.

## 5. Proofs

Every theorem is proved for every value of the constants that satisfies the named assumptions of its
module (each of which TLC evaluates in a run). Each module's properties are seldom inductive; the
invariant that is, and what it adds, is this.

* **`NotificationsGatewayProofs`** (`IInv`). Nothing in `DisconnectIsFinal` says why a socket still
  awaiting its lookup will be refused. `OvertakenWillBeRefused` does (an attempt a disconnect overtook
  finds its user's marker no older than its own start) and so does `CutOffWillBeRefused` for one that
  was told "live" before the cut-off, on top of `InFlightClaims` (an attempt began no later than
  now), `RegistryMatchesClaims` and `IdleIsBlank`.
  The same invariant carries the refinement (`GatewayImplementsChannel`), one lemma per group of
  actions: what only moves library state or the clock is not seen (`SurroundingsUnseen`), an arrival
  is an attempt (`ArrivalAttempts`), a continuation refuses or goes on (`LookupSeen`,
  `AdmissionSeen`), a disconnect is one cut-off of attempts and streams alike
  (`DisconnectImplementsCutOff`), which is where `RegistryMatchesClaims` is needed: the registry must
  hold an account's sockets under that account. `CutOffForGood` is proved of the channel's own steps
  and reaches the gateway through the refinement.
* **`AccessRevocationProofs`** (`AccInv`). `StepIsNext`: every operation's step is a step of the
  gateway or its environment, so `OperationsStayWithinGateway` carries the gateway's invariant over,
  for any number of concurrent requests, and `OperationsImplementChannel` the refinement with it.
  `PromisesHold` then needs only `EndedInOrder`: operations
  revoke before they disconnect, so what they promise is in `cutOff`. `SuspensionHolds` needs
  `TicketsRaced`: a redemption that saw the account active began before its disconnect.
* **`AccountStatusProofs`** (`IInv`). `SnapshotsAreOrdered` (a row not written since the snapshot has
  the status of the snapshot) makes the platform's audit exact; `NoStaleFill` keeps a dropped entry
  current; `AuditComesFirst` and `CommittedIsWritten` tie a change's last step to its audit.
  `SuspensionStands` is an action property from the same invariant.
* **`OnboardingProofs`** (`IInv`). `TokenInv` says what each handler may count on about the token it
  holds between its awaits: a token is stored by one handler only (`Alone`), a mailed one has its row
  or lost it, a listed one has its key or was used or expired. `RowsInv` says where each row, each
  stored invitation and each row still in a handler's hands came from, which makes
  `InvitationsNeverRise` and `GoogleStaysWithItsAccount` inductive. `TokensAreAlwaysEarned` adds that
  a handler past its check belongs to an account that was not cut off throughout.
* **`BrowserProofs`**, for three of the parts `MCBrowser` composes.
  *Signing in* (`IInv`): `PickerInv` ties the picker to the workspace last named while lookups are
  under way, `SentInv` what the form's handler holds to what was meant, `GoogleInv` each click's lookup to
  the workspace named when it was made and the navigation that has not left to the cookie, until
  somebody writes it; `ShownInv` the answer to come of
  `GET /me` to the session as long as no other tab touched it.
  *The second factor* (`FInv`): a request under way and the modal exclude each other, and a
  verification that succeeds turns on the set of the code that was `typed` (`CallInv`);
  `DoneInv` says what the server did and the card has not heard of; `ProfileInv` and `CountInv` say
  that profile and count are right, or on their way because this page changed the factor.
  *Failures*: `FailuresAreTold` needs no invariant beyond "some failure of those kinds"; its lemmas
  say per kind of exception what the filter keeps of its code (`OwnCodeKept`), what it puts in the
  place of a missing one (`CodeGiven`), and that both readers see that code in both releases of the
  body (`BodyIsRead`, `ToldByCode`).
* **`PanelsProofs`** (`PanInv`). A settled table says nothing of calls in flight; what makes it
  inductive does. `AnswersAreFresh`: an answer that is not late says of a row what the server has,
  or a later answer about that row is on its way. `TableMatches`: a row shows what the server has, or
  an answer about it is on its way, or only its status is ahead, by a toggle still on its way.
  `CrossedCalls` makes the history variable `crossed` complete for the console, so that
  `RollbackIsRight`: a toggle that crossed no call would be rolled back to what the server has.
  `LoadingLoads` says that a table that is loading has a load in flight. The queues are sequences of
  any length; `AfterOne` and `WithoutCall` say what taking one element out leaves of their order.
  `DisabledControlsAreBusy` is the safe half of what the tables' controls do: each is disabled only
  while a call whose answer releases it is in flight (`BusyControls`), so it needs no more than that
  call's answer, one way or the other.
* **`ApiRequestsProofs`** (`AInv`). `RoutesAreAsNamed` reads the decorator table once;
  `TargetsAreFound` keeps a looked-up row in the caller's workspace over the next await;
  `ClaimsAreBacked` ties what a token claims to the row, or to a reset that stopped half-way;
  `PolicyOfThisProcess` says that the guard's copy of the policy is no younger than the memo. For the
  boot, `ReadingsAgree` says of each phase that what was decided so far follows from one environment.
* **`WsClientProofs`**. A stopped client holds no socket (`StoppedHoldsNothing`), a held one is open
  with its handlers (`SlotIsOpen`), a closing socket that can still fire belongs to a stopped client
  short of an overtaken close (`ClosingMeansStopped`), and the ticket that would be acted on was
  asked for with the subscriber's cookies (`CurrentTicket`). `StaysQuiet` is an action property.

**Assumptions.** What the theorems assume of the constants is named where they are declared:
sentinels that are no member of a set (`NoneAssumption`, `TenantsAssumption`, part of
`PanelsAssumption`), codes and sentences that differ (`ErrorPathAssumption`), rows and tokens that
belong to somebody (`TokenAssumption`, `SeedAssumption`, `DirectoryAssumption`), bounds that are
naturals. None of them limits the size of a set or of a bound.

**Only model-checked.** The liveness properties (`OvertakenSocketsClose`, `BlockIsEventuallyEnforced`,
`ControlsComeBack`): liveness and ENABLED are beyond the prover. Every other property of a passing
run is a theorem.

## 6. Abstract specifications

`RealtimeCutoff` states what the gateway promises without markers, awaits or a registry: an attempt
becomes a stream unless its account was cut off since it began, a cut-off ends all of them in one
step, and only streams are written to. `ImplementsRealtimeCutoff` maps the gateway onto it, with
`overtaken` as the attempts that were cut; TLC checks it in `GatewayRaces`, and it is proved for
any number of connections, accounts, tokens and tickets. What the channel promises its users,
`CutOffIsFinal`, follows from its own five actions. `NotificationsGateway!Spec` is in turn the
specification `AccessRevocation` implements: that implementation is proved too, so the operations
implement the channel.

## 7. Not modelled

* Library internals (hashing, JWT, refresh rotation, throttling, brute-force lockout): not in the
  repository; modelled as the environment, from how the code uses it.
* Several API processes: the gateway keeps its registry in one process, and says so.
* `attempt`, `backoff()`, `onopen` of the realtime client: they set how long a timer waits, and a
  timer here may fire at any time. The shape of messages.
* The hooks that only write an audit row: no state a property tells apart.
* Platform console sign-in and its bearer in session storage: one value, written at login and
  removed at logout or on a 401. Profile fields of the account pages: a request and its answer.
* Email transports and templates, logger, health and debug routes, UI primitives, layouts: formatting
  and I/O without state the program reads back. Which links a mail carries is in `WebSession`.
* A link of the sign-in pages that is followed while their form is under way counts as a page load,
  which ends the form's handler; in the browser that handler runs on behind the next page. The Google
  button's handlers do run on (`Follow`).
* Field validation and DTO shaping: they refuse or rename, before anything the models hold.
* Migrations and seed: run once, before the program; the unique indexes are in `Onboarding`.
