# PR Desk in TLA+

PR Desk mirrors the pull requests of GitHub accounts into PostgreSQL, decides
which of them need follow-up, and notifies people. The Go API
(`src/apps/api`) does the work, possibly as several replicas over one database;
the web application (`src/apps/web`) and the `prdesk` command line client show
the result and send actions back.

This directory models the parts whose correctness depends on the order of
steps, on crashes, on lost or late answers and on time. Each module says in its
header what it leaves out; `PROJECT.json` maps every definition to the lines it
stands for, lists the hazards of the code with the properties that cover them,
and gives for every property a plausible bug that breaks it.

## The system

| Component | State it keeps | Operations | What is hard | What makes it correct | Modules |
| --- | --- | --- | --- | --- | --- |
| Synchronization (`main.go` `syncSession`, `sync_*.go`, `auto_sync.go`, `history.go`) | row of `oauth_tokens`: request, pending full sync, progress, checkpoint, cursor, walk start; advisory lock | `POST /sync`, login sync, cron, the phases of a run | runs that die and resume, replicas, late search results, hold-offs | nothing is lost, requests are kept and served, checkpoints advance | `SyncSession` |
| Credential renewal (`token_refresh.go`) | encrypted grant, its expiry | renew, reconnect, lapse | GitHub rotates the refresh token; two lock keys; crash after the exchange | the stored grant is the live one; a disconnected account stays so | `TokenRefresh` |
| Accounts and sessions (`accounts.go`, `account_cache.go`) | account row, browser sessions | login, logout, purge | login and logout against runs and renewals | as above | in both of these |
| Notification outbox (`notifications.go`, `notification_destinations.go`) | messages with lease and attempts, destinations | queue, claim, send, record, settings | crash between send and record, expired leases, failing destinations | at least once, bounded retries, every message settled | `Delivery`, `NotificationOutbox` |
| Details and reviews (`sync_details.go`, `followup_sync.go`, `activity.go`) | pull request rows, facts | fetch a complete snapshot, replace | one of many fetches fails | a failed fetch never replaces facts | a phase of `SyncSession` |
| Follow-ups (`followup_model.go`, `followup_store.go`) | one row per tracked pull request, version, one undo step | persist facts, act, undo, snooze | actions between two syncs | versions catch stale actions | the server of `FollowUpClient` |
| OAuth server, renames, MCP, overview, plumbing, CLI | clients, codes, tokens; names | - | - | - | - |
| Web: follow-up actions, undo (`followup-actions.ts`, `undo-slot.ts`, `toast.ts`, `DetailPane.tsx`) | the cached list, calls under way, one undo slot, the toast | act, predict, roll back, refetch, undo | answers out of order, two surfaces, lost requests | a quiet list is true, the toast and the slot agree, nothing stays busy | `FollowUpClient` |
| Web: inbox (`InboxPage.tsx`, `followup-view.ts`) | filters in the address, the frozen order, cursor, focus, pane | filter, search, walk, follow a link | lists that change under the reader | rows hold still, a link's row is seen, focus is not lost | `InboxPage` |
| Web: settings (`FollowUpSettings.tsx`, `OverridesEditor.tsx`, `AccessSettings.tsx`) | form values over read settings, lists of destinations and tokens | edit, switch views, save, add, switch, remove | refetches under a half-filled form, answers in any order | what is typed survives, rows are true or a failure is said | `ReminderForm`, `DestinationPanel` |
| Web: sync status (`sync-model.ts`, `SyncProgress.tsx`, `Banners.tsx`, `github-access.ts`) | the last poll, lists, requests for a run | poll, refresh, press, notice a grant | runs shorter than a poll, refused requests | "fresh" means the lists hold the sync | `SyncStatus` |
| Web: shell (`routes.ts`, `Shell.tsx`, `CommandPalette.tsx`, `shortcuts.ts`) | address, overlays, an open key sequence | redirect, navigate, search, press keys | listeners in any order, old links | redirects settle, one key acts once | `AppShell` |
| Web: lists (`PullRequestsPage.tsx`, `Repositories.tsx`, `ui-controls.tsx`) | address, answers per list, a draft | filter, page, search | stand-in rows, lagging addresses | rows belong to the address, the field shows what narrows | `PullRequests`, `RepositoriesPage` |
| Web: service worker (`sw.js`, `service-worker.ts`, `ErrorBoundary.tsx`) | two caches, a worker | install, activate, fetch, hard reload | deploys under an open page, no network | the offline copy survives and opens | `ServiceWorker` |

How they interact: handlers and cron call `syncSession`, which takes the
account's advisory lock, renews the credential, walks GitHub's search, and
hands facts to the follow-up store; the store writes events; the 30-second job
turns events into messages and delivers them; login writes the account row that
all of these read. The browser polls `GET /sync/progress`, reads lists, and
posts actions with the version of the row they were taken on. On the server
everything meets in PostgreSQL rows, so the shared variables of the first
modules are columns and their steps are statements or transactions. In the
browser everything meets in the query cache and the address, so the shared
variables there are cached answers, requests under way and the address, and
their steps are event handlers, effects and answers.

## Order and shape of the project

1. `SyncSession`, `TokenRefresh`, `NotificationOutbox` refining `Delivery`: the
   server's concurrent rows, with proofs.
2. `FollowUpClient`: the browser's optimistic list against the server's versions,
   with proofs.
3. `InboxPage`, `ReminderForm`, `DestinationPanel`: the pages that hold state of
   their own over lists that change, with proofs.
4. `SyncStatus`, `AppShell`, `PullRequests`, `RepositoriesPage`, `ServiceWorker`:
   what surrounds them, with proofs.

`MC*` modules give constants their values, add symmetry, and compose what is run
together. `MCSettings` and `MCShell` compose by interleaving parts that share
nothing but the page: a behaviour is one of a part, chosen in `Init`, so a run
checks each part's own interleavings and not their product. The parts of one run
extend one another because their names differ. `*_proofs` modules extend the
component they are about, `Settings_proofs` and `Shell_proofs` the composition and
so every part of it. `Selections` holds what several pages do to a list, to sort
it and to filter it, and `Selections_proofs` the facts about that. No module
declares a RECURSIVE operator.

Every invariant and every action property of the passing runs is also a theorem,
for all values of the constants. The temporal properties that need fairness are
not: they stay with TLC (see the end).

| Run | Instance | Question |
| --- | --- | --- |
| `sync_walk` | 1 goroutine, 1 pull request, 4 ticks; search lags a tick, queries re-read one | types, `NothingLost`, `CheckpointMonotone`, the inductive `WalkInvariant` |
| `sync_requests` | 2 goroutines, no pull requests, 3 ticks, fair | `NoRequestWiped`, `LiveRunReported`, `RequestServed` |
| `sync_full_completes` | 2 goroutines, 2 ticks, fair | `FullSyncCompletes` |
| `token_rotation` | 2 goroutines, 3 grants, 2 ticks, fair | `TypeOK`, `NoDoubleRenewal`, `StoredGrantUnspent`, the inductive `RotationInvariant`, `WaitersServed` |
| `token_disconnect` | the same | violates `DisconnectHolds` |
| `outbox_delivery` | 2 replicas, 1 destination, 2 keys, lease 2, job limit 1, 2 attempts, 1 lost attempt, fair | `TypeOK`, `ClaimsExclusive`, `AtLeastOnce`, `AttemptsBounded`, `PatienceKept`, `ImplementsDelivery`, `Settles` |
| `followup_list` | 2 rows, 2 actions, 2 versions, 1 lost request, fair | `TypeOK`, `QuietListTrue`, `ToastNamesSlot`, `CallsEnd` |
| `followup_undo` | 1 row, 4 actions, no lost request | violates `FailedUndoHandedBack` |
| `settings` | 2 repository names equal but for case, 2 periods, 1 team, 2 rows, 2 edits; 2 entries, 2 typed fields, 1 failure | `FormTypeOK`, `SentAsShown`, `ViewsAgree`, `EditsKept`, `BoardTypeOK`, `RowsTrueOrTold` |
| `inbox_page` | 3 rows of two facts each, 4 links, 2 changes of the list, 1 of the address | `InboxTypeOK`, `OrderHeld`, `LinkAwaited` |
| `inbox_focus` | the same | violates `FocusRescued` |
| `shell` | the five parts of `MCShell`, each on its own bounds | `TypeOK`, `RedirectSettles`, `SequenceWins`, `FreshMeansCaughtUp`, `RowsBelong`, `FieldAgrees`, `CopyKept` |

## SyncSession

One account (`git_hub_id > 0`), its row, the pull requests GitHub shows, and
the goroutines of all replicas: `POST /sync` handlers, login syncs and the cron
job. A goroutine is `run[w]`; `pc` says which statement comes next:

| `pc` | code |
| --- | --- |
| `post`, `queue` | `syncGitHub` before and after `acquireSyncLock` (`sync_queue.go`) |
| `start` | entry of `syncSession`, the connection is checked (`main.go:643`) |
| `lock`, `begin` | `acquireSyncLock`; the row is read again and the due check repeated (`main.go:650-682`) |
| `report`, `authorize` | `progress.set("account")`; credential and `Users.Get` (`main.go:684-719`) |
| `walk` | `fetchSyncHistory`: an interval is queried, its pages are saved, the cursor is marked |
| `details` | everything from `main.go:777` to the final checkpoint |
| `finish` | the deferred `finishResult`, then the deferred unlock |

Columns are variables under their own names. `stored[p]` is the change the
stored row of `p` shows, `indexed[p]` the change search shows, `changed[p]` the
truth; times are ticks and 0 is NULL. What a run reads off the row in one
statement it carries in `run[w]` and uses later, as the code does: the row may
have changed since. A page holds one pull request, an interval may have any
length (bisection produces some of them), and a query's result is fixed when
the query is made while the page shows the row as it is when saved. Error codes
are reduced to those the row's readers tell apart: `interrupted`,
`rate_limited`, `reconnect`, and `upstream` for the rest, the 30-minute timeout
included. `Crash` is the end of a process at any step; it also stands for an
outage that loses every remaining write of a run.

Left out: legacy accounts (`git_hub_id = 0`), the rows the details and review
phases write (they can only make `stored` newer), `reconcileRepositoryNames`,
the two-pass count check of `fetchHistory` (a walk that fails it is `Fail`), and
the loss of the lock's database connection while its run goes on.

`MCSyncSession` adds the symmetry set and `Quiet`, a state constraint that cuts
rate limits and suspended accounts out of the large run about walks.

### What is checked

Bounds. Pull requests do not influence one another (a leaf's `todo` is a set),
so one shows every loss. A loss needs a walk, its death, a change, and a
resumption that finishes: four ticks. One goroutine at a time runs under the
lock, so the walk runs take one, and the same goroutine plays each successive
run; `sync_requests` takes two, since its races are between a holder
and a contender. Cooldowns are 1, 2 and 3 ticks so that all of them expire
within the bound and in the code's order. The liveness runs set the clock short
because time may stop: fairness is only on the program.

Fairness. `WF(Proceed(w))`: a goroutine that can take a step takes one, as the
Go scheduler and the timeouts on every call guarantee; it includes ending in an
error, so no success is assumed. `WF(Schedule)`: cron fires every 30 seconds as
long as some replica is up. Nothing is assumed of GitHub, of the clock, of users
or of `Dawdle`. Since fairness on `Proceed` may always choose `Fail`,
`RequestServed` assumes only that crashes stop, and `FullSyncCompletes` that
crashes and failures stop: neither can hold of a system that is interrupted for
ever. Both accept a suspended account as an outcome.

`NothingLost` is the property the module is about. For a pull request whose
stored row does not show its latest change, the row's checkpoints must still
make a later run read it: if the next run is a full walk, the pull request is
created after the cursor, or changed late enough that the query made with the
finished walk's stamp sees it; otherwise the checkpoint must be old enough. It
relates what died runs stored, what the row promises and what search shows.

### What is proved

`SyncSession_proofs` proves, for any set of goroutines and pull requests and any
intervals (`TimeAssumption`, `WorkerAssumption`):

* `TypeCorrect`: `Spec => []TypeOK`. The records are typed by a clock value
  (`ProgressRecord(n)`, `RunRecord(n)`), so that a tick widens every type.
* `RequestsSurvive`: `Spec => []NoRequestWiped`, from `LockInv`: a goroutine is
  past the lock exactly if it holds it, so no request is written while a run is
  in flight (`LockStep`, `RequestStep`).
* `EverythingIsRead`: `ClockSkew = 0` implies `Spec => []NothingLost`.
* `CheckpointsAdvance`: `ClockSkew = 0` implies `Spec => CheckpointMonotone`.

The last two rest on `WalkInvariant`. `NothingLost` alone is not inductive: it
speaks of the row, and the next step may be a run's that read the row long ago.
`RunInv` says what such a run has promised: before the walk it carries what the
row says (nobody else writes those columns, by `LockInv`); during it, everything
covered so far is stored up to changes within reach of its stamp; after it,
that holds of every pull request. `CursorInv` says a cursor never exists
without the start of its walk, and `GitHubInv` that a change search does not
show is young, which with `IndexAssumption` (`IndexLag <= Reread`, the reason
for the 24 hours) puts it within reach of any checkpoint. One lemma per phase
(`WalkQueue`, `WalkBegin`, ... `WalkCheckpoint`) proves the step; `WalkStep`
collects them.

`ClockSkew = 0` is needed: with replicas whose clocks differ a walk restarted on
the slower one is stamped anew while the old cursor stays (see "Disagreements").
`WalksKeepTheirPromise` states the inductive invariant itself, `WalkInvariant`,
which a run also checks.

* `RunsReported`: `Spec => []LiveRunReported`. By `LockInv` nobody but the holder
  writes the progress record while its run is in flight, and the holder writes
  `running` before anything else.

Only model-checked: the liveness properties `RequestServed` and
`FullSyncCompletes`, which are out of reach of the prover.

## TokenRefresh

The GitHub credential of one account: `accessTokenFor` and what it competes
with. A goroutine is `call[w]`, a request handler or (`isRun`) a run:

| `pc` | code |
| --- | --- |
| `store` | `githubCallback` holds a grant; `connectAccount` writes it next (`accounts.go`) |
| `lock` | `refreshAccessToken`, waiting in `pg_advisory_xact_lock` |
| `exchange` | the row was read under the lock, the refresh token is on its way to GitHub |
| `commit` | GitHub has renewed the grant, the transaction has not committed |
| `mark` | the transaction is rolled back, `markTokenLapsed` is next |
| `use` | a run holds the access token |
| `fail` | a run is about to record the code `reconnect` |

Grants are numbered by GitHub. The columns hold the number of the grant they
were taken from and 0 when empty, so "a spent refresh token is stored" and "the
expiry belongs to another token" can be said without contents. `live` are the
refresh tokens GitHub honours, `spent` those a renewal has used up, `expiry[g]`
the death of `g`'s access token. The handler's copy of the row (`Ask`) and the
one read under the lock (`Enter`) are separate reads, as in the code. The
outcomes of an exchange are `Granted`, `Refused`, `TimedOut` (GitHub never saw
it) and `AnswerLost` (it did, and the answer is lost). A crash or a failed commit after
`Granted` loses the renewed grant too; no code can prevent that, and the
account needs a login. `spent` therefore leaves out the tokens used up for a
grant that was lost, so that the properties speak of every other way to store or
present a dead token. `LoginRetires` says that a new login retires the older
grants, as the comment at `accounts.go:109` says GitHub does.

Left out: encryption, legacy accounts, and a transaction whose connection breaks
during the exchange (its lock is free while the exchange goes on).

Bounds. Every race here is between a renewal and one other goroutine, so two are
enough; a third grant lets a login and two renewals meet. The clock has two
ticks: an access token lives two and is renewed one before its end, so that
tokens die within the bound while a run holds them. A run may take three, so
that the clock never waits for one.

Fairness. `WF(Proceed(w))` as above; every branch of the exchange ends, since it
has a 15-second timeout. `SF(Enter(w))`: the lock is free again and again, and
PostgreSQL queues its waiters, so none is passed over for ever.

`TypeOK` says more than types: the access token, the refresh token and the expiry
in the row come from one grant, which is what `storeToken` is for
("so the login path and the renewal path cannot drift apart").

### Finding

* `token_disconnect`: logout blanks the grant without the renewal lock. A renewal
  in flight commits afterwards, by row id, and clears `authorization_error`: the
  account is connected again.

### What is proved

`TokenRefresh_proofs`, for any set of goroutines and any intervals
(`TokenAssumption`):

* `OneGrantPerRow`: `Spec => []TypeOK`.
* `RenewedOnce`, `RowStaysRenewable`: `Spec => []NoDoubleRenewal` and
  `Spec => []StoredGrantUnspent`.
* `Rotation`: `Spec => []RotationInvariant`, on which the previous two rest.

`StoredGrantUnspent` speaks of the row; to survive `StoreLogin` and `Commit` it
needs `CarriedInv`: a refresh token some goroutine is about to write is unspent,
not in the row, not being renewed and carried by nobody else. `LockInv` ties the
lock to the goroutine inside the transaction, so that a renewal finds no other
one between exchange and commit.
`LeaveStep` and `StoreStep` cover the actions that only leave the transaction or
write the row; `Authorize`, `Enter` and `Granted` have a lemma each. `TypeOK`
provides that a new grant is new (`Fresh`).

Only model-checked: `WaitersServed`.

## NotificationOutbox and Delivery

`Delivery` says what the outbox promises for one message to one destination: it
is submitted, attempted by one replica at a time, and ends delivered or dropped;
the destination takes it once, and once more for each attempt that was lost.
`NotificationOutbox` is the code: the rows of `notification_deliveries` and
`notification_destinations`, one job per replica (`processNotificationOutbox`,
every 30 seconds), and the settings page. `D(m)` instantiates `Delivery` for each
message, with `Status(m)` and `Attempt(m)` read off the row and its holder.

| `job[w].pc` | code |
| --- | --- |
| `queue` | inside the transaction of `queueAccountNotifications`, destinations read, messages not yet inserted |
| `load` | the row is claimed and leased; the destination is read next (`notifications.go:364`) |
| `send` | the destination answers, refuses, or answers too late |
| `record` | the outcome is written, guarded by the attempts of this claim |
| `health` | the destination's flag is written, if it is believed to have changed |

A row's `state` stands for its columns: `queued` (neither `sent_at` nor
`skipped_at`), `sent`, `parked` (given up), `skipped` (destination disabled or
gone), `removed` (deleted with its destination). Times in a row are the ticks
left until them, so `Tick`, a minute, decrements them; a job's `age` is the time
since its claim, and `now` in the code is the time of the claim, which is why the
backoff is `Delay(attempts)` less the job's age. Keys are numbered in the order
they become due, which is the order of row ids. A save in the code reads a row
and writes it whole, inserting it again when it was deleted in between, so
`SaveDestination` is possible for whatever once existed. `copies` and `lost` are
history: how often the destination took a message, and how many attempts died
without their outcome being known (a crash with a claim held, or an answer that
did not arrive).

Left out: which events, digests and inventories become due and what they say
the split into parts, the limit of ten
destinations, the purge of settled rows, and the selection of connected accounts.

Bounds. Destinations do not influence one another's rows, except by the order of
claims, which two keys show as well. Two attempts give one retry and one giving
up; one lost attempt gives the third attempt, the duplicate copy and the expired
lease. `Lease` 2 and `JobLimit` 1 keep the code's order (a job needs 40 seconds at
most, the lease is two minutes). `MaxAge` 1 covers the window, which is one
tick for two attempts. Ages and lost attempts are capped by `MaxAge` and
`MaxLost`; the state space is complete otherwise.

Fairness. `WF(Tick)`: time passes, though not over a job that has used up its
time: every call of the job has a timeout. `WF(Proceed(w))`: cron starts the job
again and again. Nothing is assumed of destinations, which may refuse for ever,
or of the settings page. `Settles` assumes that jobs stop dying: each death costs
an attempt and a lease, and a system that dies for ever settles nothing.

### What is proved

`NotificationOutbox_proofs`, for any replicas, destinations, leases, limits and
backoffs that satisfy `OutboxAssumption` (a job's limit does not exceed the lease):

* `TypeCorrect`, `ClaimsCorrect`, `AttemptsCorrect`: `TypeOK`, `ClaimsExclusive`
  and `AttemptsBounded` always hold.
* `PatienceCorrect`: so does `PatienceKept`, if ages are counted up to the window.
* `DeliveryImplemented`: `Spec => ImplementsDelivery`.
* `AtLeastOnceCorrect`: `AtLeastOnce`.

The inductive invariant `IInv` adds to the types one conjunct per message,
`Steady(m)`. `HeldAlone` ties the lease to the age of the job that holds it: since
the job ends within its limit, a row whose lease is over has no holder, which is
what makes a claim exclusive. `AttemptsLeft` says that a row nobody holds has an
attempt left. `Waited` says that a row has aged by the waits of its failed
attempts, less what is left of the current one; `WaitsAdds` is the arithmetic of
it, from `PowerDoubles`, which counts subsets because the prover knows nothing of
powers. One lemma per action proves both `Steady(m)'` and that the step is a step
of `D(m)` or a stutter (`Step(m)`); most messages are `Same`. `AtLeastOnceCorrect`
then needs nothing of the outbox: `CopiesStep` and `TakenStep` follow from
`Delivery`'s actions.

Only model-checked: `Settles`.
## FollowUpClient

The follow-up list of the browser, against the server that holds it. The server
keeps per row its version and the marks of what was read, handled and muted
(`server`), and one step to go back to (`history`); `ServerTakes` and
`ServerRefuses` are `applyFollowUpAction` with its check of versions. The query
client keeps the cached list, whether it is marked as out of date, and the one
request for it; a request is sent, read by the server and answered in three
steps, so an answer may be older than an action that was taken meanwhile.

A call is one POST, from the press to the end of the refetch that its answer
starts:

| `st` | code |
| --- | --- |
| `posted` | `mutationFn`; `read` and `snooze` are predicted in `onMutate`, which drops a request for the list under way |
| `done`, `refused`, `lost` | the answer is on its way: accepted, 409, no answer |
| `settling` | `onSettled` has asked for the list again; the row stays busy until a request for the list ends |
| `over` | |

Calls belong to the surface they were pressed on, the row or the sheet
(`attached` is false once a sheet that pressed has closed), since `isBusy` is a
hook of each. `slot`, `inFlight` and `toast` are the module variables of
`undo-slot.ts` and `toast.ts`; a step is named by the call that took it. `Press`
holds the guards that the buttons and keys share, `Answer` and `AnswerUndo` the
callbacks of the mutations in the order in which they run.

Bounds. A stale answer needs two calls and one refetch; two rows let a roll-back
of one overwrite the other; one further version gives the 409; one lost request
gives every failure, of a call or of the list. `followup_undo` takes four calls on
one row, for its two undos.

Fairness. Requests are answered or fail (`WF` on each call's server step and
answer, and on the list); no press, poll or activity is assumed, and a lost
request is never assumed away: `CallsEnd` holds although the list fails.
`CHECK_DEADLOCK FALSE`, because the number of calls is bounded and nothing else
has to happen.

What is proved (`FollowUpClient_proofs`, any rows, calls, versions, lost
requests): `TypeCorrect`, `QuietListCorrect`, `ToastCorrect`. `QuietListTrue` speaks
of a list that nothing is under way for. Its invariant says why that is enough.
`VersionsBehind`: no row on the screen, in an answer, or in a snapshot kept for a
roll-back is ahead of the server. `ReadTrue`: an answer that the server has read
agrees with the server on every row without newer activity, or some call has yet
to be answered, and that answer asks for the list again, which drops this one.
`ShownTrue`: the same of the list on the screen, unless it is marked as out of
date or a request for it is under way. A step either leaves the server alone or
is a call's, which is unanswered after it; an answer always puts the list back
under way. `ToastNamesSlot` is inductive on its own.

Only model-checked: `CallsEnd`.

Finding. `followup_undo`: `undo-slot.ts:41` says a failed undo hands its step back.
One variable remembers the undo in flight, and nothing keeps a second one from
starting; the first answer forgets the second, whose failure then leaves the
slot empty although the server still has the step.

## InboxPage

One step is an event and the render after it with all its effects, in the order of
the source (`Render`): the rows under the filters, the order they are held in, the
rescue of the focus, arrival by a link, and the pane that follows the cursor
(`PaneCatchesUp` is its timer). Arrival at a muted row takes two renders, as in the
code: the first one asks for the disclosure (`opening`) and does not arrive; a later
one, which `Opens` or any other event brings, has it open and arrives if the row is
still listed and in reach. Lists, addresses, keys and clicks may come in between.
`filter` is the address; the filters that a link sets (`Linked`) are dropped by the
controls. `Fact` gives, for each row, what the list may say of it, so that a list
changes its state, its age, its mute and its membership; `tones` and `words` stand
for what a chip or a search selects by.

Bounds. Three rows: one that holds the focus, one that may be muted (and so sits
in a closed disclosure), one that may leave by being merged. Two changes of the
list are enough for a row to leave and return elsewhere in the order; one change
of the address, after the one in `Init`, resets it. The links are the kinds the
code produces: a notification's, one to a muted row, a summary's.

`OrderHeld` says of any two rows that are on the page before and after a step that
they have not changed places. `LinkAwaited` says that no link is left hanging: a
listed row that the address asks for has been arrived at, or the disclosure it
sits in is closed and about to open. It would fail if an arrival were tried only when the
address or the rows change, for the render in between changes neither: it is the opened
disclosure that makes the effect run again (`ArrivalRuns`).

Finding. `inbox_focus`: `InboxPage.tsx:207` promises that the focus goes to the row
that took the index "or to the list itself when none is left". The list is
rendered only when it has groups, so with the last row the focus falls to the
body; and a successor in the closed disclosure cannot take it.

## ReminderForm, DestinationPanel and MCSettings

`ReminderForm` is the Reminders tab: the settings on the server, the settings
that the query client has in hand, and the form, which takes its values when it
mounts and keeps them. The overrides are edited as rows or as text (`mode`);
`CheckRows`, `InvalidLine`, `ParseOverrides` and `RowsToText` are the functions of
`OverridesEditor.tsx` over fields that are good, empty or bad. Periods are a function
of the repository's name (`Periods`), as they are a map in the browser and on the server;
of two entries under one name the later one holds (`ByName`), so the text may say
a name twice and send it once, and names that differ in case are two names, which
rows refuse and text does not. `SentAsShown` says what a save carries of what the reader
sees: each listed repository, no other, only periods that are listed, and of
rows every one, up to case. A save is posted,
taken or lost, and may outlive the form that posted it. The settings and the
teams are read again at any time.

`DestinationPanel` is what the destinations and the API tokens have in common: a
list read in steps, removals asked for in place, several of them under way, one
switch at a time, and the form for a new destination with errors per channel.
`untold` remembers entries whose change failed where the panel says nothing,
which is what `RowsTrueOrTold` has to except.

`MCSettings`: a behaviour works on one tab. A reader who types into the form for a
destination leaves the rows above it alone (`RowsStill`), and one who has left a team
does not make the last edit, which keeps products of independent matters out of
the run.

Bounds. Two repository names that differ in case only give duplicates, in rows
and in text; two periods give conflicting lines; two edits, with switches of
views not counted, give an error, its repair, and a round trip. Two entries let
removals overtake one another; one failure is enough, since the properties are
about what is said after one. `CHECK_DEADLOCK FALSE`: bounded edits end.

## SyncStatus, AppShell, PullRequests, RepositoriesPage, ServiceWorker and MCShell

`SyncStatus` follows a run from the browser. The server's progress is that of
`SyncSession` with its steps cut down to what a poll can tell; the lists are one
list with a version, so that "the lists hold what that sync wrote" is a comparison
of numbers. `Health` is `syncHealth`, in its order. The end of a request for a run
asks for the lists of pull requests and of repositories, not for the follow-ups;
since the one list stands for any of them, `SyncSettled` may refresh it or not. The
exceptions in `FreshMeansCaughtUp` are the code's: before the first poll there is
nothing to compare with, a list that failed is marked, and a refresh asked for
before the first answer joins that request.

`AppShell`: an address is a path and the names of its parameters, `LegacyRedirect`
is `routes.ts`, and `Navigate` is the rewriting before anything renders. A key press
runs all listeners in the order of their registration (`hearing`), which depends
on when the page's chunk arrived; `buffer` is the sequence listener's own memory
and `opened` what the single keys look at.

`PullRequests`: `at` is the address, `answers` the query cache by `ListKey`, `previous`
what `keepPreviousData` shows meanwhile, `Request` and `Answer` the parameters and
the server's filter, so that `RowsBelong` compares four places that name the same
list: the key, the request, the server, and the labels on the row. A page that is
opened anew starts without a cursor. A request that the query client has paused, since
the browser is offline, is neither loading nor failed, and the page shows the empty
list for it (`Body`).

`RepositoriesPage`: the router draws an address some time after it was written and
may skip one (`due`, `drawn`); `draft` and `sent` are `SearchField`'s, with its
recognition of echoes.

`ServiceWorker`: builds name the parts they need at launch and later; the caches
are `document` and `themeInit` (shell) and `files` in order of insertion. The three
strategies of `sw.js` are `OpenDocument`, `Load` and `ShowIcon`; storing may fail
silently (`MayPut`), a sweep may fail half way. A server that can be reached may still
refuse a navigation: the refusal is shown and not stored (`page` is `"refused"`). A worker
that takes over deletes the caches it does not name (`CurrentCaches`); those of
versions with other names are not modelled, they hold nothing that is read.
`CopyKept` speaks of the moment in which the browser reports no connection: what
opens then must go on opening. It says nothing of a browser that reports one
although nothing answers: the hard reload sweeps then, and cannot know better. Nor
does it speak of what a trim takes from the cache of files while there is a network.

`MCShell` gives each part two or three of everything (two builds, a cache of three
files, so that it holds one build and loses of it when the other comes, two
repositories, three pull requests with pages of one, three writes to the address,
two runs, five links) and forbids a few things late in a behaviour: no request for a
run by hand, no lost request and no watched access in the last run or after an hour
(`Plain`), no cursor or lost connection after the last move, no change of the
repositories once something was typed, a theme script as old as its document, and
once the second build is deployed no refused navigation and no hard reload of a
crashed page or after the last change of the connection. Each of these keeps one
part's product of independent matters out of the run and leaves every action enabled
earlier in the behaviour.

## What is proved of the pages

### Sorting and filtering

`Selections` defines the sort and the filter of a list over sets: an order is a set
of pairs, `Ranked` puts each member at the place that the number of those before it
gives, `Selected` keeps the positions of a set. The community modules' operators
say the same, but `SelectSeq` and `SetToSortSeq` are defined by recursion or by a
choice among all sequences, of which the provers know nothing.

`Selections_proofs` states, for any finite set, order and sequence, what the pages
rest on: `RankedOrder` (every member once, one before another exactly if it is
ordered before it), `SelectedKeeps` (what stays keeps its order, and nothing else
stays) and `SelectedMembers`. That every place is taken is a counting argument: ranks are
different numbers below the size of the set.

The orders of the code have to be orders for this, which is a proof obligation
for each page (`TwoKeys` for the Inbox: a second key decides between equal firsts and is
itself never equal). So the comparisons of `InboxPage`, `PullRequests` and
`RepositoriesPage` are shown not to leave two rows unordered.

### `InboxPage_proofs`

For any rows, facts, links and numbers of changes: `InboxTypesCorrect`,
`OrderIsHeld`, `LinksAreAwaited`. The invariant `PageInv` has three parts.
`ListHeld`: the order that is held has no row twice, the rows on the page are some
of it in that order, and each is in the list. `FocusHeld`: what the page believes to
hold the focus is a row on the page, a row that does hold it can be seen, and the
pane follows a cursor. `LinkHeld`: `LinkAwaited`, and what is about to open is
closed. `OrderHeld` needs `ListHeld`, since under unchanged filters the next order
begins with the whole of the old one, so two rows on both pages stand as they stood
there. It is stated of pairs of rows (`Precedes`), which is what a reader would
notice. `RenderedLink` shows of every render that it keeps `LinkHeld`: if the
address, the rows or the disclosure changed, the arrival is tried again; if none
did, nothing was about to open, since a render takes along what was asked for before
it, so the row had been arrived at.

### `Settings_proofs`

* `TypedValuesKept`, `FormSpec => EditsKept`: a form is only ever mounted over
  settings that are there (`FormInvariant`).
* `FormTypesCorrect`, `ListedPeriodsSent`, `ViewsAskTheSame`, any repositories, rows
  and edits. `FormTyped` carries that the periods in every place, stored, in hand
  and under way, are finitely many (`Sound`), and that rows and lines are well
  formed. `ListedPeriodsSent` (`SentAsShown`) needs both halves of a save.
  `RowsChecked`: rows that pass the checks name a repository each and no two the
  same one up to case, so none overrules another. `ByNameIs`: each name's period is
  that of some entry under it, by way of the last position in a finite set
  (`LastOfIs`). `ViewsAgree` compares what a save would store before and after a
  switch: there is a line for every row that is not empty and a row for every pair
  that the lines say, whatever is wrong in the others, so none is lost and none is
  made up.
* `BoardTypesCorrect`, `RowsCorrect`, any entries and channels. `RowsTrue` says the
  rows are the server's while nothing failed, and `AnswerTrue` the same of an answer
  on its way; a change either has the list read again (`Invalidated`), is shown as a
  failure, or is in `untold` (`Remembered`). `Tracks` ties the removal that the
  panel shows to those under way, so that a removal that overtakes another one
  cannot hide it.
* `TabsAreThemselves`: the composition that the run checks behaves, in each tab, as
  that tab's specification.

### `Shell_proofs`

* `FrameTypesCorrect`, `RedirectsSettle`, `SequencesWin`, any links and visits.
  `AddressInvariant` says that the address is the one asked for or what it was
  rewritten to, and that one rewriting settles it; it rests on `RedirectLands`, that
  `LegacyRedirect` never answers with an address it rewrites. `KeyInvariant` says
  that the two memories of an open sequence agree; then the listeners agree on who
  acts, in either order of their registration, and at most one does.
* `FreshIsCaughtUp`, `StatusTypesCorrect`, any runs, requests and losses. Two answers
  about one run are about the same rows (`PollInvariant`), since a run that ends is
  newer than every run that ended before (`ServerInvariant`); hence a complete sync
  that is not the first answer was news when it came, the lists were asked for
  then, and `CaughtUp` follows that request to its end. The types add what a banner
  can say (`CodeInvariant`) and that the rows of a run are counted only once it has
  stored them (`NotYetSaved`).
* `RowsAreOfTheirList`, any pull requests, facts and pages. `ListInvariant` says of every
  cached answer that its rows were selected by the request of its own key and tell
  what the server could have stored. The page reads
  the answer of the address it is at, and its six views each say of every row
  that they select why it is there (`SelectedSaysWhy`).
* `FieldsAgree`, any repositories, texts and writes. The recognition of echoes in
  `SearchField` is right because of `FieldInvariant`: there is a monotone map (`Reports`)
  from the addresses that are due to the reports of the field that are not back
  yet, or to none. The router may skip addresses, but never swaps them, so the
  reports that come back do so in their order, and one that does not come back
  is overtaken by a later one. Once another control writes the search, nothing of
  this is claimed (`others`).
* `OfflineCopyKept`, `WorkerSpec => CopyKept`, any builds and any limit of the cache. The
  invariant is small (`ConnectionInvariant`: the network answers only where the
  browser reports a connection, caches are swept only after it did); the proof
  shows for each action that without a network it reads the copy and leaves it.
* `PartsAreThemselves`: each part behaves in `MCShell` as its own specification says.
  `TypesCorrect` is the composed invariant that the run checks.

### Assumptions

The proofs use only the named assumptions of the modules, which TLC evaluates in
the runs. Most say that bounds are numbers. Those that speak of the program:

* `InboxAssumption`, `ListAssumption`, `RepositoriesAssumption`: a row of a list has a
  state, counts and flags of the kinds the server encodes, a merged pull request is
  closed (as GitHub has it), rows are finitely many, and a row's number is not the
  one for "no row".
* `ShellAssumption`, `ListAssumption`, `RepositoriesAssumption`: a link, which is any
  address at all, is decomposed into a path or parameters as the page's own
  reader of addresses does it; unknown parameters are gone before the model begins.
* `FormAssumption`: the settings a page first finds have finitely many periods, one
  for a name, as the server's map does; an empty name is none; folding of case
  maps names to names.
* `BoardAssumption`, `StatusAssumption`, `WorkerAssumption`: there is an entry, a channel,
  a run, room in a cache; the values that mean "none" are not values.

## Disagreements that no run states

Seen while modelling, with the line that says otherwise. The runs that expect a
violation (`token_disconnect`, `followup_undo`, `inbox_focus`) show three others;
these are in the models' actions or headers, and no property states them:

* `docs/development.md:90` says a successful login immediately starts a sync. After
  a run that GitHub refused with 401 the failed progress record stays, and its
  15-minute cooldown (`auto_sync.go:30`) makes the login's own run skip.
* `main.go:735` says a walk is stamped with the time it started, or changes would be
  lost. On a replica whose clock is behind the cursor the walk is restarted and
  stamped anew (`main.go:744`) while the old cursor stays; if it dies too, changes to
  rows before the cursor in between are out of reach. It takes more than the 24
  hours of re-reading.
* `accounts.go:109` says a reconnect replaces the whole grant. A renewal in flight
  commits the successor of the older grant over it: the two use different locks.
* `token_refresh.go:22` says `errTokenLapsed` means that the grant can no longer be
  renewed. A timeout, a network error or a shutdown returns it too
  (`token_refresh.go:86`) and suspends an account whose grant is good.
* `main.go:688` says a run never starts on a credential that dies halfway. A token is
  accepted with ten minutes to live, and a run may take thirty.
* `docs/follow-up-operations.md:37` says the report of a failing destination clears
  as soon as it accepts a message. The flag is compared with the one read before
  the send (`notifications.go:405`); raised in between by another replica, it stays.
* `FollowUpSettings.tsx:164` says "Saved" never describes values that have since been
  edited. A change clears the outcome of a save only when it has one. Made while the
  request is under way it clears nothing, and the answer says "Saved" over it and takes
  the mark of unsaved changes (line 155), and with it the button that would send it.
* `docs/development.md:26` says an offline dashboard shows its normal network errors.
  Offline before its first answer, the list of pull requests says that there are none
  (`PullRequestsPage.tsx:126`): the paused request is neither loading nor failed.
* `github-access.ts:73` says a grant starts a full sync. During a run the server
  answers 409, and the watcher does not ask again.
* `pr-model.ts:51` calls its predicate that of the Blocked view, which also selects
  pull requests whose reviewers asked for changes.

## What is only model-checked, and what is not modelled

Liveness (`RequestServed`, `FullSyncCompletes`, `WaitersServed`, `Settles`, `CallsEnd`)
is out of the prover's reach; the runs check it on small instances under the
fairness stated above. `DisconnectHolds`, `FailedUndoHandedBack` and `FocusRescued` are
violated by the code, and their runs show how. Every other property of a run is
proved.

Besides what is on the list above, three hazards are in the models and under no property. `ClockSkew` is zero in every
run and in the theorems about what is read: with a skewed replica `NothingLost` does
not hold (see the list above). And that a renewal may overwrite the grant of a newer
login is a step of `TokenRefresh` which `StoredGrantUnspent` allows, since the older
grant's successor can be renewed as well. A hard reload while the browser reports a
connection that reaches nothing loses the offline copy, which `CopyKept` excuses.

Not modelled:

* how facts about a pull request become a follow-up's state, and how a sync merges
  them into a row (`followup_model.go`, `followup_store.go`): one transaction per row
  under its lock; the difficulty is a derivation over dozens of columns, and not
  an order of steps. The actions of the endpoint are in `FollowUpClient`.
* which events, digests and inventories become messages, and what they say; the
  split into parts, the limit of ten destinations, the purge.
* the OAuth server (`oauth_server.go`): a code is claimed in one transaction under
  its row lock, its token is issued after it; a failure in between costs the code.
* repository renames: one transaction per repository that merges rows by SQL.
* the bisection of a history interval: sequential arithmetic, abstracted by
  intervals of any length.
* browser sessions, the copy of the cache on a first login, the MCP server, the
  overview, visibility and profile, HTTP plumbing, the command line client:
  sequential, or without state that several steps share.
* in the browser: push notifications on a device, the GitHub access tab, the
  overview and its charts, the activity of one pull request, components, locales,
  styling, and where announcements go.
