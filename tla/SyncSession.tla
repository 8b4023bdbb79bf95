---------------------------- MODULE SyncSession ----------------------------
(***************************************************************************)
(* The synchronization of one account: who may run it, what a run reads    *)
(* from GitHub, which checkpoints it leaves in the account's row, and what *)
(* a later run does with the checkpoints of one that died.                 *)
(*                                                                         *)
(* Workers are the goroutines of every replica that can act on the         *)
(* account: POST /sync handlers, login syncs, the cron job.  They share    *)
(* the row (one PostgreSQL row, one UPDATE per step) and an advisory lock. *)
(*                                                                         *)
(* Simplifications.  Only modern accounts (git_hub_id > 0).  A pull        *)
(* request is its creation time and the time of its latest change; its     *)
(* stored copy is the change it shows.  A search page holds one pull       *)
(* request.  The details, review-inbox and inventory phases that follow    *)
(* the walk touch none of this state except the progress record, so they   *)
(* are one phase here.  The clock is in ticks; time 0 stands for NULL.     *)
(***************************************************************************)
EXTENDS Integers, FiniteSets

CONSTANTS
  Worker,            \* goroutines, over all replicas
  PR,                \* pull requests authored by the account
  AccountCreated,    \* GitHub creation date of the account: the walk's floor
  AutoSyncInterval,  \* autoSyncInterval, 5 minutes in the code
  FailureCooldown,   \* autoSyncFailureCooldown, 15 minutes in the code
  RunningCooldown,   \* 20 minutes in the code
  RetryDelay,        \* how far away GitHub puts the end of a rate limit
  Reread,            \* what an incremental query re-reads: 24 hours in the code
  IndexLag,          \* how late a change may become visible to search
  ClockSkew,         \* how far one replica's clock may be behind another's
  MaxTime,           \* bound of the clock
  NoWorker           \* the advisory lock is free

ASSUME TimeAssumption ==
  /\ AccountCreated \in Nat \ {0}
  /\ AutoSyncInterval \in Nat /\ FailureCooldown \in Nat
  /\ RunningCooldown \in Nat /\ RetryDelay \in Nat
  /\ Reread \in Nat /\ IndexLag \in Nat /\ ClockSkew \in Nat
  /\ MaxTime \in Nat

\* "Re-read a day around the checkpoint for delayed search indexing."
ASSUME IndexAssumption == IndexLag <= Reread

ASSUME WorkerAssumption == NoWorker \notin Worker

VARIABLES
  now,                   \* the wall clock
  \* GitHub
  created, changed,      \* per pull request: creation, latest change (0: none yet)
  indexed,               \* the change search results show (0: not in the index)
  \* the account's row
  authorizationError,    \* "", "reconnect" or "disconnected"
  syncRequestedAt, fullSyncPending, syncProgress,
  historySyncedAt, historyWalkedAt, historyWalkStartedAt, historyCursor,
  stored,                \* the change each stored pull request row shows
  \* the processes
  lock,                  \* holder of the account's advisory lock
  run                    \* what each goroutine is doing

github == <<created, changed, indexed>>
checkpoints == <<historySyncedAt, historyWalkedAt, historyWalkStartedAt, historyCursor>>
requests == <<syncRequestedAt, fullSyncPending>>
vars == <<now, github, authorizationError, requests, syncProgress, checkpoints,
          stored, lock, run>>

ErrorCode == {"", "interrupted", "rate_limited", "reconnect", "upstream"}
Status == {"idle", "queued", "running", "complete", "failed", "interrupted"}
Phase == {"idle", "post", "queue", "start", "lock", "begin", "report", "authorize",
          "walk", "details", "finish"}

\* A goroutine with nothing to do.  full: the run is a full walk.  started,
\* stamp: syncStarted and walkStarted.  pos: start of the next creation-time
\* interval.  leaf: end of the interval being read, 0 between intervals.
\* todo: pull requests of the interval not read yet.  since: the checkpoint an
\* incremental run asks about.  token: the row it read carries a credential.
\* code: why the run failed.
IdleRun == [pc |-> "idle", full |-> FALSE, started |-> 0, stamp |-> 0, pos |-> 0,
            leaf |-> 0, todo |-> {}, since |-> 0, token |-> FALSE, code |-> ""]

Init ==
  /\ now = AccountCreated
  /\ created = [p \in PR |-> 0] /\ changed = [p \in PR |-> 0]
  /\ indexed = [p \in PR |-> 0] /\ stored = [p \in PR |-> 0]
  /\ authorizationError = ""
  /\ syncRequestedAt = 0 /\ fullSyncPending = FALSE
  /\ syncProgress = [status |-> "idle", code |-> "", retryAt |-> 0, updatedAt |-> 0]
  /\ historySyncedAt = 0 /\ historyWalkedAt = 0
  /\ historyWalkStartedAt = 0 /\ historyCursor = 0
  /\ lock = NoWorker
  /\ run = [w \in Worker |-> IdleRun]

-----------------------------------------------------------------------------
(* What the code reads off the row.                                        *)

Connected == authorizationError = ""   \* connectionQuery

\* The lower bounds nextAutoSyncAt takes the maximum of.
HoldOffs ==
  {IF historySyncedAt = 0 THEN now ELSE historySyncedAt + AutoSyncInterval,
   syncProgress.retryAt}
  \cup (IF syncProgress.status = "complete"
          THEN {syncProgress.updatedAt + AutoSyncInterval} ELSE {})
  \cup (IF syncProgress.code # "interrupted" /\ syncProgress.status \in {"failed", "interrupted"}
          THEN {syncProgress.updatedAt + FailureCooldown} ELSE {})
  \cup (IF syncProgress.code # "interrupted" /\ syncProgress.status = "running"
          THEN {syncProgress.updatedAt + RunningCooldown} ELSE {})

\* Variant: the hold-offs apply to a requested run too.
DueIgnoringRequest == \A t \in HoldOffs : t <= now

\* nextAutoSyncAt is not after now.
Due == IF syncRequestedAt # 0 THEN syncRequestedAt <= now
                              ELSE \A t \in HoldOffs : t <= now

\* The next run walks the whole history.
NextRunIsFull == fullSyncPending \/ (historySyncedAt = 0 /\ historyWalkedAt = 0)

\* The checkpoint an incremental run asks GitHub about.
Since == IF historySyncedAt # 0 THEN historySyncedAt ELSE historyWalkedAt

\* progress.set and the progress writes of a run in flight.
Reporting == [status |-> "running", code |-> "", retryAt |-> 0, updatedAt |-> now]

\* The phases of a run that has passed its checks, and all those under the lock.
Running == {"report", "authorize", "walk", "details", "finish"}
Locked == {"queue", "begin"} \cup Running

-----------------------------------------------------------------------------
(* Time and GitHub.                                                        *)

Tick ==
  /\ now < MaxTime
  /\ \A p \in PR : indexed[p] # changed[p] => changed[p] + IndexLag > now
  /\ now' = now + 1
  /\ UNCHANGED <<github, authorizationError, requests, syncProgress, checkpoints,
                 stored, lock, run>>

OpenPR(p) ==
  /\ created[p] = 0
  /\ created' = [created EXCEPT ![p] = now]
  /\ changed' = [changed EXCEPT ![p] = now]
  /\ UNCHANGED <<now, indexed, authorizationError, requests, syncProgress,
                 checkpoints, stored, lock, run>>

ChangePR(p) ==
  /\ created[p] # 0 /\ changed[p] < now
  /\ changed' = [changed EXCEPT ![p] = now]
  /\ UNCHANGED <<now, created, indexed, authorizationError, requests, syncProgress,
                 checkpoints, stored, lock, run>>

IndexPR(p) ==
  /\ indexed[p] # changed[p]
  /\ indexed' = [indexed EXCEPT ![p] = changed[p]]
  /\ UNCHANGED <<now, created, changed, authorizationError, requests, syncProgress,
                 checkpoints, stored, lock, run>>

-----------------------------------------------------------------------------
(* Connecting, disconnecting and asking for a run.                         *)

\* githubCallback: the connection is restored and a login sync started.
Login(w) ==
  /\ run[w].pc = "idle"
  /\ authorizationError' = ""
  /\ run' = [run EXCEPT ![w].pc = "start"]
  /\ UNCHANGED <<now, github, requests, syncProgress, checkpoints, stored, lock>>

Disconnect ==
  /\ authorizationError # "disconnected"
  /\ authorizationError' = "disconnected"
  /\ UNCHANGED <<now, github, requests, syncProgress, checkpoints, stored, lock, run>>

\* POST /sync: the connection is checked before the lock is asked for.
PostSync(w) ==
  /\ run[w].pc = "idle" /\ Connected
  /\ run' = [run EXCEPT ![w].pc = "post"]
  /\ UNCHANGED <<now, github, authorizationError, requests, syncProgress, checkpoints,
                 stored, lock>>

\* Variant: the handler writes the row whether it got the lock or not.
QueueSyncUnlocked(w, full) ==
  /\ run[w].pc \in {"post", "queue"}
  /\ syncRequestedAt' = now
  /\ fullSyncPending' = (full \/ fullSyncPending)
  /\ syncProgress' = [status |-> "queued", code |-> "", retryAt |-> 0, updatedAt |-> now]
  /\ lock' = IF lock = w THEN NoWorker ELSE lock
  /\ run' = [run EXCEPT ![w].pc = "start"]
  /\ UNCHANGED <<now, github, authorizationError, checkpoints, stored>>

\* POST /sync under the lock: persist the request, release the lock and start
\* the worker that will serve it.
QueueSync(w, full) ==
  /\ run[w].pc = "queue"
  /\ syncRequestedAt' = now
  /\ fullSyncPending' = (full \/ fullSyncPending)
  /\ syncProgress' = [status |-> "queued", code |-> "", retryAt |-> 0, updatedAt |-> now]
  /\ lock' = NoWorker
  /\ run' = [run EXCEPT ![w].pc = "start"]
  /\ UNCHANGED <<now, github, authorizationError, checkpoints, stored>>

\* The cron job picks the account up.
Schedule(w) ==
  /\ run[w].pc = "idle" /\ Connected /\ Due
  /\ run' = [run EXCEPT ![w].pc = "start"]
  /\ UNCHANGED <<now, github, authorizationError, requests, syncProgress, checkpoints,
                 stored, lock>>

-----------------------------------------------------------------------------
(* syncSession.                                                            *)

CheckConnection(w) ==
  /\ run[w].pc = "start"
  /\ run' = [run EXCEPT ![w].pc = IF Connected THEN "lock" ELSE "idle"]
  /\ UNCHANGED <<now, github, authorizationError, requests, syncProgress, checkpoints,
                 stored, lock>>

\* acquireSyncLock, for a run or for the handler that queues one.
TakeLock(w) ==
  /\ run[w].pc \in {"post", "lock"} /\ lock = NoWorker
  /\ lock' = w
  /\ run' = [run EXCEPT ![w].pc = IF run[w].pc = "post" THEN "queue" ELSE "begin"]
  /\ UNCHANGED <<now, github, authorizationError, requests, syncProgress, checkpoints, stored>>

\* 409: another goroutine holds the lock.
LockBusy(w) ==
  /\ run[w].pc \in {"post", "lock"} /\ lock # NoWorker
  /\ run' = [run EXCEPT ![w] = IdleRun]
  /\ UNCHANGED <<now, github, authorizationError, requests, syncProgress, checkpoints,
                 stored, lock>>

\* The row, read again under the lock, says another run just finished.
SkipRun(w) ==
  /\ run[w].pc = "begin" /\ ~Due
  /\ lock' = NoWorker
  /\ run' = [run EXCEPT ![w] = IdleRun]
  /\ UNCHANGED <<now, github, authorizationError, requests, syncProgress, checkpoints, stored>>

\* The request is taken and the mode decided from the row just read; the
\* cursor, the walk's start and the checkpoint are used from that same read.
BeginRun(w) ==
  /\ run[w].pc = "begin" /\ Due
  /\ syncRequestedAt' = 0
  /\ run' = [run EXCEPT ![w] = [IdleRun EXCEPT
               !.pc = "report", !.full = NextRunIsFull,
               !.pos = historyCursor, !.stamp = historyWalkStartedAt,
               !.since = Since, !.token = (authorizationError # "disconnected")]]
  /\ UNCHANGED <<now, github, authorizationError, fullSyncPending, syncProgress,
                 checkpoints, stored, lock>>

ReportRunning(w) ==
  /\ run[w].pc = "report"
  /\ syncProgress' = Reporting
  /\ run' = [run EXCEPT ![w].pc = "authorize"]
  /\ UNCHANGED <<now, github, authorizationError, requests, checkpoints, stored, lock>>

-----------------------------------------------------------------------------
(* The walk.  t is syncStarted, read off the clock of the run's replica.   *)

\* The cursor is used when it lies inside the walk.  It was truncated to the
\* second and t was not, so a cursor of this very tick is before t.
Resumes(w, t) == run[w].full /\ AccountCreated < run[w].pos /\ run[w].pos <= t

\* Variant: a resumed walk is stamped with the time it resumed.
StartWalkStampingResume(w, t) ==
  /\ run[w].pc = "authorize" /\ run[w].token
  /\ run' = [run EXCEPT ![w].pc = "walk", ![w].started = t, ![w].stamp = t,
               ![w].pos = IF Resumes(w, t) THEN run[w].pos + 1 ELSE AccountCreated]
  /\ historyWalkStartedAt' = IF run[w].full /\ ~Resumes(w, t) THEN t ELSE historyWalkStartedAt
  /\ syncProgress' = Reporting
  /\ UNCHANGED <<now, github, authorizationError, requests, historySyncedAt,
                 historyWalkedAt, historyCursor, stored, lock>>

\* GitHub accepted the credential: fix the end of the walk, resume an
\* interrupted one with the stamp of its start, or record a new start.
StartWalk(w, t) ==
  /\ run[w].pc = "authorize" /\ run[w].token
  /\ run' = [run EXCEPT ![w].pc = "walk", ![w].started = t,
               ![w].stamp = IF Resumes(w, t) /\ run[w].stamp \in 1 .. t - 1
                              THEN run[w].stamp ELSE t,
               ![w].pos = IF Resumes(w, t) THEN run[w].pos + 1 ELSE AccountCreated]
  /\ historyWalkStartedAt' = IF run[w].full /\ ~Resumes(w, t) THEN t ELSE historyWalkStartedAt
  /\ syncProgress' = Reporting
  /\ UNCHANGED <<now, github, authorizationError, requests, historySyncedAt,
                 historyWalkedAt, historyCursor, stored, lock>>

\* What a search over creation times pos .. end returns now.
Matching(w, end) ==
  {p \in PR : /\ indexed[p] # 0 /\ created[p] \in run[w].pos .. end
              /\ run[w].full \/ indexed[p] + Reread >= run[w].since}

\* Search the next interval that is small enough to be answered completely.
QueryLeaf(w, end) ==
  /\ run[w].pc = "walk" /\ run[w].leaf = 0 /\ end \in run[w].pos .. run[w].started
  /\ run' = [run EXCEPT ![w].leaf = end, ![w].todo = Matching(w, end)]
  /\ syncProgress' = Reporting
  /\ UNCHANGED <<now, github, authorizationError, requests, checkpoints, stored, lock>>

\* The page sink: the page as GitHub shows it now is committed.
SavePage(w, p) ==
  /\ run[w].pc = "walk" /\ p \in run[w].todo
  /\ stored' = [stored EXCEPT ![p] = indexed[p]]
  /\ run' = [run EXCEPT ![w].todo = @ \ {p}]
  /\ syncProgress' = Reporting
  /\ UNCHANGED <<now, github, authorizationError, requests, checkpoints, lock>>

\* Variant: the cursor is marked one past the end of the interval.
CompleteLeafPastEnd(w) ==
  /\ run[w].pc = "walk" /\ run[w].leaf # 0 /\ run[w].todo = {}
  /\ run' = [run EXCEPT ![w].pos = run[w].leaf + 1, ![w].leaf = 0]
  /\ historyCursor' = IF run[w].full THEN run[w].leaf + 1 ELSE historyCursor
  /\ UNCHANGED <<now, github, authorizationError, requests, syncProgress,
                 historySyncedAt, historyWalkedAt, historyWalkStartedAt, stored, lock>>

\* Variant: the next interval starts where this one ended.
CompleteLeafOverlapping(w) ==
  /\ run[w].pc = "walk" /\ run[w].leaf # 0 /\ run[w].todo = {}
  /\ run' = [run EXCEPT ![w].pos = run[w].leaf, ![w].leaf = 0]
  /\ historyCursor' = IF run[w].full THEN run[w].leaf ELSE historyCursor
  /\ UNCHANGED <<now, github, authorizationError, requests, syncProgress,
                 historySyncedAt, historyWalkedAt, historyWalkStartedAt, stored, lock>>

\* The interval is complete and stored; only a full walk carries the cursor.
CompleteLeaf(w) ==
  /\ run[w].pc = "walk" /\ run[w].leaf # 0 /\ run[w].todo = {}
  /\ run' = [run EXCEPT ![w].pos = run[w].leaf + 1, ![w].leaf = 0]
  /\ historyCursor' = IF run[w].full THEN run[w].leaf ELSE historyCursor
  /\ UNCHANGED <<now, github, authorizationError, requests, syncProgress,
                 historySyncedAt, historyWalkedAt, historyWalkStartedAt, stored, lock>>

WalkIsOver(w) == run[w].pc = "walk" /\ run[w].leaf = 0 /\ run[w].pos > run[w].started

\* The second search of an incremental run, "state:open", stores what it finds.
RefreshOpen(w, p) ==
  /\ WalkIsOver(w) /\ ~run[w].full
  /\ indexed[p] # 0 /\ created[p] <= run[w].started
  /\ stored' = [stored EXCEPT ![p] = indexed[p]]
  /\ syncProgress' = Reporting
  /\ UNCHANGED <<now, github, authorizationError, requests, checkpoints, lock, run>>

\* Variant: a finished walk leaves its cursor and its start behind.
FinishWalkKeepingCursor(w) ==
  /\ WalkIsOver(w)
  /\ run' = [run EXCEPT ![w].pc = "details"]
  /\ syncProgress' = Reporting
  /\ IF run[w].full
       THEN fullSyncPending' = FALSE /\ historyWalkedAt' = run[w].stamp
       ELSE UNCHANGED <<fullSyncPending, historyWalkedAt>>
  /\ UNCHANGED <<now, github, authorizationError, syncRequestedAt, historySyncedAt,
                 historyWalkStartedAt, historyCursor, stored, lock>>

\* A full walk is recorded as done before the phases that follow it.
FinishWalk(w) ==
  /\ WalkIsOver(w)
  /\ run' = [run EXCEPT ![w].pc = "details"]
  /\ syncProgress' = Reporting
  /\ IF run[w].full
       THEN /\ fullSyncPending' = FALSE
            /\ historyCursor' = 0 /\ historyWalkStartedAt' = 0
            /\ historyWalkedAt' = run[w].stamp
            /\ UNCHANGED historySyncedAt
       ELSE UNCHANGED <<fullSyncPending, checkpoints>>
  /\ UNCHANGED <<now, github, authorizationError, syncRequestedAt, stored, lock>>

\* One more pull request has its details; the record only gets younger.
AdvanceDetails(w) ==
  /\ run[w].pc = "details"
  /\ syncProgress' = [syncProgress EXCEPT !.updatedAt = now]
  /\ UNCHANGED <<now, github, authorizationError, requests, checkpoints, stored, lock, run>>

\* The checkpoint; the write of the inventory baseline after it may still fail.
SaveCheckpoint(w) ==
  /\ run[w].pc = "details"
  /\ historySyncedAt' = run[w].stamp
  /\ fullSyncPending' = FALSE
  /\ \E code \in {"", "upstream"} : run' = [run EXCEPT ![w].pc = "finish", ![w].code = code]
  /\ UNCHANGED <<now, github, authorizationError, syncRequestedAt, syncProgress,
                 historyWalkedAt, historyWalkStartedAt, historyCursor, stored, lock>>

-----------------------------------------------------------------------------
(* How a run ends.                                                         *)

\* searchHistoryPage sleeps out a secondary rate limit.
WaitForRateLimit(w) ==
  /\ run[w].pc = "walk" /\ ~WalkIsOver(w)
  /\ syncProgress' = [syncProgress EXCEPT !.retryAt = now + RetryDelay, !.updatedAt = now]
  /\ UNCHANGED <<now, github, authorizationError, requests, checkpoints, stored, lock, run>>

\* recordFailure: the class of the failure is persisted at once.
Fail(w, code) ==
  /\ run[w].pc \in {"authorize", "walk", "details"} /\ code # ""
  /\ syncProgress' = [syncProgress EXCEPT !.code = code, !.updatedAt = now,
        !.retryAt = IF code = "rate_limited" THEN now + RetryDelay ELSE @]
  /\ run' = [run EXCEPT ![w] = [IdleRun EXCEPT !.pc = "finish", !.code = code]]
  /\ UNCHANGED <<now, github, authorizationError, requests, checkpoints, stored, lock>>

\* No usable credential, or the row could not be written: finishResult names
\* the failure, and nothing is persisted before finish.
FailUnrecorded(w, code) ==
  /\ \/ run[w].pc = "authorize" /\ code = "reconnect"
     \/ run[w].pc \in {"authorize", "walk", "details"} /\ code = "upstream"
  /\ run' = [run EXCEPT ![w] = [IdleRun EXCEPT !.pc = "finish", !.code = code]]
  /\ UNCHANGED <<now, github, authorizationError, requests, syncProgress, checkpoints,
                 stored, lock>>

\* The deferred finish, then the deferred release of the lock.
Finish(w) ==
  /\ run[w].pc = "finish"
  /\ LET ok == run[w].code = "" IN
     /\ syncProgress' =
          [status |-> IF ok THEN "complete"
                      ELSE IF run[w].code = "interrupted" THEN "interrupted" ELSE "failed",
           code |-> run[w].code,
           retryAt |-> IF ok THEN 0 ELSE syncProgress.retryAt,
           updatedAt |-> now]
     /\ authorizationError' = IF run[w].code = "reconnect" THEN "reconnect"
                                                           ELSE authorizationError
  /\ lock' = NoWorker
  /\ run' = [run EXCEPT ![w] = IdleRun]
  /\ UNCHANGED <<now, github, requests, checkpoints, stored>>

\* The process dies; PostgreSQL frees the lock with its connection.  Also a
\* database outage: every remaining write of the run is lost.
Crash(w) ==
  /\ run[w].pc # "idle"
  /\ lock' = IF lock = w THEN NoWorker ELSE lock
  /\ run' = [run EXCEPT ![w] = IdleRun]
  /\ UNCHANGED <<now, github, authorizationError, requests, syncProgress, checkpoints, stored>>

-----------------------------------------------------------------------------
\* What the program itself does next for a goroutine.
Proceed(w) ==
  \/ \E full \in BOOLEAN : QueueSync(w, full)
  \/ CheckConnection(w) \/ TakeLock(w) \/ LockBusy(w) \/ SkipRun(w)
  \/ BeginRun(w) \/ ReportRunning(w)
  \/ \E t \in now - ClockSkew .. now : t > 0 /\ StartWalk(w, t)
  \/ \E end \in 1 .. MaxTime : QueryLeaf(w, end)
  \/ \E p \in PR : SavePage(w, p)
  \/ CompleteLeaf(w) \/ FinishWalk(w) \/ SaveCheckpoint(w)
  \/ \E code \in ErrorCode : Fail(w, code) \/ FailUnrecorded(w, code)
  \/ Finish(w)

\* What the program may do any number of times without getting further.
Dawdle(w) == (\E p \in PR : RefreshOpen(w, p)) \/ AdvanceDetails(w) \/ WaitForRateLimit(w)

Next ==
  \/ Tick \/ Disconnect
  \/ \E p \in PR : OpenPR(p) \/ ChangePR(p) \/ IndexPR(p)
  \/ \E w \in Worker : \/ Login(w) \/ PostSync(w) \/ Schedule(w)
                       \/ Proceed(w) \/ Dawdle(w) \/ Crash(w)

Spec == Init /\ [][Next]_vars

\* Goroutines run, GitHub calls return or time out, and cron keeps firing.
Fairness ==
  /\ \A w \in Worker : WF_vars(Proceed(w))
  /\ WF_vars(\E w \in Worker : Schedule(w))

FairSpec == Spec /\ Fairness

-----------------------------------------------------------------------------
(* Properties.                                                             *)

\* Values written by a clock that shows n.
ProgressRecord(n) == [status : Status, code : ErrorCode, retryAt : Nat, updatedAt : 0 .. n]
RunRecord(n) == [pc : Phase, full : BOOLEAN, started : 0 .. n, stamp : 0 .. n,
                 pos : 0 .. n + 1, leaf : 0 .. n, todo : SUBSET PR,
                 since : 0 .. n, token : BOOLEAN, code : ErrorCode]

GitHubType ==
  /\ created \in [PR -> 0 .. now] /\ changed \in [PR -> 0 .. now]
  /\ indexed \in [PR -> 0 .. now] /\ stored \in [PR -> 0 .. now]

RowType ==
  /\ authorizationError \in {"", "reconnect", "disconnected"}
  /\ syncRequestedAt \in 0 .. now /\ fullSyncPending \in BOOLEAN
  /\ historySyncedAt \in 0 .. now /\ historyWalkedAt \in 0 .. now
  /\ historyWalkStartedAt \in 0 .. now /\ historyCursor \in 0 .. now
  /\ lock \in Worker \cup {NoWorker}

\* Every variable has its type, and no checkpoint lies in the future of the
\* clock that wrote it (sync_progress.go, main.go: stamps are time.Now()).
TypeOK ==
  /\ now \in Nat /\ AccountCreated <= now
  /\ GitHubType
  /\ RowType
  /\ syncProgress \in ProgressRecord(now)
  /\ run \in [Worker -> RunRecord(now)]

\* The stored copy of a pull request does not show its latest change.
Missed(p) == stored[p] # changed[p]

\* An incremental query about what changed since t reads p again.
InReach(p, t) == changed[p] + Reread >= t

\* A change that is not stored yet is within reach of what the row makes the
\* next runs do: read by the rest of the full walk, or young enough for the
\* incremental query.  A change out of reach is lost for good, since nothing
\* else re-reads the row (main.go, "The walk is stamped with the time it
\* started"; a cursor promises everything before it is stored).
NothingLost ==
  \A p \in PR : Missed(p) =>
    IF NextRunIsFull
      THEN \/ historyCursor <= AccountCreated \/ created[p] > historyCursor
           \/ historyWalkStartedAt # 0 /\ InReach(p, historyWalkStartedAt)
      ELSE InReach(p, Since)

\* While w's run is in flight there is no request in the row, and once it can
\* only write its final checkpoint no full sync is pending.
RequestKept(w) ==
  run[w].pc \in Running =>
    /\ syncRequestedAt = 0
    /\ run[w].pc # "finish" /\ (run[w].pc = "details" \/ ~run[w].full) => ~fullSyncPending

\* A run cannot wipe a request it does not serve, although its final write
\* clears full_sync_pending without reading the row again: only the lock in
\* syncGitHub keeps requests out of its way.
NoRequestWiped == \A w \in Worker : RequestKept(w)

\* A run in flight is what the progress record shows, so a poll of
\* GET /sync/progress never sees "queued" or "complete" in the middle of one.
LiveRunReported ==
  \A w \in Worker : run[w].pc \in {"authorize", "walk", "details"} =>
    syncProgress.status = "running"

\* The checkpoint never moves back, although a resumed walk is stamped with an
\* old time: nothing incremental completes between a walk and its resumption.
CheckpointMonotone == [][historySyncedAt' >= historySyncedAt]_historySyncedAt

\* A process dies, where giving up is not what the code itself does next.
Dies(w) == Crash(w) /\ ~LockBusy(w) /\ ~SkipRun(w) /\ ~CheckConnection(w)

\* An accepted request starts a run, whatever the hold-offs say, unless the
\* account is suspended, crashes never end, or new requests keep taking the
\* lock (sync_queue.go: "The scheduler recovers accepted work if the process
\* stops before its worker starts").
RequestServed ==
  <>[][\A w \in Worker : ~Dies(w) /\ ~PostSync(w)]_vars =>
    (syncRequestedAt # 0 ~> (syncRequestedAt = 0 \/ ~Connected))

\* An accepted full sync completes a walk, however many runs die under way,
\* once runs stop dying: the cursor keeps what they stored and
\* full_sync_pending keeps the mode (main.go, "A full walk that was interrupted
\* resumes where it stopped").
FullSyncCompletes ==
  <>[][\A w \in Worker, code \in ErrorCode :
         ~Dies(w) /\ ~PostSync(w) /\ ~Fail(w, code) /\ ~FailUnrecorded(w, code)]_vars =>
    (fullSyncPending ~> (~fullSyncPending \/ ~Connected))

-----------------------------------------------------------------------------
(* The inductive invariant behind NothingLost, for clocks that agree.      *)

\* The lock is held by the one goroutine that is past it.
LockInv == \A w \in Worker : run[w].pc \in Locked <=> lock = w

\* What can be said of GitHub: changes follow creation, and a change that is
\* not in the index is recent.
GitHubInv ==
  \A p \in PR :
    /\ created[p] <= changed[p]
    /\ created[p] = 0 => changed[p] = 0 /\ indexed[p] = 0 /\ stored[p] = 0
    /\ created[p] # 0 => created[p] >= AccountCreated
    /\ indexed[p] # changed[p] => changed[p] + IndexLag >= now

\* A cursor and a walk's start exist only while a full walk is owed, the
\* cursor never without the start, and the start is not behind the checkpoint.
CursorInv ==
  /\ historyWalkStartedAt # 0 => NextRunIsFull /\ historySyncedAt <= historyWalkStartedAt
  /\ historyCursor # 0 => historyWalkStartedAt # 0

\* Run w has read p's part of the history.
Covered(w, p) ==
  \/ created[p] < run[w].pos
  \/ run[w].leaf # 0 /\ created[p] <= run[w].leaf /\ p \notin run[w].todo

\* A run carries what it read off the row, a walk has stored what it covered
\* up to changes after its stamp, and a finished walk has covered everything.
RunInv(w) ==
  /\ run[w].pc \in {"report", "authorize"} =>
       /\ run[w].full = NextRunIsFull /\ run[w].since = Since
       /\ run[w].pos = historyCursor /\ run[w].stamp = historyWalkStartedAt
       /\ run[w].leaf = 0
  /\ run[w].pc = "walk" =>
       /\ run[w].full = NextRunIsFull
       /\ run[w].full => run[w].stamp = historyWalkStartedAt
       /\ ~run[w].full => run[w].since = Since
       /\ 0 < run[w].stamp /\ run[w].stamp <= run[w].started
       /\ historySyncedAt <= run[w].stamp
       /\ \A p \in PR : Covered(w, p) /\ Missed(p) => InReach(p, run[w].stamp)
  /\ run[w].pc = "details" =>
       /\ ~NextRunIsFull /\ 0 < run[w].stamp /\ historySyncedAt <= run[w].stamp
       /\ \A p \in PR : Missed(p) => InReach(p, run[w].stamp)

\* Everything NothingLost needs to hold after one more step: the next state's
\* row is judged by what the runs in flight have promised.
WalkInvariant ==
  LockInv /\ GitHubInv /\ CursorInv /\ NothingLost /\ \A w \in Worker : RunInv(w)

=============================================================================
