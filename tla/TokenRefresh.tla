---------------------------- MODULE TokenRefresh ----------------------------
(***************************************************************************)
(* The GitHub credential of one account: who renews it when its access     *)
(* token expires, and what renewals, logins, disconnections and the ends   *)
(* of runs write over one another.                                         *)
(*                                                                         *)
(* A grant is an access token and a refresh token; GitHub numbers them     *)
(* here, so a column holds the number of the grant it was taken from, and  *)
(* 0 stands for empty or NULL; an empty authorization_error is "none".     *)
(* Callers are request handlers and runs of syncSession, over all          *)
(* replicas.  A renewal is a transaction under an advisory lock keyed by   *)
(* the row; logins are serialized by another key and logouts by none, so   *)
(* neither waits for it.                                                   *)
(*                                                                         *)
(* Left out: encryption, legacy accounts (git_hub_id = 0), what a handler  *)
(* does with its token, a transaction that loses its database connection   *)
(* during the exchange.  Requests to GitHub within a run are one state.    *)
(***************************************************************************)
EXTENDS Integers, FiniteSets

CONSTANTS
  Worker,         \* goroutines, over all replicas
  NoWorker,       \* the account's advisory lock is free
  Window,         \* tokenRefreshWindow, 10 minutes in the code
  RunTimeout,     \* how long a run may take, 30 minutes in the code
  Lifetime,       \* of an access token at GitHub, 8 hours
  LoginRetires,   \* GitHub retires the grants before a new login
  MaxGrant,       \* bound of the grants issued
  MaxTime         \* bound of the clock

ASSUME TokenAssumption ==
  /\ NoWorker \notin Worker
  /\ Window \in Nat /\ RunTimeout \in Nat /\ Lifetime \in Nat
  /\ LoginRetires \in BOOLEAN
  /\ MaxGrant \in Nat /\ MaxTime \in Nat

VARIABLES
  now,
  \* GitHub
  issued,              \* how many grants there have been
  live,                \* refresh tokens it honours
  spent,               \* refresh tokens used up for a grant that was not lost
  expiry,              \* per grant: when its access token dies, 0 for never
  \* the account's row
  token, refreshToken, tokenExpiresAt, authorizationError,
  \* the processes
  lock,                \* holder of the renewal lock
  call                 \* what each goroutine is doing

github == <<issued, live, spent, expiry>>
row == <<token, refreshToken, tokenExpiresAt, authorizationError>>
vars == <<now, github, row, lock, call>>

Grant == 1 .. MaxGrant
\* isRun: the caller is syncSession.  since: when it began.  refresh: the
\* token it presents.  got: the grant it was handed.
Idle == [pc |-> "idle", isRun |-> FALSE, since |-> 0, refresh |-> 0, got |-> 0]

Init ==
  /\ now = 1 /\ issued = 0 /\ live = {} /\ spent = {}
  /\ expiry = [g \in Grant |-> 0]
  /\ token = 0 /\ refreshToken = 0 /\ tokenExpiresAt = 0
  /\ authorizationError = "disconnected"
  /\ lock = NoWorker
  /\ call = [w \in Worker |-> Idle]

\* tokenExpired and refreshable, of the row.
TokenExpired == tokenExpiresAt # 0 /\ tokenExpiresAt <= now + Window
Refreshable == refreshToken # 0 /\ tokenExpiresAt # 0

Free(w) == IF lock = w THEN NoWorker ELSE lock

\* A call that ends without a token: a run still has its own verdict to write.
Failed(w) == IF call[w].isRun THEN [call[w] EXCEPT !.pc = "fail"] ELSE Idle
\* A call that ends with one: what a handler does with it is not modelled.
Served(w, g) == IF call[w].isRun THEN [call[w] EXCEPT !.pc = "use", !.got = g] ELSE Idle

-----------------------------------------------------------------------------
(* Time and GitHub.                                                        *)

\* A run is cancelled at its timeout.
Tick ==
  /\ now < MaxTime
  /\ \A w \in Worker : call[w].isRun => now < call[w].since + RunTimeout
  /\ now' = now + 1
  /\ UNCHANGED <<github, row, lock, call>>

\* The owner revokes the authorization.
Revoke ==
  /\ live # {} /\ live' = {}
  /\ UNCHANGED <<now, issued, spent, expiry, row, lock, call>>

-----------------------------------------------------------------------------
(* Login and logout.                                                       *)

\* githubCallback trades the code for a grant; an App may leave out the
\* expiry or the refresh token.
Authorize(w, expires, renews) ==
  LET g == issued + 1 IN
  /\ call[w].pc = "idle" /\ g \in Grant
  /\ issued' = g
  /\ live' = (IF LoginRetires THEN {} ELSE live) \cup (IF renews THEN {g} ELSE {})
  /\ expiry' = [expiry EXCEPT ![g] = IF expires THEN now + Lifetime ELSE 0]
  /\ call' = [call EXCEPT ![w] = [Idle EXCEPT !.pc = "store", !.got = g,
                                    !.refresh = IF renews THEN g ELSE 0]]
  /\ UNCHANGED <<now, spent, row, lock>>

\* Variant: an empty refresh token in the candidate does not overwrite the column.
StoreLoginSkippingEmpty(w) ==
  /\ call[w].pc = "store"
  /\ token' = call[w].got
  /\ refreshToken' = IF call[w].refresh = 0 THEN refreshToken ELSE call[w].refresh
  /\ tokenExpiresAt' = expiry[call[w].got]
  /\ authorizationError' = "none"
  /\ call' = [call EXCEPT ![w] = Idle]
  /\ UNCHANGED <<now, github, lock>>

\* connectAccount replaces the whole grant.
StoreLogin(w) ==
  /\ call[w].pc = "store"
  /\ token' = call[w].got /\ refreshToken' = call[w].refresh
  /\ tokenExpiresAt' = expiry[call[w].got]
  /\ authorizationError' = "none"
  /\ call' = [call EXCEPT ![w] = Idle]
  /\ UNCHANGED <<now, github, lock>>

Logout ==
  /\ authorizationError # "disconnected"
  /\ token' = 0 /\ refreshToken' = 0 /\ tokenExpiresAt' = 0
  /\ authorizationError' = "disconnected"
  /\ UNCHANGED <<now, github, lock, call>>

-----------------------------------------------------------------------------
(* accessTokenFor.                                                         *)

\* The row is read and its token judged.  Only one run at a time: they hold
\* the account's sync lock.
Ask(w, isRun) ==
  /\ call[w].pc = "idle"
  /\ isRun => \A v \in Worker : ~call[v].isRun
  /\ call' = [call EXCEPT ![w] =
       LET c == [Idle EXCEPT !.isRun = isRun, !.since = now] IN
       IF token = 0 THEN IF isRun THEN [c EXCEPT !.pc = "fail"] ELSE Idle
       ELSE IF ~TokenExpired
         THEN IF isRun THEN [c EXCEPT !.pc = "use", !.got = token] ELSE Idle
       ELSE [c EXCEPT !.pc = IF Refreshable THEN "lock" ELSE "mark", !.refresh = refreshToken]]
  /\ UNCHANGED <<now, github, row, lock>>

\* Variant: the token that was read before the wait is presented.
EnterWithoutReread(w) ==
  /\ call[w].pc = "lock" /\ lock = NoWorker
  /\ lock' = w
  /\ call' = [call EXCEPT ![w].pc = "exchange"]
  /\ UNCHANGED <<now, github, row>>

\* Variant: renewals do not wait for one another.
EnterUnlocked(w) ==
  /\ call[w].pc = "lock" /\ TokenExpired /\ Refreshable
  /\ lock' = w
  /\ call' = [call EXCEPT ![w].pc = "exchange", ![w].refresh = refreshToken]
  /\ UNCHANGED <<now, github, row>>

\* Under the lock the row is read again: somebody else may have renewed.
Enter(w) ==
  /\ call[w].pc = "lock" /\ lock = NoWorker
  /\ IF TokenExpired /\ Refreshable
       THEN /\ lock' = w
            /\ call' = [call EXCEPT ![w].pc = "exchange", ![w].refresh = refreshToken]
       ELSE /\ lock' = lock
            /\ call' = [call EXCEPT ![w] =
                 IF TokenExpired THEN [call[w] EXCEPT !.pc = "mark"]
                 ELSE IF token = 0 THEN Failed(w) ELSE Served(w, token)]
  /\ UNCHANGED <<now, github, row>>

\* GitHub honours the refresh token, once.
Granted(w) ==
  LET g == issued + 1 IN
  /\ call[w].pc = "exchange" /\ call[w].refresh \in live /\ g \in Grant
  /\ issued' = g
  /\ live' = (live \ {call[w].refresh}) \cup {g}
  /\ spent' = spent \cup {call[w].refresh}
  /\ expiry' = [expiry EXCEPT ![g] = now + Lifetime]
  /\ call' = [call EXCEPT ![w].pc = "commit", ![w].got = g]
  /\ UNCHANGED <<now, row, lock>>

\* Variant: a refusal leaves the transaction open.
RefusedHoldingLock(w) ==
  /\ call[w].pc = "exchange" /\ call[w].refresh \notin live
  /\ call' = [call EXCEPT ![w].pc = "mark"]
  /\ UNCHANGED <<now, github, row, lock>>

Refused(w) ==
  /\ call[w].pc = "exchange" /\ call[w].refresh \notin live
  /\ lock' = NoWorker
  /\ call' = [call EXCEPT ![w].pc = "mark"]
  /\ UNCHANGED <<now, github, row>>

\* The exchange times out or its caller is cancelled before GitHub sees it.
TimedOut(w) ==
  /\ call[w].pc = "exchange"
  /\ lock' = NoWorker
  /\ call' = [call EXCEPT ![w].pc = "mark"]
  /\ UNCHANGED <<now, github, row>>

\* GitHub has renewed the grant and the answer is lost.
AnswerLost(w) ==
  /\ call[w].pc = "exchange" /\ call[w].refresh \in live
  /\ live' = live \ {call[w].refresh}
  /\ lock' = NoWorker
  /\ call' = [call EXCEPT ![w].pc = "mark"]
  /\ UNCHANGED <<now, issued, spent, expiry, row>>

\* Variant: the new refresh token is not taken from the answer.
CommitKeepingRefresh(w) ==
  /\ call[w].pc = "commit"
  /\ token' = call[w].got
  /\ tokenExpiresAt' = expiry[call[w].got]
  /\ authorizationError' = "none"
  /\ lock' = NoWorker
  /\ call' = [call EXCEPT ![w] = Served(w, call[w].got)]
  /\ UNCHANGED <<now, github, refreshToken>>

\* The renewed grant is stored, whatever the row says by now, and a failure
\* flag cleared.
Commit(w) ==
  /\ call[w].pc = "commit"
  /\ token' = call[w].got /\ refreshToken' = call[w].got
  /\ tokenExpiresAt' = expiry[call[w].got]
  /\ authorizationError' = "none"
  /\ lock' = NoWorker
  /\ call' = [call EXCEPT ![w] = Served(w, call[w].got)]
  /\ UNCHANGED <<now, github>>

CommitFails(w) ==
  /\ call[w].pc = "commit"
  /\ spent' = spent \ {call[w].refresh}
  /\ lock' = NoWorker
  /\ call' = [call EXCEPT ![w] = Failed(w)]
  /\ UNCHANGED <<now, issued, live, expiry, row>>

\* markTokenLapsed, after the transaction.
Mark(w) ==
  /\ call[w].pc = "mark"
  /\ authorizationError' = "reconnect"
  /\ call' = [call EXCEPT ![w] = Failed(w)]
  /\ UNCHANGED <<now, github, token, refreshToken, tokenExpiresAt, lock>>

-----------------------------------------------------------------------------
(* The end of a run.                                                       *)

\* GitHub answers 401: the token has expired or was revoked.
Rejected(w) ==
  /\ call[w].pc = "use"
  /\ call' = [call EXCEPT ![w].pc = "fail"]
  /\ UNCHANGED <<now, github, row, lock>>

\* syncTracker.finish, with code reconnect.
FinishReconnect(w) ==
  /\ call[w].pc = "fail"
  /\ authorizationError' = "reconnect"
  /\ call' = [call EXCEPT ![w] = Idle]
  /\ UNCHANGED <<now, github, token, refreshToken, tokenExpiresAt, lock>>

\* Any other end of a run.
Done(w) ==
  /\ call[w].pc = "use"
  /\ call' = [call EXCEPT ![w] = Idle]
  /\ UNCHANGED <<now, github, row, lock>>

\* The process dies, the caller is cancelled, or the database loses what
\* remains to be written.
Crash(w) ==
  /\ call[w].pc # "idle"
  /\ spent' = IF call[w].pc = "commit" THEN spent \ {call[w].refresh} ELSE spent
  /\ lock' = Free(w)
  /\ call' = [call EXCEPT ![w] = Idle]
  /\ UNCHANGED <<now, issued, live, expiry, row>>

-----------------------------------------------------------------------------
Proceed(w) ==
  \/ StoreLogin(w)
  \/ Granted(w) \/ Refused(w) \/ TimedOut(w) \/ AnswerLost(w)
  \/ Commit(w) \/ CommitFails(w) \/ Mark(w)
  \/ Rejected(w) \/ FinishReconnect(w) \/ Done(w)

Next ==
  \/ Tick \/ Revoke \/ Logout
  \/ \E w \in Worker :
       \/ \E expires, renews \in BOOLEAN : Authorize(w, expires, renews)
       \/ \E isRun \in BOOLEAN : Ask(w, isRun)
       \/ Enter(w) \/ Proceed(w) \/ Crash(w)

Spec == Init /\ [][Next]_vars

\* Goroutines run, every call has a timeout, and PostgreSQL queues the
\* waiters of a lock.
Fairness == \A w \in Worker : WF_vars(Proceed(w)) /\ SF_vars(Enter(w))

FairSpec == Spec /\ Fairness

-----------------------------------------------------------------------------
(* Properties.                                                             *)

Phase == {"idle", "store", "lock", "exchange", "commit", "mark", "use", "fail"}

\* Calls on a clock that shows n, with m grants issued.
CallRecord(n, m) == [pc : Phase, isRun : BOOLEAN, since : 0 .. n,
                     refresh : 0 .. m, got : 0 .. m]

\* A grant about to be stored has been issued.
CallType ==
  /\ call \in [Worker -> CallRecord(now, issued)]
  /\ \A w \in Worker :
       /\ call[w].pc \in {"store", "commit"} => call[w].got # 0
       /\ call[w].pc = "store" => call[w].refresh \in {0, call[w].got}

\* The columns come from one grant: an old refresh token or expiry never stays
\* behind (token_refresh.go, storeToken: "the one place the four columns are derived").
RowType ==
  /\ token \in 0 .. issued /\ refreshToken \in {0, token}
  /\ tokenExpiresAt = IF token = 0 THEN 0 ELSE expiry[token]
  /\ authorizationError \in {"none", "reconnect", "disconnected"}

\* Every variable has its type, and the row only holds grants GitHub issued.
TypeOK ==
  /\ now \in Nat /\ issued \in 0 .. MaxGrant
  /\ live \subseteq 1 .. issued /\ spent \subseteq 1 .. issued
  /\ expiry \in [Grant -> Nat]
  /\ RowType
  /\ lock \in Worker \cup {NoWorker}
  /\ CallType

\* No renewal presents a refresh token another one has spent, unless what it was
\* spent for was lost on its way: rotation by GitHub alone never locks an account
\* out (token_refresh.go, accessTokenFor: "Serialization is not an optimisation here").
NoDoubleRenewal ==
  \A w \in Worker : call[w].pc = "exchange" => call[w].refresh \notin spent

\* The row holds an unspent refresh token, whatever logins and logouts did
\* meanwhile, except between a renewal and its commit.
StoredGrantUnspent ==
  refreshToken \in spent =>
    \E w \in Worker : call[w].pc = "commit" /\ call[w].refresh = refreshToken

\* Whoever waits for a renewal gets an answer, although holders die.
WaitersServed == \A w \in Worker : call[w].pc = "lock" ~> call[w].pc # "lock"

\* A disconnected account gets a credential from a login only.  main.go,
\* logout: what can mint a new access token "is the opposite of what
\* disconnecting means"; development.md: accounts "stop syncing after
\* disconnection".
DisconnectHolds ==
  [][token = 0 /\ token' # 0 => \E w \in Worker : StoreLogin(w)]_vars

-----------------------------------------------------------------------------
(* The inductive invariant behind NoDoubleRenewal and StoredGrantUnspent.  *)

\* The lock is held by the goroutine inside the transaction.
LockInv == \A w \in Worker : call[w].pc \in {"exchange", "commit"} <=> lock = w

\* The refresh token a call is about to write into the row.
Carried(c) == IF c.pc = "store" THEN c.refresh ELSE IF c.pc = "commit" THEN c.got ELSE 0

\* It is nobody else's: not the row's, not being renewed, not carried twice.
CarriedInv ==
  \A w \in Worker : Carried(call[w]) # 0 =>
    /\ Carried(call[w]) \notin spent /\ Carried(call[w]) # refreshToken
    /\ \A v \in Worker : /\ call[v].pc = "exchange" => call[v].refresh # Carried(call[w])
                         /\ v # w => Carried(call[v]) # Carried(call[w])

RotationInvariant == LockInv /\ NoDoubleRenewal /\ StoredGrantUnspent /\ CarriedInv

=============================================================================
