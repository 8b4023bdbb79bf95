------------------------ MODULE SyncSession_proofs ------------------------
(***************************************************************************)
(* Theorems about SyncSession, for every number of goroutines and of pull  *)
(* requests, every value of the intervals and an unbounded clock range.    *)
(***************************************************************************)
EXTENDS SyncSession, TLAPS

-----------------------------------------------------------------------------
(* Types.                                                                  *)

\* Any progress record the code writes, whole or in part, is one.
LEMMA ProgressWrites ==
  ASSUME NEW n \in Nat, NEW p \in ProgressRecord(n), NEW u \in 0 .. n,
         NEW s \in Status, NEW c \in ErrorCode, NEW r \in Nat
  PROVE  /\ [status |-> s, code |-> c, retryAt |-> r, updatedAt |-> u] \in ProgressRecord(n)
         /\ [p EXCEPT !.updatedAt = u] \in ProgressRecord(n)
         /\ [p EXCEPT !.retryAt = r, !.updatedAt = u] \in ProgressRecord(n)
         /\ [p EXCEPT !.code = c, !.updatedAt = u, !.retryAt = r] \in ProgressRecord(n)
         /\ p.status \in Status /\ p.retryAt \in Nat
<1> USE DEF ProgressRecord
<1>1. [status |-> s, code |-> c, retryAt |-> r, updatedAt |-> u] \in ProgressRecord(n)
  OBVIOUS
<1>2. [p EXCEPT !.updatedAt = u] \in ProgressRecord(n)
  OBVIOUS
<1>3. [p EXCEPT !.retryAt = r, !.updatedAt = u] \in ProgressRecord(n)
  OBVIOUS
<1>4. [p EXCEPT !.code = c, !.updatedAt = u, !.retryAt = r] \in ProgressRecord(n)
  OBVIOUS
<1>5. p.status \in Status /\ p.retryAt \in Nat
  OBVIOUS
<1>6. QED
  BY <1>1, <1>2, <1>3, <1>4, <1>5

\* Reading a run's fields.
LEMMA RunFields ==
  ASSUME NEW n \in Nat, NEW r \in RunRecord(n)
  PROVE  /\ r.full \in BOOLEAN /\ r.token \in BOOLEAN /\ r.todo \in SUBSET PR
         /\ r.started \in 0 .. n /\ r.stamp \in 0 .. n /\ r.pos \in 0 .. n + 1
         /\ r.leaf \in 0 .. n /\ r.since \in 0 .. n
         /\ r.pc \in Phase /\ r.code \in ErrorCode
  BY DEF RunRecord

\* The records a goroutine writes over its own: a new phase, ...
LEMMA PhaseWrites ==
  ASSUME NEW n \in Nat, NEW r \in RunRecord(n), NEW ph \in Phase
  PROVE  [r EXCEPT !.pc = ph] \in RunRecord(n)
  BY DEF RunRecord

\* ... the start of a walk, ...
LEMMA StartWrites ==
  ASSUME NEW n \in Nat, NEW r \in RunRecord(n), NEW s \in 0 .. n, NEW st \in 0 .. n,
         NEW po \in 0 .. n + 1
  PROVE  [r EXCEPT !.pc = "walk", !.started = s, !.stamp = st, !.pos = po] \in RunRecord(n)
<1>1. "walk" \in Phase
  BY DEF Phase
<1>2. QED
  BY <1>1 DEF RunRecord

\* ... the interval it queries, ...
LEMMA LeafWrites ==
  ASSUME NEW n \in Nat, NEW r \in RunRecord(n), NEW le \in 0 .. n, NEW to \in SUBSET PR
  PROVE  [r EXCEPT !.leaf = le, !.todo = to] \in RunRecord(n)
  BY DEF RunRecord

\* ... the pages that are left ...
LEMMA PageWrites ==
  ASSUME NEW n \in Nat, NEW r \in RunRecord(n), NEW to \in SUBSET PR
  PROVE  [r EXCEPT !.todo = to] \in RunRecord(n)
  BY DEF RunRecord

\* ... and the place an interval leaves it at.
LEMMA CursorWrites ==
  ASSUME NEW n \in Nat, NEW r \in RunRecord(n), NEW po \in 0 .. n + 1
  PROVE  [r EXCEPT !.pos = po, !.leaf = 0] \in RunRecord(n)
<1>1. 0 \in 0 .. n
  OBVIOUS
<1>2. QED
  BY <1>1 DEF RunRecord

\* The end of a run that got through.
LEMMA FinishWrites ==
  ASSUME NEW n \in Nat, NEW r \in RunRecord(n), NEW c \in ErrorCode
  PROVE  [r EXCEPT !.pc = "finish", !.code = c] \in RunRecord(n)
<1>1. "finish" \in Phase
  BY DEF Phase
<1>2. QED
  BY <1>1 DEF RunRecord

\* A goroutine that has ended, ...
LEMMA IdleWrites == ASSUME NEW n \in Nat PROVE IdleRun \in RunRecord(n)
<1>1. {} \in SUBSET PR /\ "idle" \in Phase /\ "" \in ErrorCode
  BY DEF Phase, ErrorCode
<1>2. 0 \in 0 .. n /\ 0 \in 0 .. n + 1
  OBVIOUS
<1>3. QED
  BY <1>1, <1>2 DEF RunRecord, IdleRun

\* ... one whose run failed, ...
LEMMA FailedWrites ==
  ASSUME NEW n \in Nat, NEW c \in ErrorCode
  PROVE  [IdleRun EXCEPT !.pc = "finish", !.code = c] \in RunRecord(n)
<1>1. "finish" \in Phase
  BY DEF Phase
<1>2. QED
  BY <1>1, IdleWrites DEF RunRecord

\* ... and one that begins a run.
LEMMA BeginWrites ==
  ASSUME NEW n \in Nat, NEW f \in BOOLEAN, NEW po \in 0 .. n,
         NEW st \in 0 .. n, NEW si \in 0 .. n, NEW to \in BOOLEAN
  PROVE  [IdleRun EXCEPT !.pc = "report", !.full = f, !.pos = po, !.stamp = st,
                         !.since = si, !.token = to] \in RunRecord(n)
<1>1. "report" \in Phase
  BY DEF Phase
<1>2. po \in 0 .. n + 1
  OBVIOUS
<1>3. QED
  BY <1>1, <1>2, IdleWrites DEF RunRecord

\* Records stay records when the clock advances.
LEMMA LaterRecords ==
  ASSUME NEW n \in Nat
  PROVE  /\ ProgressRecord(n) \subseteq ProgressRecord(n + 1)
         /\ RunRecord(n) \subseteq RunRecord(n + 1)
  BY DEF ProgressRecord, RunRecord

LEMMA TypeInit == Init => TypeOK
<1> SUFFICES ASSUME Init PROVE TypeOK
  OBVIOUS
<1>1. now \in Nat /\ AccountCreated <= now
  <2>1. now = AccountCreated
    BY DEF Init
  <2>2. QED
    BY <2>1, TimeAssumption
<1>2. 0 \in 0 .. now /\ {"idle"} \subseteq Status /\ "" \in ErrorCode
  BY <1>1 DEF Status, ErrorCode
<1>3. GitHubType
  BY <1>2 DEF Init, GitHubType
<1>4. RowType
  BY <1>2 DEF Init, RowType
<1>5. syncProgress \in ProgressRecord(now)
  BY <1>2 DEF Init, ProgressRecord
<1>6. run \in [Worker -> RunRecord(now)]
  <2>1. IdleRun \in RunRecord(now)
    BY <1>1, <1>2, IdleWrites
  <2>2. QED
    BY <2>1 DEF Init
<1>7. QED
  BY <1>1, <1>3, <1>4, <1>5, <1>6 DEF TypeOK

\* What a step leaves alone keeps its type while the clock stands still.
LEMMA Unchanged ==
  ASSUME TypeOK, now' = now
  PROVE  /\ UNCHANGED <<github, stored>> => GitHubType'
         /\ UNCHANGED <<authorizationError, requests, checkpoints, lock>> => RowType'
         /\ UNCHANGED syncProgress => syncProgress' \in ProgressRecord(now')
         /\ UNCHANGED run => run' \in [Worker -> RunRecord(now')]
<1> USE DEF TypeOK
<1>1. ASSUME UNCHANGED <<github, stored>> PROVE GitHubType'
  BY <1>1 DEF GitHubType, github
<1>2. ASSUME UNCHANGED <<authorizationError, requests, checkpoints, lock>> PROVE RowType'
  BY <1>2 DEF RowType, requests, checkpoints
<1>3. ASSUME UNCHANGED syncProgress PROVE syncProgress' \in ProgressRecord(now')
  BY <1>3
<1>4. ASSUME UNCHANGED run PROVE run' \in [Worker -> RunRecord(now')]
  BY <1>4
<1>5. QED
  BY <1>1, <1>2, <1>3, <1>4

\* The progress records and the runs a goroutine writes, as the actions say it.
LEMMA Written ==
  ASSUME TypeOK, now' = now, NEW w \in Worker
  PROVE  /\ syncProgress' = Reporting => syncProgress' \in ProgressRecord(now')
         /\ \A ph \in Phase :
              run' = [run EXCEPT ![w].pc = ph] => run' \in [Worker -> RunRecord(now')]
         /\ run' = [run EXCEPT ![w] = IdleRun] => run' \in [Worker -> RunRecord(now')]
<1>1. now \in Nat /\ now \in 0 .. now /\ 0 \in 0 .. now /\ 0 \in Nat
  BY DEF TypeOK
<1>2. syncProgress \in ProgressRecord(now) /\ run \in [Worker -> RunRecord(now)]
  BY DEF TypeOK
<1>3. Reporting \in ProgressRecord(now)
  <2>1. "running" \in Status /\ "" \in ErrorCode
    BY DEF Status, ErrorCode
  <2>2. QED
    BY <1>1, <1>2, <2>1, ProgressWrites DEF Reporting
<1>4. ASSUME NEW ph \in Phase, run' = [run EXCEPT ![w].pc = ph]
      PROVE  run' \in [Worker -> RunRecord(now')]
  <2>1. [run[w] EXCEPT !.pc = ph] \in RunRecord(now)
    BY <1>1, <1>2, PhaseWrites
  <2>2. QED
    BY <1>2, <1>4, <2>1
<1>5. IdleRun \in RunRecord(now)
  BY <1>1, IdleWrites
<1>6. QED
  BY <1>2, <1>3, <1>4, <1>5

LEMMA TypeStep == TypeOK /\ [Next]_vars => TypeOK'
<1> SUFFICES ASSUME TypeOK, [Next]_vars PROVE TypeOK'
  OBVIOUS
<1>a. /\ now \in Nat /\ now \in 0 .. now /\ 0 \in 0 .. now /\ 0 \in Nat
      /\ AccountCreated \in 1 .. now
  BY TimeAssumption DEF TypeOK
<1>b. GitHubType /\ RowType
  BY DEF TypeOK
<1>c. syncProgress \in ProgressRecord(now) /\ run \in [Worker -> RunRecord(now)]
  BY DEF TypeOK
<1>d. /\ {"queued", "running", "complete", "failed", "interrupted"} \subseteq Status
      /\ {"post", "queue", "start", "lock", "begin", "authorize", "walk", "details", "finish", "idle"} \subseteq Phase
      /\ "" \in ErrorCode /\ "reconnect" \in ErrorCode /\ "upstream" \in ErrorCode
  BY DEF Status, Phase, ErrorCode
<1>1. CASE Tick
  <2>1. /\ now' = now + 1 /\ now' \in Nat /\ AccountCreated <= now' /\ 0 .. now \subseteq 0 .. now'
        /\ UNCHANGED <<github, stored, authorizationError, requests, syncProgress, checkpoints, lock, run>>
    BY <1>1, <1>a DEF Tick
  <2>2. GitHubType'
    BY <2>1, <1>b DEF GitHubType, github
  <2>3. RowType'
    BY <2>1, <1>b DEF RowType, requests, checkpoints
  <2>4. QED
    BY <2>1, <2>2, <2>3, <1>a, <1>c, LaterRecords DEF TypeOK
<1>2. CASE Disconnect
  <2>1. RowType'
    BY <1>2, <1>b DEF Disconnect, RowType, requests, checkpoints
  <2>2. QED
    BY <1>2, <1>a, <2>1, Unchanged DEF Disconnect, TypeOK
<1>3. ASSUME NEW p \in PR, OpenPR(p) \/ ChangePR(p) \/ IndexPR(p) PROVE TypeOK'
  <2>1. CASE OpenPR(p)
    <3>1. GitHubType'
      BY <2>1, <1>a, <1>b DEF OpenPR, GitHubType
    <3>2. QED
      BY <2>1, <1>a, <3>1, Unchanged DEF OpenPR, TypeOK
  <2>2. CASE ChangePR(p)
    <3>1. GitHubType'
      BY <2>2, <1>a, <1>b DEF ChangePR, GitHubType
    <3>2. QED
      BY <2>2, <1>a, <3>1, Unchanged DEF ChangePR, TypeOK
  <2>3. CASE IndexPR(p)
    <3>1. GitHubType'
      BY <2>3, <1>a, <1>b DEF IndexPR, GitHubType
    <3>2. QED
      BY <2>3, <1>a, <3>1, Unchanged DEF IndexPR, TypeOK
  <2>4. QED
    BY <1>3, <2>1, <2>2, <2>3
<1>4. ASSUME NEW w \in Worker, Login(w) \/ PostSync(w) \/ Schedule(w) PROVE TypeOK'
  <2>1. /\ now' = now /\ UNCHANGED <<github, stored, requests, syncProgress, checkpoints, lock>>
        /\ \E ph \in Phase : run' = [run EXCEPT ![w].pc = ph]
    BY <1>4, <1>d DEF Login, PostSync, Schedule
  <2>2. RowType'
    BY <1>4, <2>1, <1>b DEF Login, PostSync, Schedule, RowType, requests, checkpoints
  <2>3. QED
    BY <2>1, <2>2, <1>a, Unchanged, Written DEF TypeOK
<1>5. ASSUME NEW w \in Worker, Proceed(w) PROVE TypeOK'
  <2>1. ASSUME NEW full \in BOOLEAN, QueueSync(w, full) PROVE TypeOK'
    <3>1. /\ now' = now /\ UNCHANGED <<github, stored>>
          /\ run' = [run EXCEPT ![w].pc = "start"]
      BY <2>1 DEF QueueSync
    <3>2. RowType'
      BY <2>1, <1>a, <1>b DEF QueueSync, RowType, checkpoints
    <3>3. syncProgress' \in ProgressRecord(now')
      <4>1. [status |-> "queued", code |-> "", retryAt |-> 0, updatedAt |-> now] \in ProgressRecord(now)
        BY <1>a, <1>c, <1>d, ProgressWrites
      <4>2. QED
        BY <2>1, <4>1 DEF QueueSync
    <3>4. QED
      BY <3>1, <3>2, <3>3, <1>a, <1>d, Unchanged, Written DEF TypeOK
  <2>2. CASE CheckConnection(w) \/ TakeLock(w) \/ LockBusy(w) \/ SkipRun(w)
    <3>1. /\ now' = now
          /\ UNCHANGED <<github, stored, authorizationError, requests, syncProgress, checkpoints>>
          /\ lock' \in {lock, w, NoWorker}
      BY <2>2 DEF CheckConnection, TakeLock, LockBusy, SkipRun
    <3>2. \/ run' = [run EXCEPT ![w] = IdleRun]
          \/ \E ph \in Phase : run' = [run EXCEPT ![w].pc = ph]
      BY <2>2, <1>d DEF CheckConnection, TakeLock, LockBusy, SkipRun
    <3>3. RowType'
      BY <3>1, <1>b DEF RowType, requests, checkpoints
    <3>4. QED
      BY <3>1, <3>2, <3>3, <1>a, Unchanged, Written DEF TypeOK
  <2>3. CASE BeginRun(w)
    <3>1. /\ now' = now /\ UNCHANGED <<github, stored, syncProgress>>
      BY <2>3 DEF BeginRun
    <3>2. RowType'
      BY <2>3, <1>a, <1>b DEF BeginRun, RowType, checkpoints
    <3>3. run' \in [Worker -> RunRecord(now')]
      <4>1. /\ NextRunIsFull \in BOOLEAN /\ historyCursor \in 0 .. now
            /\ historyWalkStartedAt \in 0 .. now /\ Since \in 0 .. now
            /\ (authorizationError # "disconnected") \in BOOLEAN
        BY <1>b DEF RowType, NextRunIsFull, Since
      <4>2. [IdleRun EXCEPT !.pc = "report", !.full = NextRunIsFull,
               !.pos = historyCursor, !.stamp = historyWalkStartedAt,
               !.since = Since, !.token = (authorizationError # "disconnected")]
              \in RunRecord(now)
        BY <4>1, <1>a, BeginWrites
      <4>3. QED
        BY <2>3, <4>2, <1>c DEF BeginRun
    <3>4. QED
      BY <3>1, <3>2, <3>3, <1>a, Unchanged DEF TypeOK
  <2>4. CASE ReportRunning(w)
    <3>1. /\ now' = now /\ syncProgress' = Reporting
          /\ UNCHANGED <<github, stored, authorizationError, requests, checkpoints, lock>>
          /\ run' = [run EXCEPT ![w].pc = "authorize"]
      BY <2>4 DEF ReportRunning
    <3>2. QED
      BY <3>1, <1>a, <1>d, Unchanged, Written DEF TypeOK
  <2>5. ASSUME NEW t \in now - ClockSkew .. now, t > 0, StartWalk(w, t) PROVE TypeOK'
    <3>1. t \in 0 .. now /\ run[w] \in RunRecord(now)
      BY <2>5, <1>a, <1>c, TimeAssumption
    <3>2. now' = now /\ syncProgress' = Reporting /\ UNCHANGED <<github, stored>>
      BY <2>5 DEF StartWalk
    <3>3. RowType'
      BY <2>5, <3>1, <1>b DEF StartWalk, RowType, requests
    <3>4. run' \in [Worker -> RunRecord(now')]
      <4> DEFINE st == IF Resumes(w, t) /\ run[w].stamp \in 1 .. t - 1 THEN run[w].stamp ELSE t
                 po == IF Resumes(w, t) THEN run[w].pos + 1 ELSE AccountCreated
      <4>1. st \in 0 .. now
        BY <3>1, <1>a, RunFields
      <4>2. po \in 0 .. now + 1
        <5>1. CASE Resumes(w, t)
          <6>1. run[w].pos <= t /\ run[w].pos \in 0 .. now + 1
            BY <5>1, <3>1, <1>a, RunFields DEF Resumes
          <6>2. QED
            BY <5>1, <6>1, <3>1, <1>a
        <5>2. CASE ~Resumes(w, t)
          BY <5>2, <1>a
        <5>3. QED
          BY <5>1, <5>2
      <4> HIDE DEF st, po
      <4>3. [run[w] EXCEPT !.pc = "walk", !.started = t, !.stamp = st, !.pos = po] \in RunRecord(now)
        BY <4>1, <4>2, <3>1, <1>a, StartWrites
      <4>4. run' = [run EXCEPT ![w] = [run[w] EXCEPT !.pc = "walk", !.started = t,
                                                     !.stamp = st, !.pos = po]]
        BY <2>5 DEF StartWalk, st, po
      <4>5. QED
        BY <4>3, <4>4, <3>2, <1>c
    <3>5. QED
      BY <3>2, <3>3, <3>4, <1>a, Unchanged, Written DEF TypeOK
  <2>6. ASSUME NEW end \in 1 .. MaxTime, QueryLeaf(w, end) PROVE TypeOK'
    <3>1. /\ now' = now /\ syncProgress' = Reporting
          /\ UNCHANGED <<github, stored, authorizationError, requests, checkpoints, lock>>
      BY <2>6 DEF QueryLeaf
    <3>2. run' \in [Worker -> RunRecord(now')]
      <4>1. end \in 0 .. now
        BY <2>6, <1>a, <1>c, RunFields DEF QueryLeaf
      <4>2. Matching(w, end) \in SUBSET PR
        BY DEF Matching
      <4>3. [run[w] EXCEPT !.leaf = end, !.todo = Matching(w, end)] \in RunRecord(now)
        BY <4>1, <4>2, <1>a, <1>c, LeafWrites
      <4>4. QED
        BY <2>6, <4>3, <3>1, <1>c DEF QueryLeaf
    <3>3. QED
      BY <3>1, <3>2, <1>a, Unchanged, Written DEF TypeOK
  <2>7. ASSUME NEW p \in PR, SavePage(w, p) PROVE TypeOK'
    <3>1. /\ now' = now /\ syncProgress' = Reporting
          /\ UNCHANGED <<authorizationError, requests, checkpoints, lock>>
      BY <2>7 DEF SavePage
    <3>2. GitHubType'
      BY <2>7, <1>b DEF SavePage, GitHubType, github
    <3>3. run' \in [Worker -> RunRecord(now')]
      <4>1. run[w].todo \ {p} \in SUBSET PR
        BY <1>a, <1>c, RunFields
      <4>2. [run[w] EXCEPT !.todo = run[w].todo \ {p}] \in RunRecord(now)
        BY <4>1, <1>a, <1>c, PageWrites
      <4>3. QED
        BY <2>7, <4>2, <3>1, <1>c DEF SavePage
    <3>4. QED
      BY <3>1, <3>2, <3>3, <1>a, Unchanged, Written DEF TypeOK
  <2>8. CASE CompleteLeaf(w)
    <3>1. now' = now /\ UNCHANGED <<github, stored, syncProgress>>
      BY <2>8 DEF CompleteLeaf
    <3>2. run[w].leaf \in 0 .. now /\ run[w].leaf + 1 \in 0 .. now + 1
      BY <1>a, <1>c, RunFields
    <3>3. RowType'
      BY <2>8, <3>2, <1>b DEF CompleteLeaf, RowType, requests
    <3>4. run' \in [Worker -> RunRecord(now')]
      <4>1. [run[w] EXCEPT !.pos = run[w].leaf + 1, !.leaf = 0] \in RunRecord(now)
        BY <3>2, <1>a, <1>c, CursorWrites
      <4>2. QED
        BY <2>8, <4>1, <3>1, <1>c DEF CompleteLeaf
    <3>5. QED
      BY <3>1, <3>3, <3>4, <1>a, Unchanged DEF TypeOK
  <2>9. CASE FinishWalk(w)
    <3>1. /\ now' = now /\ syncProgress' = Reporting /\ UNCHANGED <<github, stored>>
          /\ run' = [run EXCEPT ![w].pc = "details"]
      BY <2>9 DEF FinishWalk
    <3>2. run[w].stamp \in 0 .. now
      BY <1>a, <1>c, RunFields
    <3>3. RowType'
      BY <2>9, <3>2, <1>a, <1>b DEF FinishWalk, RowType, checkpoints
    <3>4. QED
      BY <3>1, <3>3, <1>a, <1>d, Unchanged, Written DEF TypeOK
  <2>10. CASE SaveCheckpoint(w)
    <3>1. now' = now /\ UNCHANGED <<github, stored, syncProgress>>
      BY <2>10 DEF SaveCheckpoint
    <3>2. run[w].stamp \in 0 .. now
      BY <1>a, <1>c, RunFields
    <3>3. RowType'
      BY <2>10, <3>2, <1>b DEF SaveCheckpoint, RowType
    <3>4. run' \in [Worker -> RunRecord(now')]
      <4>1. PICK code \in {"", "upstream"} :
                   run' = [run EXCEPT ![w].pc = "finish", ![w].code = code]
        BY <2>10 DEF SaveCheckpoint
      <4>2. [run[w] EXCEPT !.pc = "finish", !.code = code] \in RunRecord(now)
        BY <1>a, <1>c, <1>d, FinishWrites
      <4>3. QED
        BY <4>1, <4>2, <3>1, <1>c
    <3>5. QED
      BY <3>1, <3>3, <3>4, <1>a, Unchanged DEF TypeOK
  <2>11. ASSUME NEW code \in ErrorCode, Fail(w, code) \/ FailUnrecorded(w, code) PROVE TypeOK'
    <3>1. /\ now' = now
          /\ UNCHANGED <<github, stored, authorizationError, requests, checkpoints, lock>>
          /\ run' = [run EXCEPT ![w] = [IdleRun EXCEPT !.pc = "finish", !.code = code]]
      BY <2>11 DEF Fail, FailUnrecorded
    <3>2. run' \in [Worker -> RunRecord(now')]
      BY <3>1, <1>a, <1>c, FailedWrites
    <3>3. syncProgress' \in ProgressRecord(now')
      <4>1. CASE Fail(w, code)
        <5> DEFINE r == IF code = "rate_limited" THEN now + RetryDelay ELSE syncProgress.retryAt
        <5>1. now + RetryDelay \in Nat
          BY <1>a, TimeAssumption
        <5>2. r \in Nat
          BY <5>1, <1>a, <1>c DEF ProgressRecord
        <5>3. syncProgress' = [syncProgress EXCEPT !.code = code, !.updatedAt = now, !.retryAt = r]
          BY <4>1 DEF Fail
        <5> HIDE DEF r
        <5>4. "idle" \in Status
          BY DEF Status
        <5>5. QED
          BY <5>2, <5>3, <5>4, <3>1, <1>a, <1>c, ProgressWrites
      <4>2. CASE FailUnrecorded(w, code)
        BY <4>2, <3>1, <1>c DEF FailUnrecorded
      <4>3. QED
        BY <2>11, <4>1, <4>2
    <3>4. QED
      BY <3>1, <3>2, <3>3, <1>a, Unchanged DEF TypeOK
  <2>12. CASE Finish(w)
    <3>1. /\ now' = now /\ UNCHANGED <<github, stored>>
          /\ run' = [run EXCEPT ![w] = IdleRun]
      BY <2>12 DEF Finish
    <3>2. RowType'
      BY <2>12, <1>b DEF Finish, RowType, requests, checkpoints
    <3>3. syncProgress' \in ProgressRecord(now')
      <4> DEFINE st == IF run[w].code = "" THEN "complete"
                       ELSE IF run[w].code = "interrupted" THEN "interrupted" ELSE "failed"
                 re == IF run[w].code = "" THEN 0 ELSE syncProgress.retryAt
      <4>1. syncProgress' = [status |-> st, code |-> run[w].code, retryAt |-> re, updatedAt |-> now]
        BY <2>12 DEF Finish
      <4>2. st \in Status /\ run[w].code \in ErrorCode /\ re \in Nat
        BY <1>a, <1>c, <1>d, RunFields DEF ProgressRecord
      <4> HIDE DEF st, re
      <4>3. QED
        BY <4>1, <4>2, <3>1, <1>a, <1>c, ProgressWrites
    <3>4. QED
      BY <3>1, <3>2, <3>3, <1>a, Written DEF TypeOK, GitHubType, github
  <2>13. QED
    BY <1>5, <2>1, <2>2, <2>3, <2>4, <2>5, <2>6, <2>7, <2>8, <2>9, <2>10, <2>11, <2>12
    DEF Proceed
<1>6. ASSUME NEW w \in Worker, Dawdle(w) PROVE TypeOK'
  <2>1. ASSUME NEW p \in PR, RefreshOpen(w, p) PROVE TypeOK'
    <3>1. /\ now' = now /\ syncProgress' = Reporting
          /\ UNCHANGED <<authorizationError, requests, checkpoints, lock, run>>
      BY <2>1 DEF RefreshOpen
    <3>2. GitHubType'
      BY <2>1, <1>b DEF RefreshOpen, GitHubType, github
    <3>3. QED
      BY <3>1, <3>2, <1>a, Unchanged, Written DEF TypeOK
  <2>2. CASE AdvanceDetails(w) \/ WaitForRateLimit(w)
    <3>1. /\ now' = now
          /\ UNCHANGED <<github, stored, authorizationError, requests, checkpoints, lock, run>>
      BY <2>2 DEF AdvanceDetails, WaitForRateLimit
    <3>2. syncProgress' \in ProgressRecord(now')
      <4>1. now + RetryDelay \in Nat
        BY <1>a, TimeAssumption
      <4>2. /\ [syncProgress EXCEPT !.updatedAt = now] \in ProgressRecord(now)
            /\ [syncProgress EXCEPT !.retryAt = now + RetryDelay, !.updatedAt = now]
                 \in ProgressRecord(now)
        BY <4>1, <1>a, <1>c, <1>d, ProgressWrites
      <4>3. QED
        BY <2>2, <4>2, <3>1 DEF AdvanceDetails, WaitForRateLimit
    <3>3. QED
      BY <3>1, <3>2, <1>a, Unchanged DEF TypeOK
  <2>3. QED
    BY <1>6, <2>1, <2>2 DEF Dawdle
<1>7. ASSUME NEW w \in Worker, Crash(w) PROVE TypeOK'
  <2>1. /\ now' = now
        /\ UNCHANGED <<github, stored, authorizationError, requests, syncProgress, checkpoints>>
        /\ lock' \in {lock, NoWorker} /\ run' = [run EXCEPT ![w] = IdleRun]
    BY <1>7 DEF Crash
  <2>2. RowType'
    BY <2>1, <1>b DEF RowType, requests, checkpoints
  <2>3. QED
    BY <2>1, <2>2, <1>a, Unchanged, Written DEF TypeOK
<1>8. CASE UNCHANGED vars
  BY <1>8, <1>b DEF vars, github, requests, checkpoints, TypeOK, GitHubType, RowType
<1>9. QED
  BY <1>1, <1>2, <1>3, <1>4, <1>5, <1>6, <1>7, <1>8 DEF Next

\* Every variable keeps its type, and no checkpoint is ever ahead of the clock.
THEOREM TypeCorrect == Spec => []TypeOK
  BY TypeInit, TypeStep, PTL DEF Spec

-----------------------------------------------------------------------------
(* The lock, and what it keeps out of a run's way.                         *)

\* What a step of w may do to the lock and to w's phase.
LEMMA LockMoves ==
  ASSUME LockInv, NEW w \in Worker,
         \A v \in Worker : v # w => run'[v].pc = run[v].pc,
         \/ lock' = lock /\ (run'[w].pc \in Locked <=> run[w].pc \in Locked)
         \/ lock = NoWorker /\ lock' = w /\ run'[w].pc \in Locked
         \/ run[w].pc \in Locked /\ lock' = NoWorker /\ run'[w].pc \notin Locked
  PROVE  LockInv'
  BY WorkerAssumption DEF LockInv

\* A step of w leaves every other goroutine alone.
LEMMA OneRunMoves ==
  ASSUME TypeOK, NEW w \in Worker, Login(w) \/ PostSync(w) \/ Schedule(w) \/ Proceed(w)
         \/ Dawdle(w) \/ Crash(w)
  PROVE  \A v \in Worker : v # w => run'[v] = run[v]
<1> USE DEF TypeOK
<1>1. CASE Login(w) \/ PostSync(w) \/ Schedule(w) \/ Crash(w)
  BY <1>1 DEF Login, PostSync, Schedule, Crash
<1>2. CASE Dawdle(w)
  BY <1>2 DEF Dawdle, RefreshOpen, AdvanceDetails, WaitForRateLimit
<1>3. CASE Proceed(w)
  <2>1. CASE \E full \in BOOLEAN : QueueSync(w, full)
    BY <2>1 DEF QueueSync
  <2>2. CASE CheckConnection(w) \/ TakeLock(w) \/ LockBusy(w) \/ SkipRun(w)
    BY <2>2 DEF CheckConnection, TakeLock, LockBusy, SkipRun
  <2>3. CASE BeginRun(w) \/ ReportRunning(w)
    BY <2>3 DEF BeginRun, ReportRunning
  <2>4. CASE \E t \in now - ClockSkew .. now : t > 0 /\ StartWalk(w, t)
    BY <2>4 DEF StartWalk
  <2>5. CASE \E end \in 1 .. MaxTime : QueryLeaf(w, end)
    BY <2>5 DEF QueryLeaf
  <2>6. CASE \E p \in PR : SavePage(w, p)
    BY <2>6 DEF SavePage
  <2>7. CASE CompleteLeaf(w) \/ FinishWalk(w) \/ SaveCheckpoint(w) \/ Finish(w)
    BY <2>7 DEF CompleteLeaf, FinishWalk, SaveCheckpoint, Finish
  <2>8. CASE \E code \in ErrorCode : Fail(w, code) \/ FailUnrecorded(w, code)
    BY <2>8 DEF Fail, FailUnrecorded
  <2>9. QED
    BY <1>3, <2>1, <2>2, <2>3, <2>4, <2>5, <2>6, <2>7, <2>8 DEF Proceed
<1>4. QED
  BY <1>1, <1>2, <1>3

\* The final checkpoint leaves w one step from its end.
LEMMA CheckpointPhase ==
  ASSUME TypeOK, NEW w \in Worker, SaveCheckpoint(w)
  PROVE  run[w].pc = "details" /\ run'[w].pc = "finish" /\ UNCHANGED <<syncRequestedAt, lock>>
<1>1. PICK code \in {"", "upstream"} : run' = [run EXCEPT ![w].pc = "finish", ![w].code = code]
  BY DEF SaveCheckpoint
<1>2. DOMAIN run[w] = DOMAIN IdleRun /\ run \in [Worker -> RunRecord(now)]
  BY DEF TypeOK, RunRecord, IdleRun
<1>3. run'[w].pc = "finish"
  BY <1>1, <1>2 DEF IdleRun
<1>4. QED
  BY <1>3 DEF SaveCheckpoint

\* The advisory lock is mutual exclusion, and Locked is what it protects.
LEMMA LockStep == TypeOK /\ LockInv /\ [Next]_vars => LockInv'
<1> SUFFICES ASSUME TypeOK, LockInv, [Next]_vars PROVE LockInv'
  OBVIOUS
<1> USE DEF Locked, Running
<1>a. run \in [Worker -> RunRecord(now)]
  BY DEF TypeOK
<1>b. \A w \in Worker : DOMAIN run[w] = DOMAIN IdleRun
  BY <1>a DEF RunRecord, IdleRun
<1>c. \A w \in Worker : run[w].pc \in Locked <=> lock = w
  BY DEF LockInv
<1>1. CASE Tick \/ Disconnect \/ UNCHANGED vars
  BY <1>1 DEF Tick, Disconnect, vars, LockInv
<1>2. ASSUME NEW p \in PR, OpenPR(p) \/ ChangePR(p) \/ IndexPR(p) PROVE LockInv'
  BY <1>2 DEF OpenPR, ChangePR, IndexPR, LockInv
<1>3. ASSUME NEW w \in Worker, Login(w) \/ PostSync(w) \/ Schedule(w) PROVE LockInv'
  <2>1. lock' = lock /\ run[w].pc \notin Locked /\ run'[w].pc \notin Locked
    BY <1>3, <1>a, <1>b DEF Login, PostSync, Schedule, IdleRun
  <2>2. QED
    BY <2>1, <1>3, OneRunMoves, LockMoves
<1>4. ASSUME NEW w \in Worker, Proceed(w) PROVE LockInv'
  <2>0. \A v \in Worker : v # w => run'[v].pc = run[v].pc
    BY <1>4, OneRunMoves
  <2>1. CASE \E full \in BOOLEAN : QueueSync(w, full)
    <3>1. /\ run[w].pc = "queue" /\ lock' = NoWorker
          /\ run' = [run EXCEPT ![w].pc = "start"]
      BY <2>1 DEF QueueSync
    <3>2. run[w].pc \in Locked /\ lock' = NoWorker /\ run'[w].pc \notin Locked
      BY <3>1, <1>a, <1>b DEF IdleRun
    <3>3. QED
      BY <2>0, <3>2, LockMoves
  <2>2. CASE CheckConnection(w) \/ LockBusy(w)
    <3>1. lock' = lock /\ run[w].pc \notin Locked /\ run'[w].pc \notin Locked
      <4>1. CASE LockBusy(w)
        BY <4>1, <1>a DEF LockBusy, IdleRun
      <4>2. CASE CheckConnection(w)
        BY <4>2, <1>a, <1>b DEF CheckConnection, IdleRun
      <4>3. QED
        BY <2>2, <4>1, <4>2
    <3>2. QED
      BY <2>0, <3>1, LockMoves
  <2>3. CASE TakeLock(w)
    <3>1. lock = NoWorker /\ lock' = w /\ run'[w].pc \in Locked
      BY <2>3, <1>a, <1>b DEF TakeLock, IdleRun
    <3>2. QED
      BY <2>0, <3>1, LockMoves
  <2>4. CASE SkipRun(w) \/ Finish(w)
    <3>1. run[w].pc \in Locked /\ lock' = NoWorker /\ run'[w].pc \notin Locked
      <4>1. CASE SkipRun(w)
        BY <4>1, <1>a DEF SkipRun, IdleRun
      <4>2. CASE Finish(w)
        BY <4>2, <1>a DEF Finish, IdleRun
      <4>3. QED
        BY <2>4, <4>1, <4>2
    <3>2. QED
      BY <2>0, <3>1, LockMoves
  <2>5. CASE \/ BeginRun(w) \/ ReportRunning(w) \/ CompleteLeaf(w) \/ FinishWalk(w) \/ SaveCheckpoint(w)
             \/ \E t \in now - ClockSkew .. now : t > 0 /\ StartWalk(w, t)
             \/ \E end \in 1 .. MaxTime : QueryLeaf(w, end)
             \/ \E p \in PR : SavePage(w, p)
             \/ \E code \in ErrorCode : Fail(w, code) \/ FailUnrecorded(w, code)
    <3>1. lock' = lock /\ run[w].pc \in Locked /\ run'[w].pc \in Locked
      <4>1. CASE BeginRun(w) \/ ReportRunning(w) \/ CompleteLeaf(w)
        BY <4>1, <1>a, <1>b DEF BeginRun, ReportRunning, CompleteLeaf, IdleRun
      <4>2. CASE FinishWalk(w)
        BY <4>2, <1>a, <1>b DEF FinishWalk, WalkIsOver, IdleRun
      <4>3. CASE SaveCheckpoint(w)
        <5>1. lock' = lock /\ run[w].pc = "details" /\ run'[w].pc = "finish"
          BY <4>3, CheckpointPhase
        <5>2. QED
          BY <5>1
      <4>4. CASE \E t \in now - ClockSkew .. now : t > 0 /\ StartWalk(w, t)
        BY <4>4, <1>a, <1>b DEF StartWalk, IdleRun
      <4>5. CASE \E end \in 1 .. MaxTime : QueryLeaf(w, end)
        BY <4>5, <1>a, <1>b DEF QueryLeaf, IdleRun
      <4>6. CASE \E p \in PR : SavePage(w, p)
        BY <4>6, <1>a, <1>b DEF SavePage, IdleRun
      <4>7. CASE \E code \in ErrorCode : Fail(w, code) \/ FailUnrecorded(w, code)
        <5>1. ASSUME NEW code \in ErrorCode, Fail(w, code)
              PROVE  lock' = lock /\ run[w].pc \in Locked /\ run'[w].pc \in Locked
          BY <5>1, <1>a DEF Fail, IdleRun
        <5>2. ASSUME NEW code \in ErrorCode, FailUnrecorded(w, code)
              PROVE  lock' = lock /\ run[w].pc \in Locked /\ run'[w].pc \in Locked
          BY <5>2, <1>a DEF FailUnrecorded, IdleRun
        <5>3. QED
          BY <4>7, <5>1, <5>2
      <4>8. QED
        BY <2>5, <4>1, <4>2, <4>3, <4>4, <4>5, <4>6, <4>7
    <3>2. QED
      BY <2>0, <3>1, LockMoves
  <2>6. QED
    BY <1>4, <2>1, <2>2, <2>3, <2>4, <2>5 DEF Proceed
<1>5. ASSUME NEW w \in Worker, Dawdle(w) PROVE LockInv'
  <2>1. lock' = lock /\ (run'[w].pc \in Locked <=> run[w].pc \in Locked)
    BY <1>5 DEF Dawdle, RefreshOpen, AdvanceDetails, WaitForRateLimit
  <2>2. QED
    BY <2>1, <1>5, OneRunMoves, LockMoves
<1>6. ASSUME NEW w \in Worker, Crash(w) PROVE LockInv'
  <2>1. run'[w].pc \notin Locked
    BY <1>6, <1>a, <1>b DEF Crash, IdleRun
  <2>2. IF lock = w THEN lock' = NoWorker ELSE lock' = lock
    BY <1>6 DEF Crash
  <2>3. QED
    BY <2>1, <2>2, <1>c, <1>6, OneRunMoves, LockMoves
<1>7. QED
  BY <1>1, <1>2, <1>3, <1>4, <1>5, <1>6 DEF Next

\* Requests change only while no other run is in flight.
LEMMA RequestMoves ==
  ASSUME LockInv, NoRequestWiped, NEW w \in Worker,
         \A v \in Worker : v # w => run'[v] = run[v],
         UNCHANGED requests \/ lock = NoWorker \/ run[w].pc \in Locked,
         RequestKept(w)'
  PROVE  NoRequestWiped'
<1> SUFFICES ASSUME NEW v \in Worker, v # w PROVE RequestKept(v)'
  BY DEF NoRequestWiped
<1>1. CASE UNCHANGED requests
  BY <1>1 DEF NoRequestWiped, RequestKept, requests
<1>2. CASE lock = NoWorker \/ run[w].pc \in Locked
  <2>1. run[v].pc \notin Running
    BY <1>2, WorkerAssumption DEF LockInv, Locked
  <2>2. QED
    BY <2>1 DEF RequestKept
<1>3. QED
  BY <1>1, <1>2

LEMMA RequestStep ==
  TypeOK /\ LockInv /\ NoRequestWiped /\ [Next]_vars => NoRequestWiped'
<1> SUFFICES ASSUME TypeOK, LockInv, NoRequestWiped, [Next]_vars PROVE NoRequestWiped'
  OBVIOUS
<1>a. run \in [Worker -> RunRecord(now)]
  BY DEF TypeOK
<1>b. \A w \in Worker : DOMAIN run[w] = DOMAIN IdleRun
  BY <1>a DEF RunRecord, IdleRun
<1>c. \A w \in Worker : RequestKept(w)
  BY DEF NoRequestWiped
<1>d. fullSyncPending \in BOOLEAN
  BY DEF TypeOK, RowType
<1>1. CASE Tick \/ Disconnect \/ UNCHANGED vars
  BY <1>1 DEF Tick, Disconnect, vars, NoRequestWiped, RequestKept, requests
<1>2. ASSUME NEW p \in PR, OpenPR(p) \/ ChangePR(p) \/ IndexPR(p) PROVE NoRequestWiped'
  BY <1>2 DEF OpenPR, ChangePR, IndexPR, NoRequestWiped, RequestKept, requests
<1>3. ASSUME NEW w \in Worker, Login(w) \/ PostSync(w) \/ Schedule(w) PROVE NoRequestWiped'
  <2>1. UNCHANGED requests /\ run'[w].pc \in {"start", "post"}
    BY <1>3, <1>a, <1>b DEF Login, PostSync, Schedule, IdleRun
  <2>2. RequestKept(w)'
    BY <2>1 DEF RequestKept, Running
  <2>3. QED
    BY <2>1, <2>2, <1>3, OneRunMoves, RequestMoves
<1>4. ASSUME NEW w \in Worker, Proceed(w) PROVE NoRequestWiped'
  <2>0. \A v \in Worker : v # w => run'[v] = run[v]
    BY <1>4, OneRunMoves
  <2>1. CASE \E full \in BOOLEAN : QueueSync(w, full)
    <3>1. run[w].pc \in Locked /\ run'[w].pc = "start"
      <4>1. run[w].pc \in Locked /\ run' = [run EXCEPT ![w].pc = "start"]
        BY <2>1 DEF QueueSync, Locked
      <4>2. QED
        BY <4>1, <1>a, <1>b DEF IdleRun
    <3>2. RequestKept(w)'
      BY <3>1 DEF RequestKept, Running
    <3>3. QED
      BY <2>0, <3>1, <3>2, RequestMoves
  <2>2. CASE LockBusy(w) \/ SkipRun(w) \/ Finish(w)
    <3>1. UNCHANGED requests /\ run' = [run EXCEPT ![w] = IdleRun]
      BY <2>2 DEF LockBusy, SkipRun, Finish
    <3>2. RequestKept(w)'
      BY <3>1, <1>a DEF RequestKept, Running, IdleRun
    <3>3. QED
      BY <2>0, <3>1, <3>2, RequestMoves
  <2>3. CASE CheckConnection(w) \/ TakeLock(w)
    <3>1. UNCHANGED requests /\ run'[w].pc \in {"lock", "idle", "queue", "begin"}
      BY <2>3, <1>a, <1>b DEF CheckConnection, TakeLock, IdleRun
    <3>2. RequestKept(w)'
      BY <3>1 DEF RequestKept, Running
    <3>3. QED
      BY <2>0, <3>1, <3>2, RequestMoves
  <2>4. CASE BeginRun(w)
    <3>1. /\ run[w].pc \in Locked /\ syncRequestedAt' = 0 /\ UNCHANGED fullSyncPending
          /\ run'[w].pc = "report" /\ run'[w].full = NextRunIsFull
      BY <2>4, <1>a DEF BeginRun, IdleRun, Locked
    <3>2. RequestKept(w)'
      BY <3>1 DEF RequestKept, NextRunIsFull
    <3>3. QED
      BY <2>0, <3>1, <3>2, RequestMoves
  <2>5. CASE \/ ReportRunning(w) \/ CompleteLeaf(w)
             \/ \E t \in now - ClockSkew .. now : t > 0 /\ StartWalk(w, t)
             \/ \E end \in 1 .. MaxTime : QueryLeaf(w, end)
             \/ \E p \in PR : SavePage(w, p)
    <3>1. /\ UNCHANGED requests /\ run'[w].full = run[w].full
          /\ run[w].pc \in {"report", "authorize", "walk"}
          /\ run'[w].pc \in {"report", "authorize", "walk"}
      <4>1. CASE ReportRunning(w) \/ CompleteLeaf(w)
        BY <4>1, <1>a, <1>b DEF ReportRunning, CompleteLeaf, IdleRun
      <4>2. CASE \E t \in now - ClockSkew .. now : t > 0 /\ StartWalk(w, t)
        BY <4>2, <1>a, <1>b DEF StartWalk, IdleRun
      <4>3. CASE \E end \in 1 .. MaxTime : QueryLeaf(w, end)
        BY <4>3, <1>a, <1>b DEF QueryLeaf, IdleRun
      <4>4. CASE \E p \in PR : SavePage(w, p)
        BY <4>4, <1>a, <1>b DEF SavePage, IdleRun
      <4>5. QED
        BY <2>5, <4>1, <4>2, <4>3, <4>4
    <3>2. RequestKept(w)'
      BY <3>1, <1>c DEF RequestKept, Running, requests
    <3>3. QED
      BY <2>0, <3>1, <3>2, RequestMoves
  <2>6. CASE FinishWalk(w)
    <3>1. run[w].pc = "walk" /\ UNCHANGED syncRequestedAt /\ run'[w].pc = "details"
      BY <2>6, <1>a, <1>b DEF FinishWalk, WalkIsOver, IdleRun
    <3>2. fullSyncPending' = IF run[w].full THEN FALSE ELSE fullSyncPending
      BY <2>6 DEF FinishWalk
    <3>3. RequestKept(w)'
      BY <3>1, <3>2, <1>c, <1>d DEF RequestKept, Running
    <3>4. QED
      BY <2>0, <3>1, <3>3, RequestMoves DEF Locked, Running
  <2>7. CASE SaveCheckpoint(w)
    <3>1. run[w].pc = "details" /\ UNCHANGED syncRequestedAt /\ run'[w].pc = "finish"
      BY <2>7, CheckpointPhase
    <3>2. RequestKept(w)'
      BY <3>1, <1>c DEF RequestKept, Running
    <3>3. QED
      BY <2>0, <3>1, <3>2, RequestMoves DEF Locked, Running
  <2>8. CASE \E code \in ErrorCode : Fail(w, code) \/ FailUnrecorded(w, code)
    <3>1. run[w].pc \in {"authorize", "walk", "details"} /\ UNCHANGED requests /\ run'[w].pc = "finish"
      BY <2>8, <1>a DEF Fail, FailUnrecorded, IdleRun
    <3>2. RequestKept(w)'
      BY <3>1, <1>c DEF RequestKept, Running, requests
    <3>3. QED
      BY <2>0, <3>1, <3>2, RequestMoves
  <2>9. QED
    BY <1>4, <2>1, <2>2, <2>3, <2>4, <2>5, <2>6, <2>7, <2>8 DEF Proceed
<1>5. ASSUME NEW w \in Worker, Dawdle(w) PROVE NoRequestWiped'
  BY <1>5 DEF Dawdle, RefreshOpen, AdvanceDetails, WaitForRateLimit, NoRequestWiped,
     RequestKept, requests
<1>6. ASSUME NEW w \in Worker, Crash(w) PROVE NoRequestWiped'
  <2>1. UNCHANGED requests /\ run' = [run EXCEPT ![w] = IdleRun]
    BY <1>6 DEF Crash
  <2>2. RequestKept(w)'
    BY <2>1, <1>a DEF RequestKept, Running, IdleRun
  <2>3. QED
    BY <2>1, <2>2, <1>6, OneRunMoves, RequestMoves
<1>7. QED
  BY <1>1, <1>2, <1>3, <1>4, <1>5, <1>6 DEF Next

\* However many goroutines on however many replicas, the write that ends a run
\* never clears a request that run does not serve.
THEOREM RequestsSurvive == Spec => []NoRequestWiped
<1>1. Init => LockInv /\ NoRequestWiped
  <2> SUFFICES ASSUME Init PROVE LockInv /\ NoRequestWiped
    OBVIOUS
  <2>1. lock = NoWorker /\ \A w \in Worker : run[w].pc = "idle"
    BY DEF Init, IdleRun
  <2>2. QED
    BY <2>1, WorkerAssumption DEF LockInv, Locked, NoRequestWiped, RequestKept, Running
<1>2. LockInv /\ NoRequestWiped /\ TypeOK /\ [Next]_vars => LockInv' /\ NoRequestWiped'
  BY LockStep, RequestStep
<1>3. QED
  BY <1>1, <1>2, TypeCorrect, PTL DEF Spec

-----------------------------------------------------------------------------
(* The progress record.                                                    *)

Live == {"authorize", "walk", "details"}

\* A step of w: either it leaves the record to a live run, or w holds the lock
\* and its own run ends, so that no run is live any more.
LEMMA ReportMoves ==
  ASSUME LockInv, LiveRunReported, NEW w \in Worker,
         \A v \in Worker : v # w => run'[v] = run[v],
         \/ /\ syncProgress'.status \in {syncProgress.status, "running"}
            /\ run'[w].pc \in Live => run[w].pc \in Live \/ syncProgress'.status = "running"
         \/ run[w].pc \in Locked /\ run'[w].pc \notin Live
  PROVE  LiveRunReported'
<1> SUFFICES ASSUME NEW v \in Worker, run'[v].pc \in Live
             PROVE  syncProgress'.status = "running"
  BY DEF LiveRunReported, Live
<1>1. run[v].pc \in Live => syncProgress.status = "running"
  BY DEF LiveRunReported, Live
<1>2. CASE v = w
  BY <1>1, <1>2
<1>3. CASE v # w
  <2>1. run[v].pc \in Live /\ run[v].pc \in Locked
    BY <1>3 DEF Live, Locked, Running
  <2>2. run[w].pc \notin Locked
    BY <1>3, <2>1 DEF LockInv
  <2>3. QED
    BY <1>1, <2>1, <2>2
<1>4. QED
  BY <1>2, <1>3

LEMMA ReportStep == TypeOK /\ LockInv /\ LiveRunReported /\ [Next]_vars => LiveRunReported'
<1> SUFFICES ASSUME TypeOK, LockInv, LiveRunReported, [Next]_vars PROVE LiveRunReported'
  OBVIOUS
<1>a. DOMAIN run = Worker
  BY DEF TypeOK
<1>d. \A w \in Worker : DOMAIN run[w] = DOMAIN IdleRun
  BY DEF TypeOK, RunRecord, IdleRun
<1>b. syncProgress \in ProgressRecord(now)
  BY DEF TypeOK, RowType
<1>c. Reporting.status = "running"
  BY DEF Reporting
<1>1. CASE UNCHANGED <<syncProgress, run>>
  BY <1>1 DEF LiveRunReported
<1>2. CASE Tick \/ Disconnect \/ (\E p \in PR : OpenPR(p) \/ ChangePR(p) \/ IndexPR(p)) \/ UNCHANGED vars
  BY <1>1, <1>2 DEF Tick, Disconnect, OpenPR, ChangePR, IndexPR, vars
<1>3. ASSUME NEW w \in Worker, Login(w) \/ PostSync(w) \/ Schedule(w) PROVE LiveRunReported'
  <2>1. UNCHANGED syncProgress /\ run'[w].pc \in {"start", "post"}
    BY <1>3, <1>a, <1>d DEF Login, PostSync, Schedule, IdleRun
  <2>2. QED
    BY <1>3, <2>1, OneRunMoves, ReportMoves DEF Live
<1>4. ASSUME NEW w \in Worker, Proceed(w) PROVE LiveRunReported'
  <2>0. \A v \in Worker : v # w => run'[v] = run[v]
    BY <1>4, OneRunMoves
  <2>1. CASE \E full \in BOOLEAN : QueueSync(w, full)
    <3>1. run[w].pc \in Locked /\ run'[w].pc = "start"
      BY <2>1, <1>a, <1>d DEF QueueSync, Locked, IdleRun
    <3>2. QED
      BY <2>0, <3>1, ReportMoves DEF Live
  <2>2. CASE LockBusy(w) \/ SkipRun(w) \/ CheckConnection(w) \/ TakeLock(w) \/ BeginRun(w)
    <3>1. UNCHANGED syncProgress /\ run'[w].pc \in {"lock", "idle", "queue", "begin", "report"}
      <4>1. UNCHANGED syncProgress
        BY <2>2 DEF LockBusy, SkipRun, CheckConnection, TakeLock, BeginRun
      <4>2. CASE LockBusy(w) \/ SkipRun(w)
        <5>1. run' = [run EXCEPT ![w] = IdleRun]
          BY <4>2 DEF LockBusy, SkipRun
        <5>2. QED
          BY <4>1, <5>1, <1>a DEF IdleRun
      <4>3. CASE CheckConnection(w) \/ TakeLock(w)
        BY <4>3, <1>a, <1>d DEF CheckConnection, TakeLock, IdleRun
      <4>4. CASE BeginRun(w)
        BY <4>4, <1>a DEF BeginRun, IdleRun
      <4>5. QED
        BY <2>2, <4>1, <4>2, <4>3, <4>4
    <3>2. QED
      BY <2>0, <3>1, ReportMoves DEF Live
  <2>3. CASE \/ ReportRunning(w) \/ FinishWalk(w)
             \/ \E t \in now - ClockSkew .. now : t > 0 /\ StartWalk(w, t)
             \/ \E end \in 1 .. MaxTime : QueryLeaf(w, end)
             \/ \E p \in PR : SavePage(w, p)
    <3>1. syncProgress' = Reporting
      BY <2>3 DEF ReportRunning, FinishWalk, StartWalk, QueryLeaf, SavePage
    <3>2. QED
      BY <2>0, <3>1, <1>c, ReportMoves
  <2>4. CASE CompleteLeaf(w)
    <3>1. UNCHANGED syncProgress /\ run[w].pc \in Live
      BY <2>4 DEF CompleteLeaf, Live
    <3>2. QED
      BY <2>0, <3>1, ReportMoves
  <2>5. CASE SaveCheckpoint(w)
    <3>1. UNCHANGED syncProgress /\ run[w].pc \in Live
      BY <2>5 DEF SaveCheckpoint, Live
    <3>2. QED
      BY <2>0, <3>1, ReportMoves
  <2>6. CASE \E code \in ErrorCode : Fail(w, code) \/ FailUnrecorded(w, code)
    <3>1. run[w].pc \in Locked /\ run'[w].pc = "finish"
      <4>1. run[w].pc \in Locked
        BY <2>6 DEF Fail, FailUnrecorded, Locked, Running
      <4>2. run'[w].pc = "finish"
        BY <2>6, <1>a DEF Fail, FailUnrecorded, IdleRun
      <4>3. QED
        BY <4>1, <4>2
    <3>2. QED
      BY <2>0, <3>1, ReportMoves DEF Live
  <2>7. CASE Finish(w)
    <3>1. run[w].pc \in Locked /\ run'[w].pc = "idle"
      BY <2>7, <1>a DEF Finish, IdleRun, Locked, Running
    <3>2. QED
      BY <2>0, <3>1, ReportMoves DEF Live
  <2>8. QED
    BY <1>4, <2>1, <2>2, <2>3, <2>4, <2>5, <2>6, <2>7 DEF Proceed
<1>5. ASSUME NEW w \in Worker, Dawdle(w) PROVE LiveRunReported'
  <2>1. run' = run /\ syncProgress'.status \in {syncProgress.status, "running"}
    BY <1>5, <1>b, <1>c DEF Dawdle, RefreshOpen, AdvanceDetails, WaitForRateLimit, ProgressRecord
  <2>2. QED
    BY <2>1, ReportMoves
<1>6. ASSUME NEW w \in Worker, Crash(w) PROVE LiveRunReported'
  <2>1. UNCHANGED syncProgress /\ run'[w].pc = "idle"
    BY <1>6, <1>a DEF Crash, IdleRun
  <2>2. QED
    BY <2>1, <1>6, OneRunMoves, ReportMoves DEF Live
<1>7. QED
  BY <1>2, <1>3, <1>4, <1>5, <1>6 DEF Next

\* However many goroutines queue, run and crash, a poll of GET /sync/progress
\* sees the run that is in flight: only its own end takes "running" away.
THEOREM RunsReported == Spec => []LiveRunReported
<1>1. Init => LockInv /\ LiveRunReported
  <2> SUFFICES ASSUME Init PROVE LockInv /\ LiveRunReported
    OBVIOUS
  <2>1. lock = NoWorker /\ \A w \in Worker : run[w].pc = "idle"
    BY DEF Init, IdleRun
  <2>2. QED
    BY <2>1, WorkerAssumption DEF LockInv, Locked, Running, LiveRunReported
<1>2. LockInv /\ LiveRunReported /\ TypeOK /\ [Next]_vars => LockInv' /\ LiveRunReported'
  BY LockStep, ReportStep
<1>3. QED
  BY <1>1, <1>2, TypeCorrect, PTL DEF Spec

-----------------------------------------------------------------------------
(* Nothing is lost.                                                        *)

\* A change made or noticed just now is in reach of any checkpoint.
LEMMA RecentInReach ==
  ASSUME TypeOK, NEW p \in PR, NEW t \in 0 .. now, changed[p] + IndexLag >= now
  PROVE  InReach(p, t)
  BY TimeAssumption, IndexAssumption DEF TypeOK, GitHubType, InReach

\* A pull request whose stored copy or index entry is out of date exists.
LEMMA MissedExists ==
  ASSUME TypeOK, GitHubInv, NEW p \in PR, Missed(p) \/ indexed[p] # changed[p]
  PROVE  created[p] # 0 /\ changed[p] # 0 /\ created[p] >= AccountCreated
  BY DEF TypeOK, GitHubType, GitHubInv, Missed

\* A change that search does not show yet is in reach of any checkpoint.
LEMMA UnindexedInReach ==
  ASSUME TypeOK, GitHubInv, NEW p \in PR, NEW t \in 0 .. now, indexed[p] # changed[p]
  PROVE  InReach(p, t)
  BY RecentInReach DEF GitHubInv

\* The checkpoint of an incremental run is not in the future.
LEMMA SinceType == ASSUME TypeOK PROVE Since \in 0 .. now
  BY DEF TypeOK, RowType, Since

\* A step that leaves GitHub, the stored rows and the checkpoints alone.
LEMMA WorldKept ==
  ASSUME WalkInvariant, UNCHANGED <<now, github, stored, fullSyncPending, checkpoints>>
  PROVE  GitHubInv' /\ CursorInv' /\ NothingLost'
<1> USE DEF WalkInvariant, github, checkpoints
<1>1. GitHubInv'
  BY DEF GitHubInv
<1>2. CursorInv'
  BY DEF CursorInv, NextRunIsFull
<1>3. NothingLost'
  BY DEF NothingLost, NextRunIsFull, Since, Missed, InReach
<1>4. QED
  BY <1>1, <1>2, <1>3

\* A step of w that changes the row is one no other run is in flight at.
LEMMA RunMoves ==
  ASSUME WalkInvariant, NEW w \in Worker,
         \A v \in Worker : v # w => run'[v] = run[v],
         \/ UNCHANGED <<now, github, stored, fullSyncPending, checkpoints>>
         \/ lock = NoWorker \/ run[w].pc \in Locked,
         LockInv', GitHubInv', CursorInv', NothingLost', RunInv(w)'
  PROVE  WalkInvariant'
<1> SUFFICES ASSUME NEW v \in Worker, v # w PROVE RunInv(v)'
  BY DEF WalkInvariant
<1>1. CASE UNCHANGED <<now, github, stored, fullSyncPending, checkpoints>>
  <2>1. RunInv(v)
    BY DEF WalkInvariant
  <2>2. \A p \in PR : (Missed(p)' <=> Missed(p)) /\ (Covered(v, p)' <=> Covered(v, p))
                     /\ \A t : InReach(p, t)' <=> InReach(p, t)
    BY <1>1 DEF Missed, Covered, InReach, github
  <2>3. (NextRunIsFull' <=> NextRunIsFull) /\ Since' = Since
    BY <1>1 DEF NextRunIsFull, Since, checkpoints
  <2>4. QED
    BY <1>1, <2>1, <2>2, <2>3 DEF RunInv, checkpoints
<1>2. CASE lock = NoWorker \/ run[w].pc \in Locked
  <2>1. run[v].pc \notin Locked
    BY <1>2, WorkerAssumption DEF WalkInvariant, LockInv
  <2>2. QED
    BY <2>1 DEF RunInv, Locked, Running
<1>3. QED
  BY <1>1, <1>2

\* A step of w into a phase the invariant says nothing about.
LEMMA OutOfPlay ==
  ASSUME TypeOK, WalkInvariant, [Next]_vars, NEW w \in Worker,
         \A v \in Worker : v # w => run'[v] = run[v],
         UNCHANGED <<now, github, stored, fullSyncPending, checkpoints>>,
         run'[w].pc \notin {"report", "authorize", "walk", "details"}
  PROVE  WalkInvariant'
<1>1. RunInv(w)'
  BY DEF RunInv
<1>2. LockInv'
  BY LockStep DEF WalkInvariant
<1>3. QED
  BY <1>1, <1>2, WorldKept, RunMoves

\* A pull request opened or changed just now, or stored again as search shows
\* it, is in reach of every checkpoint; nothing else about it matters.
LEMMA GitHubStep ==
  ASSUME TypeOK, WalkInvariant, [Next]_vars, NEW p \in PR,
         now' = now, UNCHANGED <<fullSyncPending, checkpoints>>,
         GitHubInv',
         \A q \in PR : q # p => /\ created'[q] = created[q] /\ changed'[q] = changed[q]
                               /\ stored'[q] = stored[q],
         Missed(p)' => changed'[p] + IndexLag >= now
  PROVE  NothingLost' /\ \A w \in Worker : run'[w] = run[w] => RunInv(w)'
<1>1. \A t \in 0 .. now : Missed(p)' => InReach(p, t)'
  <2>1. TypeOK'
    BY TypeStep
  <2>2. QED
    BY <2>1, TimeAssumption, IndexAssumption DEF TypeOK, GitHubType, InReach
<1>2. \A q \in PR : q # p => (Missed(q)' <=> Missed(q)) /\ created'[q] = created[q]
                             /\ \A t : InReach(q, t)' <=> InReach(q, t)
  BY DEF Missed, InReach
<1>3. (NextRunIsFull' <=> NextRunIsFull) /\ Since' = Since
  BY DEF NextRunIsFull, Since, checkpoints
<1>4. /\ historyCursor' = historyCursor /\ historyWalkStartedAt' = historyWalkStartedAt
      /\ historyCursor \in 0 .. now /\ historyWalkStartedAt \in 0 .. now
      /\ Since \in 0 .. now
  BY SinceType DEF checkpoints, TypeOK, RowType
<1>5. historyCursor # 0 => historyWalkStartedAt # 0
  BY DEF WalkInvariant, CursorInv
<1>6. NothingLost'
  <2> SUFFICES ASSUME NEW q \in PR, Missed(q)'
               PROVE  IF NextRunIsFull'
                        THEN \/ historyCursor' <= AccountCreated \/ created'[q] > historyCursor'
                             \/ historyWalkStartedAt' # 0 /\ InReach(q, historyWalkStartedAt)'
                        ELSE InReach(q, Since)'
    BY DEF NothingLost
  <2>1. CASE q = p
    BY <2>1, <1>1, <1>3, <1>4, <1>5, TimeAssumption DEF InReach
  <2>2. CASE q # p
    BY <2>2, <1>2, <1>3, <1>4 DEF WalkInvariant, NothingLost, InReach
  <2>3. QED
    BY <2>1, <2>2
<1>7. ASSUME NEW w \in Worker, run'[w] = run[w] PROVE RunInv(w)'
  <2>1. RunInv(w) /\ run[w].stamp \in 0 .. now
    BY RunFields DEF WalkInvariant, TypeOK
  <2>2. \A q \in PR : q # p => (Covered(w, q)' <=> Covered(w, q))
    BY <1>2, <1>7 DEF Covered
  <2>3. QED
    BY <1>1, <1>2, <1>3, <1>4, <1>7, <2>1, <2>2 DEF RunInv, InReach, checkpoints
<1>8. QED
  BY <1>6, <1>7

\* GitHub's own steps.
LEMMA WalkGitHub ==
  ASSUME TypeOK, WalkInvariant, [Next]_vars, NEW p \in PR, OpenPR(p) \/ ChangePR(p) \/ IndexPR(p)
  PROVE  WalkInvariant'
<1>a. /\ now \in Nat /\ now \in 1 .. now /\ AccountCreated <= now
      /\ created \in [PR -> 0 .. now] /\ changed \in [PR -> 0 .. now]
      /\ indexed \in [PR -> 0 .. now] /\ stored \in [PR -> 0 .. now]
  BY TimeAssumption DEF TypeOK, GitHubType
<1>b. IndexLag \in Nat /\ AccountCreated \in Nat
  BY TimeAssumption
<1>c. GitHubInv
  BY DEF WalkInvariant
<1>1. now' = now /\ UNCHANGED <<fullSyncPending, checkpoints, run, stored>>
  BY DEF OpenPR, ChangePR, IndexPR, requests
<1>2. CASE OpenPR(p) \/ ChangePR(p)
  <2>1. /\ created' = [created EXCEPT ![p] = created'[p]] /\ changed' = [changed EXCEPT ![p] = now]
        /\ IF created[p] = 0 THEN created'[p] = now ELSE created'[p] = created[p]
        /\ indexed' = indexed
    BY <1>2, <1>a DEF OpenPR, ChangePR
  <2>2. GitHubInv'
    BY <2>1, <1>1, <1>a, <1>b, <1>c DEF GitHubInv
  <2>3. changed'[p] + IndexLag >= now
    BY <2>1, <1>a, <1>b
  <2>4. \A q \in PR : q # p => /\ created'[q] = created[q] /\ changed'[q] = changed[q]
                              /\ stored'[q] = stored[q]
    BY <2>1, <1>1, <1>a
  <2>5. NothingLost' /\ \A w \in Worker : RunInv(w)'
    BY <2>2, <2>3, <2>4, <1>1, GitHubStep
  <2>6. CursorInv'
    BY <1>1 DEF WalkInvariant, CursorInv, NextRunIsFull, checkpoints
  <2>7. QED
    BY <2>2, <2>5, <2>6, LockStep DEF WalkInvariant
<1>3. CASE IndexPR(p)
  <2>1. indexed' = [indexed EXCEPT ![p] = changed[p]] /\ UNCHANGED <<created, changed>>
    BY <1>3 DEF IndexPR
  <2>2. GitHubInv'
    BY <2>1, <1>1, <1>a, <1>c DEF GitHubInv
  <2>3. CursorInv' /\ NothingLost'
    BY <2>1, <1>1 DEF WalkInvariant, CursorInv, NothingLost, NextRunIsFull, Since, Missed,
       InReach, checkpoints
  <2>4. \A w \in Worker : RunInv(w)'
    BY <2>1, <1>1 DEF WalkInvariant, RunInv, NextRunIsFull, Since, Missed, Covered, InReach,
       checkpoints
  <2>5. QED
    BY <2>2, <2>3, <2>4, LockStep DEF WalkInvariant
<1>4. QED
  BY <1>2, <1>3

\* Storing p as search shows it: what it then misses is a change of just now.
LEMMA WalkStore ==
  ASSUME TypeOK, WalkInvariant, [Next]_vars, NEW p \in PR,
         stored' = [stored EXCEPT ![p] = indexed[p]],
         UNCHANGED <<now, github, fullSyncPending, checkpoints>>
  PROVE  /\ GitHubInv' /\ CursorInv' /\ NothingLost'
         /\ \A w \in Worker : run'[w] = run[w] => RunInv(w)'
         /\ \A t \in 0 .. now : Missed(p)' => InReach(p, t)'
         /\ \A q \in PR : q # p => (Missed(q)' <=> Missed(q))
<1>a. stored \in [PR -> 0 .. now]
  BY DEF TypeOK, GitHubType
<1>1. stored'[p] = indexed[p] /\ \A q \in PR : q # p => stored'[q] = stored[q]
  BY <1>a
<1>2. GitHubInv'
  BY <1>1 DEF WalkInvariant, GitHubInv, github
<1>3. CursorInv'
  BY DEF WalkInvariant, CursorInv, NextRunIsFull, checkpoints
<1>4. Missed(p)' => changed'[p] + IndexLag >= now
  BY <1>1 DEF WalkInvariant, GitHubInv, Missed, github
<1>5. NothingLost' /\ \A w \in Worker : run'[w] = run[w] => RunInv(w)'
  BY <1>1, <1>2, <1>4, GitHubStep DEF github
<1>6. \A t \in 0 .. now : Missed(p)' => InReach(p, t)'
  <2>1. Missed(p)' => indexed[p] # changed[p]
    BY <1>1 DEF Missed, github
  <2>2. \A t \in 0 .. now : Missed(p)' => InReach(p, t)
    BY <2>1, UnindexedInReach DEF WalkInvariant
  <2>3. QED
    BY <2>2 DEF InReach, github
<1>7. QED
  BY <1>1, <1>2, <1>3, <1>5, <1>6 DEF Missed, github

\* A request turns the next run into a full one; without a walk to resume there
\* is nothing that could be out of its reach.
LEMMA WalkQueue ==
  ASSUME TypeOK, WalkInvariant, [Next]_vars, NEW w \in Worker, NEW full \in BOOLEAN,
         QueueSync(w, full), \A v \in Worker : v # w => run'[v] = run[v]
  PROVE  WalkInvariant'
<1>1. /\ run[w].pc \in Locked /\ UNCHANGED <<now, github, stored, checkpoints>>
      /\ fullSyncPending' = (full \/ fullSyncPending)
      /\ run' = [run EXCEPT ![w].pc = "start"]
  BY DEF QueueSync, Locked
<1>2. NextRunIsFull => NextRunIsFull'
  BY <1>1 DEF NextRunIsFull, checkpoints
<1>3. ~NextRunIsFull => historyCursor = 0
  BY DEF WalkInvariant, CursorInv
<1>4. GitHubInv'
  BY <1>1 DEF WalkInvariant, GitHubInv, github
<1>5. CursorInv'
  BY <1>1, <1>2 DEF WalkInvariant, CursorInv, checkpoints
<1>6. NothingLost'
  <2> SUFFICES ASSUME NEW p \in PR, Missed(p)'
               PROVE  IF NextRunIsFull'
                        THEN \/ historyCursor' <= AccountCreated \/ created'[p] > historyCursor'
                             \/ historyWalkStartedAt' # 0 /\ InReach(p, historyWalkStartedAt)'
                        ELSE InReach(p, Since)'
    BY DEF NothingLost
  <2>1. Missed(p) /\ Since' = Since
    BY <1>1 DEF Missed, github, Since, checkpoints
  <2>2. CASE NextRunIsFull
    BY <2>1, <2>2, <1>1, <1>2 DEF WalkInvariant, NothingLost, InReach, github, checkpoints
  <2>3. CASE ~NextRunIsFull
    <3>1. InReach(p, Since)'
      BY <2>1, <2>3, <1>1 DEF WalkInvariant, NothingLost, InReach, github
    <3>2. historyCursor' <= AccountCreated
      BY <2>3, <1>1, <1>3, TimeAssumption DEF checkpoints
    <3>3. QED
      BY <3>1, <3>2
  <2>4. QED
    BY <2>2, <2>3
<1>7. RunInv(w)'
  <2>1. run[w] \in RunRecord(now) /\ run \in [Worker -> RunRecord(now)]
    BY DEF TypeOK
  <2>2. run'[w].pc = "start"
    BY <2>1, <1>1 DEF RunRecord
  <2>3. QED
    BY <2>2 DEF RunInv
<1>8. QED
  BY <1>1, <1>4, <1>5, <1>6, <1>7, LockStep, RunMoves DEF WalkInvariant

\* A run takes the checkpoints it will use from the row it has just read.
LEMMA WalkBegin ==
  ASSUME TypeOK, WalkInvariant, [Next]_vars, NEW w \in Worker, BeginRun(w) \/ ReportRunning(w),
         \A v \in Worker : v # w => run'[v] = run[v]
  PROVE  WalkInvariant'
<1>a. run \in [Worker -> RunRecord(now)] /\ RunInv(w)
  BY DEF TypeOK, WalkInvariant
<1>b. DOMAIN run[w] = DOMAIN IdleRun
  BY <1>a DEF RunRecord, IdleRun
<1>1. UNCHANGED <<now, github, stored, fullSyncPending, checkpoints>>
  BY DEF BeginRun, ReportRunning, requests
<1>2. /\ run'[w].pc \in {"report", "authorize"} /\ run'[w].leaf = 0
      /\ run'[w].full = NextRunIsFull /\ run'[w].since = Since
      /\ run'[w].pos = historyCursor /\ run'[w].stamp = historyWalkStartedAt
  <2>1. CASE BeginRun(w)
    BY <2>1, <1>a DEF BeginRun, IdleRun
  <2>2. CASE ReportRunning(w)
    BY <2>2, <1>a, <1>b DEF ReportRunning, IdleRun, RunInv
  <2>3. QED
    BY <2>1, <2>2
<1>3. (NextRunIsFull' <=> NextRunIsFull) /\ Since' = Since
  BY <1>1 DEF NextRunIsFull, Since, checkpoints
<1>4. RunInv(w)'
  BY <1>1, <1>2, <1>3 DEF RunInv, checkpoints
<1>5. QED
  BY <1>1, <1>4, WorldKept, LockStep, RunMoves DEF WalkInvariant

\* A walk starts at the cursor with the stamp of its first run, or from the
\* beginning with a stamp of now; clocks agree, so the cursor is in the past.
LEMMA WalkStart ==
  ASSUME TypeOK, WalkInvariant, [Next]_vars, NEW w \in Worker, StartWalk(w, now),
         \A v \in Worker : v # w => run'[v] = run[v]
  PROVE  WalkInvariant'
<1>a. run \in [Worker -> RunRecord(now)] /\ RunInv(w) /\ GitHubInv /\ CursorInv /\ NothingLost
  BY DEF TypeOK, WalkInvariant
<1>b. DOMAIN run[w] = DOMAIN IdleRun
  BY <1>a DEF RunRecord, IdleRun
<1>c. /\ now \in Nat /\ 0 < now /\ AccountCreated \in Nat
      /\ historyCursor \in 0 .. now /\ historyWalkStartedAt \in 0 .. now
      /\ historySyncedAt \in 0 .. now
  <2>1. now \in Nat /\ AccountCreated <= now /\ RowType
    BY DEF TypeOK
  <2>2. 0 < now /\ AccountCreated \in Nat
    BY <2>1, TimeAssumption
  <2>3. QED
    BY <2>1, <2>2 DEF RowType
<1>d. /\ run[w].pc = "authorize" /\ run[w].leaf = 0 /\ run[w].full = NextRunIsFull
      /\ run[w].since = Since /\ run[w].pos = historyCursor
      /\ run[w].stamp = historyWalkStartedAt
  BY <1>a DEF StartWalk, RunInv
<1>1. /\ UNCHANGED <<now, github, stored, fullSyncPending, historySyncedAt, historyWalkedAt, historyCursor>>
      /\ historyWalkStartedAt' = IF NextRunIsFull /\ ~Resumes(w, now) THEN now ELSE historyWalkStartedAt
  BY <1>d DEF StartWalk, requests
<1>2. /\ run'[w].pc = "walk" /\ run'[w].leaf = 0 /\ run'[w].full = NextRunIsFull
      /\ run'[w].since = Since /\ run'[w].started = now
      /\ run'[w].pos = IF Resumes(w, now) THEN historyCursor + 1 ELSE AccountCreated
      /\ run'[w].stamp = IF Resumes(w, now) /\ historyWalkStartedAt \in 1 .. now - 1
                          THEN historyWalkStartedAt ELSE now
  <2>1. run'[w] = [run[w] EXCEPT !.pc = "walk", !.started = now,
            !.stamp = IF Resumes(w, now) /\ run[w].stamp \in 1 .. now - 1
                        THEN run[w].stamp ELSE now,
            !.pos = IF Resumes(w, now) THEN run[w].pos + 1 ELSE AccountCreated]
    BY <1>a DEF StartWalk
  <2>2. QED
    BY <2>1, <1>b, <1>d DEF IdleRun
<1>3. (NextRunIsFull' <=> NextRunIsFull) /\ Since' = Since
  BY <1>1 DEF NextRunIsFull, Since
<1>4. Resumes(w, now) => NextRunIsFull /\ historyWalkStartedAt # 0 /\ AccountCreated < historyCursor
  BY <1>a, <1>c, <1>d DEF Resumes, CursorInv
<1>5. NextRunIsFull /\ ~Resumes(w, now) => historyCursor <= AccountCreated
  BY <1>c, <1>d DEF Resumes
<1>6. GitHubInv'
  BY <1>1, <1>a DEF GitHubInv, github
<1>7. CursorInv'
  BY <1>1, <1>3, <1>a, <1>c DEF CursorInv
<1>8. NothingLost'
  BY <1>1, <1>3, <1>5, <1>a DEF NothingLost, Missed, InReach, github
<1>9. RunInv(w)'
  <2>1. run'[w].full => run'[w].stamp = historyWalkStartedAt'
    BY <1>1, <1>2, <1>4, <1>c
  <2>2. /\ 0 < run'[w].stamp /\ run'[w].stamp <= run'[w].started
        /\ historySyncedAt' <= run'[w].stamp
    BY <1>1, <1>2, <1>4, <1>a, <1>c DEF CursorInv
  <2>3. ASSUME NEW p \in PR, Covered(w, p)', Missed(p)' PROVE InReach(p, run[w].stamp)'
    <3>1. Missed(p) /\ created'[p] = created[p] /\ created[p] < run'[w].pos /\ created[p] \in Nat
      BY <2>3, <1>1, <1>2, <1>c DEF Covered, Missed, github, TypeOK, GitHubType
    <3>2. Resumes(w, now)
      BY <3>1, <1>2, <1>a, <1>c, MissedExists
    <3>3. created[p] <= historyCursor
      BY <3>1, <3>2, <1>2, <1>c
    <3>4. InReach(p, historyWalkStartedAt)
      BY <3>1, <3>2, <3>3, <1>4, <1>a, <1>c DEF NothingLost
    <3>5. run'[w].stamp = historyWalkStartedAt
      BY <3>2, <1>2, <1>4, <1>c
    <3>6. QED
      BY <3>4, <3>5, <1>1 DEF InReach, github
  <2>4. QED
    BY <1>2, <1>3, <2>1, <2>2, <2>3 DEF RunInv
<1>10. QED
  BY <1>6, <1>7, <1>8, <1>9, <1>d, LockStep, RunMoves DEF WalkInvariant, Locked, Running

\* Querying an interval: what the search does not return is in reach anyway.
LEMMA WalkQuery ==
  ASSUME TypeOK, WalkInvariant, [Next]_vars, NEW w \in Worker, NEW end \in 1 .. MaxTime,
         QueryLeaf(w, end), \A v \in Worker : v # w => run'[v] = run[v]
  PROVE  WalkInvariant'
<1>a. run \in [Worker -> RunRecord(now)] /\ RunInv(w) /\ GitHubInv /\ NothingLost
  BY DEF TypeOK, WalkInvariant
<1>b. DOMAIN run[w] = DOMAIN IdleRun
  BY <1>a DEF RunRecord, IdleRun
<1>c. /\ now \in Nat /\ run[w].stamp \in 0 .. now /\ run[w].pos \in 0 .. now + 1
      /\ created \in [PR -> 0 .. now] /\ changed \in [PR -> 0 .. now]
      /\ indexed \in [PR -> 0 .. now]
  BY <1>a, RunFields DEF TypeOK, GitHubType
<1>1. UNCHANGED <<now, github, stored, fullSyncPending, checkpoints>>
  BY DEF QueryLeaf, requests
<1>2. run[w].pc = "walk" /\ run[w].leaf = 0 /\ end \in Nat
  BY DEF QueryLeaf
<1>3. /\ run'[w].pc = "walk" /\ run'[w].leaf = end /\ run'[w].todo = Matching(w, end)
      /\ run'[w].full = run[w].full /\ run'[w].since = run[w].since /\ run'[w].pos = run[w].pos
      /\ run'[w].started = run[w].started /\ run'[w].stamp = run[w].stamp
  <2>1. run'[w] = [run[w] EXCEPT !.leaf = end, !.todo = Matching(w, end)]
    BY <1>a DEF QueryLeaf
  <2>2. QED
    BY <2>1, <1>2, <1>b DEF IdleRun
<1>4. (NextRunIsFull' <=> NextRunIsFull) /\ Since' = Since
  BY <1>1 DEF NextRunIsFull, Since, checkpoints
<1>5. ASSUME NEW p \in PR, Covered(w, p)', Missed(p)' PROVE InReach(p, run[w].stamp)'
  <2>1. Missed(p) /\ created'[p] = created[p] /\ created[p] # 0
    BY <1>5, <1>1, <1>a, MissedExists DEF Missed, github
  <2>2. CASE created[p] < run[w].pos
    <3>1. InReach(p, run[w].stamp)
      BY <2>1, <2>2, <1>2, <1>a DEF RunInv, Covered
    <3>2. QED
      BY <3>1, <1>1, <1>3 DEF InReach, github
  <2>3. CASE indexed[p] # changed[p]
    <3>1. InReach(p, run[w].stamp)
      BY <2>3, <1>a, <1>c, UnindexedInReach
    <3>2. QED
      BY <3>1, <1>1, <1>3 DEF InReach, github
  <2>4. CASE ~(created[p] < run[w].pos) /\ indexed[p] = changed[p]
    <3>1. created[p] \in run[w].pos .. end /\ p \notin Matching(w, end)
      BY <1>5, <2>1, <2>4, <1>2, <1>3, <1>c DEF Covered
    <3>2. ~run[w].full /\ ~(indexed[p] + Reread >= run[w].since)
      <4>1. indexed[p] # 0
        BY <2>1, <2>4, <1>a, MissedExists
      <4>2. QED
        BY <3>1, <4>1 DEF Matching
    <3>3. FALSE
      <4>1. ~NextRunIsFull /\ run[w].since = Since
        BY <3>2, <1>2, <1>a DEF RunInv
      <4>2. InReach(p, Since)
        BY <4>1, <2>1, <1>a DEF NothingLost
      <4>3. QED
        BY <4>1, <4>2, <3>2, <2>4 DEF InReach
    <3>4. QED
      BY <3>3
  <2>5. QED
    BY <2>2, <2>3, <2>4
<1>6. RunInv(w)'
  BY <1>1, <1>2, <1>3, <1>4, <1>5, <1>a DEF RunInv, checkpoints
<1>7. QED
  BY <1>1, <1>6, WorldKept, LockStep, RunMoves DEF WalkInvariant

\* A page is committed as search shows it.
LEMMA WalkPage ==
  ASSUME TypeOK, WalkInvariant, [Next]_vars, NEW w \in Worker, NEW p \in PR, SavePage(w, p),
         \A v \in Worker : v # w => run'[v] = run[v]
  PROVE  WalkInvariant'
<1>a. run \in [Worker -> RunRecord(now)] /\ RunInv(w)
  BY DEF TypeOK, WalkInvariant
<1>b. DOMAIN run[w] = DOMAIN IdleRun /\ run[w].stamp \in 0 .. now
  BY <1>a, RunFields DEF RunRecord, IdleRun, TypeOK
<1>1. /\ UNCHANGED <<now, github, fullSyncPending, checkpoints>>
      /\ stored' = [stored EXCEPT ![p] = indexed[p]]
  BY DEF SavePage, requests
<1>2. run[w].pc = "walk" /\ p \in run[w].todo
  BY DEF SavePage
<1>3. /\ run'[w].pc = "walk" /\ run'[w].leaf = run[w].leaf /\ run'[w].todo = run[w].todo \ {p}
      /\ run'[w].full = run[w].full /\ run'[w].since = run[w].since /\ run'[w].pos = run[w].pos
      /\ run'[w].started = run[w].started /\ run'[w].stamp = run[w].stamp
  <2>1. run'[w] = [run[w] EXCEPT !.todo = run[w].todo \ {p}]
    BY <1>a DEF SavePage
  <2>2. QED
    BY <2>1, <1>2, <1>b DEF IdleRun
<1>4. /\ GitHubInv' /\ CursorInv' /\ NothingLost'
      /\ \A t \in 0 .. now : Missed(p)' => InReach(p, t)'
      /\ \A q \in PR : q # p => (Missed(q)' <=> Missed(q))
  BY <1>1, WalkStore
<1>5. (NextRunIsFull' <=> NextRunIsFull) /\ Since' = Since
  BY <1>1 DEF NextRunIsFull, Since, checkpoints
<1>6. ASSUME NEW q \in PR, Covered(w, q)', Missed(q)' PROVE InReach(q, run[w].stamp)'
  <2>1. CASE q = p
    BY <2>1, <1>3, <1>4, <1>6, <1>b DEF InReach
  <2>2. CASE q # p
    <3>1. Missed(q) /\ Covered(w, q)
      BY <2>2, <1>1, <1>3, <1>4, <1>6 DEF Covered, github
    <3>2. InReach(q, run[w].stamp)
      BY <3>1, <1>2, <1>a DEF RunInv
    <3>3. QED
      BY <3>2, <1>1, <1>3 DEF InReach, github
  <2>3. QED
    BY <2>1, <2>2
<1>7. RunInv(w)'
  BY <1>1, <1>2, <1>3, <1>5, <1>6, <1>a DEF RunInv, checkpoints
<1>8. QED
  BY <1>2, <1>4, <1>7, LockStep, RunMoves DEF WalkInvariant, Locked, Running

\* The cursor moves over an interval once all of it is stored.
LEMMA WalkLeaf ==
  ASSUME TypeOK, WalkInvariant, [Next]_vars, NEW w \in Worker, CompleteLeaf(w),
         \A v \in Worker : v # w => run'[v] = run[v]
  PROVE  WalkInvariant'
<1>a. run \in [Worker -> RunRecord(now)] /\ RunInv(w) /\ GitHubInv /\ CursorInv /\ NothingLost
  BY DEF TypeOK, WalkInvariant
<1>b. DOMAIN run[w] = DOMAIN IdleRun
  BY <1>a DEF RunRecord, IdleRun
<1>c. run[w].leaf \in Nat /\ created \in [PR -> 0 .. now] /\ run[w].stamp \in Nat
  BY <1>a, RunFields DEF TypeOK, GitHubType
<1>1. /\ UNCHANGED <<now, github, stored, fullSyncPending, historySyncedAt, historyWalkedAt,
                      historyWalkStartedAt>>
      /\ historyCursor' = IF run[w].full THEN run[w].leaf ELSE historyCursor
  BY DEF CompleteLeaf, requests
<1>2. run[w].pc = "walk" /\ run[w].leaf # 0 /\ run[w].todo = {}
  BY DEF CompleteLeaf
<1>3. /\ run'[w].pc = "walk" /\ run'[w].leaf = 0 /\ run'[w].pos = run[w].leaf + 1
      /\ run'[w].full = run[w].full /\ run'[w].since = run[w].since
      /\ run'[w].started = run[w].started /\ run'[w].stamp = run[w].stamp
  <2>1. run'[w] = [run[w] EXCEPT !.pos = run[w].leaf + 1, !.leaf = 0]
    BY <1>a DEF CompleteLeaf
  <2>2. QED
    BY <2>1, <1>2, <1>b DEF IdleRun
<1>4. (NextRunIsFull' <=> NextRunIsFull) /\ Since' = Since
  BY <1>1 DEF NextRunIsFull, Since
<1>5. \A p \in PR : (Missed(p)' <=> Missed(p)) /\ created'[p] = created[p]
                    /\ \A t : InReach(p, t)' <=> InReach(p, t)
  BY <1>1 DEF Missed, InReach, github
<1>6. \A p \in PR : created[p] <= run[w].leaf /\ Missed(p) => InReach(p, run[w].stamp)
  BY <1>2, <1>a DEF Covered, RunInv
<1>7. GitHubInv'
  BY <1>1, <1>a DEF GitHubInv, github
<1>8. CursorInv'
  BY <1>1, <1>2, <1>4, <1>a DEF CursorInv, RunInv
<1>9. NothingLost'
  <2> SUFFICES ASSUME NEW p \in PR, Missed(p)'
               PROVE  IF NextRunIsFull'
                        THEN \/ historyCursor' <= AccountCreated \/ created'[p] > historyCursor'
                             \/ historyWalkStartedAt' # 0 /\ InReach(p, historyWalkStartedAt)'
                        ELSE InReach(p, Since)'
    BY DEF NothingLost
  <2>1. CASE run[w].full
    <3>1. NextRunIsFull' /\ historyCursor' = run[w].leaf /\ historyWalkStartedAt' # 0
          /\ run[w].stamp = historyWalkStartedAt
      <4>1. NextRunIsFull /\ run[w].stamp = historyWalkStartedAt /\ 0 < run[w].stamp
        BY <2>1, <1>2, <1>a DEF RunInv
      <4>2. run[w].stamp # 0
        BY <4>1
      <4>3. QED
        BY <4>1, <4>2, <2>1, <1>1, <1>4
    <3>2. created[p] <= run[w].leaf => InReach(p, historyWalkStartedAt)
      BY <3>1, <1>5, <1>6
    <3>3. created[p] \in Nat
      BY <1>c
    <3>4. QED
      BY <3>1, <3>2, <3>3, <1>1, <1>5, <1>c DEF InReach
  <2>2. CASE ~run[w].full
    <3>1. ~NextRunIsFull' /\ ~NextRunIsFull
      BY <2>2, <1>2, <1>4, <1>a DEF RunInv
    <3>2. InReach(p, Since)
      BY <3>1, <1>5, <1>a DEF NothingLost
    <3>3. QED
      BY <3>1, <3>2, <1>1, <1>4 DEF InReach, github
  <2>3. QED
    BY <2>1, <2>2
<1>10. RunInv(w)'
  <2>1. ASSUME NEW p \in PR, Covered(w, p)', Missed(p)' PROVE InReach(p, run[w].stamp)'
    <3>1. created[p] <= run[w].leaf
      BY <2>1, <1>3, <1>5, <1>c DEF Covered
    <3>2. InReach(p, run[w].stamp)
      BY <3>1, <2>1, <1>5, <1>6
    <3>3. QED
      BY <3>2, <1>1, <1>3 DEF InReach, github
  <2>2. QED
    BY <2>1, <1>1, <1>2, <1>3, <1>4, <1>a DEF RunInv
<1>11. QED
  BY <1>2, <1>7, <1>8, <1>9, <1>10, LockStep, RunMoves DEF WalkInvariant, Locked, Running

\* A walk that is over has covered everything: what it misses was opened or
\* changed after its stamp.
LEMMA WalkCovers ==
  ASSUME TypeOK, WalkInvariant, NEW w \in Worker, WalkIsOver(w)
  PROVE  \A p \in PR : Missed(p) => InReach(p, run[w].stamp)
<1> SUFFICES ASSUME NEW p \in PR, Missed(p) PROVE InReach(p, run[w].stamp)
  OBVIOUS
<1>a. run[w] \in RunRecord(now) /\ RunInv(w) /\ GitHubInv
  BY DEF TypeOK, WalkInvariant
<1>b. /\ now \in Nat /\ run[w].stamp \in Nat /\ run[w].started \in Nat /\ run[w].pos \in Nat
      /\ created[p] \in Nat /\ changed[p] \in Nat /\ created[p] <= changed[p]
  BY <1>a, RunFields DEF TypeOK, GitHubType, GitHubInv
<1>c. run[w].pc = "walk" /\ run[w].pos > run[w].started /\ run[w].stamp <= run[w].started
  BY <1>a DEF WalkIsOver, RunInv
<1>1. CASE created[p] < run[w].pos
  BY <1>1, <1>a, <1>c DEF RunInv, Covered
<1>2. CASE ~(created[p] < run[w].pos)
  BY <1>2, <1>b, <1>c, TimeAssumption DEF InReach
<1>3. QED
  BY <1>1, <1>2

\* The end of a walk: a full one leaves the stamp as the checkpoint.
LEMMA WalkFinish ==
  ASSUME TypeOK, WalkInvariant, [Next]_vars, NEW w \in Worker, FinishWalk(w),
         \A v \in Worker : v # w => run'[v] = run[v]
  PROVE  WalkInvariant'
<1>a. run \in [Worker -> RunRecord(now)] /\ RunInv(w) /\ GitHubInv /\ CursorInv /\ NothingLost
  BY DEF TypeOK, WalkInvariant
<1>b. DOMAIN run[w] = DOMAIN IdleRun
  BY <1>a DEF RunRecord, IdleRun
<1>c. run[w].stamp \in Nat /\ historySyncedAt \in Nat
  <2>1. now \in Nat /\ historySyncedAt \in 0 .. now /\ run[w] \in RunRecord(now)
    BY <1>a DEF TypeOK, RowType
  <2>2. QED
    BY <2>1, RunFields
<1>1. UNCHANGED <<now, github, stored, historySyncedAt>> /\ WalkIsOver(w) /\ run[w].pc = "walk"
  BY DEF FinishWalk, checkpoints, WalkIsOver
<1>2. run'[w].pc = "details" /\ run'[w].stamp = run[w].stamp
  BY <1>a, <1>b DEF FinishWalk, IdleRun
<1>3. \A p \in PR : Missed(p)' => InReach(p, run[w].stamp) /\ InReach(p, run[w].stamp)'
  BY <1>1, <1>2, WalkCovers DEF Missed, InReach, github
<1>4. run[w].full = NextRunIsFull /\ 0 < run[w].stamp /\ historySyncedAt' <= run[w].stamp
  BY <1>1, <1>a DEF RunInv
<1>5. GitHubInv'
  BY <1>1, <1>a DEF GitHubInv, github
<1>6. CASE run[w].full
  <2>1. /\ ~fullSyncPending' /\ historyCursor' = 0 /\ historyWalkStartedAt' = 0
        /\ historyWalkedAt' = run[w].stamp
    BY <1>6 DEF FinishWalk
  <2>2. ~NextRunIsFull'
    BY <2>1, <1>4, <1>c DEF NextRunIsFull
  <2>3. historySyncedAt <= run[w].stamp
    BY <1>1, <1>4, <1>6, <1>a, <1>c DEF RunInv, CursorInv
  <2>4. Since' = IF historySyncedAt # 0 THEN historySyncedAt ELSE run[w].stamp
    BY <2>1, <1>1 DEF Since
  <2>5. \A p \in PR : Missed(p)' => InReach(p, Since)'
    <3> SUFFICES ASSUME NEW p \in PR, Missed(p)' PROVE InReach(p, Since)'
      OBVIOUS
    <3>1. changed[p] + Reread >= run[w].stamp /\ changed[p] \in Nat
      BY <1>3 DEF InReach, TypeOK, GitHubType
    <3>2. changed[p] + Reread >= Since'
      BY <3>1, <2>3, <2>4, <1>c, TimeAssumption
    <3>3. QED
      BY <3>2, <1>1 DEF InReach, github
  <2>6. NothingLost'
    BY <2>2, <2>5 DEF NothingLost
  <2>7. CursorInv'
    BY <2>1 DEF CursorInv
  <2>8. RunInv(w)'
    BY <2>2, <1>2, <1>3, <1>4 DEF RunInv, InReach
  <2>9. QED
    BY <2>6, <2>7, <2>8, <1>1, <1>5, LockStep, RunMoves DEF WalkInvariant, Locked, Running
<1>7. CASE ~run[w].full
  <2>1. UNCHANGED <<now, github, stored, fullSyncPending, checkpoints>>
    BY <1>7, <1>1 DEF FinishWalk
  <2>2. ~NextRunIsFull'
    BY <2>1, <1>4, <1>7 DEF NextRunIsFull, checkpoints
  <2>3. RunInv(w)'
    BY <2>2, <1>2, <1>3, <1>4 DEF RunInv, InReach
  <2>4. QED
    BY <2>1, <2>3, WorldKept, LockStep, RunMoves DEF WalkInvariant
<1>8. QED
  BY <1>6, <1>7

\* The final checkpoint of a run is the stamp of its walk.
LEMMA WalkCheckpoint ==
  ASSUME TypeOK, WalkInvariant, [Next]_vars, NEW w \in Worker, SaveCheckpoint(w),
         \A v \in Worker : v # w => run'[v] = run[v]
  PROVE  WalkInvariant'
<1>a. run \in [Worker -> RunRecord(now)] /\ RunInv(w) /\ GitHubInv /\ CursorInv
  BY DEF TypeOK, WalkInvariant
<1>b. DOMAIN run[w] = DOMAIN IdleRun
  BY <1>a DEF RunRecord, IdleRun
<1>1. /\ UNCHANGED <<now, github, stored, historyWalkedAt, historyWalkStartedAt, historyCursor>>
      /\ historySyncedAt' = run[w].stamp /\ run[w].pc = "details"
  BY DEF SaveCheckpoint
<1>2. run'[w].pc = "finish" /\ fullSyncPending' = FALSE
  BY CheckpointPhase DEF SaveCheckpoint
<1>3. /\ ~NextRunIsFull /\ 0 < run[w].stamp
      /\ \A p \in PR : Missed(p) => InReach(p, run[w].stamp)
  BY <1>1, <1>a DEF RunInv
<1>4. run[w].stamp # 0
  BY <1>3
<1>5. ~NextRunIsFull' /\ Since' = run[w].stamp
  BY <1>1, <1>2, <1>4 DEF NextRunIsFull, Since
<1>6. GitHubInv'
  BY <1>1, <1>a DEF GitHubInv, github
<1>7. CursorInv'
  BY <1>1, <1>3, <1>a DEF CursorInv
<1>8. NothingLost'
  BY <1>1, <1>3, <1>5 DEF NothingLost, Missed, InReach, github
<1>9. RunInv(w)'
  BY <1>2 DEF RunInv
<1>10. QED
  BY <1>1, <1>6, <1>7, <1>8, <1>9, LockStep, RunMoves DEF WalkInvariant, Locked, Running

LEMMA WalkInit == Init => WalkInvariant
<1> SUFFICES ASSUME Init PROVE WalkInvariant
  OBVIOUS
<1>1. lock = NoWorker /\ \A w \in Worker : run[w].pc = "idle"
  BY DEF Init, IdleRun
<1>2. LockInv
  BY <1>1, WorkerAssumption DEF LockInv, Locked, Running
<1>3. \A w \in Worker : RunInv(w)
  BY <1>1 DEF RunInv
<1>4. CursorInv
  BY DEF Init, CursorInv
<1>5. \A p \in PR : created[p] = 0 /\ changed[p] = 0 /\ indexed[p] = 0 /\ stored[p] = 0
  BY DEF Init
<1>6. GitHubInv
  BY <1>5 DEF GitHubInv
<1>7. NothingLost
  BY <1>5 DEF NothingLost, Missed
<1>8. QED
  BY <1>2, <1>3, <1>4, <1>6, <1>7 DEF WalkInvariant

LEMMA WalkStep ==
  ASSUME ClockSkew = 0 PROVE TypeOK /\ WalkInvariant /\ [Next]_vars => WalkInvariant'
<1> SUFFICES ASSUME TypeOK, WalkInvariant, [Next]_vars PROVE WalkInvariant'
  OBVIOUS
<1>a. run \in [Worker -> RunRecord(now)] /\ now \in Nat
  BY DEF TypeOK
<1>b. \A w \in Worker : DOMAIN run[w] = DOMAIN IdleRun
  BY <1>a DEF RunRecord, IdleRun
<1>1. CASE Tick
  <2>1. /\ UNCHANGED <<github, stored, fullSyncPending, checkpoints, run>> /\ now' = now + 1
        /\ \A p \in PR : indexed[p] # changed[p] => changed[p] + IndexLag >= now'
    <3>1. \A p \in PR : changed[p] \in Nat
      BY DEF TypeOK, GitHubType
    <3>2. QED
      BY <3>1, <1>1, <1>a, TimeAssumption DEF Tick, requests
  <2>2. GitHubInv'
    BY <2>1 DEF WalkInvariant, GitHubInv, github
  <2>3. CursorInv' /\ NothingLost'
    BY <2>1 DEF WalkInvariant, CursorInv, NothingLost, NextRunIsFull, Since, Missed, InReach,
       github, checkpoints
  <2>4. \A w \in Worker : RunInv(w)'
    BY <2>1 DEF WalkInvariant, RunInv, NextRunIsFull, Since, Missed, Covered, InReach,
       github, checkpoints
  <2>5. QED
    BY <2>2, <2>3, <2>4, LockStep DEF WalkInvariant
<1>2. CASE Disconnect \/ UNCHANGED vars
  <2>1. UNCHANGED <<now, github, stored, fullSyncPending, checkpoints, run>>
    BY <1>2 DEF Disconnect, vars, requests
  <2>2. \A w \in Worker : RunInv(w)'
    BY <2>1 DEF WalkInvariant, RunInv, NextRunIsFull, Since, Missed, Covered, InReach,
       github, checkpoints
  <2>3. QED
    BY <2>1, <2>2, WorldKept, LockStep DEF WalkInvariant
<1>3. ASSUME NEW p \in PR, OpenPR(p) \/ ChangePR(p) \/ IndexPR(p) PROVE WalkInvariant'
  BY <1>3, WalkGitHub
<1>4. ASSUME NEW w \in Worker, Login(w) \/ PostSync(w) \/ Schedule(w) PROVE WalkInvariant'
  <2>1. /\ UNCHANGED <<now, github, stored, fullSyncPending, checkpoints>>
        /\ run'[w].pc \in {"start", "post"}
    BY <1>4, <1>a, <1>b DEF Login, PostSync, Schedule, requests, IdleRun
  <2>2. QED
    BY <2>1, <1>4, OneRunMoves, OutOfPlay
<1>5. ASSUME NEW w \in Worker, Proceed(w) PROVE WalkInvariant'
  <2>0. \A v \in Worker : v # w => run'[v] = run[v]
    BY <1>5, OneRunMoves
  <2>1. CASE \E full \in BOOLEAN : QueueSync(w, full)
    BY <2>0, <2>1, WalkQueue
  <2>2. CASE LockBusy(w) \/ SkipRun(w) \/ Finish(w)
    <3>1. UNCHANGED <<now, github, stored, fullSyncPending, checkpoints>>
      BY <2>2 DEF LockBusy, SkipRun, Finish, requests
    <3>2. run' = [run EXCEPT ![w] = IdleRun]
      BY <2>2 DEF LockBusy, SkipRun, Finish
    <3>3. run'[w].pc = "idle"
      BY <3>2, <1>a DEF IdleRun
    <3>4. QED
      BY <2>0, <3>1, <3>3, OutOfPlay
  <2>3. CASE CheckConnection(w) \/ TakeLock(w)
    <3>1. /\ UNCHANGED <<now, github, stored, fullSyncPending, checkpoints>>
          /\ run'[w].pc \in {"lock", "idle", "queue", "begin"}
      BY <2>3, <1>a, <1>b DEF CheckConnection, TakeLock, requests, IdleRun
    <3>2. QED
      BY <2>0, <3>1, OutOfPlay
  <2>4. CASE BeginRun(w) \/ ReportRunning(w)
    BY <2>0, <2>4, WalkBegin
  <2>5. CASE \E t \in now - ClockSkew .. now : t > 0 /\ StartWalk(w, t)
    <3>1. StartWalk(w, now)
      BY <2>5, <1>a
    <3>2. QED
      BY <2>0, <3>1, WalkStart
  <2>6. CASE \E end \in 1 .. MaxTime : QueryLeaf(w, end)
    BY <2>0, <2>6, WalkQuery
  <2>7. CASE \E p \in PR : SavePage(w, p)
    BY <2>0, <2>7, WalkPage
  <2>8. CASE CompleteLeaf(w)
    BY <2>0, <2>8, WalkLeaf
  <2>9. CASE FinishWalk(w)
    BY <2>0, <2>9, WalkFinish
  <2>10. CASE SaveCheckpoint(w)
    BY <2>0, <2>10, WalkCheckpoint
  <2>11. CASE \E code \in ErrorCode : Fail(w, code) \/ FailUnrecorded(w, code)
    <3>1. /\ UNCHANGED <<now, github, stored, fullSyncPending, checkpoints>>
          /\ run'[w].pc = "finish"
      BY <2>11, <1>a DEF Fail, FailUnrecorded, IdleRun, requests
    <3>2. QED
      BY <2>0, <3>1, OutOfPlay
  <2>12. QED
    BY <1>5, <2>1, <2>2, <2>3, <2>4, <2>5, <2>6, <2>7, <2>8, <2>9, <2>10, <2>11 DEF Proceed
<1>6. ASSUME NEW w \in Worker, Dawdle(w) PROVE WalkInvariant'
  <2>1. run' = run
    BY <1>6 DEF Dawdle, RefreshOpen, AdvanceDetails, WaitForRateLimit
  <2>2. ASSUME NEW p \in PR, RefreshOpen(w, p) PROVE WalkInvariant'
    <3>1. /\ stored' = [stored EXCEPT ![p] = indexed[p]]
          /\ UNCHANGED <<now, github, fullSyncPending, checkpoints>>
      BY <2>2 DEF RefreshOpen, requests
    <3>2. QED
      BY <2>1, <3>1, WalkStore, LockStep DEF WalkInvariant
  <2>3. CASE AdvanceDetails(w) \/ WaitForRateLimit(w)
    <3>1. UNCHANGED <<now, github, stored, fullSyncPending, checkpoints>>
      BY <2>3 DEF AdvanceDetails, WaitForRateLimit, requests
    <3>2. \A v \in Worker : RunInv(v)'
      BY <2>1, <3>1 DEF WalkInvariant, RunInv, NextRunIsFull, Since, Missed, Covered, InReach,
         github, checkpoints
    <3>3. QED
      BY <3>1, <3>2, WorldKept, LockStep DEF WalkInvariant
  <2>4. QED
    BY <1>6, <2>2, <2>3 DEF Dawdle
<1>7. ASSUME NEW w \in Worker, Crash(w) PROVE WalkInvariant'
  <2>1. /\ UNCHANGED <<now, github, stored, fullSyncPending, checkpoints>>
        /\ run' = [run EXCEPT ![w] = IdleRun]
    BY <1>7 DEF Crash, requests
  <2>2. run'[w].pc = "idle"
    BY <2>1, <1>a DEF IdleRun
  <2>3. QED
    BY <2>1, <2>2, <1>7, OneRunMoves, OutOfPlay
<1>8. QED
  BY <1>1, <1>2, <1>3, <1>4, <1>5, <1>6, <1>7 DEF Next

\* What a run in flight promises of the row it read is kept by every step, for
\* clocks that agree.
THEOREM WalksKeepTheirPromise == ASSUME ClockSkew = 0 PROVE Spec => []WalkInvariant
<1>1. TypeOK /\ WalkInvariant /\ [Next]_vars => WalkInvariant'
  BY WalkStep
<1>2. QED
  BY <1>1, WalkInit, TypeCorrect, PTL DEF Spec


\* As long as the replicas' clocks agree, a change of a pull request that is not
\* stored is never out of reach of the runs to come, wherever runs fail or die
\* and however late search learns of changes, up to the re-read of a day.
THEOREM EverythingIsRead == ASSUME ClockSkew = 0 PROVE Spec => []NothingLost
<1>1. WalkInvariant => NothingLost
  BY DEF WalkInvariant
<1>2. QED
  BY <1>1, WalksKeepTheirPromise, PTL

\* Only the end of a run writes history_synced_at.
LEMMA CheckpointWriter ==
  ASSUME [Next]_vars, historySyncedAt' # historySyncedAt
  PROVE  \E w \in Worker : SaveCheckpoint(w)
<1>1. CASE Tick \/ Disconnect \/ UNCHANGED vars
  BY <1>1 DEF Tick, Disconnect, vars, checkpoints
<1>2. ASSUME NEW p \in PR, OpenPR(p) \/ ChangePR(p) \/ IndexPR(p) PROVE FALSE
  BY <1>2 DEF OpenPR, ChangePR, IndexPR, checkpoints
<1>3. ASSUME NEW w \in Worker, Login(w) \/ PostSync(w) \/ Schedule(w) \/ Dawdle(w) \/ Crash(w)
      PROVE  FALSE
  BY <1>3 DEF Login, PostSync, Schedule, Dawdle, RefreshOpen, AdvanceDetails, WaitForRateLimit,
     Crash, checkpoints
<1>4. ASSUME NEW w \in Worker, Proceed(w), ~SaveCheckpoint(w) PROVE FALSE
  <2>1. CASE \/ CheckConnection(w) \/ TakeLock(w) \/ LockBusy(w) \/ SkipRun(w)
             \/ BeginRun(w) \/ ReportRunning(w) \/ CompleteLeaf(w) \/ Finish(w)
    BY <2>1 DEF CheckConnection, TakeLock, LockBusy, SkipRun, BeginRun,
       ReportRunning, CompleteLeaf, Finish, checkpoints
  <2>2. CASE FinishWalk(w)
    BY <2>2 DEF FinishWalk, checkpoints
  <2>3. CASE \/ \E full \in BOOLEAN : QueueSync(w, full)
             \/ \E t \in now - ClockSkew .. now : t > 0 /\ StartWalk(w, t)
             \/ \E end \in 1 .. MaxTime : QueryLeaf(w, end)
             \/ \E p \in PR : SavePage(w, p)
             \/ \E code \in ErrorCode : Fail(w, code) \/ FailUnrecorded(w, code)
    BY <2>3 DEF QueueSync, StartWalk, QueryLeaf, SavePage, Fail, FailUnrecorded, checkpoints
  <2>4. QED
    BY <1>4, <2>1, <2>2, <2>3 DEF Proceed
<1>5. QED
  BY <1>1, <1>2, <1>3, <1>4 DEF Next

\* Under the same condition the checkpoint an incremental run asks about never
\* moves back, although a resumed walk is stamped with the time of an old run.
THEOREM CheckpointsAdvance == ASSUME ClockSkew = 0 PROVE Spec => CheckpointMonotone
<1>1. TypeOK /\ WalkInvariant /\ [Next]_vars => WalkInvariant'
  BY WalkStep
<1>2. TypeOK /\ WalkInvariant /\ [Next]_vars => [historySyncedAt' >= historySyncedAt]_historySyncedAt
  <2> SUFFICES ASSUME TypeOK, WalkInvariant, [Next]_vars, historySyncedAt' # historySyncedAt
               PROVE  historySyncedAt' >= historySyncedAt
    OBVIOUS
  <2>1. PICK w \in Worker : SaveCheckpoint(w)
    BY CheckpointWriter
  <2>2. historySyncedAt' = run[w].stamp /\ run[w].pc = "details"
    BY <2>1 DEF SaveCheckpoint
  <2>3. historySyncedAt <= run[w].stamp
    BY <2>2 DEF WalkInvariant, RunInv
  <2>4. historySyncedAt \in Nat /\ run[w].stamp \in Nat
    <3>1. now \in Nat /\ historySyncedAt \in 0 .. now /\ run[w] \in RunRecord(now)
      BY DEF TypeOK, RowType
    <3>2. QED
      BY <3>1, RunFields
  <2>5. QED
    BY <2>2, <2>3, <2>4
<1>3. QED
  BY <1>1, <1>2, WalkInit, TypeCorrect, PTL DEF Spec, CheckpointMonotone
=============================================================================
