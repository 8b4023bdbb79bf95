------------------------ MODULE TokenRefresh_proofs ------------------------
(***************************************************************************)
(* Theorems about TokenRefresh, for every number of goroutines and every   *)
(* value of the intervals.                                                 *)
(***************************************************************************)
EXTENDS TokenRefresh, TLAPS

-----------------------------------------------------------------------------
(* Types.                                                                  *)

\* The fields of a call.
LEMMA CallFields ==
  ASSUME NEW n \in Nat, NEW m \in Nat, NEW c \in CallRecord(n, m)
  PROVE  /\ c.pc \in Phase /\ c.isRun \in BOOLEAN /\ c.since \in 0 .. n
         /\ c.refresh \in 0 .. m /\ c.got \in 0 .. m
  BY DEF CallRecord

LEMMA IdleCall ==
  ASSUME NEW n \in Nat, NEW m \in Nat
  PROVE  Idle \in CallRecord(n, m) /\ Idle.pc = "idle"
  BY DEF Idle, CallRecord, Phase

\* The records a goroutine writes over its own: another phase, ...
Moved(c, ph) == [c EXCEPT !.pc = ph]

LEMMA PhaseCall ==
  ASSUME NEW n \in Nat, NEW m \in Nat, NEW c \in CallRecord(n, m), NEW ph \in Phase
  PROVE  /\ Moved(c, ph) \in CallRecord(n, m) /\ Moved(c, ph).pc = ph
         /\ Moved(c, ph).refresh = c.refresh /\ Moved(c, ph).got = c.got
  BY DEF CallRecord, Moved

\* ... a phase and a grant, ...
Handed(c, ph, g) == [c EXCEPT !.pc = ph, !.got = g]

LEMMA GrantCall ==
  ASSUME NEW n \in Nat, NEW m \in Nat, NEW c \in CallRecord(n, m), NEW ph \in Phase, NEW g \in 0 .. m
  PROVE  /\ Handed(c, ph, g) \in CallRecord(n, m) /\ Handed(c, ph, g).pc = ph
         /\ Handed(c, ph, g).got = g /\ Handed(c, ph, g).refresh = c.refresh
  BY DEF CallRecord, Handed

\* ... or a phase and the token to present.
Asking(c, ph, g) == [c EXCEPT !.pc = ph, !.refresh = g]

LEMMA RefreshCall ==
  ASSUME NEW n \in Nat, NEW m \in Nat, NEW c \in CallRecord(n, m), NEW ph \in Phase, NEW g \in 0 .. m
  PROVE  /\ Asking(c, ph, g) \in CallRecord(n, m) /\ Asking(c, ph, g).pc = ph
         /\ Asking(c, ph, g).refresh = g
  BY DEF CallRecord, Asking

\* A caller's record, and that of a login.
LEMMA BegunCall ==
  ASSUME NEW n \in Nat, NEW m \in Nat, NEW c \in CallRecord(n, m), NEW i \in BOOLEAN, NEW s \in 0 .. n
  PROVE  [c EXCEPT !.isRun = i, !.since = s] \in CallRecord(n, m)
  BY DEF CallRecord

Storing(c, g, r) == [c EXCEPT !.pc = "store", !.got = g, !.refresh = r]

LEMMA LoginCall ==
  ASSUME NEW n \in Nat, NEW m \in Nat, NEW c \in CallRecord(n, m), NEW g \in 0 .. m, NEW r \in 0 .. m
  PROVE  /\ Storing(c, g, r) \in CallRecord(n, m) /\ Storing(c, g, r).pc = "store"
         /\ Storing(c, g, r).got = g /\ Storing(c, g, r).refresh = r
  BY DEF CallRecord, Storing, Phase

\* A record stays one when the clock and the count of grants grow.
LEMMA LaterCalls ==
  ASSUME NEW n \in Nat, NEW m \in Nat, NEW k \in Nat, NEW l \in Nat, n <= k, m <= l
  PROVE  CallRecord(n, m) \subseteq CallRecord(k, l)
<1>1. 0 .. n \subseteq 0 .. k /\ 0 .. m \subseteq 0 .. l
  OBVIOUS
<1>2. QED
  BY <1>1 DEF CallRecord

\* What an action has to show when one goroutine moves to c.
LEMMA OneCall ==
  ASSUME CallType, NEW w \in Worker, NEW n \in Nat, NEW m \in Nat,
         now \in Nat, issued \in Nat, now <= n, issued <= m,
         NEW c \in CallRecord(n, m),
         c.pc \in {"store", "commit"} => c.got # 0,
         c.pc = "store" => c.refresh \in {0, c.got},
         now' = n, issued' = m, call' = [call EXCEPT ![w] = c]
  PROVE  CallType'
<1>1. CallRecord(now, issued) \subseteq CallRecord(n, m)
  BY LaterCalls
<1>2. call' \in [Worker -> CallRecord(n, m)]
  BY <1>1 DEF CallType
<1>3. ASSUME NEW v \in Worker
      PROVE  /\ call'[v].pc \in {"store", "commit"} => call'[v].got # 0
             /\ call'[v].pc = "store" => call'[v].refresh \in {0, call'[v].got}
  <2>1. call'[v] = IF v = w THEN c ELSE call[v]
    BY DEF CallType
  <2>2. QED
    BY <2>1 DEF CallType
<1>4. QED
  BY <1>2, <1>3 DEF CallType

\* A call that ends leaves a verdict to write, a run under way, or nothing.
LEMMA EndedCall ==
  ASSUME NEW n \in Nat, NEW m \in Nat, NEW w \in Worker, call[w] \in CallRecord(n, m), NEW g \in 0 .. m
  PROVE  /\ Failed(w) \in CallRecord(n, m) /\ Failed(w).pc \in {"idle", "fail"}
         /\ Served(w, g) \in CallRecord(n, m) /\ Served(w, g).pc \in {"idle", "use"}
<1>1. "fail" \in Phase /\ "use" \in Phase
  BY DEF Phase
<1>2. Failed(w) = (IF call[w].isRun THEN Moved(call[w], "fail") ELSE Idle)
  BY DEF Failed, Moved
<1>3. Served(w, g) = (IF call[w].isRun THEN Handed(call[w], "use", g) ELSE Idle)
  BY DEF Served, Handed
<1>4. Moved(call[w], "fail") \in CallRecord(n, m) /\ Moved(call[w], "fail").pc = "fail"
  BY <1>1, PhaseCall
<1>5. Handed(call[w], "use", g) \in CallRecord(n, m) /\ Handed(call[w], "use", g).pc = "use"
  BY <1>1, GrantCall
<1>6. QED
  BY <1>2, <1>3, <1>4, <1>5, IdleCall

LEMMA TypeInit == Init => TypeOK
<1> SUFFICES ASSUME Init PROVE TypeOK
  OBVIOUS
<1>1. now = 1 /\ issued = 0 /\ live = {} /\ spent = {} /\ expiry \in [Grant -> Nat]
  BY DEF Init
<1>2. RowType
  BY DEF Init, RowType
<1>3. CallType
  BY <1>1, IdleCall DEF Init, CallType
<1>4. QED
  BY <1>1, <1>2, <1>3, TokenAssumption DEF Init, TypeOK

\* The four columns do not move and no grant they name changes.
LEMMA RowKept ==
  ASSUME TypeOK, UNCHANGED row, issued' \in Nat, issued <= issued',
         \A g \in 1 .. issued : expiry'[g] = expiry[g]
  PROVE  RowType'
<1>1. issued \in Nat /\ token \in 0 .. issued
  BY TokenAssumption DEF TypeOK, RowType
<1>2. token \in 0 .. issued'
  BY <1>1
<1>3. token # 0 => expiry'[token] = expiry[token]
  BY <1>1
<1>4. QED
  BY <1>2, <1>3 DEF TypeOK, RowType, row

\* A new grant g is handed to w, which moves to c.
LEMMA NewGrant ==
  ASSUME TypeOK, NEW w \in Worker, NEW g, g = issued + 1, g \in Grant, issued' = g,
         live' \subseteq live \cup {g}, spent' \subseteq spent \cup live,
         NEW e \in Nat, expiry' = [expiry EXCEPT ![g] = e],
         NEW c \in CallRecord(now, issued'), c.got = g, c.pc = "store" => c.refresh \in {0, g},
         call' = [call EXCEPT ![w] = c],
         UNCHANGED <<now, row>>, lock' \in Worker \cup {NoWorker}
  PROVE  TypeOK'
<1>1. /\ now \in Nat /\ issued \in Nat /\ MaxGrant \in Nat
      /\ g \in Nat /\ issued <= g /\ g # 0 /\ g <= MaxGrant
  BY TokenAssumption DEF TypeOK, Grant
<1>2. live' \subseteq 1 .. issued' /\ spent' \subseteq 1 .. issued'
  BY <1>1 DEF TypeOK
<1>3. /\ expiry' \in [Grant -> Nat]
      /\ \A h \in 1 .. issued : expiry'[h] = expiry[h]
  BY <1>1 DEF TypeOK, Grant
<1>4. RowType'
  BY <1>1, <1>3, RowKept
<1>5. CallType'
  <2>1. CallType /\ now <= now /\ now' = now /\ (c.pc \in {"store", "commit"} => c.got # 0)
    BY <1>1 DEF TypeOK
  <2>2. QED
    BY <1>1, <2>1, OneCall
<1>6. QED
  BY <1>1, <1>2, <1>3, <1>4, <1>5 DEF TypeOK

\* Only w moves, and perhaps the lock.
LEMMA OnlyCall ==
  ASSUME TypeOK, NEW w \in Worker, NEW c \in CallRecord(now, issued),
         c.pc \in {"store", "commit"} => c.got # 0,
         c.pc = "store" => c.refresh \in {0, c.got},
         call' = [call EXCEPT ![w] = c],
         UNCHANGED <<now, issued, expiry>>, RowType',
         live' \subseteq live, spent' \subseteq spent \cup live,
         lock' \in Worker \cup {NoWorker}
  PROVE  TypeOK'
<1>1. now \in Nat /\ issued \in Nat
  BY TokenAssumption DEF TypeOK
<1>2. CallType'
  <2>1. CallType /\ now <= now /\ issued <= issued /\ now' = now /\ issued' = issued
    BY <1>1 DEF TypeOK
  <2>2. QED
    BY <1>1, <2>1, OneCall
<1>3. QED
  BY <1>2 DEF TypeOK
LEMMA TypeStep == TypeOK /\ [Next]_vars => TypeOK'
<1> SUFFICES ASSUME TypeOK, [Next]_vars PROVE TypeOK'
  OBVIOUS
<1>a. now \in Nat /\ issued \in Nat /\ lock \in Worker \cup {NoWorker}
  BY TokenAssumption DEF TypeOK
<1>b. ASSUME NEW w \in Worker
      PROVE  /\ call[w] \in CallRecord(now, issued)
             /\ call[w].pc \in Phase /\ call[w].refresh \in 0 .. issued /\ call[w].got \in 0 .. issued
             /\ call[w].pc \in {"store", "commit"} => call[w].got # 0
             /\ call[w].pc = "store" => call[w].refresh \in {0, call[w].got}
  <2>1. call[w] \in CallRecord(now, issued)
    BY DEF TypeOK, CallType
  <2>2. QED
    BY <1>a, <2>1, CallFields DEF TypeOK, CallType
<1>c. token \in 0 .. issued /\ refreshToken \in 0 .. issued
  BY <1>a DEF TypeOK, RowType
<1>d. Idle \in CallRecord(now, issued) /\ Idle.pc = "idle"
  BY <1>a, IdleCall
<1>1. CASE UNCHANGED vars
  BY <1>1 DEF vars, github, row, TypeOK, RowType, CallType
<1>2. CASE Tick
  <2>1. now' \in Nat /\ now <= now' /\ UNCHANGED <<github, row, lock, call>>
    BY <1>2, <1>a DEF Tick
  <2>2. CallRecord(now, issued) \subseteq CallRecord(now', issued)
    BY <1>a, <2>1, LaterCalls
  <2>3. CallType'
    BY <2>1, <2>2 DEF TypeOK, CallType, github
  <2>4. QED
    BY <2>1, <2>3 DEF TypeOK, RowType, github, row
<1>3. CASE Revoke
  BY <1>3 DEF Revoke, row, TypeOK, RowType, CallType
<1>4. CASE Logout
  BY <1>4, <1>a DEF Logout, github, TypeOK, RowType, CallType
<1>5. ASSUME NEW w \in Worker, NEW expires \in BOOLEAN, NEW renews \in BOOLEAN,
             Authorize(w, expires, renews)
      PROVE  TypeOK'
  <2> DEFINE g == issued + 1
             e == IF expires THEN now + Lifetime ELSE 0
             r == IF renews THEN g ELSE 0
             c == Storing(Idle, g, r)
  <2>1. /\ g \in Grant /\ issued' = g /\ g \in Nat
        /\ expiry' = [expiry EXCEPT ![g] = e] /\ e \in Nat
        /\ call' = [call EXCEPT ![w] = c]
        /\ UNCHANGED <<now, row>> /\ lock' \in Worker \cup {NoWorker}
    BY <1>5, <1>a, TokenAssumption DEF Authorize, Storing
  <2>2. live' \subseteq live \cup {g} /\ spent' \subseteq spent \cup live
    BY <1>5 DEF Authorize
  <2>3. c \in CallRecord(now, issued') /\ c.got = g /\ c.refresh \in {0, g}
    <3>1. r \in 0 .. issued' /\ g \in 0 .. issued' /\ r \in {0, g}
      BY <2>1
    <3>2. Idle \in CallRecord(now, issued')
      BY <1>a, <2>1, IdleCall
    <3> HIDE DEF g, r
    <3>3. QED
      BY <1>a, <2>1, <3>1, <3>2, LoginCall
  <2>4. QED
    BY <2>1, <2>2, <2>3, NewGrant
<1>6. ASSUME NEW w \in Worker, NEW isRun \in BOOLEAN, Ask(w, isRun) PROVE TypeOK'
  <2> DEFINE b == [Idle EXCEPT !.isRun = isRun, !.since = now]
             c == IF token = 0 THEN IF isRun THEN Moved(b, "fail") ELSE Idle
                  ELSE IF ~TokenExpired
                    THEN IF isRun THEN Handed(b, "use", token) ELSE Idle
                  ELSE Asking(b, IF Refreshable THEN "lock" ELSE "mark", refreshToken)
  <2>1. call' = [call EXCEPT ![w] = c] /\ UNCHANGED <<now, github, row, lock>>
    BY <1>6 DEF Ask, Moved, Handed, Asking
  <2>2. b \in CallRecord(now, issued)
    <3>1. now \in 0 .. now
      BY <1>a
    <3>2. QED
      BY <1>a, <1>d, <3>1, BegunCall
  <2> HIDE DEF b
  <2>3. c \in CallRecord(now, issued) /\ c.pc \in {"idle", "fail", "use", "lock", "mark"}
    <3>1. {"fail", "use", "lock", "mark"} \subseteq Phase
      BY DEF Phase
    <3>2. Moved(b, "fail") \in CallRecord(now, issued) /\ Moved(b, "fail").pc = "fail"
      BY <1>a, <2>2, <3>1, PhaseCall
    <3>3. Handed(b, "use", token) \in CallRecord(now, issued) /\ Handed(b, "use", token).pc = "use"
      BY <1>a, <1>c, <2>2, <3>1, GrantCall
    <3>4. ASSUME NEW ph \in {"lock", "mark"}
          PROVE  /\ Asking(b, ph, refreshToken) \in CallRecord(now, issued)
                 /\ Asking(b, ph, refreshToken).pc = ph
      BY <1>a, <1>c, <2>2, <3>1, RefreshCall
    <3>5. QED
      BY <3>2, <3>3, <3>4, <1>d
  <2>4. RowType'
    BY <2>1, <1>a, RowKept DEF github
  <2> HIDE DEF c
  <2>5. QED
    BY <1>a, <2>1, <2>3, <2>4, OnlyCall DEF github
<1>7. ASSUME NEW w \in Worker, Enter(w) PROVE TypeOK'
  <2>1. UNCHANGED <<now, github, row>> /\ lock' \in Worker \cup {NoWorker} /\ RowType'
    BY <1>7, <1>a, RowKept DEF Enter, github
  <2>2. PICK c : /\ call' = [call EXCEPT ![w] = c]
                 /\ c \in CallRecord(now, issued) /\ c.pc \in {"exchange", "mark", "idle", "fail", "use"}
    <3>1. {"exchange", "mark"} \subseteq Phase
      BY DEF Phase
    <3>2. CASE TokenExpired /\ Refreshable
      <4> DEFINE c == Asking(call[w], "exchange", refreshToken)
      <4>1. c \in CallRecord(now, issued) /\ c.pc = "exchange"
        BY <1>a, <1>b, <1>c, <3>1, RefreshCall
      <4>2. call' = [call EXCEPT ![w] = c]
        BY <1>7, <3>2, <1>b DEF Enter, TypeOK, CallType, Asking
      <4>3. QED
        BY <4>1, <4>2
    <3>3. CASE ~(TokenExpired /\ Refreshable)
      <4> DEFINE c == IF TokenExpired THEN Moved(call[w], "mark")
                      ELSE IF token = 0 THEN Failed(w) ELSE Served(w, token)
      <4>1. Moved(call[w], "mark") \in CallRecord(now, issued) /\ Moved(call[w], "mark").pc = "mark"
        BY <1>a, <1>b, <3>1, PhaseCall
      <4>2. c \in CallRecord(now, issued) /\ c.pc \in {"mark", "idle", "fail", "use"}
        BY <1>a, <1>b, <1>c, <4>1, EndedCall
      <4>3. call' = [call EXCEPT ![w] = c]
        BY <1>7, <3>3 DEF Enter, Moved
      <4>4. QED
        BY <4>2, <4>3
    <3>4. QED
      BY <3>2, <3>3
  <2>3. QED
    BY <1>a, <2>1, <2>2, OnlyCall DEF github
<1>8. ASSUME NEW w \in Worker, Proceed(w) PROVE TypeOK'
  <2>1. CASE StoreLogin(w)
    <3>1. call' = [call EXCEPT ![w] = Idle] /\ UNCHANGED <<now, github, lock>>
      BY <2>1 DEF StoreLogin
    <3>2. RowType'
      BY <2>1, <1>b DEF StoreLogin, RowType, github
    <3>3. QED
      BY <1>a, <1>d, <3>1, <3>2, OnlyCall DEF github
  <2>2. CASE Granted(w)
    <3> DEFINE g == issued + 1
               c == Handed(call[w], "commit", g)
    <3>1. /\ g \in Grant /\ issued' = g /\ g \in Nat /\ issued <= g
          /\ expiry' = [expiry EXCEPT ![g] = now + Lifetime] /\ now + Lifetime \in Nat
          /\ UNCHANGED <<now, row>> /\ lock' \in Worker \cup {NoWorker}
      BY <2>2, <1>a, TokenAssumption DEF Granted
    <3>2. live' \subseteq live \cup {g} /\ spent' \subseteq spent \cup live
      BY <2>2 DEF Granted
    <3>3. call' = [call EXCEPT ![w] = c]
      BY <2>2, <1>b DEF Granted, TypeOK, CallType, Handed
    <3>4. c \in CallRecord(now, issued') /\ c.pc = "commit" /\ c.got = g
      <4>1. call[w] \in CallRecord(now, issued') /\ "commit" \in Phase
        BY <1>a, <1>b, <3>1, LaterCalls DEF Phase
      <4>2. g \in 0 .. issued'
        BY <3>1
      <4>3. QED
        BY <1>a, <3>1, <4>1, <4>2, GrantCall
    <3>5. QED
      BY <3>1, <3>2, <3>3, <3>4, NewGrant
  <2>3. CASE Refused(w) \/ TimedOut(w) \/ AnswerLost(w) \/ Rejected(w)
    <3>1. PICK ph \in {"mark", "fail"} : call' = [call EXCEPT ![w].pc = ph]
      BY <2>3 DEF Refused, TimedOut, AnswerLost, Rejected
    <3>2. /\ UNCHANGED <<now, issued, expiry, row>> /\ live' \subseteq live
          /\ spent' \subseteq spent \cup live /\ lock' \in Worker \cup {NoWorker}
      BY <2>3, <1>a DEF Refused, TimedOut, AnswerLost, Rejected, github
    <3>3. Moved(call[w], ph) \in CallRecord(now, issued) /\ Moved(call[w], ph).pc = ph
      BY <1>a, <1>b, <3>1, PhaseCall DEF Phase
    <3>4. call' = [call EXCEPT ![w] = Moved(call[w], ph)]
      BY <3>1 DEF TypeOK, CallType, Moved
    <3>5. RowType'
      BY <3>2, <1>a, RowKept
    <3>6. QED
      BY <3>1, <3>2, <3>3, <3>4, <3>5, OnlyCall
  <2>4. CASE Commit(w)
    <3>1. /\ call' = [call EXCEPT ![w] = Served(w, call[w].got)] /\ UNCHANGED <<now, github>>
          /\ lock' \in Worker \cup {NoWorker}
      BY <2>4 DEF Commit
    <3>2. RowType'
      BY <2>4, <1>b DEF Commit, RowType, github
    <3>3. /\ Served(w, call[w].got) \in CallRecord(now, issued)
          /\ Served(w, call[w].got).pc \in {"idle", "use"}
      BY <1>a, <1>b, EndedCall
    <3>4. QED
      BY <1>a, <3>1, <3>2, <3>3, OnlyCall DEF github
  <2>5. CASE CommitFails(w) \/ Mark(w)
    <3>1. /\ call' = [call EXCEPT ![w] = Failed(w)] /\ UNCHANGED <<now, issued, expiry>>
          /\ live' \subseteq live /\ spent' \subseteq spent \cup live
          /\ lock' \in Worker \cup {NoWorker}
      BY <2>5, <1>a DEF CommitFails, Mark, github
    <3>2. RowType'
      BY <2>5, <3>1 DEF CommitFails, Mark, TypeOK, RowType, row
    <3>3. Failed(w) \in CallRecord(now, issued) /\ Failed(w).pc \in {"idle", "fail"}
      BY <1>a, <1>b, <1>c, EndedCall
    <3>4. QED
      BY <1>a, <3>1, <3>2, <3>3, OnlyCall DEF github
  <2>6. CASE FinishReconnect(w) \/ Done(w)
    <3>1. /\ call' = [call EXCEPT ![w] = Idle] /\ UNCHANGED <<now, github, lock>>
      BY <2>6 DEF FinishReconnect, Done
    <3>2. RowType'
      BY <2>6 DEF FinishReconnect, Done, TypeOK, RowType, github, row
    <3>3. QED
      BY <1>a, <1>d, <3>1, <3>2, OnlyCall DEF github
  <2>7. QED
    BY <1>8, <2>1, <2>2, <2>3, <2>4, <2>5, <2>6 DEF Proceed
<1>9. ASSUME NEW w \in Worker, Crash(w) PROVE TypeOK'
  <2>1. /\ call' = [call EXCEPT ![w] = Idle] /\ UNCHANGED <<now, issued, live, expiry, row>>
        /\ spent' \subseteq spent \cup live /\ lock' \in Worker \cup {NoWorker}
    BY <1>9, <1>a DEF Crash, Free
  <2>2. RowType'
    BY <2>1, <1>a, RowKept
  <2>3. QED
    BY <1>a, <1>d, <2>1, <2>2, OnlyCall
<1>10. QED
  BY <1>1, <1>2, <1>3, <1>4, <1>5, <1>6, <1>7, <1>8, <1>9 DEF Next

\* Every variable keeps its type: the four columns of the row always come from
\* one grant GitHub issued, whatever logins, renewals and logouts overlap.
THEOREM OneGrantPerRow == Spec => []TypeOK
  BY TypeInit, TypeStep, PTL DEF Spec
-----------------------------------------------------------------------------
(* Rotation.                                                               *)

LEMMA RotationInit == Init => RotationInvariant
<1> SUFFICES ASSUME Init PROVE RotationInvariant
  OBVIOUS
<1>1. \A w \in Worker : call[w].pc = "idle" /\ lock # w
  BY TokenAssumption DEF Init, Idle
<1>2. \A w \in Worker : Carried(call[w]) = 0
  BY <1>1 DEF Carried
<1>3. QED
  BY <1>1, <1>2 DEF Init, RotationInvariant, LockInv, NoDoubleRenewal, StoredGrantUnspent, CarriedInv

\* Every number a call or the row holds has been issued, so the next is new.
LEMMA Fresh ==
  ASSUME TypeOK
  PROVE  /\ issued + 1 \notin spent /\ issued + 1 # refreshToken /\ 0 \notin spent
         /\ \A v \in Worker : call[v].refresh # issued + 1 /\ Carried(call[v]) # issued + 1
<1>1. issued \in Nat /\ now \in Nat /\ spent \subseteq 1 .. issued
  BY TokenAssumption DEF TypeOK
<1>2. refreshToken \in 0 .. issued
  BY <1>1 DEF TypeOK, RowType
<1>3. ASSUME NEW v \in Worker PROVE call[v].refresh # issued + 1 /\ Carried(call[v]) # issued + 1
  <2>1. call[v].refresh \in 0 .. issued /\ call[v].got \in 0 .. issued
    <3>1. call[v] \in CallRecord(now, issued)
      BY DEF TypeOK, CallType
    <3>2. QED
      BY <1>1, <3>1, CallFields
  <2>2. Carried(call[v]) \in 0 .. issued
    BY <1>1, <2>1 DEF Carried
  <2>3. QED
    BY <1>1, <2>1, <2>2
<1>4. QED
  BY <1>1, <1>2, <1>3

\* The lock follows the one goroutine that moves.
LEMMA LockStep ==
  ASSUME TypeOK, LockInv, NEW w \in Worker, NEW c, call' = [call EXCEPT ![w] = c],
         c.pc \in {"exchange", "commit"} => lock' = w,
         c.pc \notin {"exchange", "commit"} => lock' = Free(w),
         lock \in {w, NoWorker} \/ lock' = lock
  PROVE  /\ LockInv'
         /\ \A v \in Worker : call'[v] = IF v = w THEN c ELSE call[v]
<1>1. \A v \in Worker : call'[v] = IF v = w THEN c ELSE call[v]
  BY DEF TypeOK, CallType
<1>2. \A v \in Worker : v # NoWorker
  BY TokenAssumption
<1>3. QED
  BY <1>1, <1>2 DEF LockInv, Free

\* w leaves the transaction, or never was in it, and carries nothing; a grant it
\* has not stored is lost.
LEMMA LeaveStep ==
  ASSUME TypeOK, RotationInvariant, NEW w \in Worker, NEW c, call' = [call EXCEPT ![w] = c],
         c.pc \notin {"store", "exchange", "commit"},
         lock' = Free(w), refreshToken' = refreshToken,
         spent' = IF call[w].pc = "commit" THEN spent \ {call[w].refresh} ELSE spent
  PROVE  RotationInvariant'
<1>1. LockInv' /\ \A v \in Worker : call'[v] = IF v = w THEN c ELSE call[v]
  <2>1. LockInv /\ (lock \in {w, NoWorker} \/ lock' = lock)
    BY DEF RotationInvariant, Free
  <2>2. QED
    BY <2>1, LockStep
<1>2. Carried(c) = 0
  BY DEF Carried
<1>3. NoDoubleRenewal' /\ StoredGrantUnspent'
  <2>1. NoDoubleRenewal'
    BY <1>1 DEF RotationInvariant, NoDoubleRenewal
  <2>2. CASE call[w].pc = "commit"
    <3>1. \A v \in Worker : call[v].pc = "commit" => v = w
      BY <2>2 DEF RotationInvariant, LockInv
    <3>2. refreshToken \notin spent'
      BY <2>2, <3>1 DEF RotationInvariant, StoredGrantUnspent
    <3>3. QED
      BY <2>1, <3>2 DEF StoredGrantUnspent
  <2>3. CASE call[w].pc # "commit"
    BY <1>1, <2>1, <2>3 DEF RotationInvariant, StoredGrantUnspent
  <2>4. QED
    BY <2>2, <2>3
<1>4. CarriedInv'
  BY <1>1, <1>2 DEF RotationInvariant, CarriedInv
<1>5. QED
  BY <1>1, <1>3, <1>4 DEF RotationInvariant

\* w writes what it carries into the row.
LEMMA StoreStep ==
  ASSUME TypeOK, RotationInvariant, NEW w \in Worker, NEW c, call' = [call EXCEPT ![w] = c],
         c.pc \notin {"store", "exchange", "commit"},
         refreshToken' = Carried(call[w]), lock' = Free(w), spent' = spent
  PROVE  RotationInvariant'
<1>1. LockInv' /\ \A v \in Worker : call'[v] = IF v = w THEN c ELSE call[v]
  <2>1. LockInv /\ (lock \in {w, NoWorker} \/ lock' = lock)
    BY DEF RotationInvariant, Free
  <2>2. QED
    BY <2>1, LockStep
<1>2. Carried(c) = 0
  BY DEF Carried
<1>3. refreshToken' \notin spent
  BY Fresh DEF RotationInvariant, CarriedInv
<1>4. NoDoubleRenewal' /\ StoredGrantUnspent'
  BY <1>1, <1>3 DEF RotationInvariant, NoDoubleRenewal, StoredGrantUnspent
<1>5. CarriedInv'
  BY <1>1, <1>2 DEF RotationInvariant, CarriedInv
<1>6. QED
  BY <1>1, <1>4, <1>5 DEF RotationInvariant
\* GitHub and the row stand still, and so do the processes.
LEMMA RotationKept ==
  ASSUME RotationInvariant, UNCHANGED <<spent, refreshToken, lock, call>>
  PROVE  RotationInvariant'
  BY DEF RotationInvariant, LockInv, NoDoubleRenewal, StoredGrantUnspent, CarriedInv

\* A login carries a grant nobody has seen.
LEMMA RotationAuthorize ==
  ASSUME TypeOK, RotationInvariant, NEW w \in Worker, NEW expires \in BOOLEAN, NEW renews \in BOOLEAN,
         Authorize(w, expires, renews)
  PROVE  RotationInvariant'
<1> DEFINE r == IF renews THEN issued + 1 ELSE 0
           c == Storing(Idle, issued + 1, r)
<1>1. /\ call' = [call EXCEPT ![w] = c] /\ call[w].pc = "idle"
      /\ UNCHANGED <<spent, refreshToken, lock>>
  BY DEF Authorize, Storing, row
<1>2. c.pc = "store" /\ Carried(c) = r
  BY DEF Storing, Idle, Carried
<1>3. r = 0 \/ r = issued + 1
  OBVIOUS
<1> HIDE DEF r, c
<1>4. LockInv' /\ \A v \in Worker : call'[v] = IF v = w THEN c ELSE call[v]
  <2>1. LockInv /\ lock' = Free(w) /\ lock' = lock
    BY <1>1 DEF RotationInvariant, LockInv, Free
  <2>2. QED
    BY <1>1, <1>2, <2>1, LockStep
<1>5. NoDoubleRenewal' /\ StoredGrantUnspent'
  BY <1>1, <1>2, <1>4 DEF RotationInvariant, NoDoubleRenewal, StoredGrantUnspent
<1>6. CarriedInv'
  BY <1>1, <1>2, <1>3, <1>4, Fresh DEF RotationInvariant, CarriedInv
<1>7. QED
  BY <1>4, <1>5, <1>6 DEF RotationInvariant

\* Under the lock the row's token is unspent and nobody is about to write it.
LEMMA RotationEnter ==
  ASSUME TypeOK, RotationInvariant, NEW w \in Worker, Enter(w), TokenExpired /\ Refreshable
  PROVE  RotationInvariant'
<1> DEFINE c == Asking(call[w], "exchange", refreshToken)
<1>1. /\ call' = [call EXCEPT ![w] = c]
      /\ lock = NoWorker /\ lock' = w /\ UNCHANGED <<spent, refreshToken>>
  BY DEF Enter, TypeOK, CallType, Asking, github, row
<1>2. c.pc = "exchange" /\ c.refresh = refreshToken
  <2>1. /\ now \in Nat /\ issued \in Nat /\ "exchange" \in Phase
        /\ call[w] \in CallRecord(now, issued)
    BY TokenAssumption DEF TypeOK, CallType, Phase
  <2>2. refreshToken \in 0 .. issued
    BY <2>1 DEF TypeOK, RowType
  <2>3. QED
    BY <2>1, <2>2, RefreshCall
<1>3. Carried(c) = 0
  BY <1>2 DEF Carried
<1> HIDE DEF c
<1>4. LockInv' /\ \A v \in Worker : call'[v] = IF v = w THEN c ELSE call[v]
  <2>1. LockInv
    BY DEF RotationInvariant
  <2>2. QED
    BY <1>1, <1>2, <2>1, LockStep
<1>5. \A v \in Worker : call[v].pc \notin {"exchange", "commit"}
  BY <1>1, TokenAssumption DEF RotationInvariant, LockInv
<1>6. refreshToken \notin spent
  BY <1>5 DEF RotationInvariant, StoredGrantUnspent
<1>7. NoDoubleRenewal' /\ StoredGrantUnspent'
  BY <1>1, <1>2, <1>4, <1>5, <1>6 DEF NoDoubleRenewal, StoredGrantUnspent
<1>8. CarriedInv'
  BY <1>1, <1>2, <1>3, <1>4, <1>5 DEF RotationInvariant, CarriedInv
<1>9. QED
  BY <1>4, <1>7, <1>8 DEF RotationInvariant

\* A renewal spends a token nobody carries and is handed one nobody has seen.
LEMMA RotationGranted ==
  ASSUME TypeOK, RotationInvariant, NEW w \in Worker, Granted(w)
  PROVE  RotationInvariant'
<1> DEFINE c == Handed(call[w], "commit", issued + 1)
<1>1. /\ call' = [call EXCEPT ![w] = c] /\ call[w].pc = "exchange"
      /\ spent' = spent \cup {call[w].refresh} /\ UNCHANGED <<refreshToken, lock>>
  BY DEF Granted, TypeOK, CallType, Handed, row
<1>2. c.pc = "commit" /\ c.got = issued + 1 /\ c.refresh = call[w].refresh
  <2>1. /\ now \in Nat /\ issued \in Nat /\ "commit" \in Phase
        /\ issued <= issued + 1 /\ issued + 1 \in Nat
        /\ call[w] \in CallRecord(now, issued)
    BY TokenAssumption DEF TypeOK, CallType, Phase
  <2>2. call[w] \in CallRecord(now, issued + 1) /\ issued + 1 \in 0 .. issued + 1
    BY <2>1, LaterCalls
  <2>3. QED
    BY <2>1, <2>2, GrantCall
<1>3. Carried(c) = issued + 1
  BY <1>2 DEF Carried
<1> HIDE DEF c
<1>4. lock = w
  BY <1>1 DEF RotationInvariant, LockInv
<1>5. LockInv' /\ \A v \in Worker : call'[v] = IF v = w THEN c ELSE call[v]
  <2>1. LockInv
    BY DEF RotationInvariant
  <2>2. QED
    BY <1>1, <1>2, <1>4, <2>1, LockStep
<1>6. \A v \in Worker : v # w => call[v].pc \notin {"exchange", "commit"}
  BY <1>4 DEF RotationInvariant, LockInv
<1>7. NoDoubleRenewal' /\ StoredGrantUnspent'
  <2>1. NoDoubleRenewal'
    BY <1>2, <1>5, <1>6 DEF NoDoubleRenewal
  <2>2. refreshToken \notin spent
    BY <1>1, <1>6 DEF RotationInvariant, StoredGrantUnspent
  <2>3. QED
    BY <1>1, <1>2, <1>5, <2>1, <2>2 DEF StoredGrantUnspent
<1>8. CarriedInv'
  <2>1. ASSUME NEW v \in Worker, v # w, Carried(call[v]) # 0
        PROVE  /\ Carried(call[v]) \notin spent' /\ Carried(call[v]) # refreshToken
               /\ Carried(call[v]) # issued + 1
    BY <1>1, <2>1, Fresh DEF RotationInvariant, CarriedInv
  <2>2. issued + 1 \notin spent' /\ issued + 1 # refreshToken
    BY <1>1, Fresh
  <2>3. \A v \in Worker : call'[v].pc # "exchange"
    BY <1>2, <1>5, <1>6
  <2>4. \A u, v \in Worker : u # w /\ v # w /\ u # v /\ Carried(call[u]) # 0 => Carried(call[v]) # Carried(call[u])
    BY DEF RotationInvariant, CarriedInv
  <2>5. QED
    BY <1>1, <1>3, <1>5, <2>1, <2>2, <2>3, <2>4 DEF CarriedInv
<1>9. QED
  BY <1>5, <1>7, <1>8 DEF RotationInvariant
LEMMA RotationStep == TypeOK /\ RotationInvariant /\ [Next]_vars => RotationInvariant'
<1> SUFFICES ASSUME TypeOK, RotationInvariant, [Next]_vars PROVE RotationInvariant'
  OBVIOUS
<1>a. \A w \in Worker : w # NoWorker /\ (call[w].pc \in {"exchange", "commit"} <=> lock = w)
  BY TokenAssumption DEF RotationInvariant, LockInv
<1>b. ASSUME NEW w \in Worker, call[w].pc \notin {"exchange", "commit"} PROVE Free(w) = lock
  BY <1>b, <1>a DEF Free
<1>c. ASSUME NEW w \in Worker, call[w].pc \in {"exchange", "commit"} PROVE Free(w) = NoWorker
  BY <1>c, <1>a DEF Free
<1>d. ASSUME NEW w \in Worker
      PROVE  /\ Failed(w).pc \in {"idle", "fail"} /\ Served(w, token).pc \in {"idle", "use"}
             /\ Served(w, call[w].got).pc \in {"idle", "use"} /\ Idle.pc = "idle"
  <2>1. /\ now \in Nat /\ issued \in Nat /\ call[w] \in CallRecord(now, issued)
    BY TokenAssumption DEF TypeOK, CallType
  <2>2. token \in 0 .. issued /\ call[w].got \in 0 .. issued
    BY <2>1, CallFields DEF TypeOK, RowType
  <2>3. QED
    BY <2>1, <2>2, EndedCall, IdleCall
<1>e. ASSUME NEW w \in Worker, NEW ph \in Phase PROVE Moved(call[w], ph).pc = ph
  <2>1. /\ now \in Nat /\ issued \in Nat /\ call[w] \in CallRecord(now, issued)
    BY TokenAssumption DEF TypeOK, CallType
  <2>2. QED
    BY <2>1, PhaseCall
<1>1. CASE UNCHANGED vars \/ Tick \/ Revoke
  BY <1>1, RotationKept DEF vars, Tick, Revoke, github, row
<1>2. CASE Logout
  <2>1. refreshToken' = 0 /\ UNCHANGED <<spent, lock, call>>
    BY <1>2 DEF Logout, github
  <2>2. QED
    BY <2>1, Fresh DEF RotationInvariant, LockInv, NoDoubleRenewal, StoredGrantUnspent, CarriedInv
<1>3. ASSUME NEW w \in Worker, NEW expires \in BOOLEAN, NEW renews \in BOOLEAN,
             Authorize(w, expires, renews)
      PROVE  RotationInvariant'
  BY <1>3, RotationAuthorize
<1>4. ASSUME NEW w \in Worker, NEW isRun \in BOOLEAN, Ask(w, isRun) PROVE RotationInvariant'
  <2> DEFINE b == [Idle EXCEPT !.isRun = isRun, !.since = now]
             c == IF token = 0 THEN IF isRun THEN Moved(b, "fail") ELSE Idle
                  ELSE IF ~TokenExpired
                    THEN IF isRun THEN Handed(b, "use", token) ELSE Idle
                  ELSE Asking(b, IF Refreshable THEN "lock" ELSE "mark", refreshToken)
  <2>1. /\ call' = [call EXCEPT ![w] = c] /\ call[w].pc = "idle"
        /\ UNCHANGED <<spent, refreshToken, lock>>
    BY <1>4 DEF Ask, Moved, Handed, Asking, github, row
  <2>2. c.pc \in {"idle", "fail", "use", "lock", "mark"}
    BY DEF Moved, Handed, Asking, Idle
  <2> HIDE DEF c
  <2>3. QED
    BY <2>1, <2>2, <1>b, LeaveStep
<1>5. ASSUME NEW w \in Worker, Enter(w) PROVE RotationInvariant'
  <2>1. CASE TokenExpired /\ Refreshable
    BY <1>5, <2>1, RotationEnter
  <2>2. CASE ~(TokenExpired /\ Refreshable)
    <3> DEFINE c == IF TokenExpired THEN Moved(call[w], "mark")
                    ELSE IF token = 0 THEN Failed(w) ELSE Served(w, token)
    <3>1. /\ call' = [call EXCEPT ![w] = c] /\ call[w].pc = "lock"
          /\ UNCHANGED <<spent, refreshToken, lock>>
      BY <1>5, <2>2 DEF Enter, Moved, github, row
    <3>2. c.pc \in {"mark", "idle", "fail", "use"}
      BY <1>d, <1>e DEF Phase
    <3> HIDE DEF c
    <3>3. QED
      BY <3>1, <3>2, <1>b, LeaveStep
  <2>3. QED
    BY <2>1, <2>2
<1>6. ASSUME NEW w \in Worker, Proceed(w) PROVE RotationInvariant'
  <2>1. CASE StoreLogin(w)
    <3>1. /\ call' = [call EXCEPT ![w] = Idle] /\ call[w].pc = "store"
          /\ refreshToken' = Carried(call[w]) /\ UNCHANGED <<spent, lock>>
      BY <2>1 DEF StoreLogin, Carried, github
    <3>2. QED
      BY <3>1, <1>b, <1>d, StoreStep
  <2>2. CASE Granted(w)
    BY <2>2, RotationGranted
  <2>3. CASE Refused(w) \/ TimedOut(w) \/ AnswerLost(w)
    <3>1. /\ call' = [call EXCEPT ![w] = Moved(call[w], "mark")] /\ call[w].pc = "exchange"
          /\ lock' = NoWorker /\ UNCHANGED <<spent, refreshToken>>
      BY <2>3 DEF Refused, TimedOut, AnswerLost, Moved, TypeOK, CallType, github, row
    <3>2. Moved(call[w], "mark").pc = "mark"
      BY <1>e DEF Phase
    <3>3. QED
      BY <3>1, <3>2, <1>c, LeaveStep
  <2>4. CASE Rejected(w)
    <3>1. /\ call' = [call EXCEPT ![w] = Moved(call[w], "fail")] /\ call[w].pc = "use"
          /\ UNCHANGED <<spent, refreshToken, lock>>
      BY <2>4 DEF Rejected, Moved, TypeOK, CallType, github, row
    <3>2. Moved(call[w], "fail").pc = "fail"
      BY <1>e DEF Phase
    <3>3. QED
      BY <3>1, <3>2, <1>b, LeaveStep
  <2>5. CASE Commit(w)
    <3>1. /\ call' = [call EXCEPT ![w] = Served(w, call[w].got)] /\ call[w].pc = "commit"
          /\ refreshToken' = Carried(call[w]) /\ lock' = NoWorker /\ spent' = spent
      BY <2>5 DEF Commit, Carried, github
    <3>2. QED
      BY <3>1, <1>c, <1>d, StoreStep
  <2>6. CASE Mark(w)
    <3>1. /\ call' = [call EXCEPT ![w] = Failed(w)] /\ call[w].pc = "mark"
          /\ UNCHANGED <<spent, refreshToken, lock>>
      BY <2>6 DEF Mark, github
    <3>2. QED
      BY <3>1, <1>b, <1>d, LeaveStep
  <2>7. CASE FinishReconnect(w) \/ Done(w)
    <3>1. /\ call' = [call EXCEPT ![w] = Idle] /\ call[w].pc \in {"fail", "use"}
          /\ UNCHANGED <<spent, refreshToken, lock>>
      BY <2>7 DEF FinishReconnect, Done, github, row
    <3>2. QED
      BY <3>1, <1>b, <1>d, LeaveStep
  <2>8. CASE CommitFails(w)
    <3>1. /\ call' = [call EXCEPT ![w] = Failed(w)] /\ call[w].pc = "commit"
          /\ lock' = NoWorker /\ spent' = spent \ {call[w].refresh} /\ refreshToken' = refreshToken
      BY <2>8 DEF CommitFails, row
    <3>2. QED
      BY <3>1, <1>c, <1>d, LeaveStep
  <2>9. QED
    BY <1>6, <2>1, <2>2, <2>3, <2>4, <2>5, <2>6, <2>7, <2>8 DEF Proceed
<1>7. ASSUME NEW w \in Worker, Crash(w) PROVE RotationInvariant'
  <2>1. /\ call' = [call EXCEPT ![w] = Idle] /\ lock' = Free(w) /\ refreshToken' = refreshToken
        /\ spent' = IF call[w].pc = "commit" THEN spent \ {call[w].refresh} ELSE spent
    BY <1>7 DEF Crash, row
  <2>2. QED
    BY <2>1, <1>d, LeaveStep
<1>8. QED
  BY <1>1, <1>2, <1>3, <1>4, <1>5, <1>6, <1>7 DEF Next

\* No two goroutines carry, present or renew one refresh token, whatever overlaps.
THEOREM Rotation == Spec => []RotationInvariant
  BY RotationInit, RotationStep, OneGrantPerRow, PTL DEF Spec

\* Renewals by any number of goroutines never present a refresh token that was
\* spent for a grant that has reached the row or still may.
THEOREM RenewedOnce == Spec => []NoDoubleRenewal
<1>1. RotationInvariant => NoDoubleRenewal
  BY DEF RotationInvariant
<1>2. QED
  BY <1>1, Rotation, PTL

\* No overlap of renewals, logins and logouts leaves such a token in the row,
\* except between the renewal that spends it and its commit.
THEOREM RowStaysRenewable == Spec => []StoredGrantUnspent
<1>1. RotationInvariant => StoredGrantUnspent
  BY DEF RotationInvariant
<1>2. QED
  BY <1>1, Rotation, PTL
=============================================================================
