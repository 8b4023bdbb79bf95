---------------------- MODULE NotificationOutbox_proofs ----------------------
(***************************************************************************)
(* Proofs about NotificationOutbox: types, the inductive invariant IInv    *)
(* with the step of every message towards Delivery, and the theorems.      *)
(***************************************************************************)
EXTENDS NotificationOutbox, FiniteSetTheorems, TLAPS

(***************************************************************************)
(* Powers of two, by counting subsets: 2^n is the number of subsets of     *)
(* 1..n, and half the subsets of 1..(n+1) contain n+1.                     *)
(***************************************************************************)
LEMMA PowerCounts ==
  ASSUME NEW n \in Nat
  PROVE  /\ IsFiniteSet(SUBSET (1 .. n))
         /\ Cardinality(SUBSET (1 .. n)) = 2 ^ n
         /\ 2 ^ n \in Nat
<1>1. IsFiniteSet(1 .. n) /\ Cardinality(1 .. n) = n
  BY FS_Interval
<1>2. IsFiniteSet(SUBSET (1 .. n)) /\ Cardinality(SUBSET (1 .. n)) = 2 ^ n
  BY <1>1, FS_SUBSET, Zenon
<1> QED
  BY <1>2, FS_CardinalityType, Zenon

LEMMA PowerDoubles ==
  ASSUME NEW n \in Nat
  PROVE  2 ^ (n + 1) = 2 ^ n + 2 ^ n
<1> DEFINE Old == SUBSET (1 .. n)
           With(B) == B \cup {n + 1}
           New == {With(B) : B \in Old}
           f == [B \in Old |-> With(B)]
<1>1. 1 .. (n + 1) = (1 .. n) \cup {n + 1} /\ n + 1 \notin 1 .. n
  OBVIOUS
<1>2. SUBSET (1 .. (n + 1)) = Old \cup New
  <2>1. ASSUME NEW B \in SUBSET (1 .. (n + 1)) PROVE B \in Old \cup New
    <3>1. CASE n + 1 \in B
      <4>1. B \ {n + 1} \in Old
        BY <1>1, <3>1
      <4>2. B = With(B \ {n + 1})
        BY <3>1
      <4> QED BY <4>1, <4>2
    <3>2. CASE n + 1 \notin B
      BY <1>1, <3>2
    <3> QED BY <3>1, <3>2
  <2>2. ASSUME NEW B \in Old \cup New PROVE B \in SUBSET (1 .. (n + 1))
    BY <1>1
  <2> QED BY <2>1, <2>2
<1>3. Old \cap New = {}
  BY <1>1
<1>4. f \in Bijection(Old, New)
  <2>1. f \in [Old -> New]
    OBVIOUS
  <2>2. \A A, B \in Old : f[A] = f[B] => A = B
    BY <1>1
  <2>3. \A C \in New : \E B \in Old : f[B] = C
    OBVIOUS
  <2> QED BY <2>1, <2>2, <2>3, Zenon DEF Bijection, Injection, Surjection, IsInjective
<1>5. IsFiniteSet(Old) /\ Cardinality(Old) = 2 ^ n /\ Cardinality(Old) \in Nat
  BY PowerCounts, Zenon
<1>6. IsFiniteSet(New) /\ Cardinality(New) = Cardinality(Old)
  <2>1. ExistsBijection(Old, New)
    BY <1>4, Zenon DEF ExistsBijection
  <2> HIDE DEF Old, New
  <2> QED BY <1>5, <2>1, FS_Bijection, Zenon
<1>7. Cardinality(SUBSET (1 .. (n + 1))) = 2 ^ (n + 1)
  BY PowerCounts, n + 1 \in Nat, Zenon
<1>8. Cardinality(Old \cap New) = 0
  BY <1>3, FS_EmptySet, Zenon
<1>9. Cardinality(Old \cup New) = Cardinality(Old) + Cardinality(New) - Cardinality(Old \cap New)
  <2> HIDE DEF Old, New
  <2> QED BY <1>5, <1>6, FS_Union, Zenon
<1> HIDE DEF Old, New
<1> QED BY <1>2, <1>5, <1>6, <1>7, <1>8, <1>9

-----------------------------------------------------------------------------
(* Arithmetic of the backoff *)

LEMMA LeftIsNat ==
  ASSUME NEW t \in Nat, NEW g \in Nat
  PROVE  Left(t, g) \in Nat /\ Left(t, g) <= t /\ Left(t, g) >= t - g
BY DEF Left

LEMMA DelayIsNat ==
  ASSUME NEW n \in Nat \ {0}
  PROVE  Delay(n) \in Nat
<1> DEFINE k == IF n <= DelayCap THEN n - 1 ELSE DelayCap
<1>1. k \in Nat
  BY OutboxAssumption
<1>2. 2 ^ k \in Nat
  BY <1>1, PowerCounts, Zenon
<1> QED BY <1>2 DEF Delay

\* The closed form adds one wait per failed attempt.
LEMMA WaitsAdds ==
  ASSUME NEW n \in Nat \ {0}
  PROVE  /\ Waits(n) = Waits(n - 1) + Delay(n)
         /\ Waits(n) \in Int /\ Waits(n - 1) \in Int
<1>1. CASE n <= DelayCap
  <2>1. n - 1 \in Nat /\ n - 1 <= DelayCap /\ (n - 1) + 1 = n
    BY <1>1, OutboxAssumption
  <2>2. 2 ^ (n - 1) \in Nat /\ 2 ^ n = 2 ^ (n - 1) + 2 ^ (n - 1) /\ 2 ^ DelayCap \in Nat
    BY <2>1, PowerCounts, PowerDoubles, OutboxAssumption
  <2>3. Waits(n) = (2 ^ n - 1) + (n - n) * 2 ^ DelayCap
    BY <1>1 DEF Waits
  <2>4. Waits(n - 1) = (2 ^ (n - 1) - 1) + ((n - 1) - (n - 1)) * 2 ^ DelayCap
    BY <2>1 DEF Waits
  <2>5. Delay(n) = 2 ^ (n - 1)
    BY <1>1 DEF Delay
  <2>6. n - n = 0 /\ (n - 1) - (n - 1) = 0 /\ 0 * 2 ^ DelayCap = 0
    BY <2>1, <2>2
  <2>7. Waits(n) = 2 ^ n - 1 /\ Waits(n - 1) = 2 ^ (n - 1) - 1
    BY <2>2, <2>3, <2>4, <2>6
  <2> QED BY <2>2, <2>5, <2>7
<1>2. CASE n > DelayCap
  <2> DEFINE P == 2 ^ DelayCap
  <2>1. P \in Nat
    BY PowerCounts, OutboxAssumption
  <2>2. n - 1 \in Nat /\ n - 1 >= DelayCap /\ DelayCap \in Nat
    BY <1>2, OutboxAssumption
  <2>3. Waits(n) = (P - 1) + (n - DelayCap) * P
    BY <1>2, <2>2 DEF Waits
  <2>4. Waits(n - 1) = (P - 1) + ((n - 1) - DelayCap) * P
    <3>1. CASE n - 1 = DelayCap
      BY <3>1, <2>2 DEF Waits
    <3>2. CASE n - 1 > DelayCap
      BY <3>2, <2>2 DEF Waits
    <3> QED BY <3>1, <3>2, <2>2
  <2>5. Delay(n) = P
    BY <1>2, <2>2 DEF Delay
  <2>6. (n - DelayCap) * P = ((n - 1) - DelayCap) * P + P
    <3> HIDE DEF P
    <3> DEFINE q == (n - 1) - DelayCap
    <3>1. q \in Nat /\ n - DelayCap = q + 1
      BY <2>2
    <3> HIDE DEF q
    <3>2. (q + 1) * P = q * P + P
      BY <3>1, <2>1
    <3> QED BY <3>1, <3>2 DEF q
  <2>7. ((n - 1) - DelayCap) * P \in Int
    BY <2>1, <2>2
  <2> HIDE DEF P
  <2> QED BY <2>1, <2>3, <2>4, <2>5, <2>6, <2>7
<1> QED BY <1>1, <1>2, OutboxAssumption

-----------------------------------------------------------------------------
(* Types *)

LEMMA InitTypes ==
  Init => TypeOK
BY OutboxAssumption DEF Init, TypeOK, Absent, IdleJob, RowType, JobType, Key

LEMMA IdleJobType ==
  IdleJob \in JobType
BY OutboxAssumption DEF IdleJob, JobType

LEMMA AbsentType ==
  Absent \in RowType
BY OutboxAssumption DEF Absent, RowType

LEMMA TickTypes ==
  ASSUME TypeOK, Tick
  PROVE  TypeOK'
<1>1. ASSUME NEW m \in Message PROVE row'[m] \in RowType
  <2>1. row[m] \in RowType
    BY DEF TypeOK
  <2>2. CASE row[m].state # "queued"
    BY <2>1, <2>2 DEF Tick
  <2>3. CASE row[m].state = "queued"
    <3>1. Left(row[m].wait, 1) \in Nat
      BY <2>1, LeftIsNat DEF RowType
    <3>2. Left(row[m].lease, 1) \in 0 .. Lease + 1
      BY <2>1, LeftIsNat, OutboxAssumption DEF RowType, Left
    <3>3. (IF row[m].age < MaxAge THEN row[m].age + 1 ELSE row[m].age) \in 0 .. MaxAge
      BY <2>1, OutboxAssumption DEF RowType
    <3>4. row'[m] = [row[m] EXCEPT !.wait = Left(row[m].wait, 1), !.lease = Left(row[m].lease, 1),
                                   !.age = IF row[m].age < MaxAge THEN row[m].age + 1 ELSE row[m].age]
      BY <2>3 DEF Tick
    <3> QED BY <2>1, <3>1, <3>2, <3>3, <3>4 DEF RowType
  <2> QED BY <2>2, <2>3
<1>2. ASSUME NEW w \in Worker PROVE job'[w] \in JobType /\ job'[w].pc = job[w].pc
                                   /\ job'[w].msg = job[w].msg /\ job'[w].attempts = job[w].attempts
  <2>1. job[w] \in JobType
    BY DEF TypeOK
  <2>2. CASE job[w].pc \in {"idle", "queue"}
    BY <2>1, <2>2 DEF Tick
  <2>3. CASE job[w].pc \notin {"idle", "queue"}
    <3>1. job[w].age + 1 \in 0 .. JobLimit
      <4>1. job[w].age < JobLimit
        BY <2>3 DEF Tick
      <4>2. job[w].age \in 0 .. JobLimit
        BY <2>1 DEF JobType
      <4> QED BY <4>1, <4>2, OutboxAssumption
    <3>2. job'[w] = [job[w] EXCEPT !.age = job[w].age + 1]
      BY <2>3 DEF Tick
    <3> QED BY <2>1, <3>1, <3>2 DEF JobType
  <2> QED BY <2>2, <2>3
<1>3. row' \in [Message -> RowType] /\ job' \in [Worker -> JobType]
  BY <1>1, <1>2 DEF Tick
<1>4. UNCHANGED <<dispatched, destination, removing, copies, lost>>
  BY DEF Tick
<1> QED BY <1>2, <1>3, <1>4 DEF TypeOK

LEMMA QueueTypes ==
  ASSUME TypeOK, NEW w \in Worker, BeginQueue(w) \/ FinishQueue(w)
  PROVE  TypeOK'
<1>1. CASE BeginQueue(w)
  <2> DEFINE batch == {<<d, dispatched + 1>> : d \in {e \in Destination : destination[e].state = "enabled"}}
             j == [IdleJob EXCEPT !.pc = "queue", !.batch = batch]
  <2>1. dispatched + 1 \in Key
    BY <1>1, OutboxAssumption DEF TypeOK, BeginQueue, Key
  <2>2. batch \in SUBSET Message
    BY <2>1 DEF Message
  <2>3. j \in JobType /\ j.pc = "queue"
    <3> HIDE DEF batch
    <3>1. IdleJob \in JobType
      BY IdleJobType
    <3>2. j \in JobType
      BY <2>2, <3>1 DEF JobType
    <3>3. j.pc = "queue"
      BY DEF IdleJob
    <3> QED BY <3>2, <3>3
  <2>4. job' = [job EXCEPT ![w] = j]
    BY <1>1 DEF BeginQueue
  <2>5. UNCHANGED <<dispatched, row, destination, removing, copies, lost>>
    BY <1>1 DEF BeginQueue
  <2> HIDE DEF j
  <2> QED BY <2>3, <2>4, <2>5 DEF TypeOK
<1>2. CASE FinishQueue(w)
  <2>1. [Absent EXCEPT !.state = "queued"] \in RowType
    BY AbsentType DEF RowType
  <2>2. row' \in [Message -> RowType]
    BY <1>2, <2>1 DEF FinishQueue, TypeOK
  <2>3. dispatched' \in 0 .. Keys
    <3>1. PICK m \in job[w].batch : dispatched' = m[2]
      BY <1>2 DEF FinishQueue
    <3>2. m \in Message
      BY <3>1 DEF TypeOK, JobType
    <3> QED BY <3>1, <3>2, OutboxAssumption DEF Message, Key
  <2>4. job' = [job EXCEPT ![w] = IdleJob] /\ IdleJob.pc = "idle"
    BY <1>2 DEF FinishQueue, IdleJob
  <2>5. UNCHANGED <<destination, removing, copies, lost>>
    BY <1>2 DEF FinishQueue
  <2> QED BY <2>2, <2>3, <2>4, <2>5, IdleJobType DEF TypeOK
<1> QED BY <1>1, <1>2

\* Putting one well-typed job into its place.
LEMMA PutJob ==
  ASSUME TypeOK, NEW w \in Worker, NEW j \in JobType, job' = [job EXCEPT ![w] = j],
         j.pc \in {"load", "send", "record", "health"} => j.msg # None /\ j.attempts > 0
  PROVE  /\ job' \in [Worker -> JobType]
         /\ \A v \in Worker : job'[v].pc \in {"load", "send", "record", "health"} =>
              job'[v].msg # None /\ job'[v].attempts > 0
BY DEF TypeOK

LEMMA FreeJob ==
  ASSUME TypeOK, NEW w \in Worker, job' = [job EXCEPT ![w] = IdleJob]
  PROVE  /\ job' \in [Worker -> JobType]
         /\ \A v \in Worker : job'[v].pc \in {"load", "send", "record", "health"} =>
              job'[v].msg # None /\ job'[v].attempts > 0
<1>1. IdleJob.pc \notin {"load", "send", "record", "health"}
  BY DEF IdleJob
<1> QED BY <1>1, IdleJobType, PutJob

\* A job that is past its claim names a message.
LEMMA HasMessage ==
  ASSUME TypeOK, NEW w \in Worker, job[w].pc \in {"load", "send", "record", "health"}
  PROVE  /\ job[w] \in JobType /\ job[w].msg \in Message
         /\ job[w].msg[1] \in Destination /\ job[w].attempts \in Nat \ {0}
<1>1. job[w] \in JobType /\ job[w].msg # None /\ job[w].attempts > 0
  BY DEF TypeOK
<1>2. job[w].msg \in Message /\ job[w].attempts \in Nat
  BY <1>1 DEF JobType
<1> QED BY <1>1, <1>2 DEF Message

LEMMA ClaimTypes ==
  ASSUME TypeOK, NEW w \in Worker, NEW m \in Message, Claim(w, m)
  PROVE  TypeOK'
<1> DEFINE j == [IdleJob EXCEPT !.pc = "load", !.msg = m, !.attempts = row[m].attempts + 1]
<1>1. row[m] \in RowType /\ row[m].attempts \in Nat
  BY DEF TypeOK, RowType
<1>2. j \in JobType /\ j.msg # None /\ j.attempts > 0
  <2>1. j \in JobType
    <3>1. row[m].attempts + 1 \in Nat /\ m \in Message \cup {None}
      BY <1>1
    <3> QED BY <3>1, IdleJobType DEF JobType
  <2>2. j.msg = m /\ j.attempts = row[m].attempts + 1
    BY DEF IdleJob
  <2> QED BY <1>1, <2>1, <2>2, OutboxAssumption
<1>3. job' = [job EXCEPT ![w] = j]
  BY DEF Claim
<1>4. Lease + 1 \in 0 .. Lease + 1 /\ row[m].attempts + 1 \in Nat
  BY <1>1, OutboxAssumption
<1>5. row' \in [Message -> RowType]
  <2>1. row' = [row EXCEPT ![m].attempts = @ + 1, ![m].lease = Lease + 1]
    BY DEF Claim
  <2>2. row \in [Message -> RowType]
    BY DEF TypeOK
  <2>3. [row[m] EXCEPT !.attempts = row[m].attempts + 1, !.lease = Lease + 1] \in RowType
    BY <1>1, <1>4 DEF RowType
  <2> QED BY <2>1, <2>2, <2>3
<1>6. UNCHANGED <<dispatched, destination, removing, copies, lost>>
  BY DEF Claim
<1> HIDE DEF j
<1>7. /\ job' \in [Worker -> JobType]
      /\ \A v \in Worker : job'[v].pc \in {"load", "send", "record", "health"} =>
           job'[v].msg # None /\ job'[v].attempts > 0
  BY <1>2, <1>3, PutJob
<1> QED BY <1>5, <1>6, <1>7 DEF TypeOK

LEMMA LoadTypes ==
  ASSUME TypeOK, NEW w \in Worker, LoadDestination(w) \/ SkipMessage(w)
  PROVE  TypeOK'
<1>1. /\ job[w] \in JobType /\ job[w].msg \in Message
      /\ job[w].msg[1] \in Destination /\ job[w].attempts \in Nat \ {0}
  <2>1. job[w].pc = "load"
    BY DEF LoadDestination, SkipMessage
  <2> QED BY <2>1, HasMessage
<1>2. CASE LoadDestination(w)
  <2> DEFINE j == [job[w] EXCEPT !.pc = "send", !.seen = destination[job[w].msg[1]].failing]
  <2>1. destination[job[w].msg[1]].failing \in BOOLEAN
    BY <1>1 DEF TypeOK
  <2>2. j \in JobType /\ j.msg = job[w].msg /\ j.attempts = job[w].attempts
    BY <1>1, <2>1 DEF JobType
  <2>3. job' = [job EXCEPT ![w] = j]
    BY <1>2 DEF LoadDestination, TypeOK
  <2>4. UNCHANGED <<dispatched, row, destination, removing, copies, lost>>
    BY <1>2 DEF LoadDestination
  <2> HIDE DEF j
  <2>5. j.msg # None /\ j.attempts > 0
    BY <1>1, <2>2, OutboxAssumption
  <2>6. /\ job' \in [Worker -> JobType]
        /\ \A v \in Worker : job'[v].pc \in {"load", "send", "record", "health"} =>
             job'[v].msg # None /\ job'[v].attempts > 0
    BY <2>2, <2>3, <2>5, PutJob
  <2> QED BY <2>4, <2>6 DEF TypeOK
<1>3. CASE SkipMessage(w)
  <2>1. row' \in [Message -> RowType]
    <3> DEFINE m == job[w].msg
    <3>1. row \in [Message -> RowType] /\ row[m] \in RowType
      BY <1>1 DEF TypeOK
    <3>2. [row[m] EXCEPT !.state = "skipped", !.lease = 0] \in RowType
      <4>1. 0 \in 0 .. Lease + 1
        BY OutboxAssumption
      <4> HIDE DEF m
      <4> QED BY <3>1, <4>1 DEF RowType
    <3>3. row' = row \/ row' = [row EXCEPT ![m].state = "skipped", ![m].lease = 0]
      BY <1>3 DEF SkipMessage
    <3> HIDE DEF m
    <3> QED BY <3>1, <3>2, <3>3
  <2>2. UNCHANGED <<dispatched, destination, removing, copies, lost>>
    BY <1>3 DEF SkipMessage
  <2>3. job' = [job EXCEPT ![w] = IdleJob]
    BY <1>3 DEF SkipMessage
  <2> QED BY <2>1, <2>2, <2>3, FreeJob DEF TypeOK
<1> QED BY <1>2, <1>3

LEMMA SendTypes ==
  ASSUME TypeOK, NEW w \in Worker, SendAccepted(w) \/ SendRefused(w) \/ SendUnheard(w)
  PROVE  TypeOK'
<1>1. /\ job[w] \in JobType /\ job[w].msg \in Message
      /\ job[w].msg[1] \in Destination /\ job[w].attempts \in Nat \ {0}
  <2>1. job[w].pc = "send"
    BY DEF SendAccepted, SendRefused, SendUnheard
  <2> QED BY <2>1, HasMessage
<1>2. job[w].msg # None /\ job[w].attempts > 0
  BY <1>1, OutboxAssumption
<1>3. /\ job' \in [Worker -> JobType]
      /\ \A v \in Worker : job'[v].pc \in {"load", "send", "record", "health"} =>
           job'[v].msg # None /\ job'[v].attempts > 0
  <2> DEFINE j == [job[w] EXCEPT !.pc = "record", !.ok = TRUE]
             k == [job[w] EXCEPT !.pc = "record"]
  <2>1. j \in JobType /\ j.msg = job[w].msg /\ j.attempts = job[w].attempts
    BY <1>1 DEF JobType
  <2>2. k \in JobType /\ k.msg = job[w].msg /\ k.attempts = job[w].attempts
    BY <1>1 DEF JobType
  <2>3. job' = [job EXCEPT ![w] = j] \/ job' = [job EXCEPT ![w] = k]
    BY DEF SendAccepted, SendRefused, SendUnheard, TypeOK
  <2> HIDE DEF j, k
  <2> QED BY <1>2, <2>1, <2>2, <2>3, PutJob
<1>4. copies' \in [Message -> Nat] /\ lost' \in [Message -> Nat]
  <2> DEFINE m == job[w].msg
  <2>1. copies[m] + 1 \in Nat /\ lost[m] + 1 \in Nat
    BY <1>1 DEF TypeOK
  <2>2. copies' = copies \/ copies' = [copies EXCEPT ![m] = copies[m] + 1]
    BY DEF SendAccepted, SendRefused, SendUnheard
  <2>3. lost' = lost \/ lost' = [lost EXCEPT ![m] = lost[m] + 1]
    BY DEF SendAccepted, SendRefused, SendUnheard
  <2> HIDE DEF m
  <2> QED BY <2>1, <2>2, <2>3 DEF TypeOK
<1>5. UNCHANGED <<dispatched, row, destination, removing>>
  BY DEF SendAccepted, SendRefused, SendUnheard
<1> QED BY <1>3, <1>4, <1>5 DEF TypeOK

LEMMA OutcomeType ==
  ASSUME TypeOK, NEW w \in Worker, job[w].pc = "record", NEW r \in RowType
  PROVE  /\ Outcome(w, r) \in RowType
         /\ Outcome(w, r).state \in {r.state, "sent", "parked"}
         /\ Outcome(w, r).attempts = r.attempts /\ Outcome(w, r).age = r.age
<1>1. job[w].attempts \in Nat \ {0} /\ job[w].age \in Nat
  BY HasMessage, OutboxAssumption DEF JobType
<1>2. Left(Delay(job[w].attempts), job[w].age) \in Nat
  BY <1>1, DelayIsNat, LeftIsNat, Zenon
<1>3. 0 \in 0 .. Lease + 1
  BY OutboxAssumption
<1> DEFINE next == Left(Delay(job[w].attempts), job[w].age)
           sent == [r EXCEPT !.state = "sent", !.lease = 0]
           parked == [r EXCEPT !.state = "parked", !.lease = 0]
           again == [r EXCEPT !.wait = next, !.lease = 0]
<1>4. Outcome(w, r) \in {sent, parked, again}
  BY DEF Outcome
<1> HIDE DEF next
<1>5. next \in Nat
  BY <1>2 DEF next
<1> QED BY <1>3, <1>4, <1>5 DEF RowType

LEMMA OutcomeTypes ==
  ASSUME TypeOK, NEW w \in Worker, RecordOutcome(w) \/ SetHealth(w)
  PROVE  TypeOK'
<1>1. job[w].pc \in {"record", "health"}
  BY DEF RecordOutcome, SetHealth
<1>2. /\ job[w] \in JobType /\ job[w].msg \in Message
      /\ job[w].msg[1] \in Destination /\ job[w].attempts \in Nat \ {0}
  BY <1>1, HasMessage
<1>3. CASE RecordOutcome(w)
  <2> DEFINE m == job[w].msg
             j == [job[w] EXCEPT !.pc = "health"]
  <2>1. row \in [Message -> RowType] /\ row[m] \in RowType
    BY <1>2 DEF TypeOK
  <2>2. Outcome(w, row[m]) \in RowType
    BY <1>3, <2>1, OutcomeType DEF RecordOutcome
  <2>3. row' = row \/ row' = [row EXCEPT ![m] = Outcome(w, row[m])]
    BY <1>3 DEF RecordOutcome
  <2>4. row' \in [Message -> RowType]
    <3> HIDE DEF m
    <3> QED BY <2>1, <2>2, <2>3
  <2>5. j \in JobType /\ j.msg = job[w].msg /\ j.attempts = job[w].attempts
    BY <1>2 DEF JobType
  <2>6. job' = [job EXCEPT ![w] = IdleJob] \/ job' = [job EXCEPT ![w] = j]
    BY <1>3 DEF RecordOutcome
  <2>7. UNCHANGED <<dispatched, destination, removing, copies, lost>>
    BY <1>3 DEF RecordOutcome
  <2>8. j.msg # None /\ j.attempts > 0
    BY <1>2, <2>5, OutboxAssumption
  <2> HIDE DEF j
  <2>9. /\ job' \in [Worker -> JobType]
        /\ \A v \in Worker : job'[v].pc \in {"load", "send", "record", "health"} =>
             job'[v].msg # None /\ job'[v].attempts > 0
    BY <2>5, <2>6, <2>8, PutJob, FreeJob
  <2> QED BY <2>4, <2>7, <2>9 DEF TypeOK
<1>4. CASE SetHealth(w)
  <2>1. Failing(w) \in BOOLEAN
    BY <1>2 DEF Failing, JobType, GivesUp
  <2>2. destination' \in [Destination -> [state : {"none", "enabled", "disabled", "deleted"},
                                          failing : BOOLEAN]]
    <3>1. destination' \in {destination, [destination EXCEPT ![job[w].msg[1]].failing = Failing(w)]}
      BY <1>4 DEF SetHealth
    <3> QED BY <1>2, <2>1, <3>1 DEF TypeOK
  <2>3. job' = [job EXCEPT ![w] = IdleJob] /\ UNCHANGED <<dispatched, row, removing, copies, lost>>
    BY <1>4 DEF SetHealth
  <2> QED BY <2>2, <2>3, FreeJob DEF TypeOK
<1> QED BY <1>3, <1>4

LEMMA CrashTypes ==
  ASSUME TypeOK, NEW w \in Worker, Crash(w)
  PROVE  TypeOK'
<1>1. lost' \in [Message -> Nat]
  <2>1. CASE Holds(w)
    <3>1. job[w].msg \in Message
      BY <2>1, HasMessage DEF Holds
    <3>2. lost[job[w].msg] + 1 \in Nat
      BY <3>1 DEF TypeOK
    <3>3. lost' = [lost EXCEPT ![job[w].msg] = lost[job[w].msg] + 1]
      BY <2>1 DEF Crash
    <3> QED BY <3>1, <3>2, <3>3 DEF TypeOK
  <2>2. CASE ~Holds(w)
    BY <2>2 DEF Crash, TypeOK
  <2> QED BY <2>1, <2>2
<1>2. job' = [job EXCEPT ![w] = IdleJob] /\ UNCHANGED <<dispatched, row, destination, removing, copies>>
  BY DEF Crash
<1> QED BY <1>1, <1>2, FreeJob DEF TypeOK

LEMMA SettingsTypes ==
  ASSUME TypeOK, Settings
  PROVE  TypeOK'
<1> DEFINE DestinationType == [state : {"none", "enabled", "disabled", "deleted"}, failing : BOOLEAN]
<1>1. PICK d \in Destination : \/ CreateDestination(d) \/ SaveDestination(d)
                               \/ DeleteDestination(d) \/ RemoveMessages(d)
  BY DEF Settings
<1>2. CASE CreateDestination(d) \/ SaveDestination(d) \/ DeleteDestination(d)
  <2>1. PICK s \in {"enabled", "disabled", "deleted"} :
          destination' = [destination EXCEPT ![d] = [state |-> s, failing |-> FALSE]]
    BY <1>2 DEF CreateDestination, SaveDestination, DeleteDestination
  <2>2. destination' \in [Destination -> DestinationType]
    BY <2>1 DEF TypeOK
  <2>3. removing' \subseteq Destination /\ UNCHANGED <<dispatched, row, job, copies, lost>>
    BY <1>2 DEF CreateDestination, SaveDestination, DeleteDestination, TypeOK
  <2> QED BY <2>2, <2>3 DEF TypeOK
<1>3. CASE RemoveMessages(d)
  <2>1. [Absent EXCEPT !.state = "removed"] \in RowType
    BY AbsentType DEF RowType
  <2>2. row' \in [Message -> RowType]
    BY <1>3, <2>1 DEF RemoveMessages, TypeOK
  <2>3. removing' \subseteq Destination /\ UNCHANGED <<dispatched, destination, job, copies, lost>>
    BY <1>3 DEF RemoveMessages, TypeOK
  <2> QED BY <2>2, <2>3 DEF TypeOK
<1> QED BY <1>1, <1>2, <1>3

LEMMA TypeStep ==
  TypeOK /\ [Next]_vars => TypeOK'
<1> SUFFICES ASSUME TypeOK, [Next]_vars PROVE TypeOK'
  OBVIOUS
<1>1. CASE Tick
  BY <1>1, TickTypes
<1>2. CASE Settings
  BY <1>2, SettingsTypes
<1>3. ASSUME NEW w \in Worker, Proceed(w) \/ Crash(w) PROVE TypeOK'
  BY <1>3, QueueTypes, ClaimTypes, LoadTypes, SendTypes, OutcomeTypes, CrashTypes DEF Proceed
<1>4. CASE UNCHANGED vars
  BY <1>4 DEF vars, TypeOK
<1> QED BY <1>1, <1>2, <1>3, <1>4 DEF Next

\* Every variable of the outbox keeps its type, whatever fails and whenever.
THEOREM TypeCorrect ==
  Spec => []TypeOK
<1> QED BY InitTypes, TypeStep, PTL DEF Spec

-----------------------------------------------------------------------------
(***************************************************************************)
(* The inductive invariant, message by message: whoever holds the claim of *)
(* a message holds it alone, under a lease that outlasts the job; a free   *)
(* message has attempts left; and a message has aged, so far, by the waits *)
(* of the attempts that failed.                                            *)
(***************************************************************************)
HeldAlone(m) ==
  \A w \in Holder(m) :
    /\ Holder(m) = {w}
    /\ row[m].state \in {"queued", "removed"}
    /\ row[m].state = "queued" =>
         row[m].attempts = job[w].attempts /\ row[m].lease = Lease + 1 - job[w].age
    /\ job[w].pc \in {"load", "send"} => ~job[w].ok

AttemptsLeft(m) ==
  /\ row[m].attempts <= AttemptLimit + lost[m]
  /\ row[m].state = "queued" /\ Holder(m) = {} => row[m].attempts < AttemptLimit + lost[m]

Aged(m, n) == row[m].age = MaxAge \/ row[m].age >= n

Waited(m) ==
  /\ row[m].state = "queued" /\ Holder(m) = {} => Aged(m, Waits(row[m].attempts) - row[m].wait)
  /\ \A w \in Holder(m) :
       row[m].state = "queued" => Aged(m, Waits(row[m].attempts - 1) + job[w].age)
  /\ row[m].state = "parked" => Aged(m, Window)

Steady(m) == HeldAlone(m) /\ AttemptsLeft(m) /\ (lost[m] = 0 => Waited(m))

IInv == TypeOK /\ \A m \in Message : Steady(m)

LEMMA WaitsIsInt ==
  ASSUME NEW n \in Nat
  PROVE  Waits(n) \in Int
<1>1. n + 1 \in Nat \ {0} /\ (n + 1) - 1 = n
  OBVIOUS
<1> QED BY <1>1, WaitsAdds

LEMMA NoWait ==
  Waits(0) = 0
<1>1. 2 ^ 0 = 1
  <2>1. SUBSET (1 .. 0) = {{}}
    OBVIOUS
  <2>2. Cardinality({{}}) = 1
    BY FS_Singleton, Zenon
  <2>3. Cardinality(SUBSET (1 .. 0)) = 2 ^ 0
    BY PowerCounts, 0 \in Nat, Zenon
  <2> QED BY <2>1, <2>2, <2>3
<1>2. 2 ^ DelayCap \in Nat /\ 0 <= DelayCap
  <2>1. DelayCap \in Nat
    BY OutboxAssumption
  <2>2. 2 ^ DelayCap \in Nat
    BY <2>1, PowerCounts, Zenon
  <2> QED BY <2>1, <2>2
<1>3. 0 * 2 ^ DelayCap = 0
  BY <1>2
<1> QED BY <1>1, <1>2, <1>3 DEF Waits

\* The invariant says at least what the specification calls the properties.
LEMMA SteadyImplies ==
  IInv => ClaimsExclusive /\ AttemptsBounded /\ (MaxAge >= Window => PatienceKept)
<1> SUFFICES ASSUME IInv
             PROVE  ClaimsExclusive /\ AttemptsBounded /\ (MaxAge >= Window => PatienceKept)
  OBVIOUS
<1>1. ClaimsExclusive
  <2>1. ASSUME NEW w \in Worker, Holds(w)
        PROVE  job[w].msg \in Message /\ w \in Holder(job[w].msg) /\ HeldAlone(job[w].msg)
    BY <2>1, HasMessage DEF Holds, IInv, Holder, Steady
  <2> QED BY <2>1 DEF ClaimsExclusive, HeldAlone
<1>2. AttemptsBounded
  BY DEF IInv, Steady, AttemptsLeft, AttemptsBounded
<1>3. ASSUME MaxAge >= Window PROVE PatienceKept
  BY <1>3 DEF IInv, Steady, Waited, Aged, PatienceKept
<1> QED BY <1>1, <1>2, <1>3

LEMMA InitSteady ==
  Init => IInv
<1> SUFFICES ASSUME Init PROVE IInv
  OBVIOUS
<1>1. TypeOK
  BY InitTypes
<1>2. ASSUME NEW m \in Message PROVE Steady(m)
  <2>1. Holder(m) = {}
    BY DEF Init, IdleJob, Holder, Holds
  <2>2. row[m].state = "none" /\ row[m].attempts = 0 /\ lost[m] = 0
    BY DEF Init, Absent
  <2> QED BY <2>1, <2>2, OutboxAssumption DEF Steady, HeldAlone, AttemptsLeft, Waited
<1> QED BY <1>1, <1>2 DEF IInv

-----------------------------------------------------------------------------
(* What a step does to a message: nothing, or what its action says.        *)

\* The step leaves the message and its claim alone.
Same(m) ==
  /\ row'[m] = row[m] /\ copies'[m] = copies[m] /\ lost'[m] = lost[m]
  /\ Holder(m)' = Holder(m)
  /\ \A v \in Holder(m) : job'[v] = job[v]

LEMMA SameSteady ==
  ASSUME NEW m \in Message, Steady(m), Same(m)
  PROVE  Steady(m)'
<1>1. HeldAlone(m)'
  BY DEF Same, Steady, HeldAlone
<1>2. AttemptsLeft(m)'
  BY DEF Same, Steady, AttemptsLeft
<1>3. lost'[m] = 0 => Waited(m)'
  BY DEF Same, Steady, Waited, Aged
<1> QED BY <1>1, <1>2, <1>3 DEF Steady

LEMMA SameUnchanged ==
  ASSUME NEW m \in Message, Same(m)
  PROVE  UNCHANGED D(m)!vars
<1>1. Status(m)' = Status(m)
  BY DEF Same, Status
<1>2. Attempt(m)' = Attempt(m)
  BY DEF Same, Attempt
<1> QED BY <1>1, <1>2 DEF Same, D!vars

Holding == {"load", "send", "record"}

\* A job that moves holds what its new record says; the other claims stay.
LEMMA HolderMoves ==
  ASSUME TypeOK, NEW w \in Worker, NEW m \in Message, NEW j \in JobType,
         job' = [job EXCEPT ![w] = j]
  PROVE  /\ job'[w] = j /\ \A v \in Worker \ {w} : job'[v] = job[v]
         /\ \A v : v \in Holder(m)' <=>
              IF v = w THEN j.pc \in Holding /\ j.msg = m ELSE v \in Holder(m)
<1>1. job \in [Worker -> JobType]
  BY DEF TypeOK
<1>2. job'[w] = j /\ \A v \in Worker \ {w} : job'[v] = job[v]
  BY <1>1
<1> QED BY <1>2 DEF Holder, Holds, Holding

\* A job that neither held the message nor takes it leaves its claim alone.
LEMMA SameElsewhere ==
  ASSUME TypeOK, NEW w \in Worker, NEW j \in JobType, job' = [job EXCEPT ![w] = j],
         NEW m \in Message, w \notin Holder(m), ~(j.pc \in Holding /\ j.msg = m),
         row'[m] = row[m], copies'[m] = copies[m], lost'[m] = lost[m]
  PROVE  Same(m)
<1>1. /\ \A v \in Worker \ {w} : job'[v] = job[v]
      /\ \A v : v \in Holder(m)' <=>
           IF v = w THEN j.pc \in Holding /\ j.msg = m ELSE v \in Holder(m)
  BY HolderMoves
<1>2. \A v : v \in Holder(m)' <=> v \in Holder(m)
  BY <1>1
<1>3. Holder(m)' = Holder(m)
  BY <1>2 DEF Holder
<1>4. \A v \in Holder(m) : job'[v] = job[v]
  BY <1>1 DEF Holder
<1> QED BY <1>3, <1>4 DEF Same

LEMMA NoneHeld ==
  ASSUME NEW m, Holder(m) = {}
  PROVE  Attempt(m) = "none"
BY DEF Attempt

LEMMA NoneHeldNext ==
  ASSUME NEW m, Holder(m)' = {}
  PROVE  Attempt(m)' = "none"
BY DEF Attempt

LEMMA OneHeld ==
  ASSUME NEW m, NEW w, Holder(m) = {w}
  PROVE  Attempt(m) = IF job[w].pc \in {"load", "send"} THEN "open"
                      ELSE IF job[w].ok THEN "taken" ELSE "refused"
BY DEF Attempt

LEMMA OneHeldNext ==
  ASSUME NEW m, NEW w, Holder(m)' = {w}
  PROVE  Attempt(m)' = IF job'[w].pc \in {"load", "send"} THEN "open"
                       ELSE IF job'[w].ok THEN "taken" ELSE "refused"
BY DEF Attempt

LEMMA HolderAfter ==
  ASSUME TypeOK, NEW w \in Worker, NEW m \in Message, Holder(m) \subseteq {w},
         NEW j \in JobType, job' = [job EXCEPT ![w] = j]
  PROVE  /\ job'[w] = j
         /\ j.pc \in Holding /\ j.msg = m => Holder(m)' = {w}
         /\ ~(j.pc \in Holding /\ j.msg = m) => Holder(m)' = {}
<1>1. /\ job'[w] = j
      /\ \A v : v \in Holder(m)' <=>
           IF v = w THEN j.pc \in Holding /\ j.msg = m ELSE v \in Holder(m)
  BY HolderMoves
<1>2. \A v : v \in Holder(m)' <=> v = w /\ j.pc \in Holding /\ j.msg = m
  BY <1>1
<1> QED BY <1>1, <1>2

LEMMA HeldBy ==
  ASSUME IInv, NEW w \in Worker, Holds(w)
  PROVE  /\ TypeOK /\ job[w] \in JobType /\ job[w].msg \in Message /\ job[w].attempts \in Nat \ {0}
         /\ Holder(job[w].msg) = {w} /\ Steady(job[w].msg) /\ row[job[w].msg] \in RowType
         /\ \A n \in Message : n # job[w].msg => w \notin Holder(n)
<1>1. /\ TypeOK /\ job[w] \in JobType /\ job[w].msg \in Message /\ job[w].attempts \in Nat \ {0}
      /\ Steady(job[w].msg)
  BY HasMessage DEF IInv, Holds
<1>2. w \in Holder(job[w].msg) /\ \A n \in Message : n # job[w].msg => w \notin Holder(n)
  BY DEF Holder
<1>3. Holder(job[w].msg) = {w}
  BY <1>1, <1>2 DEF Steady, HeldAlone
<1>4. row[job[w].msg] \in RowType
  BY <1>1 DEF TypeOK
<1> QED BY <1>1, <1>2, <1>3, <1>4

\* The step of a message is a step of its delivery, or a stutter.
Step(m) == [D(m)!Next]_(D(m)!vars)

LEMMA SameStep ==
  ASSUME IInv, NEW m \in Message, Same(m)
  PROVE  Steady(m)' /\ Step(m)
BY SameSteady, SameUnchanged DEF IInv, Step

LEMMA LoadStep ==
  ASSUME IInv, NEW w \in Worker, LoadDestination(w), NEW m \in Message
  PROVE  Steady(m)' /\ Step(m)
<1> DEFINE j == [job[w] EXCEPT !.pc = "send", !.seen = destination[job[w].msg[1]].failing]
<1>1. job[w].pc = "load" /\ Holds(w)
  BY DEF LoadDestination, Holds
<1>2. /\ TypeOK /\ job[w] \in JobType /\ job[w].msg \in Message
      /\ Holder(job[w].msg) = {w} /\ \A n \in Message : n # job[w].msg => w \notin Holder(n)
  BY <1>1, HeldBy
<1>3. job' = [job EXCEPT ![w] = j]
  BY <1>2 DEF LoadDestination, TypeOK
<1>4. /\ j \in JobType /\ j.pc = "send" /\ j.msg = job[w].msg /\ j.attempts = job[w].attempts
      /\ j.age = job[w].age /\ j.ok = job[w].ok
  <2>1. destination[job[w].msg[1]].failing \in BOOLEAN
    BY <1>2 DEF TypeOK, Message
  <2> QED BY <1>2, <2>1 DEF JobType
<1>5. row' = row /\ copies' = copies /\ lost' = lost
  BY DEF LoadDestination
<1> HIDE DEF j
<1>6. CASE m # job[w].msg
  BY <1>2, <1>3, <1>4, <1>5, <1>6, SameElsewhere, SameStep
<1>7. CASE m = job[w].msg
  <2>1. Holder(m) = {w} /\ Holder(m)' = {w} /\ job'[w] = j
    <3>1. Holder(m) = {w}
      BY <1>2, <1>7
    <3>2. Holder(m) \subseteq {w} /\ j.pc \in Holding /\ j.msg = m
      BY <1>4, <1>7, <3>1 DEF Holding
    <3> QED BY <1>2, <1>3, <1>4, <3>1, <3>2, HolderAfter
  <2>2. Steady(m)'
    BY <1>1, <1>4, <1>5, <2>1 DEF IInv, Steady, HeldAlone, AttemptsLeft, Waited, Aged
  <2>3. UNCHANGED D(m)!vars
    <3>1. Attempt(m) = "open" /\ Attempt(m)' = "open"
      BY <1>1, <1>4, <2>1 DEF Attempt
    <3>2. Status(m)' = Status(m)
      BY <1>5 DEF Status
    <3> QED BY <1>5, <3>1, <3>2 DEF D!vars
  <2> QED BY <2>2, <2>3 DEF Step
<1> QED BY <1>6, <1>7

LEMMA SkipStep ==
  ASSUME IInv, NEW w \in Worker, SkipMessage(w), NEW m \in Message
  PROVE  Steady(m)' /\ Step(m)
<1>1. job[w].pc = "load" /\ Holds(w)
  BY DEF SkipMessage, Holds
<1>2. /\ TypeOK /\ job[w] \in JobType /\ job[w].msg \in Message /\ row[job[w].msg] \in RowType
      /\ Holder(job[w].msg) = {w} /\ Steady(job[w].msg)
      /\ \A n \in Message : n # job[w].msg => w \notin Holder(n)
  BY <1>1, HeldBy
<1>3. job' = [job EXCEPT ![w] = IdleJob] /\ IdleJob \in JobType /\ IdleJob.pc \notin Holding
  BY IdleJobType DEF SkipMessage, IdleJob, Holding
<1>4. copies' = copies /\ lost' = lost
  BY DEF SkipMessage
<1>5. CASE m # job[w].msg
  <2>1. row'[m] = row[m]
    BY <1>2, <1>5 DEF SkipMessage, TypeOK
  <2> QED BY <1>2, <1>3, <1>4, <1>5, <2>1, SameElsewhere, SameStep
<1>6. CASE m = job[w].msg
  <2>1. Holder(m) = {w} /\ Holder(m)' = {}
    BY <1>2, <1>3, <1>6, HolderAfter
  <2>2. /\ row'[m].state \in {"skipped", "removed"} /\ row[m].state \in {"queued", "removed"}
        /\ row'[m].attempts = row[m].attempts
    <3>1. row \in [Message -> RowType]
      BY <1>2 DEF TypeOK
    <3>2. row[m].state \in {"queued", "removed"}
      BY <1>2, <1>6, <2>1 DEF Steady, HeldAlone
    <3>3. \/ row' = row /\ row[m].state = "removed"
          \/ row' = [row EXCEPT ![m].state = "skipped", ![m].lease = 0]
      BY <1>6 DEF SkipMessage
    <3> QED BY <1>2, <1>6, <3>1, <3>2, <3>3 DEF RowType
  <2>3. Steady(m)'
    BY <1>2, <1>4, <1>6, <2>1, <2>2 DEF Steady, HeldAlone, AttemptsLeft, Waited
  <2>4. D(m)!Discard
    <3>1. Attempt(m) = "open" /\ Attempt(m)' = "none"
      BY <1>1, <2>1 DEF Attempt
    <3>2. Status(m) # "new" /\ Status(m)' = "dropped"
      BY <2>2 DEF Status
    <3> QED BY <1>4, <3>1, <3>2 DEF D!Discard
  <2> QED BY <2>3, <2>4 DEF Step, D!Next
<1> QED BY <1>5, <1>6

LEMMA SendStep ==
  ASSUME IInv, NEW w \in Worker, NEW m \in Message,
         SendAccepted(w) \/ SendRefused(w) \/ SendUnheard(w)
  PROVE  Steady(m)' /\ Step(m)
<1> DEFINE accepted == [job[w] EXCEPT !.pc = "record", !.ok = TRUE]
           refused == [job[w] EXCEPT !.pc = "record"]
<1>1. job[w].pc = "send" /\ Holds(w) /\ row' = row
  BY DEF SendAccepted, SendRefused, SendUnheard, Holds
<1>2. /\ TypeOK /\ job[w] \in JobType /\ job[w].msg \in Message
      /\ Holder(job[w].msg) = {w} /\ Steady(job[w].msg)
      /\ \A n \in Message : n # job[w].msg => w \notin Holder(n)
  BY <1>1, HeldBy
<1>3. /\ copies \in [Message -> Nat] /\ lost \in [Message -> Nat] /\ row[m].attempts \in Nat
  BY <1>2 DEF TypeOK, RowType, Message
<1>4. job[w].ok = FALSE
  BY <1>1, <1>2 DEF Steady, HeldAlone, JobType
<1>5. /\ accepted \in JobType /\ accepted.pc = "record" /\ accepted.msg = job[w].msg
      /\ accepted.attempts = job[w].attempts /\ accepted.age = job[w].age /\ accepted.ok = TRUE
  BY <1>2 DEF JobType
<1>6. /\ refused \in JobType /\ refused.pc = "record" /\ refused.msg = job[w].msg
      /\ refused.attempts = job[w].attempts /\ refused.age = job[w].age /\ refused.ok = FALSE
  BY <1>2, <1>4 DEF JobType
<1>7. PICK j \in {accepted, refused} :
        /\ job' = [job EXCEPT ![w] = j]
        /\ SendAccepted(w) => j = accepted
        /\ ~SendAccepted(w) => j = refused
  BY <1>2 DEF SendAccepted, SendRefused, SendUnheard, TypeOK
<1>8. /\ j \in JobType /\ j.pc = "record" /\ j.msg = job[w].msg
      /\ j.attempts = job[w].attempts /\ j.age = job[w].age
  BY <1>5, <1>6, <1>7
<1>9. /\ SendAccepted(w) => j.ok = TRUE
      /\ ~SendAccepted(w) => j.ok = FALSE
  BY <1>5, <1>6, <1>7
<1> HIDE DEF accepted, refused
<1>10. CASE m # job[w].msg
  <2>1. copies'[m] = copies[m] /\ lost'[m] = lost[m] /\ row'[m] = row[m]
    BY <1>1, <1>3, <1>10 DEF SendAccepted, SendRefused, SendUnheard
  <2> QED BY <1>2, <1>7, <1>8, <1>10, <2>1, SameElsewhere, SameStep
<1>11. CASE m = job[w].msg
  <2>1. Holder(m) = {w} /\ Holder(m)' = {w} /\ job'[w] = j
    <3>1. Holder(m) = {w}
      BY <1>2, <1>11
    <3>2. Holder(m) \subseteq {w} /\ j.pc \in Holding /\ j.msg = m
      BY <1>8, <1>11, <3>1 DEF Holding
    <3> QED BY <1>2, <1>7, <1>8, <3>1, <3>2, HolderAfter
  <2>2. lost'[m] \in {lost[m], lost[m] + 1}
    BY <1>3, <1>11 DEF SendAccepted, SendRefused, SendUnheard
  <2>3. Steady(m)'
    <3>1. HeldAlone(m)'
      BY <1>1, <1>2, <1>8, <1>11, <2>1 DEF Steady, HeldAlone
    <3>2. AttemptsLeft(m)'
      BY <1>1, <1>2, <1>3, <1>11, <2>1, <2>2, OutboxAssumption DEF Steady, AttemptsLeft
    <3>3. lost'[m] = 0 => lost[m] = 0
      BY <1>3, <2>2
    <3>4. lost[m] = 0 => Waited(m)'
      BY <1>1, <1>2, <1>8, <1>11, <2>1 DEF Steady, Waited, Aged
    <3> QED BY <3>1, <3>2, <3>3, <3>4 DEF Steady
  <2>4. Status(m)' = Status(m) /\ Attempt(m) = "open"
        /\ Attempt(m)' = IF j.ok THEN "taken" ELSE "refused"
    BY <1>1, <1>8, <2>1 DEF Status, Attempt
  <2>5. CASE SendAccepted(w)
    <3>1. copies'[m] = copies[m] + 1 /\ lost'[m] = lost[m]
      BY <1>3, <1>11, <2>5 DEF SendAccepted
    <3>2. D(m)!Take
      BY <1>9, <2>4, <2>5, <3>1 DEF D!Take
    <3> QED BY <2>3, <3>2 DEF Step, D!Next
  <2>6. CASE ~SendAccepted(w) /\ SendUnheard(w)
    <3>1. copies'[m] = copies[m] + 1 /\ lost'[m] = lost[m] + 1
      BY <1>3, <1>11, <2>6 DEF SendUnheard
    <3>2. D(m)!TakeUnheard
      BY <1>9, <2>4, <2>6, <3>1 DEF D!TakeUnheard
    <3> QED BY <2>3, <3>2 DEF Step, D!Next
  <2>7. CASE ~SendAccepted(w) /\ SendRefused(w)
    <3>1. copies'[m] = copies[m] /\ lost'[m] = lost[m]
      BY <2>7 DEF SendRefused
    <3>2. D(m)!Refuse
      BY <1>9, <2>4, <2>7, <3>1 DEF D!Refuse
    <3> QED BY <2>3, <3>2 DEF Step, D!Next
  <2> QED BY <2>5, <2>6, <2>7
<1> QED BY <1>10, <1>11

LEMMA HealthStep ==
  ASSUME IInv, NEW w \in Worker, SetHealth(w), NEW m \in Message
  PROVE  Steady(m)' /\ Step(m)
<1>1. TypeOK /\ job[w].pc = "health" /\ job' = [job EXCEPT ![w] = IdleJob]
      /\ row' = row /\ copies' = copies /\ lost' = lost
  BY DEF SetHealth, IInv
<1>2. w \notin Holder(m) /\ IdleJob \in JobType /\ IdleJob.pc \notin Holding
  BY <1>1, IdleJobType DEF Holder, Holds, IdleJob, Holding
<1> QED BY <1>1, <1>2, SameElsewhere, SameStep

LEMMA CrashStep ==
  ASSUME IInv, NEW w \in Worker, Crash(w), NEW m \in Message
  PROVE  Steady(m)' /\ Step(m)
<1>1. TypeOK /\ job' = [job EXCEPT ![w] = IdleJob] /\ row' = row /\ copies' = copies
  BY DEF Crash, IInv
<1>2. IdleJob \in JobType /\ IdleJob.pc \notin Holding
  BY IdleJobType DEF IdleJob, Holding
<1>3. lost \in [Message -> Nat] /\ row[m].attempts \in Nat
  BY <1>1 DEF TypeOK, RowType
<1>4. CASE w \notin Holder(m)
  <2>1. lost'[m] = lost[m]
    <3>1. CASE Holds(w)
      <4>1. m # job[w].msg
        BY <1>4, <3>1 DEF Holder
      <4>2. lost' = [lost EXCEPT ![job[w].msg] = @ + 1]
        BY <3>1 DEF Crash
      <4> QED BY <1>3, <4>1, <4>2
    <3>2. CASE ~Holds(w)
      BY <3>2 DEF Crash
    <3> QED BY <3>1, <3>2
  <2> QED BY <1>1, <1>2, <1>4, <2>1, SameElsewhere, SameStep
<1>5. CASE w \in Holder(m)
  <2>1. Holds(w) /\ m = job[w].msg
    BY <1>5 DEF Holder
  <2>2. Holder(m) = {w} /\ Steady(m)
    BY <2>1, HeldBy
  <2>3. Holder(m)' = {}
    BY <1>1, <1>2, <2>2, HolderAfter
  <2>4. lost'[m] = lost[m] + 1
    BY <1>3, <2>1 DEF Crash
  <2>5. Steady(m)'
    BY <1>1, <1>3, <2>2, <2>3, <2>4, OutboxAssumption DEF Steady, HeldAlone, AttemptsLeft
  <2>6. D(m)!Abandon
    <3>1. Attempt(m) # "none" /\ Attempt(m)' = "none"
      BY <2>2, <2>3 DEF Attempt
    <3>2. Status(m)' = Status(m)
      BY <1>1 DEF Status
    <3> QED BY <1>1, <2>4, <3>1, <3>2 DEF D!Abandon
  <2> QED BY <2>5, <2>6 DEF Step, D!Next
<1> QED BY <1>4, <1>5

\* What an outcome leaves of the row of the message it settles or puts back.
LEMMA OutcomeSteady ==
  ASSUME IInv, NEW w \in Worker, RecordOutcome(w), NEW m \in Message, m = job[w].msg,
         row[m].state = "queued", Holder(m) = {w}, Holder(m)' = {},
         row'[m] = Outcome(w, row[m]), lost' = lost
  PROVE  Steady(m)'
<1>1. /\ TypeOK /\ job[w] \in JobType /\ job[w].attempts \in Nat \ {0} /\ row[m] \in RowType
      /\ Steady(m) /\ job[w].pc = "record"
  BY HeldBy DEF RecordOutcome, Holds
<1>2. /\ row[m].attempts = job[w].attempts /\ row[m].attempts <= AttemptLimit + lost[m]
      /\ lost[m] \in Nat /\ job[w].age \in Nat /\ row[m].age \in 0 .. MaxAge
  BY <1>1, OutboxAssumption DEF Steady, HeldAlone, AttemptsLeft, TypeOK, JobType, RowType
<1>3. lost[m] = 0 => Aged(m, Waits(row[m].attempts - 1) + job[w].age)
  BY <1>1 DEF Steady, Waited
<1>4. /\ row'[m] \in RowType /\ row'[m].attempts = row[m].attempts /\ row'[m].age = row[m].age
      /\ row'[m].state \in {"queued", "sent", "parked"}
  BY <1>1, OutcomeType
<1>5. HeldAlone(m)'
  BY DEF HeldAlone
<1>6. AttemptsLeft(m)'
  <2>1. row'[m].state = "queued" => row[m].attempts < AttemptLimit
    <3> SUFFICES ASSUME row'[m].state = "queued" PROVE row[m].attempts < AttemptLimit
      OBVIOUS
    <3>1. ~job[w].ok /\ ~GivesUp(w)
      <4>1. job[w].ok => Outcome(w, row[m]).state = "sent"
        BY <1>1 DEF Outcome, RowType
      <4>2. ~job[w].ok /\ GivesUp(w) => Outcome(w, row[m]).state = "parked"
        BY <1>1 DEF Outcome, RowType
      <4> QED BY <4>1, <4>2
    <3> QED BY <1>1, <1>2, <3>1, OutboxAssumption DEF GivesUp
  <2>2. row[m].attempts \in Nat /\ AttemptLimit \in Nat /\ lost'[m] = lost[m]
    BY <1>1, <1>2, OutboxAssumption
  <2>3. row'[m].attempts <= AttemptLimit + lost'[m]
    BY <1>2, <1>4, <2>2
  <2>4. row'[m].state = "queued" => row'[m].attempts < AttemptLimit + lost'[m]
    BY <1>2, <1>4, <2>1, <2>2
  <2> QED BY <2>3, <2>4 DEF AttemptsLeft
<1>7. ASSUME lost[m] = 0 PROVE Waited(m)'
  <2>1. CASE job[w].ok
    <3>1. row'[m].state = "sent"
      BY <1>1, <2>1 DEF Outcome, RowType
    <3> QED BY <3>1 DEF Waited
  <2>2. CASE ~job[w].ok /\ GivesUp(w)
    <3>1. row'[m].state = "parked"
      BY <1>1, <2>2 DEF Outcome, RowType
    <3>2. row[m].attempts = AttemptLimit
      BY <1>1, <1>2, <1>7, <2>2, OutboxAssumption DEF GivesUp
    <3>3. Waits(AttemptLimit - 1) \in Int
      BY WaitsIsInt, OutboxAssumption
    <3>4. Aged(m, Window)
      BY <1>2, <1>3, <1>7, <3>2, <3>3, OutboxAssumption DEF Aged, Window
    <3>5. Aged(m, Window)'
      BY <1>4, <3>4 DEF Aged
    <3> QED BY <3>1, <3>5 DEF Waited
  <2>3. CASE ~job[w].ok /\ ~GivesUp(w)
    <3> DEFINE n == job[w].attempts
               delay == Delay(n)
               wait == Left(delay, job[w].age)
    <3>1. /\ Waits(n) = Waits(n - 1) + delay /\ Waits(n) \in Int /\ Waits(n - 1) \in Int
          /\ delay \in Nat
      BY <1>1, WaitsAdds, DelayIsNat
    <3>2. wait \in Nat /\ wait >= delay - job[w].age
      BY <1>2, <3>1, LeftIsNat
    <3>3. row'[m].state = "queued" /\ row'[m].wait = wait
      <4>1. row'[m] = [row[m] EXCEPT !.wait = wait, !.lease = 0]
        BY <2>3 DEF Outcome
      <4> HIDE DEF wait
      <4> QED BY <1>1, <4>1 DEF RowType
    <3> HIDE DEF delay, wait
    <3>4. row[m].age = MaxAge \/ row[m].age >= Waits(n) - wait
      BY <1>2, <1>3, <1>7, <3>1, <3>2, OutboxAssumption DEF Aged
    <3>5. Aged(m, Waits(row[m].attempts) - row[m].wait)'
      BY <1>2, <1>4, <3>3, <3>4 DEF Aged
    <3> QED BY <3>3, <3>5 DEF Waited
  <2> QED BY <2>1, <2>2, <2>3
<1> QED BY <1>5, <1>6, <1>7 DEF Steady

LEMMA RecordStep ==
  ASSUME IInv, NEW w \in Worker, RecordOutcome(w), NEW m \in Message
  PROVE  Steady(m)' /\ Step(m)
<1> DEFINE h == [job[w] EXCEPT !.pc = "health"]
<1>1. /\ job[w].pc = "record" /\ Holds(w) /\ copies' = copies /\ lost' = lost
  BY DEF RecordOutcome, Holds
<1>2. /\ TypeOK /\ job[w] \in JobType /\ job[w].msg \in Message
      /\ Holder(job[w].msg) = {w} /\ Steady(job[w].msg)
      /\ \A n \in Message : n # job[w].msg => w \notin Holder(n)
  BY <1>1, HeldBy
<1>3. row \in [Message -> RowType]
  BY <1>2 DEF TypeOK
<1>4. PICK j \in JobType : job' = [job EXCEPT ![w] = j] /\ j.pc \notin Holding
  <2>1. h \in JobType /\ h.pc = "health"
    BY <1>2 DEF JobType
  <2>2. job' = [job EXCEPT ![w] = IdleJob] \/ job' = [job EXCEPT ![w] = h]
    BY DEF RecordOutcome
  <2>3. IdleJob \in JobType /\ IdleJob.pc = "idle"
    BY IdleJobType DEF IdleJob
  <2> HIDE DEF h
  <2> QED BY <2>1, <2>2, <2>3 DEF Holding
<1>5. CASE m # job[w].msg
  <2>1. row'[m] = row[m]
    BY <1>3, <1>5 DEF RecordOutcome
  <2> QED BY <1>1, <1>2, <1>4, <1>5, <2>1, SameElsewhere, SameStep
<1>6. CASE m = job[w].msg
  <2>1. Holder(m) = {w} /\ Holder(m)' = {}
    BY <1>2, <1>4, <1>6, HolderAfter
  <2>2. /\ row[m].state \in {"queued", "removed"}
        /\ row[m].state = "queued" => row[m].attempts = job[w].attempts
    BY <1>2, <1>6, <2>1 DEF Steady, HeldAlone
  <2>3. /\ row[m].state = "queued" => row'[m] = Outcome(w, row[m])
        /\ row[m].state = "removed" => row'[m] = row[m]
    BY <1>3, <1>6, <2>2 DEF RecordOutcome
  <2>4. Attempt(m) = (IF job[w].ok THEN "taken" ELSE "refused") /\ Attempt(m)' = "none"
    BY <1>1, <2>1 DEF Attempt
  <2>5. CASE row[m].state = "removed"
    <3>1. Steady(m)'
      BY <1>1, <1>2, <1>6, <2>1, <2>3, <2>5 DEF Steady, HeldAlone, AttemptsLeft, Waited
    <3>2. Status(m) = "dropped" /\ Status(m)' = "dropped"
      BY <2>3, <2>5 DEF Status
    <3>3. D(m)!Confirm \/ D(m)!Retry
      BY <1>1, <2>4, <3>2 DEF D!Confirm, D!Retry
    <3> QED BY <3>1, <3>3 DEF Step, D!Next
  <2>6. CASE row[m].state = "queued"
    <3>1. Steady(m)'
      BY <1>1, <1>6, <2>1, <2>3, <2>6, OutcomeSteady
    <3>2. row[m] \in RowType /\ row'[m] = Outcome(w, row[m])
      BY <1>3, <2>3, <2>6
    <3>3. Status(m) = "pending"
      BY <2>6 DEF Status
    <3>4. CASE job[w].ok
      <4>1. row'[m].state = "sent"
        BY <3>2, <3>4 DEF Outcome, RowType
      <4>2. D(m)!Confirm
        BY <1>1, <2>4, <3>3, <3>4, <4>1 DEF D!Confirm, Status
      <4> QED BY <3>1, <4>2 DEF Step, D!Next
    <3>5. CASE ~job[w].ok /\ GivesUp(w)
      <4>1. row'[m].state = "parked"
        BY <3>2, <3>5 DEF Outcome, RowType
      <4>2. D(m)!GiveUp
        BY <1>1, <2>4, <3>5, <4>1 DEF D!GiveUp, Status
      <4> QED BY <3>1, <4>2 DEF Step, D!Next
    <3>6. CASE ~job[w].ok /\ ~GivesUp(w)
      <4>1. row'[m].state = "queued"
        BY <2>6, <3>2, <3>6 DEF Outcome, RowType
      <4>2. D(m)!Retry
        BY <1>1, <2>4, <2>6, <3>6, <4>1 DEF D!Retry, Status
      <4> QED BY <3>1, <4>2 DEF Step, D!Next
    <3> QED BY <3>4, <3>5, <3>6
  <2> QED BY <2>2, <2>5, <2>6
<1> QED BY <1>5, <1>6

LEMMA ClaimStep ==
  ASSUME IInv, NEW w \in Worker, NEW c \in Message, Claim(w, c), NEW m \in Message
  PROVE  Steady(m)' /\ Step(m)
<1> DEFINE j == [IdleJob EXCEPT !.pc = "load", !.msg = c, !.attempts = row[c].attempts + 1]
<1>1. /\ TypeOK /\ job[w].pc = "idle" /\ job' = [job EXCEPT ![w] = j]
      /\ copies' = copies /\ lost' = lost /\ Steady(m) /\ Claimable(c)
  BY DEF Claim, IInv
<1>2. row \in [Message -> RowType] /\ row[c] \in RowType /\ row[c].attempts \in Nat
  BY <1>1 DEF TypeOK, RowType
<1>3. j \in JobType
  <2>1. row[c].attempts + 1 \in Nat /\ c \in Message \cup {None}
    BY <1>2
  <2> QED BY <2>1, IdleJobType DEF JobType
<1>4. /\ j.pc = "load" /\ j.msg = c /\ j.attempts = row[c].attempts + 1 /\ j.age = 0
      /\ j.ok = FALSE
  BY DEF IdleJob
<1> HIDE DEF j
<1>5. w \notin Holder(m)
  BY <1>1 DEF Holder, Holds
<1>6. CASE m # c
  <2>1. row'[m] = row[m]
    BY <1>2, <1>6 DEF Claim
  <2> QED BY <1>1, <1>3, <1>4, <1>5, <1>6, <2>1, SameElsewhere, SameStep
<1>7. CASE m = c
  <2>1. row[m].state = "queued" /\ row[m].wait = 0 /\ row[m].lease = 0
    BY <1>1, <1>7 DEF Claimable
  \* Whoever held the message would still have a lease on it.
  <2>2. Holder(m) = {}
    <3>1. ASSUME NEW v \in Holder(m) PROVE FALSE
      <4>1. row[m].lease = Lease + 1 - job[v].age
        BY <1>1, <2>1, <3>1 DEF Steady, HeldAlone
      <4>2. job[v].age \in 0 .. JobLimit
        BY <1>1 DEF Holder, TypeOK, JobType
      <4> QED BY <2>1, <4>1, <4>2, OutboxAssumption
    <3> QED BY <3>1
  <2>3. Holder(m)' = {w} /\ job'[w] = j
    <3>1. Holder(m) \subseteq {w} /\ j.pc \in Holding /\ j.msg = m
      BY <1>4, <1>7, <2>2 DEF Holding
    <3> QED BY <1>1, <1>3, <3>1, HolderAfter
  <2>4. /\ row'[m].state = "queued" /\ row'[m].attempts = row[m].attempts + 1
        /\ row'[m].lease = Lease + 1 /\ row'[m].age = row[m].age
    <3>1. row' = [row EXCEPT ![m].attempts = @ + 1, ![m].lease = Lease + 1]
      BY <1>7 DEF Claim
    <3> QED BY <1>2, <1>7, <2>1, <3>1 DEF RowType
  <2>5. Steady(m)'
    <3>1. HeldAlone(m)'
      BY <1>4, <1>7, <2>3, <2>4, OutboxAssumption DEF HeldAlone
    <3>2. AttemptsLeft(m)'
      <4>1. row[m].attempts < AttemptLimit + lost[m] /\ lost[m] \in Nat
        BY <1>1, <2>1, <2>2 DEF Steady, AttemptsLeft, TypeOK
      <4> QED BY <1>1, <1>2, <1>7, <2>3, <2>4, <4>1, OutboxAssumption DEF AttemptsLeft
    <3>3. ASSUME lost[m] = 0 PROVE Waited(m)'
      <4>1. Aged(m, Waits(row[m].attempts) - 0)
        BY <1>1, <2>1, <2>2, <3>3 DEF Steady, Waited
      <4>2. Waits(row[m].attempts) \in Int /\ row'[m].attempts - 1 = row[m].attempts
        BY <1>2, <1>7, <2>4, WaitsIsInt
      <4>3. Waits(row[m].attempts) - 0 = Waits(row'[m].attempts - 1) + job'[w].age
        BY <1>4, <2>3, <4>2
      <4>4. Aged(m, Waits(row[m].attempts - 1) + job[w].age)'
        BY <2>4, <4>1, <4>3 DEF Aged
      <4> QED BY <2>3, <2>4, <4>4 DEF Waited
    <3> QED BY <1>1, <3>1, <3>2, <3>3 DEF Steady
  <2>6. D(m)!Start
    <3>1. Attempt(m) = "none" /\ Attempt(m)' = "open"
      BY <1>4, <2>2, <2>3 DEF Attempt
    <3>2. Status(m) = "pending" /\ Status(m)' = "pending"
      BY <2>1, <2>4 DEF Status
    <3> QED BY <1>1, <3>1, <3>2 DEF D!Start
  <2> QED BY <2>5, <2>6 DEF Step, D!Next
<1> QED BY <1>6, <1>7

LEMMA BeginStep ==
  ASSUME IInv, NEW w \in Worker, BeginQueue(w), NEW m \in Message
  PROVE  Steady(m)' /\ Step(m)
<1> DEFINE batch == {<<d, dispatched + 1>> : d \in {e \in Destination : destination[e].state = "enabled"}}
           j == [IdleJob EXCEPT !.pc = "queue", !.batch = batch]
<1>1. /\ TypeOK /\ job[w].pc = "idle" /\ job' = [job EXCEPT ![w] = j]
      /\ row' = row /\ copies' = copies /\ lost' = lost
  BY DEF BeginQueue, IInv
<1>2. j \in JobType /\ j.pc = "queue"
  <2>1. dispatched + 1 \in Key
    BY <1>1, OutboxAssumption DEF TypeOK, BeginQueue, Key
  <2>2. batch \in SUBSET Message
    BY <2>1 DEF Message
  <2> HIDE DEF batch
  <2>3. j \in JobType
    BY <2>2, IdleJobType DEF JobType
  <2>4. j.pc = "queue"
    BY DEF IdleJob
  <2> QED BY <2>3, <2>4
<1> HIDE DEF j
<1>3. w \notin Holder(m) /\ j.pc \notin Holding
  BY <1>1, <1>2 DEF Holder, Holds, Holding
<1> QED BY <1>1, <1>2, <1>3, SameElsewhere, SameStep

LEMMA FinishStep ==
  ASSUME IInv, NEW w \in Worker, FinishQueue(w), NEW m \in Message
  PROVE  Steady(m)' /\ Step(m)
<1>1. /\ TypeOK /\ job[w].pc = "queue" /\ job' = [job EXCEPT ![w] = IdleJob]
      /\ copies' = copies /\ lost' = lost /\ Steady(m) /\ lost[m] \in Nat
  BY DEF FinishQueue, IInv, TypeOK
<1>2. w \notin Holder(m) /\ IdleJob \in JobType /\ IdleJob.pc \notin Holding
  BY <1>1, IdleJobType DEF Holder, Holds, IdleJob, Holding
<1>3. CASE row'[m] = row[m]
  BY <1>1, <1>2, <1>3, SameElsewhere, SameStep
<1>4. CASE row[m].state = "none" /\ row'[m] = [Absent EXCEPT !.state = "queued"]
  <2>1. Holder(m) = {}
    BY <1>1, <1>4 DEF Steady, HeldAlone
  <2>2. Holder(m)' = {}
    <3>1. Holder(m) \subseteq {w}
      BY <2>1
    <3> QED BY <1>1, <1>2, <3>1, HolderAfter
  <2>3. /\ row'[m].state = "queued" /\ row'[m].attempts = 0 /\ row'[m].wait = 0
        /\ row'[m].age = 0
    BY <1>4 DEF Absent
  <2>4. Steady(m)'
    <3>1. HeldAlone(m)' /\ AttemptsLeft(m)'
      BY <1>1, <2>2, <2>3, OutboxAssumption DEF HeldAlone, AttemptsLeft
    <3>2. Aged(m, Waits(row[m].attempts) - row[m].wait)'
      BY <2>3, NoWait DEF Aged
    <3>3. Waited(m)'
      BY <2>2, <2>3, <3>2 DEF Waited
    <3> QED BY <3>1, <3>3 DEF Steady
  <2>5. D(m)!Submit
    <3>1. Attempt(m) = "none" /\ Attempt(m)' = "none"
      BY <2>1, <2>2 DEF Attempt
    <3>2. Status(m) = "new" /\ Status(m)' = "pending"
      BY <1>4, <2>3 DEF Status
    <3> QED BY <1>1, <3>1, <3>2 DEF D!Submit
  <2> QED BY <2>4, <2>5 DEF Step, D!Next
<1>5. \/ row'[m] = row[m]
      \/ row[m].state = "none" /\ row'[m] = [Absent EXCEPT !.state = "queued"]
  BY DEF FinishQueue
<1> QED BY <1>3, <1>4, <1>5

LEMMA TickStep ==
  ASSUME IInv, Tick, NEW m \in Message
  PROVE  Steady(m)' /\ Step(m)
<1>1. /\ TypeOK /\ Steady(m) /\ copies' = copies /\ lost' = lost
      /\ row[m] \in RowType /\ job \in [Worker -> JobType]
  BY DEF Tick, IInv, TypeOK
<1>2. ASSUME NEW v \in Worker
      PROVE  /\ job'[v].pc = job[v].pc /\ job'[v].msg = job[v].msg /\ job'[v].ok = job[v].ok
             /\ job'[v].attempts = job[v].attempts
             /\ Holds(v) => job'[v].age = job[v].age + 1 /\ job[v].age < JobLimit
                            /\ job[v].age \in Nat
  <2>1. job[v] \in JobType
    BY <1>1
  <2>2. CASE job[v].pc \in {"idle", "queue"}
    BY <2>2 DEF Tick, Holds
  <2>3. CASE job[v].pc \notin {"idle", "queue"}
    <3>1. job'[v] = [job[v] EXCEPT !.age = job[v].age + 1]
      BY <2>3 DEF Tick
    <3>2. job[v].age < JobLimit /\ job[v].age \in Nat
      <4>1. job[v].age < JobLimit
        BY <2>3 DEF Tick
      <4>2. job[v].age \in 0 .. JobLimit
        BY <2>1 DEF JobType
      <4> QED BY <4>1, <4>2, OutboxAssumption
    <3> QED BY <2>1, <3>1, <3>2 DEF JobType
  <2> QED BY <2>2, <2>3
<1>3. Holder(m)' = Holder(m)
  BY <1>2 DEF Holder, Holds
<1>4. /\ row'[m].state = row[m].state /\ row'[m].attempts = row[m].attempts
      /\ row[m].state # "queued" => row'[m] = row[m]
      /\ row[m].state = "queued" =>
           /\ row'[m].wait = Left(row[m].wait, 1) /\ row'[m].lease = Left(row[m].lease, 1)
           /\ row'[m].age = IF row[m].age < MaxAge THEN row[m].age + 1 ELSE row[m].age
  <2>1. CASE row[m].state # "queued"
    BY <2>1 DEF Tick
  <2>2. CASE row[m].state = "queued"
    <3> DEFINE wait == Left(row[m].wait, 1)
               lease == Left(row[m].lease, 1)
               age == IF row[m].age < MaxAge THEN row[m].age + 1 ELSE row[m].age
    <3>1. row'[m] = [row[m] EXCEPT !.wait = wait, !.lease = lease, !.age = age]
      BY <2>2 DEF Tick
    <3> HIDE DEF wait, lease, age
    <3>2. row'[m].state = row[m].state /\ row'[m].attempts = row[m].attempts
          /\ row'[m].wait = wait /\ row'[m].lease = lease /\ row'[m].age = age
      BY <1>1, <3>1 DEF RowType
    <3> QED BY <2>2, <3>2 DEF wait, lease, age
  <2> QED BY <2>1, <2>2
<1>5. HeldAlone(m)'
  <2> SUFFICES ASSUME NEW v \in Holder(m)
               PROVE  /\ Holder(m) = {v}
                      /\ row[m].state \in {"queued", "removed"}
                      /\ row[m].state = "queued" =>
                           row[m].attempts = job[v].attempts /\ row'[m].lease = Lease + 1 - job'[v].age
                      /\ job[v].pc \in {"load", "send"} => ~job[v].ok
    BY <1>2, <1>3, <1>4 DEF HeldAlone, Holder
  <2>1. /\ Holder(m) = {v}
        /\ row[m].state \in {"queued", "removed"}
        /\ row[m].state = "queued" =>
             row[m].attempts = job[v].attempts /\ row[m].lease = Lease + 1 - job[v].age
        /\ job[v].pc \in {"load", "send"} => ~job[v].ok
    BY <1>1 DEF Steady, HeldAlone
  <2>2. job'[v].age = job[v].age + 1 /\ job[v].age < JobLimit /\ job[v].age \in Nat
    BY <1>2 DEF Holder
  <2>3. row[m].state = "queued" => row'[m].lease = Lease + 1 - job'[v].age
    BY <1>4, <2>1, <2>2, OutboxAssumption DEF Left
  <2> QED BY <2>1, <2>3
<1>6. AttemptsLeft(m)'
  BY <1>1, <1>3, <1>4 DEF Steady, AttemptsLeft
<1>7. ASSUME lost[m] = 0 PROVE Waited(m)'
  <2>1. /\ row[m].age \in 0 .. MaxAge /\ row[m].attempts \in Nat /\ row[m].wait \in Nat
        /\ row[m].attempts > 0 => row[m].attempts - 1 \in Nat
    BY <1>1 DEF RowType
  <2>2. row[m].state = "queued" /\ Holder(m) = {} => Aged(m, Waits(row[m].attempts) - row[m].wait)'
    <3> SUFFICES ASSUME row[m].state = "queued", Holder(m) = {}
                 PROVE  row'[m].age = MaxAge
                          \/ row'[m].age >= Waits(row[m].attempts) - row'[m].wait
      BY <1>4 DEF Aged
    <3>1. row[m].age = MaxAge \/ row[m].age >= Waits(row[m].attempts) - row[m].wait
      BY <1>1, <1>7 DEF Steady, Waited, Aged
    <3>2. Waits(row[m].attempts) \in Int
      BY <2>1, WaitsIsInt
    <3>3. Left(row[m].wait, 1) >= row[m].wait - 1
      BY <2>1, LeftIsNat
    <3>4. Left(row[m].wait, 1) \in Nat
      BY <2>1, LeftIsNat
    <3> QED BY <1>4, <2>1, <3>1, <3>2, <3>3, <3>4, OutboxAssumption
  <2>3. ASSUME NEW v \in Holder(m), row[m].state = "queued"
        PROVE  row'[m].age = MaxAge \/ row'[m].age >= Waits(row[m].attempts - 1) + job'[v].age
    <3>1. row[m].age = MaxAge \/ row[m].age >= Waits(row[m].attempts - 1) + job[v].age
      BY <1>1, <1>7, <2>3 DEF Steady, Waited, Aged
    <3>2. Waits(row[m].attempts - 1) \in Int
      <4>1. row[m].attempts = job[v].attempts
        BY <1>1, <2>3 DEF Steady, HeldAlone
      <4>2. job[v].attempts > 0
        BY <1>1 DEF Holder, Holds, TypeOK
      <4>3. row[m].attempts - 1 \in Nat
        BY <2>1, <4>1, <4>2
      <4> QED BY <4>3, WaitsIsInt
    <3>3. job'[v].age = job[v].age + 1 /\ job[v].age \in Nat
      BY <1>2 DEF Holder
    <3>4. row'[m].age = IF row[m].age < MaxAge THEN row[m].age + 1 ELSE row[m].age
      BY <1>4, <2>3
    <3> DEFINE x == Waits(row[m].attempts - 1)
    <3>5. x \in Int /\ (row[m].age = MaxAge \/ row[m].age >= x + job[v].age)
      BY <3>1, <3>2
    <3> HIDE DEF x
    <3>6. row'[m].age = MaxAge \/ row'[m].age >= x + job'[v].age
      BY <2>1, <3>3, <3>4, <3>5, OutboxAssumption
    <3> QED BY <3>6 DEF x
  <2>4. row[m].state = "parked" => Aged(m, Window)'
    BY <1>1, <1>4, <1>7 DEF Steady, Waited, Aged
  <2> QED BY <1>3, <1>4, <2>2, <2>3, <2>4 DEF Waited, Aged
<1>8. UNCHANGED D(m)!vars
  <2>1. Attempt(m)' = Attempt(m)
    BY <1>2, <1>3 DEF Attempt, Holder
  <2>2. Status(m)' = Status(m)
    BY <1>4 DEF Status
  <2> QED BY <1>1, <2>1, <2>2 DEF D!vars
<1> QED BY <1>1, <1>5, <1>6, <1>7, <1>8 DEF Steady, Step

LEMMA SettingsStep ==
  ASSUME IInv, Settings, NEW m \in Message
  PROVE  Steady(m)' /\ Step(m)
<1>1. PICK d \in Destination : \/ CreateDestination(d) \/ SaveDestination(d)
                               \/ DeleteDestination(d) \/ RemoveMessages(d)
  BY DEF Settings
<1>2. /\ Steady(m) /\ job' = job /\ copies' = copies /\ lost' = lost
      /\ lost[m] \in Nat
  BY <1>1 DEF CreateDestination, SaveDestination, DeleteDestination, RemoveMessages, IInv, TypeOK
<1>3. Holder(m)' = Holder(m) /\ Attempt(m)' = Attempt(m)
  BY <1>2 DEF Attempt, Holder, Holds
<1>4. CASE row'[m] = row[m]
  BY <1>2, <1>3, <1>4, SameStep DEF Same
<1>5. CASE row[m].state # "none" /\ row'[m] = [Absent EXCEPT !.state = "removed"]
  <2>1. row'[m].state = "removed" /\ row'[m].attempts = 0
    BY <1>5 DEF Absent
  <2>2. Steady(m)'
    BY <1>2, <1>3, <2>1, OutboxAssumption DEF Steady, HeldAlone, AttemptsLeft, Waited
  <2>3. D(m)!Discard
    <3>1. Status(m) # "new" /\ Status(m)' = "dropped"
      BY <1>5, <2>1 DEF Status
    <3> QED BY <1>2, <1>3, <3>1 DEF D!Discard
  <2> QED BY <2>2, <2>3 DEF Step, D!Next
<1>6. \/ row'[m] = row[m]
      \/ row[m].state # "none" /\ row'[m] = [Absent EXCEPT !.state = "removed"]
  BY <1>1 DEF CreateDestination, SaveDestination, DeleteDestination, RemoveMessages
<1> QED BY <1>4, <1>5, <1>6

LEMMA InvariantStep ==
  IInv /\ [Next]_vars => IInv' /\ \A m \in Message : Step(m)
<1> SUFFICES ASSUME IInv, [Next]_vars PROVE IInv' /\ \A m \in Message : Step(m)
  OBVIOUS
<1>1. TypeOK'
  BY TypeStep DEF IInv
<1>2. ASSUME NEW m \in Message PROVE Steady(m)' /\ Step(m)
  <2>1. CASE Tick
    BY <2>1, TickStep
  <2>2. CASE Settings
    BY <2>2, SettingsStep
  <2>3. ASSUME NEW w \in Worker, Proceed(w) PROVE Steady(m)' /\ Step(m)
    BY <2>3, BeginStep, FinishStep, ClaimStep, LoadStep, SkipStep, SendStep, RecordStep,
       HealthStep DEF Proceed
  <2>4. ASSUME NEW w \in Worker, Crash(w) PROVE Steady(m)' /\ Step(m)
    BY <2>4, CrashStep
  <2>5. CASE UNCHANGED vars
    <3>1. Same(m)
      BY <2>5 DEF vars, Same, Holder, Holds
    <3> QED BY <3>1, SameStep
  <2> QED BY <2>1, <2>2, <2>3, <2>4, <2>5 DEF Next
<1> QED BY <1>1, <1>2 DEF IInv

LEMMA Invariant ==
  Spec => []IInv
<1>1. IInv /\ [Next]_vars => IInv'
  BY InvariantStep
<1> QED BY <1>1, InitSteady, PTL DEF Spec

-----------------------------------------------------------------------------
(* The theorems *)

\* A claim is held by one job, under a running lease: for any number of replicas.
THEOREM ClaimsCorrect ==
  Spec => []ClaimsExclusive
<1>1. IInv => ClaimsExclusive
  BY SteadyImplies
<1> QED BY <1>1, Invariant, PTL

\* Retries are bounded, whichever attempts are lost.
THEOREM AttemptsCorrect ==
  Spec => []AttemptsBounded
<1>1. IInv => AttemptsBounded
  BY SteadyImplies
<1> QED BY <1>1, Invariant, PTL

\* No message is given up before the window of the backoff is over, for every
\* limit and cap: twelve attempts and 64 minutes are an instance.
THEOREM PatienceCorrect ==
  ASSUME MaxAge >= Window
  PROVE  Spec => []PatienceKept
<1>1. IInv => PatienceKept
  BY SteadyImplies
<1> QED BY <1>1, Invariant, PTL

LEMMA DeliveryInit ==
  ASSUME Init, NEW m \in Message
  PROVE  D(m)!Init
<1>1. Holder(m) = {} /\ row[m].state = "none" /\ copies[m] = 0 /\ lost[m] = 0
  BY DEF Init, Absent, IdleJob, Holder, Holds
<1>2. Status(m) = "new" /\ Attempt(m) = "none"
  BY <1>1 DEF Status, Attempt
<1> QED BY <1>1, <1>2 DEF D!Init

\* The outbox implements Delivery: every step is, for every message, one of
\* its delivery's or none.
THEOREM DeliveryImplemented ==
  Spec => ImplementsDelivery
<1>1. Init => \A m \in Message : D(m)!Init
  BY DeliveryInit
<1>2. IInv /\ [Next]_vars => [\A m \in Message : [D(m)!Next]_(D(m)!vars)]_vars
  BY InvariantStep DEF Step
<1> QED BY <1>1, <1>2, Invariant, PTL DEF Spec, ImplementsDelivery

-----------------------------------------------------------------------------
(* What Delivery promises follows from its steps alone. *)

LEMMA CopiesStep ==
  ASSUME NEW m \in Message, D(m)!Next, D(m)!CopiesBounded, copies[m] \in Nat, lost[m] \in Nat
  PROVE  D(m)!CopiesBounded'
<1> DEFINE c == copies[m]
           l == lost[m]
           a == Attempt(m)
           s == Status(m)
<1>0. /\ c <= l + 1
      /\ s = "new" => a = "none"
      /\ a = "open" => c <= l
      /\ s \in {"new", "pending"} /\ a # "taken" => c <= l
  BY DEF D!CopiesBounded
<1> SUFFICES /\ c' <= l' + 1
             /\ s' = "new" => a' = "none"
             /\ a' = "open" => c' <= l'
             /\ s' \in {"new", "pending"} /\ a' # "taken" => c' <= l'
  BY DEF D!CopiesBounded
<1>1. CASE D(m)!Submit \/ D(m)!Start
  BY <1>0, <1>1 DEF D!Submit, D!Start
<1>2. CASE D(m)!Take \/ D(m)!TakeUnheard \/ D(m)!Refuse
  BY <1>0, <1>2 DEF D!Take, D!TakeUnheard, D!Refuse
<1>3. CASE D(m)!Confirm
  BY <1>0, <1>3 DEF D!Confirm
<1>4. CASE D(m)!Retry \/ D(m)!GiveUp \/ D(m)!Discard
  BY <1>0, <1>4 DEF D!Retry, D!GiveUp, D!Discard
<1>5. CASE D(m)!Abandon
  BY <1>0, <1>5 DEF D!Abandon
<1> QED BY <1>1, <1>2, <1>3, <1>4, <1>5 DEF D!Next

LEMMA TakenStep ==
  ASSUME NEW m \in Message, D(m)!Next, D(m)!DeliveredWasTaken, copies[m] \in Nat
  PROVE  D(m)!DeliveredWasTaken'
<1> DEFINE c == copies[m]
           a == Attempt(m)
           s == Status(m)
<1>0. (s = "delivered" => c > 0) /\ (a = "taken" => c > 0)
  BY DEF D!DeliveredWasTaken
<1> SUFFICES (s' = "delivered" => c' > 0) /\ (a' = "taken" => c' > 0)
  BY DEF D!DeliveredWasTaken
<1>1. CASE D(m)!Submit \/ D(m)!Start
  BY <1>0, <1>1 DEF D!Submit, D!Start
<1>2. CASE D(m)!Take \/ D(m)!TakeUnheard \/ D(m)!Refuse
  BY <1>0, <1>2 DEF D!Take, D!TakeUnheard, D!Refuse
<1>3. CASE D(m)!Confirm
  BY <1>0, <1>3 DEF D!Confirm
<1>4. CASE D(m)!Retry \/ D(m)!GiveUp \/ D(m)!Discard \/ D(m)!Abandon
  BY <1>0, <1>4 DEF D!Retry, D!GiveUp, D!Discard, D!Abandon
<1> QED BY <1>1, <1>2, <1>3, <1>4 DEF D!Next

\* At most one copy and one for each lost attempt; delivered means taken.
THEOREM AtLeastOnceCorrect ==
  Spec => []AtLeastOnce
<1>1. Init => AtLeastOnce
  <2> SUFFICES ASSUME Init, NEW m \in Message
               PROVE  D(m)!CopiesBounded /\ D(m)!DeliveredWasTaken
    BY DEF AtLeastOnce
  <2>1. D(m)!Init
    BY DeliveryInit
  <2> QED BY <2>1 DEF D!Init, D!CopiesBounded, D!DeliveredWasTaken
<1>2. AtLeastOnce /\ IInv /\ [Next]_vars => AtLeastOnce'
  <2> SUFFICES ASSUME AtLeastOnce, IInv, [Next]_vars, NEW m \in Message
               PROVE  D(m)!CopiesBounded' /\ D(m)!DeliveredWasTaken'
    BY DEF AtLeastOnce
  <2>1. D(m)!CopiesBounded /\ D(m)!DeliveredWasTaken /\ copies[m] \in Nat /\ lost[m] \in Nat
    BY DEF AtLeastOnce, IInv, TypeOK
  <2>2. D(m)!Next \/ UNCHANGED D(m)!vars
    BY InvariantStep DEF Step
  <2>3. CASE D(m)!Next
    BY <2>1, <2>3, CopiesStep, TakenStep
  <2>4. CASE UNCHANGED D(m)!vars
    <3>1. /\ Status(m)' = Status(m) /\ Attempt(m)' = Attempt(m)
          /\ copies'[m] = copies[m] /\ lost'[m] = lost[m]
      BY <2>4 DEF D!vars
    <3> QED BY <2>1, <3>1 DEF D!CopiesBounded, D!DeliveredWasTaken
  <2> QED BY <2>2, <2>3, <2>4
<1> QED BY <1>1, <1>2, Invariant, PTL DEF Spec

=============================================================================
