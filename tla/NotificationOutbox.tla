------------------------- MODULE NotificationOutbox -------------------------
(***************************************************************************)
(* The notification outbox of src/apps/api/notifications.go: messages are  *)
(* rows, claimed under a lease, sent, and settled or retried with backoff, *)
(* by one job per replica; and the settings page that saves and deletes    *)
(* destinations meanwhile (notification_destinations.go).                  *)
(*                                                                         *)
(* A tick is a minute.  Times in a row are kept as the ticks left until    *)
(* them, so that time need not be bounded: available_at as row[m].wait,    *)
(* leased_until as row[m].lease, 0 standing for a time that has come and   *)
(* for NULL.                                                               *)
(*                                                                         *)
(* Left out: why a key is due and what its message says                    *)
(* (queueAccountNotifications from the settings to the digest), the split  *)
(* into parts, the limit of ten destinations, the purge of settled rows    *)
(* (nothing here reads them), and the 30 seconds between jobs.             *)
(***************************************************************************)
EXTENDS Naturals, FiniteSets

CONSTANTS
  Worker,        \* the outbox jobs, one per replica
  Destination,   \* ids of notification destinations
  Keys,          \* bound: message keys (an event, a digest, the inventory)
  None,          \* no message
  Lease,         \* 2 minutes
  JobLimit,      \* how long a job may hold a claim: 30 s to send, 10 s to record
  AttemptLimit,  \* deliveryAttemptLimit, 12
  DelayCap,      \* the backoff is 2^DelayCap at most, 6
  MaxAge,        \* bound: ages of messages are counted so far
  MaxLost        \* bound: attempts are lost until one message has lost so many

\* Keys are numbered in the order they become due, so they order the rows as ids do.
Key == 1 .. Keys

Message == Destination \X Key

ASSUME OutboxAssumption ==
  /\ Keys \in Nat /\ Lease \in Nat /\ JobLimit \in Nat /\ JobLimit <= Lease
  /\ AttemptLimit \in Nat \ {0} /\ DelayCap \in Nat
  /\ MaxAge \in Nat /\ MaxLost \in Nat
  /\ None \notin Message

VARIABLES
  dispatched,   \* the last key queued (dispatched_at, last_digest_date, inventory_at)
  row,          \* row[m]: the row of m in notification_deliveries
  destination,  \* destination[d]: the row of d in notification_destinations
  removing,     \* destinations whose deletion has still to remove their messages
  job,          \* job[w]: where processNotificationOutbox stands on w
  copies,       \* copies[m]: how often the destination took m
  lost          \* lost[m]: attempts of m whose outcome was lost

vars == <<dispatched, row, destination, removing, job, copies, lost>>

Absent == [state |-> "none", attempts |-> 0, wait |-> 0, lease |-> 0, age |-> 0]

IdleJob ==
  [pc |-> "idle", batch |-> {}, msg |-> None, attempts |-> 0, age |-> 0,
   seen |-> FALSE, ok |-> FALSE]

Init ==
  /\ dispatched = 0
  /\ row = [m \in Message |-> Absent]
  /\ destination = [d \in Destination |-> [state |-> "none", failing |-> FALSE]]
  /\ removing = {}
  /\ job = [w \in Worker |-> IdleJob]
  /\ copies = [m \in Message |-> 0]
  /\ lost = [m \in Message |-> 0]

-----------------------------------------------------------------------------

Stored(d) == destination[d].state \in {"enabled", "disabled"}

\* The goroutine of w holds the claim of a message.
Holds(w) == job[w].pc \in {"load", "send", "record"}

Holder(m) == {w \in Worker : Holds(w) /\ job[w].msg = m}

\* Variant: a row whose attempts are used up is not claimed again.
ClaimableBelowLimit(m) ==
  /\ row[m].state = "queued" /\ row[m].wait = 0 /\ row[m].lease = 0
  /\ row[m].attempts < AttemptLimit

\* sent_at and skipped_at are NULL, available_at has come and no lease runs.
Claimable(m) == row[m].state = "queued" /\ row[m].wait = 0 /\ row[m].lease = 0

\* The minutes until the next attempt, counted from the claim of the n-th.
Delay(n) == 2 ^ (IF n <= DelayCap THEN n - 1 ELSE DelayCap)

MayLose == \A m \in Message : lost[m] < MaxLost

Left(ticks, gone) == IF gone < ticks THEN ticks - gone ELSE 0

-----------------------------------------------------------------------------
(* Time.  A job gives its claim up within JobLimit. *)

\* Variant: a send or an outcome write without its time limit.
TickIgnoringBudget ==
  /\ row' = [m \in Message |->
               IF row[m].state = "queued"
               THEN [row[m] EXCEPT !.wait = Left(@, 1), !.lease = Left(@, 1),
                                   !.age = IF @ < MaxAge THEN @ + 1 ELSE @]
               ELSE row[m]]
  /\ job' = [w \in Worker |->
               IF job[w].pc \in {"idle", "queue"} THEN job[w]
               ELSE [job[w] EXCEPT !.age = @ + 1]]
  /\ UNCHANGED <<dispatched, destination, removing, copies, lost>>

Tick ==
  /\ \A w \in Worker : job[w].pc \notin {"idle", "queue"} => job[w].age < JobLimit
  /\ row' = [m \in Message |->
               IF row[m].state = "queued"
               THEN [row[m] EXCEPT !.wait = Left(@, 1), !.lease = Left(@, 1),
                                   !.age = IF @ < MaxAge THEN @ + 1 ELSE @]
               ELSE row[m]]
  /\ job' = [w \in Worker |->
               IF job[w].pc \in {"idle", "queue"} THEN job[w]
               ELSE [job[w] EXCEPT !.age = @ + 1]]
  /\ UNCHANGED <<dispatched, destination, removing, copies, lost>>

-----------------------------------------------------------------------------
(* queueAccountNotifications: one transaction, which locks the settings.   *)
(* It reads the enabled destinations and later inserts a row for each.     *)

BeginQueue(w) ==
  LET batch == {<<d, dispatched + 1>> : d \in {e \in Destination : destination[e].state = "enabled"}}
  IN  /\ job[w].pc = "idle"
      /\ \A v \in Worker : job[v].pc # "queue"
      /\ dispatched < Keys
      /\ batch # {}
      /\ job' = [job EXCEPT ![w] = [IdleJob EXCEPT !.pc = "queue", !.batch = batch]]
      /\ UNCHANGED <<dispatched, row, destination, removing, copies, lost>>

FinishQueue(w) ==
  /\ job[w].pc = "queue"
  /\ row' = [m \in Message |->
               IF m \in job[w].batch /\ row[m].state = "none"
               THEN [Absent EXCEPT !.state = "queued"]
               ELSE row[m]]
  /\ \E m \in job[w].batch : dispatched' = m[2]
  /\ job' = [job EXCEPT ![w] = IdleJob]
  /\ UNCHANGED <<destination, removing, copies, lost>>

-----------------------------------------------------------------------------
(* deliverOneNotification *)

\* Variant: the claim does not lease the row.
ClaimWithoutLease(w, m) ==
  /\ job[w].pc = "idle" /\ Claimable(m)
  /\ row' = [row EXCEPT ![m].attempts = @ + 1]
  /\ job' = [job EXCEPT ![w] = [IdleJob EXCEPT !.pc = "load", !.msg = m,
                                               !.attempts = row[m].attempts + 1]]
  /\ UNCHANGED <<dispatched, destination, removing, copies, lost>>

\* The claim: the claimable row with the lowest id is leased to w.
Claim(w, m) ==
  /\ job[w].pc = "idle"
  /\ Claimable(m)
  /\ \A n \in Message : Claimable(n) => m[2] <= n[2]
  \* A row may be claimed again when leased_until < now, a tick after it is reached.
  /\ row' = [row EXCEPT ![m].attempts = @ + 1, ![m].lease = Lease + 1]
  /\ job' = [job EXCEPT ![w] = [IdleJob EXCEPT !.pc = "load", !.msg = m,
                                               !.attempts = row[m].attempts + 1]]
  /\ UNCHANGED <<dispatched, destination, removing, copies, lost>>

LoadDestination(w) ==
  LET d == job[w].msg[1]
  IN  /\ job[w].pc = "load"
      /\ destination[d].state = "enabled"
      /\ job' = [job EXCEPT ![w].pc = "send", ![w].seen = destination[d].failing]
      /\ UNCHANGED <<dispatched, row, destination, removing, copies, lost>>

\* The destination is disabled or gone: the message is skipped.
SkipMessage(w) ==
  LET m == job[w].msg
  IN  /\ job[w].pc = "load"
      /\ destination[m[1]].state # "enabled"
      /\ row' = IF row[m].state = "removed" THEN row
                ELSE [row EXCEPT ![m].state = "skipped", ![m].lease = 0]
      /\ job' = [job EXCEPT ![w] = IdleJob]
      /\ UNCHANGED <<dispatched, destination, removing, copies, lost>>

\* The destination takes the message and the job hears of it.
SendAccepted(w) ==
  /\ job[w].pc = "send"
  /\ job' = [job EXCEPT ![w].pc = "record", ![w].ok = TRUE]
  /\ copies' = [copies EXCEPT ![job[w].msg] = @ + 1]
  /\ UNCHANGED <<dispatched, row, destination, removing, lost>>

SendRefused(w) ==
  /\ job[w].pc = "send"
  /\ job' = [job EXCEPT ![w].pc = "record"]
  /\ UNCHANGED <<dispatched, row, destination, removing, copies, lost>>

\* The destination takes the message, the answer is late or lost: send reports an error.
SendUnheard(w) ==
  LET m == job[w].msg
  IN  /\ job[w].pc = "send"
      /\ MayLose
      /\ job' = [job EXCEPT ![w].pc = "record"]
      /\ copies' = [copies EXCEPT ![m] = @ + 1]
      /\ lost' = [lost EXCEPT ![m] = @ + 1]
      /\ UNCHANGED <<dispatched, row, destination, removing>>

\* Variant: one attempt too many.
GivesUpLate(w) == ~job[w].ok /\ job[w].attempts > AttemptLimit

GivesUp(w) == ~job[w].ok /\ job[w].attempts >= AttemptLimit

\* Variant: a failed attempt does not move available_at.
OutcomeWithoutBackoff(w, r) ==
  IF job[w].ok THEN [r EXCEPT !.state = "sent", !.lease = 0]
  ELSE IF GivesUp(w) THEN [r EXCEPT !.state = "parked", !.lease = 0]
  ELSE [r EXCEPT !.lease = 0]

Outcome(w, r) ==
  IF job[w].ok THEN [r EXCEPT !.state = "sent", !.lease = 0]
  ELSE IF GivesUp(w) THEN [r EXCEPT !.state = "parked", !.lease = 0]
  ELSE [r EXCEPT !.wait = Left(Delay(job[w].attempts), job[w].age), !.lease = 0]

\* What the job believes of the destination's health now.
Failing(w) == ~job[w].ok /\ (GivesUp(w) \/ job[w].seen)

\* Variant: a shutdown cancels the outcome write.
RecordOutcomeCancelled(w) ==
  /\ job[w].pc = "record"
  /\ job' = [job EXCEPT ![w] = IdleJob]
  /\ UNCHANGED <<dispatched, row, destination, removing, copies, lost>>

\* The outcome is written if the row still counts the attempts of this claim,
\* then the destination's health if the job believes it changed.
RecordOutcome(w) ==
  LET m == job[w].msg
      applies == row[m].state # "removed" /\ row[m].attempts = job[w].attempts
  IN  /\ job[w].pc = "record"
      /\ row' = IF applies THEN [row EXCEPT ![m] = Outcome(w, @)] ELSE row
      /\ job' = [job EXCEPT ![w] = IF Failing(w) = job[w].seen THEN IdleJob
                                   ELSE [@ EXCEPT !.pc = "health"]]
      /\ UNCHANGED <<dispatched, destination, removing, copies, lost>>

SetHealth(w) ==
  LET d == job[w].msg[1]
  IN  /\ job[w].pc = "health"
      /\ destination' = IF Stored(d)
                        THEN [destination EXCEPT ![d].failing = Failing(w)]
                        ELSE destination
      /\ job' = [job EXCEPT ![w] = IdleJob]
      /\ UNCHANGED <<dispatched, row, removing, copies, lost>>

\* The process dies or a statement fails: a queue transaction is rolled back,
\* a claim stays until its lease ends.
Crash(w) ==
  LET m == job[w].msg
  IN  /\ job[w].pc # "idle"
      /\ Holds(w) => MayLose
      /\ lost' = IF Holds(w) THEN [lost EXCEPT ![m] = @ + 1] ELSE lost
      /\ job' = [job EXCEPT ![w] = IdleJob]
      /\ UNCHANGED <<dispatched, row, destination, removing, copies>>

-----------------------------------------------------------------------------
(* The settings page. *)

CreateDestination(d) ==
  /\ destination[d].state = "none"
  /\ \E state \in {"enabled", "disabled"} :
       destination' = [destination EXCEPT ![d] = [state |-> state, failing |-> FALSE]]
  /\ UNCHANGED <<dispatched, row, removing, job, copies, lost>>

\* A save reads the row and then writes it whole, inserting it again if it was
\* deleted in between: so whatever once existed may be saved at any time.
SaveDestination(d) ==
  /\ destination[d].state # "none"
  /\ \E state \in {"enabled", "disabled"} :
       destination' = [destination EXCEPT ![d] = [state |-> state, failing |-> FALSE]]
  /\ UNCHANGED <<dispatched, row, removing, job, copies, lost>>

\* A deletion removes the destination, then its messages in a second statement,
\* which may fail or never come.
DeleteDestination(d) ==
  /\ Stored(d)
  /\ destination' = [destination EXCEPT ![d] = [state |-> "deleted", failing |-> FALSE]]
  /\ removing' = removing \cup {d}
  /\ UNCHANGED <<dispatched, row, job, copies, lost>>

RemoveMessages(d) ==
  /\ d \in removing
  /\ row' = [m \in Message |->
               IF m[1] = d /\ row[m].state # "none" THEN [Absent EXCEPT !.state = "removed"]
               ELSE row[m]]
  /\ removing' = removing \ {d}
  /\ UNCHANGED <<dispatched, destination, job, copies, lost>>

-----------------------------------------------------------------------------

Settings ==
  \E d \in Destination :
    \/ CreateDestination(d) \/ SaveDestination(d)
    \/ DeleteDestination(d) \/ RemoveMessages(d)

\* What a job does next by itself.
Proceed(w) ==
  \/ BeginQueue(w) \/ FinishQueue(w)
  \/ \E m \in Message : Claim(w, m)
  \/ LoadDestination(w) \/ SkipMessage(w)
  \/ SendAccepted(w) \/ SendRefused(w) \/ SendUnheard(w)
  \/ RecordOutcome(w) \/ SetHealth(w)

Next == Tick \/ Settings \/ (\E w \in Worker : Proceed(w) \/ Crash(w))

Spec == Init /\ [][Next]_vars

\* Time passes and the jobs run; nothing is assumed of destinations and users.
Fairness == WF_vars(Tick) /\ \A w \in Worker : WF_vars(Proceed(w))

FairSpec == Spec /\ Fairness

-----------------------------------------------------------------------------
(* Properties *)

RowType ==
  [state : {"none", "queued", "sent", "parked", "skipped", "removed"},
   attempts : Nat, wait : Nat, lease : 0 .. Lease + 1, age : 0 .. MaxAge]

JobType ==
  [pc : {"idle", "queue", "load", "send", "record", "health"}, batch : SUBSET Message,
   msg : Message \cup {None}, attempts : Nat, age : 0 .. JobLimit, seen : BOOLEAN,
   ok : BOOLEAN]

\* Every variable has its type, and a job past its claim has a message, attempted now.
TypeOK ==
  /\ dispatched \in 0 .. Keys
  /\ row \in [Message -> RowType]
  /\ destination \in [Destination -> [state : {"none", "enabled", "disabled", "deleted"},
                                      failing : BOOLEAN]]
  /\ removing \subseteq Destination
  /\ job \in [Worker -> JobType]
  /\ \A w \in Worker : job[w].pc \in {"load", "send", "record", "health"} =>
       job[w].msg # None /\ job[w].attempts > 0
  /\ copies \in [Message -> Nat] /\ lost \in [Message -> Nat]

(***************************************************************************)
(* Whoever holds the claim of a message holds it alone: until it lets go,  *)
(* the lease on the row has not run out and counts from that claim, and    *)
(* the row counts its attempts (the claim in deliverOneNotification and    *)
(* its budgets of 30 and 10 seconds against a lease of 2 minutes).         *)
(***************************************************************************)
ClaimsExclusive ==
  \A w \in Worker : Holds(w) =>
    /\ Holder(job[w].msg) = {w}
    /\ row[job[w].msg].state \in {"queued", "removed"}
    /\ row[job[w].msg].state = "queued" =>
         /\ row[job[w].msg].attempts = job[w].attempts
         /\ row[job[w].msg].lease = Lease + 1 - job[w].age

(***************************************************************************)
(* The outbox implements Delivery for every message.                       *)
(***************************************************************************)
Status(m) ==
  IF row[m].state = "none" THEN "new"
  ELSE IF row[m].state = "queued" THEN "pending"
  ELSE IF row[m].state = "sent" THEN "delivered"
  ELSE "dropped"

Attempt(m) ==
  IF \E w \in Holder(m) : job[w].pc \in {"load", "send"} THEN "open"
  ELSE IF \E w \in Holder(m) : job[w].ok THEN "taken"
  ELSE IF Holder(m) # {} THEN "refused"
  ELSE "none"

D(m) == INSTANCE Delivery WITH
  status <- Status(m), attempt <- Attempt(m), copies <- copies[m], lost <- lost[m]

\* Submitted once, one attempt at a time, none after it is settled: D(m)!Spec
\* for every m, in the form TLC can check.
ImplementsDelivery ==
  /\ \A m \in Message : D(m)!Init
  /\ [][\A m \in Message : [D(m)!Next]_(D(m)!vars)]_vars

(***************************************************************************)
(* A destination takes a message once, and once more for each attempt that *)
(* was lost; a message recorded as sent was taken (the order of send and   *)
(* outcome write, and the lease that outlasts both).                       *)
(***************************************************************************)
AtLeastOnce == \A m \in Message : D(m)!CopiesBounded /\ D(m)!DeliveredWasTaken

(***************************************************************************)
(* Retries are bounded: a row counts no more attempts than the limit and   *)
(* the attempts that were lost.                                            *)
(***************************************************************************)
AttemptsBounded ==
  \A m \in Message : row[m].attempts <= AttemptLimit + lost[m]

\* The minutes n failed attempts wait: the doubling waits, then the capped ones.
Waits(n) ==
  LET doublings == IF n <= DelayCap THEN n ELSE DelayCap
  IN  (2 ^ doublings - 1) + (n - doublings) * 2 ^ DelayCap

\* "63 + 320 minutes" (notifications.go:45)
Window == Waits(AttemptLimit - 1)

(***************************************************************************)
(* A message is given up only after the whole window of the backoff ("six  *)
(* hours and twenty-three minutes", notifications.go:46), unless attempts  *)
(* were lost.  Needs MaxAge >= Window.                                     *)
(***************************************************************************)
PatienceKept ==
  \A m \in Message : row[m].state = "parked" /\ lost[m] = 0 => row[m].age >= Window

(***************************************************************************)
(* Every queued message is settled once jobs stop dying, whatever its      *)
(* destination answers and whichever jobs died holding it: "The worker     *)
(* runs on the background scheduler and retries failures with backoff"     *)
(* (docs/follow-up-operations.md:35).                                      *)
(***************************************************************************)
Settles ==
  <>[][\A w \in Worker : ~Crash(w)]_vars
    => \A m \in Message : row[m].state = "queued" ~> row[m].state # "queued"
=============================================================================
