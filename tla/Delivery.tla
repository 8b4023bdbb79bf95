------------------------------ MODULE Delivery ------------------------------
(***************************************************************************)
(* What the notification outbox promises for one message to one            *)
(* destination: it is submitted once, attempted by one replica at a time,  *)
(* and ends delivered or dropped.  Delivery is at least once: only an      *)
(* attempt that is lost (its process dies, or the destination's answer     *)
(* does not arrive) lets the destination take the message again.           *)
(***************************************************************************)
EXTENDS Naturals

VARIABLES
  status,   \* "new", "pending", "delivered" or "dropped"
  attempt,  \* the attempt in progress: "none", "open", "taken" or "refused"
  copies,   \* how often the destination has taken the message
  lost      \* how many attempts ended without their outcome being known

vars == <<status, attempt, copies, lost>>

Init == status = "new" /\ attempt = "none" /\ copies = 0 /\ lost = 0

Submit ==
  /\ status = "new"
  /\ status' = "pending"
  /\ UNCHANGED <<attempt, copies, lost>>

Start ==
  /\ status = "pending" /\ attempt = "none"
  /\ attempt' = "open"
  /\ UNCHANGED <<status, copies, lost>>

\* The destination takes the message and says so.
Take ==
  /\ attempt = "open"
  /\ attempt' = "taken" /\ copies' = copies + 1
  /\ UNCHANGED <<status, lost>>

\* It takes the message and its answer is lost.
TakeUnheard ==
  /\ attempt = "open"
  /\ attempt' = "refused" /\ copies' = copies + 1 /\ lost' = lost + 1
  /\ UNCHANGED status

Refuse ==
  /\ attempt = "open"
  /\ attempt' = "refused"
  /\ UNCHANGED <<status, copies, lost>>

\* A message whose row was deleted under the attempt stays dropped.
Confirm ==
  /\ attempt = "taken"
  /\ attempt' = "none"
  /\ status' = IF status = "pending" THEN "delivered" ELSE status
  /\ UNCHANGED <<copies, lost>>

Retry ==
  /\ attempt = "refused"
  /\ attempt' = "none"
  /\ UNCHANGED <<status, copies, lost>>

GiveUp ==
  /\ attempt = "refused"
  /\ attempt' = "none" /\ status' = "dropped"
  /\ UNCHANGED <<copies, lost>>

\* The destination was disabled or deleted.
Discard ==
  /\ status # "new"
  /\ status' = "dropped"
  /\ attempt' \in {attempt, IF attempt = "open" THEN "none" ELSE attempt}
  /\ UNCHANGED <<copies, lost>>

Abandon ==
  /\ attempt # "none"
  /\ attempt' = "none" /\ lost' = lost + 1
  /\ UNCHANGED <<status, copies>>

Next ==
  \/ Submit \/ Start \/ Take \/ TakeUnheard \/ Refuse \/ Confirm \/ Retry
  \/ GiveUp \/ Discard \/ Abandon

Spec == Init /\ [][Next]_vars

(***************************************************************************)
(* A destination takes no more copies than one and one for every attempt   *)
(* that was lost.  The other conjuncts make it inductive.                  *)
(***************************************************************************)
CopiesBounded ==
  /\ copies <= lost + 1
  /\ status = "new" => attempt = "none"
  /\ attempt = "open" => copies <= lost
  /\ status \in {"new", "pending"} /\ attempt # "taken" => copies <= lost

\* A message counts as delivered only if the destination has taken it.
DeliveredWasTaken ==
  /\ status = "delivered" => copies > 0
  /\ attempt = "taken" => copies > 0
=============================================================================
