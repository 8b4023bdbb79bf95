--------------------------- MODULE FollowUpClient ---------------------------
(***************************************************************************)
(* The follow-up list of the web application: the cached answer of the     *)
(* server, the actions taken on its rows, what is predicted before the     *)
(* server answers, and the one undo slot that the toast, the sheet and the *)
(* z key share.                                                            *)
(*                                                                         *)
(* A call is one POST of an action, from the press to the end of the       *)
(* refetch its answer starts.  It belongs to the surface it was pressed    *)
(* on, the row in the list or the detail sheet, and each surface waits for *)
(* its own calls only.  A step that Undo can take back is named by the     *)
(* call that took it; 0 stands for none.                                   *)
(*                                                                         *)
(* Left out: what the rows look like, the Retry button (it presses the     *)
(* same action again), a POST that the server carries out after the        *)
(* browser has given it up, other clients that act on the same rows.       *)
(***************************************************************************)
EXTENDS Integers, FiniteSets

CONSTANTS
  Row,            \* follow-ups
  SheetRow,       \* those that are opened in the sheet
  NoRow,          \* no sheet is open
  MaxCalls,       \* bound of the actions taken
  MaxVersion,     \* bound of the activity on a row
  MaxFaults       \* bound of the requests that fail on the way

ASSUME ClientAssumption ==
  /\ SheetRow \subseteq Row /\ NoRow \notin Row
  /\ MaxCalls \in Nat \ {0} /\ MaxVersion \in Nat \ {0} /\ MaxFaults \in Nat

VARIABLES
  \* the server
  server,         \* per row what a list answer says of it
  history,        \* per row the step it can go back to, or NoStep
  \* the query client
  cache,          \* the list on the screen
  listOk,         \* FALSE while the list is marked as out of date
  fetching,       \* the request for the list: "none", "sent" or "read"
  reply,          \* the answer under way
  \* actions and undo
  calls,          \* the calls made
  sheet,          \* the row open in the sheet
  slot,           \* undo-slot.ts: current
  inFlight,       \* undo-slot.ts: the undo call whose step is handed back
  toast,          \* the step that the Undo of the toast names
  faults          \* requests lost so far

list == <<cache, listOk, fetching, reply>>
vars == <<server, history, list, calls, sheet, slot, inFlight, toast, faults>>

CallId == 1 .. MaxCalls
Action == {"read", "handled", "snooze", "unsnooze", "undo"}
NoReply == <<>>
\* unread is read < version, and nothing is owed while handled = version
NewRow == [version |-> 1, read |-> 0, handled |-> 0, muted |-> FALSE]
NoStep == [read |-> 0, handled |-> 0, muted |-> FALSE, there |-> FALSE]
\* target: the call whose step an undo restores
NoCall == [st |-> "free", surface |-> "list", row |-> NoRow, action |-> "read",
           version |-> 0, target |-> 0, attached |-> FALSE, previous |-> NoReply]

Init ==
  /\ server = [r \in Row |-> NewRow] /\ history = [r \in Row |-> NoStep]
  /\ cache = server /\ listOk = TRUE /\ fetching = "none" /\ reply = NoReply
  /\ calls = [c \in CallId |-> NoCall]
  /\ sheet = NoRow /\ slot = 0 /\ inFlight = 0 /\ toast = 0 /\ faults = 0

Pending(c) == calls[c].st \in {"posted", "done", "refused", "lost", "settling"}
\* The next call to be made.
Fresh(c) == calls[c].st = "free" /\ \A d \in 1 .. c - 1 : calls[d].st # "free"

(* What is offered on a row: the keys and the buttons read one table.      *)
Offered(row) ==
  (IF row.read < row.version THEN {"read"} ELSE {})
    \cup IF row.muted THEN {"unsnooze"}
         ELSE IF row.handled < row.version THEN {"handled", "snooze"} ELSE {"snooze"}

\* isBusy of the handle that the surface made for the row
Busy(surface, r) ==
  \E c \in CallId : /\ Pending(c) /\ calls[c].attached /\ calls[c].action # "undo"
                    /\ calls[c].surface = surface /\ calls[c].row = r

(* setTarget: a toast that offers to take back another step is withdrawn.  *)
ToastUnretired(target) == toast
RetireUndoToast(target) == IF toast # target THEN 0 ELSE toast

(* Every request for the list that ends, or is dropped, frees the rows     *)
(* that waited for it.                                                     *)
Over(call) ==
  IF call.action \in {"read", "undo"} THEN [NoCall EXCEPT !.st = "over"]
  ELSE [NoCall EXCEPT !.st = "over", !.row = call.row, !.version = call.version]
FreedBySuccess(cs) ==
  [c \in CallId |-> IF cs[c].st = "settling" /\ listOk' THEN Over(cs[c]) ELSE cs[c]]
Freed(cs) == [c \in CallId |-> IF cs[c].st = "settling" THEN Over(cs[c]) ELSE cs[c]]

----------------------------------------------------------------------------
(* Only read and snooze are predicted; a request for the list in flight is *)
(* dropped for the prediction, so that it cannot land on it.               *)
Predict(r, action) ==
  /\ cache' = IF action = "read" THEN [cache EXCEPT ![r].read = cache[r].version]
              ELSE [cache EXCEPT ![r].muted = TRUE]
  /\ listOk' = TRUE /\ fetching' = "none" /\ reply' = NoReply

(* The mutation starts.                                                    *)
Mutate(c, surface, r, action) ==
  LET predicted == action \in {"read", "snooze"}
      call == [st |-> "posted", surface |-> surface, row |-> r, action |-> action,
               version |-> cache[r].version, target |-> 0, attached |-> TRUE,
               previous |-> IF predicted THEN cache ELSE NoReply]
  IN /\ Fresh(c)
     /\ IF predicted
        THEN Predict(r, action) /\ calls' = [Freed(calls) EXCEPT ![c] = call]
        ELSE UNCHANGED list /\ calls' = [calls EXCEPT ![c] = call]

(* A verb is pressed: the controls wait for the calls of their surface.    *)
Press(surface, r, action) ==
  /\ action \in Offered(cache[r]) /\ ~Busy(surface, r)
  /\ \E c \in CallId : Mutate(c, surface, r, action)
  /\ UNCHANGED <<server, history, sheet, slot, inFlight, toast, faults>>

(* The keys of the list go to the row under the cursor, and reach nothing  *)
(* while the sheet is open; the keys of the sheet go to its own row.       *)
PressInList(r, action) == sheet = NoRow /\ Press("list", r, action)
PressInSheet(r, action) == sheet = r /\ Press("sheet", r, action)

(* Opening the sheet marks an unread row read.                             *)
OpenSheet(r) ==
  /\ sheet = NoRow /\ sheet' = r
  /\ IF cache[r].read < cache[r].version
     THEN \E c \in CallId : Mutate(c, "sheet", r, "read")
     ELSE UNCHANGED <<list, calls>>
  /\ UNCHANGED <<server, history, slot, inFlight, toast, faults>>

(* The sheet unmounts: its calls go on and nothing waits for them.         *)
CloseSheet ==
  /\ sheet # NoRow /\ sheet' = NoRow
  /\ calls' = [c \in CallId |-> IF calls[c].surface = "sheet" /\ Pending(c) THEN [calls[c] EXCEPT !.attached = FALSE] ELSE calls[c]]
  /\ UNCHANGED <<server, history, list, slot, inFlight, toast, faults>>

(* Undo: the slot is emptied before the request.                           *)
RunUndo(surface) ==
  /\ slot # 0
  /\ \E c \in CallId :
       /\ Fresh(c) /\ inFlight' = c
       /\ calls' = [calls EXCEPT ![c] = [NoCall EXCEPT !.st = "posted", !.surface = surface, !.row = calls[slot].row,
                      !.action = "undo", !.version = calls[slot].version, !.target = slot, !.attached = TRUE]]
  /\ slot' = 0 /\ toast' = RetireUndoToast(0)
  /\ UNCHANGED <<server, history, list, sheet, faults>>

(* The z key takes whatever step is in the slot, the toast only the one    *)
(* that it names; neither waits for an undo under way.  The button of the  *)
(* sheet is there for a step of its own row, and waits for its own undo.   *)
UndoByKey == sheet = NoRow /\ RunUndo("list")
UndoFromToast == sheet = NoRow /\ toast = slot /\ RunUndo("list")
UndoInSheet ==
  /\ slot # 0 /\ sheet = calls[slot].row
  /\ \A d \in CallId : ~(Pending(d) /\ calls[d].attached /\ calls[d].surface = "sheet" /\ calls[d].action = "undo")
  /\ RunUndo("sheet")

DismissToast == toast # 0 /\ toast' = 0 /\ UNCHANGED <<server, history, list, calls, sheet, slot, inFlight, faults>>

----------------------------------------------------------------------------
(* The server.  An action is refused when activity has arrived since the   *)
(* row was read; undo of nothing is accepted and does nothing.             *)
Apply(r, action) ==
  LET row == server[r]
      seen == [row EXCEPT !.read = row.version]
      next == CASE action = "read" -> seen
                [] action = "handled" -> [seen EXCEPT !.handled = row.version, !.muted = FALSE]
                [] action = "snooze" -> [seen EXCEPT !.muted = TRUE]
                [] action = "unsnooze" -> [row EXCEPT !.muted = FALSE]
                [] action = "undo" -> IF history[r].there
                                      THEN [row EXCEPT !.read = history[r].read, !.handled = history[r].handled, !.muted = history[r].muted]
                                      ELSE row
  IN /\ server' = [server EXCEPT ![r] = next]
     /\ history' = CASE action = "read" -> history
                     [] action = "undo" -> [history EXCEPT ![r] = NoStep]
                     [] OTHER -> [history EXCEPT ![r] = [read |-> row.read, handled |-> row.handled, muted |-> row.muted, there |-> TRUE]]

ServerTakes(c) ==
  /\ calls[c].st = "posted" /\ calls[c].version = server[calls[c].row].version
  /\ Apply(calls[c].row, calls[c].action)
  /\ calls' = [calls EXCEPT ![c].st = "done"]
  /\ UNCHANGED <<list, sheet, slot, inFlight, toast, faults>>

ServerRefuses(c) ==
  /\ calls[c].st = "posted" /\ calls[c].version # server[calls[c].row].version
  /\ calls' = [calls EXCEPT ![c].st = "refused"]
  /\ UNCHANGED <<server, history, list, sheet, slot, inFlight, toast, faults>>

(* The connection fails before the server saw the request, or after.       *)
Lose(c) ==
  /\ calls[c].st \in {"posted", "done"} /\ faults < MaxFaults
  /\ calls' = [calls EXCEPT ![c].st = "lost"] /\ faults' = faults + 1
  /\ UNCHANGED <<server, history, list, sheet, slot, inFlight, toast>>

(* New activity on the pull request.                                       *)
Activity(r) ==
  /\ \A q \in Row : server[q].version < MaxVersion
  /\ server' = [server EXCEPT ![r].version = @ + 1]
  /\ UNCHANGED <<history, list, calls, sheet, slot, inFlight, toast, faults>>

----------------------------------------------------------------------------
(* onSettled: the list is read again, in place of a request under way,     *)
(* which may have been answered before the action was.                     *)
JoinRefetch == IF fetching = "none" THEN fetching' = "sent" /\ reply' = NoReply ELSE UNCHANGED <<fetching, reply>>
Refetch == fetching' = "sent" /\ reply' = NoReply

(* The answer to an action.  A failed prediction puts the list back as it  *)
(* was when the row was pressed.  The list reports in the toast, unless    *)
(* the row was only opened; the sheet reports in its footer.               *)
Answer(c) ==
  LET call == calls[c]
      step == call.st = "done" /\ call.action # "read"
      report == call.surface = "list" /\ call.st # "refused"
  IN /\ call.st \in {"done", "refused", "lost"} /\ call.action # "undo"
     /\ IF call.st # "done" /\ call.previous # NoReply
        THEN cache' = call.previous /\ listOk' = TRUE ELSE UNCHANGED <<cache, listOk>>
     /\ slot' = IF step THEN c ELSE slot
     /\ \E quiet \in BOOLEAN :
          /\ quiet => call.action = "read" /\ call.st = "done"
          /\ toast' = IF report /\ ~quiet THEN (IF step THEN c ELSE 0) ELSE RetireUndoToast(slot')
     /\ calls' = [calls EXCEPT ![c].st = "settling", ![c].previous = NoReply]
     /\ Refetch
     /\ UNCHANGED <<server, history, sheet, inFlight, faults>>

(* The answer to an undo: it is reported in the toast, and the step of a   *)
(* failed one goes back to the slot unless a newer one took it.            *)
AnswerUndo(c) ==
  LET failed == calls[c].st # "done"
  IN /\ calls[c].st \in {"done", "refused", "lost"} /\ calls[c].action = "undo"
     /\ toast' = 0 /\ inFlight' = 0
     /\ slot' = IF failed /\ inFlight # 0 /\ slot = 0 THEN calls[inFlight].target ELSE slot
     /\ calls' = [calls EXCEPT ![c].st = "settling"]
     /\ Refetch
     /\ UNCHANGED <<server, history, cache, listOk, sheet, faults>>

(* The list: polled every minute, read when a reader comes back.           *)
Poll ==
  /\ fetching = "none" /\ Refetch
  /\ cache # server
  /\ UNCHANGED <<server, history, cache, listOk, calls, sheet, slot, inFlight, toast, faults>>

ReadList ==
  /\ fetching = "sent" /\ fetching' = "read" /\ reply' = server
  /\ UNCHANGED <<server, history, cache, listOk, calls, sheet, slot, inFlight, toast, faults>>

ListArrives ==
  /\ fetching = "read" /\ fetching' = "none" /\ reply' = NoReply
  /\ cache' = reply /\ listOk' = TRUE /\ calls' = Freed(calls)
  /\ UNCHANGED <<server, history, sheet, slot, inFlight, toast, faults>>

ListFailsEmpty ==
  /\ fetching # "none" /\ faults < MaxFaults /\ faults' = faults + 1
  /\ fetching' = "none" /\ reply' = NoReply
  /\ cache' = reply /\ listOk' = FALSE /\ calls' = Freed(calls)
  /\ UNCHANGED <<server, history, sheet, slot, inFlight, toast>>
ListFails ==
  /\ fetching # "none" /\ faults < MaxFaults /\ faults' = faults + 1
  /\ fetching' = "none" /\ reply' = NoReply
  /\ cache' = cache /\ listOk' = FALSE /\ calls' = Freed(calls)
  /\ UNCHANGED <<server, history, sheet, slot, inFlight, toast>>

Next ==
  \/ \E r \in Row, a \in Action \ {"undo"} : PressInList(r, a) \/ PressInSheet(r, a)
  \/ \E r \in SheetRow : OpenSheet(r)
  \/ CloseSheet
  \/ UndoByKey \/ UndoFromToast \/ UndoInSheet
  \/ DismissToast
  \/ \E c \in CallId : \/ ServerTakes(c) \/ ServerRefuses(c) \/ Lose(c)
                       \/ Answer(c) \/ AnswerUndo(c)
  \/ \E r \in Row : Activity(r)
  \/ Poll \/ ReadList \/ ListArrives \/ ListFails

Spec == Init /\ [][Next]_vars

(* Requests are answered or fail; nobody has to press, poll or write.      *)
Fairness ==
  /\ \A c \in CallId : WF_vars(ServerTakes(c) \/ ServerRefuses(c) \/ Answer(c) \/ AnswerUndo(c))
  /\ WF_vars(ReadList \/ ListArrives)

FairSpec == Spec /\ Fairness

----------------------------------------------------------------------------
RowView == [version : 1 .. MaxVersion, read : 0 .. MaxVersion, handled : 0 .. MaxVersion, muted : BOOLEAN]
ListView == [Row -> RowView]
Step == [read : 0 .. MaxVersion, handled : 0 .. MaxVersion, muted : BOOLEAN, there : BOOLEAN]
Call == [st : {"free", "posted", "done", "refused", "lost", "settling", "over"},
         surface : {"list", "sheet"}, row : Row \cup {NoRow}, action : Action,
         version : 0 .. MaxVersion, target : 0 .. MaxCalls, attached : BOOLEAN,
         previous : ListView \cup {NoReply}]

(* The values each variable takes; a request that was read has an answer.  *)
TypeOK ==
  /\ server \in ListView /\ history \in [Row -> Step]
  /\ cache \in ListView /\ listOk \in BOOLEAN /\ fetching \in {"none", "sent", "read"}
  /\ reply \in ListView \cup {NoReply} /\ (fetching = "read" => reply \in ListView)
  /\ calls \in [CallId -> Call] /\ sheet \in Row \cup {NoRow}
  /\ slot \in 0 .. MaxCalls /\ inFlight \in 0 .. MaxCalls /\ toast \in 0 .. MaxCalls
  /\ faults \in 0 .. MaxFaults

(* followup-actions.ts, the refetch as the reconciliation: once nothing is *)
(* under way and the list is not marked as out of date, every row that has *)
(* had no activity since reads as the server holds it, whatever was        *)
(* predicted, refused, lost, put back or undone before, and in whatever    *)
(* order the answers came.                                                 *)
QuietListTrue ==
  (fetching = "none" /\ listOk /\ \A c \in CallId : ~Pending(c)) =>
    \A r \in Row : cache[r].version = server[r].version => cache[r] = server[r]

(* toast.ts and undo-slot.ts: the Undo of the toast never names a step     *)
(* that is not the one in the slot, whoever filled or emptied it since.    *)
ToastNamesSlot == toast # 0 => toast = slot

(* followup-actions.ts, isBusy: no surface stays locked.  Every call ends, *)
(* also when its answer or the list that should follow it is lost.         *)
CallsEnd == []<>(\A c \in CallId : ~Pending(c))

(* undo-slot.ts: a failed undo leaves the step on the server, so the slot  *)
(* is handed back, unless a newer step has taken it.                       *)
FailedUndoHandedBack ==
  [][\A c \in CallId : (AnswerUndo(c) /\ calls[c].st # "done") => slot' # 0]_vars
=============================================================================
