----------------------- MODULE FollowUpClient_proofs -----------------------
(***************************************************************************)
(* Theorems about FollowUpClient, for any follow-ups, any number of calls  *)
(* and of versions, and any number of lost requests.                       *)
(***************************************************************************)
EXTENDS FollowUpClient, TLAPS

-----------------------------------------------------------------------------
(* Types.                                                                  *)

\* The values a call starts with, and those it ends with.
LEMMA FirstCall ==
  /\ NewRow \in RowView /\ NoStep \in Step /\ NoCall \in Call
  /\ NoCall.st = "free" /\ NoCall.previous = NoReply
  BY ClientAssumption DEF NewRow, RowView, NoStep, Step, NoCall, Call, Action

LEMMA OverCall ==
  ASSUME NEW c \in Call
  PROVE  Over(c) \in Call /\ Over(c).st = "over" /\ Over(c).previous = NoReply
<1>1. /\ NoCall \in Call /\ NoCall.previous = NoReply
      /\ c.row \in Row \cup {NoRow} /\ c.version \in 0 .. MaxVersion
  BY FirstCall DEF Call
<1>2. [NoCall EXCEPT !.st = "over"] \in Call
  BY <1>1 DEF Call
<1>3. [NoCall EXCEPT !.st = "over", !.row = c.row, !.version = c.version] \in Call
  BY <1>1 DEF Call
<1> QED BY <1>1, <1>2, <1>3 DEF Over, NoCall

\* A call that moves on keeps its fields.
Moved(c, st) == [c EXCEPT !.st = st]

LEMMA MovedCall ==
  ASSUME NEW c \in Call, NEW st \in {"posted", "done", "refused", "lost", "settling", "over"}
  PROVE  /\ Moved(c, st) \in Call /\ Moved(c, st).st = st
         /\ Moved(c, st).previous = c.previous
  BY DEF Moved, Call

\* The list frees the calls that waited for it and leaves the others alone.
LEMMA FreedCalls ==
  ASSUME NEW cs \in [CallId -> Call]
  PROVE  /\ Freed(cs) \in [CallId -> Call]
         /\ \A c \in CallId : /\ cs[c].st # "settling" => Freed(cs)[c] = cs[c]
                              /\ Freed(cs)[c].previous \in {cs[c].previous, NoReply}
  BY OverCall DEF Freed

\* What a press posts.
Posted(surface, r, action) ==
  [st |-> "posted", surface |-> surface, row |-> r, action |-> action,
   version |-> cache[r].version, target |-> 0, attached |-> TRUE,
   previous |-> IF action \in {"read", "snooze"} THEN cache ELSE NoReply]

LEMMA PostedCall ==
  ASSUME TypeOK, NEW surface \in {"list", "sheet"}, NEW r \in Row, NEW action \in Action
  PROVE  /\ Posted(surface, r, action) \in Call
         /\ Posted(surface, r, action).st = "posted"
         /\ Posted(surface, r, action).previous \in {cache, NoReply}
<1>1. cache[r].version \in 0 .. MaxVersion /\ 0 \in 0 .. MaxCalls
  BY ClientAssumption DEF TypeOK, ListView, RowView
<1> QED BY <1>1 DEF TypeOK, Posted, Call

\* The prediction is a list, and no row changes its version.
LEMMA Predicted ==
  ASSUME TypeOK, NEW r \in Row, NEW action \in Action, Predict(r, action)
  PROVE  /\ cache' \in ListView /\ listOk' = TRUE /\ fetching' = "none" /\ reply' = NoReply
         /\ \A q \in Row : cache'[q].version = cache[q].version
<1>1. /\ cache \in [Row -> RowView] /\ cache[r] \in RowView
      /\ cache[r].version \in 0 .. MaxVersion
  BY DEF TypeOK, ListView, RowView
<1>2. /\ [cache[r] EXCEPT !.read = cache[r].version] \in RowView
      /\ [cache[r] EXCEPT !.read = cache[r].version].version = cache[r].version
      /\ [cache[r] EXCEPT !.muted = TRUE] \in RowView
      /\ [cache[r] EXCEPT !.muted = TRUE].version = cache[r].version
  BY <1>1 DEF RowView
<1> QED BY <1>1, <1>2 DEF Predict, ListView

\* A mutation adds one call that is posted; what it predicts is a list.
LEMMA Mutated ==
  ASSUME TypeOK, NEW c \in CallId, NEW surface \in {"list", "sheet"}, NEW r \in Row,
         NEW action \in Action, Mutate(c, surface, r, action)
  PROVE  /\ calls' \in [CallId -> Call] /\ calls'[c].st = "posted"
         /\ \A d \in CallId : calls'[d].previous \in {calls[d].previous, cache, NoReply}
         /\ \A d \in CallId : d # c /\ calls[d].st # "settling" => calls'[d] = calls[d]
         /\ cache' \in ListView /\ listOk' \in BOOLEAN
         /\ \A q \in Row : cache'[q].version = cache[q].version
         /\ \/ UNCHANGED list
            \/ listOk' = TRUE /\ fetching' = "none" /\ reply' = NoReply
<1> DEFINE p == Posted(surface, r, action)
<1>1. p \in Call /\ p.st = "posted" /\ p.previous \in {cache, NoReply}
  BY PostedCall
<1>2. \/ Predict(r, action) /\ calls' = [Freed(calls) EXCEPT ![c] = p]
      \/ UNCHANGED list /\ calls' = [calls EXCEPT ![c] = p]
  BY DEF Mutate, Posted
<1> HIDE DEF p
<1>3. calls \in [CallId -> Call]
  BY DEF TypeOK
<1>4. CASE UNCHANGED list /\ calls' = [calls EXCEPT ![c] = p]
  BY <1>1, <1>3, <1>4 DEF list, TypeOK
<1>5. CASE Predict(r, action) /\ calls' = [Freed(calls) EXCEPT ![c] = p]
  BY <1>1, <1>3, <1>5, FreedCalls, Predicted
<1> QED BY <1>2, <1>4, <1>5

LEMMA InitTypes == Init => TypeOK
  BY FirstCall, ClientAssumption DEF Init, TypeOK, ListView

\* One call moves on.
LEMMA OneMoves ==
  ASSUME TypeOK, NEW c \in CallId, NEW st \in {"posted", "done", "refused", "lost", "settling", "over"}
  PROVE  [calls EXCEPT ![c].st = st] \in [CallId -> Call]
  BY MovedCall DEF TypeOK, Moved

(* An action that is taken.                                                *)
LEMMA ApplyTypes ==
  ASSUME TypeOK, NEW r \in Row \cup {NoRow}, NEW action \in Action, Apply(r, action)
  PROVE  /\ server' \in ListView /\ history' \in [Row -> Step]
         /\ \A q \in Row : server'[q].version = server[q].version
<1>1. CASE r \notin Row
  BY <1>1 DEF TypeOK, Apply, ListView, Action
<1>2. CASE r \in Row
  <2> DEFINE row == server[r]
             h == history[r]
             seen == [row EXCEPT !.read = row.version]
             back == [row EXCEPT !.read = h.read, !.handled = h.handled, !.muted = h.muted]
             step == [read |-> row.read, handled |-> row.handled, muted |-> row.muted, there |-> TRUE]
             Good(v) == v \in RowView /\ v.version = row.version
  <2>1. row \in RowView /\ h \in Step /\ row.version \in 0 .. MaxVersion
    BY <1>2 DEF TypeOK, ListView, RowView
  <2>2. step \in Step
    BY <2>1 DEF RowView, Step
  <2>3. /\ Good(row) /\ Good(seen) /\ Good([row EXCEPT !.muted = FALSE])
    BY <2>1 DEF RowView
  <2>4. /\ Good([seen EXCEPT !.handled = row.version, !.muted = FALSE])
        /\ Good([seen EXCEPT !.muted = TRUE])
    BY <2>1 DEF RowView
  <2>5. Good(back)
    BY <2>1 DEF RowView, Step
  <2>6. PICK v : Good(v) /\ server' = [server EXCEPT ![r] = v]
    BY <2>3, <2>4, <2>5 DEF Apply, Action
  <2>7. history' = history \/ history' = [history EXCEPT ![r] = NoStep] \/ history' = [history EXCEPT ![r] = step]
    BY DEF Apply, Action
  <2> HIDE DEF step
  <2>8. history' \in [Row -> Step]
    BY <2>2, <2>7, FirstCall DEF TypeOK
  <2> QED BY <1>2, <2>6, <2>8 DEF TypeOK, ListView
<1> QED BY <1>1, <1>2

(* The answer to an action.                                                *)
LEMMA AnswerTypes ==
  ASSUME TypeOK, NEW c \in CallId, Answer(c)
  PROVE  /\ TypeOK' /\ fetching' = "sent"
         /\ cache' \in {cache, calls[c].previous}
<1> DEFINE settled == [calls[c] EXCEPT !.st = "settling", !.previous = NoReply]
<1>1. calls[c] \in Call /\ calls[c].previous \in ListView \cup {NoReply}
  BY DEF TypeOK, Call
<1>2. settled \in Call
  BY <1>1 DEF Call
<1>3. calls' = [calls EXCEPT ![c] = settled]
  BY DEF Answer
<1> HIDE DEF settled
<1>4. calls' \in [CallId -> Call]
  BY <1>2, <1>3 DEF TypeOK
<1>5. /\ cache' \in {cache, calls[c].previous} /\ cache' \in ListView /\ listOk' \in BOOLEAN
  BY <1>1 DEF Answer, TypeOK
<1>6. slot' \in 0 .. MaxCalls /\ toast' \in 0 .. MaxCalls
  <2>1. c \in 0 .. MaxCalls /\ 0 \in 0 .. MaxCalls
    BY ClientAssumption DEF CallId
  <2>2. slot' \in {slot, c} /\ toast' \in {c, 0, toast}
    BY DEF Answer, RetireUndoToast
  <2> QED BY <2>1, <2>2 DEF TypeOK
<1>7. /\ UNCHANGED <<server, history, sheet, inFlight, faults>>
      /\ fetching' = "sent" /\ reply' = NoReply
  BY DEF Answer, Refetch
<1> QED BY <1>4, <1>5, <1>6, <1>7 DEF TypeOK

(* The answer to an undo.                                                  *)
LEMMA AnswerUndoTypes ==
  ASSUME TypeOK, NEW c \in CallId, AnswerUndo(c)
  PROVE  TypeOK' /\ fetching' = "sent" /\ cache' = cache
<1>1. calls' \in [CallId -> Call]
  BY OneMoves DEF AnswerUndo
<1>2. slot' \in 0 .. MaxCalls
  <2>1. CASE inFlight = 0
    BY <2>1 DEF AnswerUndo, TypeOK
  <2>2. CASE inFlight # 0
    <3>1. inFlight \in CallId /\ calls[inFlight] \in Call
      BY <2>2, ClientAssumption DEF TypeOK, CallId
    <3>2. calls[inFlight].target \in 0 .. MaxCalls
      BY <3>1 DEF Call
    <3> QED BY <3>2 DEF AnswerUndo, TypeOK
  <2> QED BY <2>1, <2>2
<1>3. toast' \in 0 .. MaxCalls /\ inFlight' \in 0 .. MaxCalls
  BY ClientAssumption DEF AnswerUndo
<1>4. /\ UNCHANGED <<server, history, cache, listOk, sheet, faults>>
      /\ fetching' = "sent" /\ reply' = NoReply
  BY DEF AnswerUndo, Refetch
<1> QED BY <1>1, <1>2, <1>3, <1>4 DEF TypeOK

(* An undo is posted.                                                      *)
LEMMA RunUndoTypes ==
  ASSUME TypeOK, NEW surface \in {"list", "sheet"}, RunUndo(surface)
  PROVE  /\ TypeOK' /\ UNCHANGED <<server, list>>
         /\ \A d \in CallId : calls[d].st # "free" => calls'[d] = calls[d]
         /\ \A d \in CallId : calls'[d].previous \in {calls[d].previous, NoReply}
<1> DEFINE u == [NoCall EXCEPT !.st = "posted", !.surface = surface, !.row = calls[slot].row,
                   !.action = "undo", !.version = calls[slot].version, !.target = slot, !.attached = TRUE]
<1>1. slot \in CallId /\ calls[slot] \in Call /\ slot \in 0 .. MaxCalls
  BY ClientAssumption DEF RunUndo, TypeOK, CallId
<1>2. u \in Call /\ u.previous = NoReply
  BY <1>1, FirstCall DEF Call, Action
<1>3. PICK c \in CallId : Fresh(c) /\ inFlight' = c /\ calls' = [calls EXCEPT ![c] = u]
  BY DEF RunUndo
<1> HIDE DEF u
<1>4. calls' \in [CallId -> Call]
  BY <1>2, <1>3 DEF TypeOK
<1>5. /\ \A d \in CallId : calls[d].st # "free" => calls'[d] = calls[d]
      /\ \A d \in CallId : calls'[d].previous \in {calls[d].previous, NoReply}
  BY <1>2, <1>3 DEF TypeOK, Fresh
<1>6. inFlight' \in 0 .. MaxCalls /\ slot' = 0 /\ toast' \in {0, toast} /\ 0 \in 0 .. MaxCalls
  BY <1>3, ClientAssumption DEF RunUndo, RetireUndoToast, CallId
<1>7. UNCHANGED <<server, history, list, sheet, faults>>
  BY DEF RunUndo
<1> QED BY <1>4, <1>5, <1>6, <1>7 DEF TypeOK, list

(* The sheet is closed.                                                    *)
LEMMA CloseSheetTypes ==
  ASSUME TypeOK, CloseSheet
  PROVE  /\ TypeOK'
         /\ \A d \in CallId : calls'[d].st = calls[d].st /\ calls'[d].previous = calls[d].previous
<1> DEFINE Left(d) == [calls[d] EXCEPT !.attached = FALSE]
<1>1. \A d \in CallId : /\ Left(d) \in Call /\ Left(d).st = calls[d].st
                        /\ Left(d).previous = calls[d].previous
  BY DEF TypeOK, Call
<1>2. /\ calls' = [d \in CallId |-> IF calls[d].surface = "sheet" /\ Pending(d) THEN Left(d) ELSE calls[d]]
      /\ sheet' = NoRow
      /\ UNCHANGED <<server, history, list, slot, inFlight, toast, faults>>
  BY DEF CloseSheet
<1> HIDE DEF Left
<1> QED BY <1>1, <1>2 DEF TypeOK, list

(* A press, or the opening of the sheet, which posts a read.               *)
LEMMA PressTypes ==
  ASSUME TypeOK, NEW surface \in {"list", "sheet"}, NEW r \in Row, NEW a \in Action, Press(surface, r, a)
  PROVE  TypeOK'
<1>1. PICK c \in CallId : Mutate(c, surface, r, a)
  BY DEF Press
<1>2. /\ calls' \in [CallId -> Call] /\ cache' \in ListView /\ listOk' \in BOOLEAN
      /\ \/ UNCHANGED list
         \/ listOk' = TRUE /\ fetching' = "none" /\ reply' = NoReply
  BY <1>1, Mutated
<1> QED BY <1>2 DEF Press, TypeOK, list

LEMMA OpenSheetTypes ==
  ASSUME TypeOK, NEW r \in Row, OpenSheet(r)
  PROVE  TypeOK'
<1>1. CASE UNCHANGED <<list, calls>>
  BY <1>1 DEF OpenSheet, TypeOK, list
<1>2. CASE \E c \in CallId : Mutate(c, "sheet", r, "read")
  <2>1. PICK c \in CallId : Mutate(c, "sheet", r, "read")
    BY <1>2
  <2>2. /\ calls' \in [CallId -> Call] /\ cache' \in ListView /\ listOk' \in BOOLEAN
        /\ \/ UNCHANGED list
           \/ listOk' = TRUE /\ fetching' = "none" /\ reply' = NoReply
    BY <2>1, Mutated DEF Action
  <2> QED BY <2>2 DEF OpenSheet, TypeOK, list
<1> QED BY <1>1, <1>2 DEF OpenSheet

LEMMA FaultTypes ==
  ASSUME TypeOK, faults < MaxFaults, faults' = faults + 1
  PROVE  faults' \in 0 .. MaxFaults
  BY ClientAssumption DEF TypeOK

LEMMA ActivityTypes ==
  ASSUME TypeOK, NEW r \in Row, Activity(r)
  PROVE  /\ TypeOK' /\ \A q \in Row \ {r} : server'[q] = server[q]
         /\ server'[r].version = server[r].version + 1
<1> DEFINE later == [server[r] EXCEPT !.version = @ + 1]
<1>1. server[r] \in RowView /\ server[r].version \in 0 .. MaxVersion /\ server[r].version < MaxVersion
  BY DEF TypeOK, ListView, RowView, Activity
<1>2. later \in RowView /\ later.version = server[r].version + 1
  BY <1>1, ClientAssumption DEF RowView
<1>3. server' = [server EXCEPT ![r] = later]
  BY DEF Activity
<1> HIDE DEF later
<1>4. server' \in ListView
  BY <1>2, <1>3 DEF TypeOK, ListView
<1>5. /\ UNCHANGED <<history, list, calls, sheet, slot, inFlight, toast, faults>>
      /\ \A q \in Row \ {r} : server'[q] = server[q]
      /\ server'[r].version = server[r].version + 1
  BY <1>2, <1>3 DEF Activity, TypeOK, ListView
<1> QED BY <1>4, <1>5 DEF TypeOK, list

LEMMA TypeStep == TypeOK /\ [Next]_vars => TypeOK'
<1> SUFFICES ASSUME TypeOK, [Next]_vars PROVE TypeOK'
  OBVIOUS
<1>1. ASSUME NEW r \in Row, NEW a \in Action, PressInList(r, a) \/ PressInSheet(r, a) PROVE TypeOK'
  BY <1>1, PressTypes DEF PressInList, PressInSheet
<1>2. ASSUME NEW r \in SheetRow, OpenSheet(r) PROVE TypeOK'
  BY <1>2, OpenSheetTypes, ClientAssumption
<1>3. CASE CloseSheet
  BY <1>3, CloseSheetTypes
<1>4. CASE UndoByKey \/ UndoFromToast \/ UndoInSheet
  BY <1>4, RunUndoTypes DEF UndoByKey, UndoFromToast, UndoInSheet
<1>5. CASE DismissToast
  BY <1>5, ClientAssumption DEF DismissToast, TypeOK, list
<1>6. ASSUME NEW c \in CallId, ServerTakes(c) PROVE TypeOK'
  <2>1. /\ calls[c].row \in Row \cup {NoRow} /\ calls[c].action \in Action
        /\ Apply(calls[c].row, calls[c].action)
    BY <1>6 DEF TypeOK, Call, ServerTakes
  <2>2. server' \in ListView /\ history' \in [Row -> Step]
    BY <2>1, ApplyTypes
  <2>3. calls' \in [CallId -> Call]
    BY <1>6, OneMoves DEF ServerTakes
  <2> QED BY <1>6, <2>2, <2>3 DEF ServerTakes, TypeOK, list
<1>7. ASSUME NEW c \in CallId, ServerRefuses(c) PROVE TypeOK'
  <2>1. calls' \in [CallId -> Call]
    BY <1>7, OneMoves DEF ServerRefuses
  <2> QED BY <1>7, <2>1 DEF ServerRefuses, TypeOK, list
<1>8. ASSUME NEW c \in CallId, Lose(c) PROVE TypeOK'
  <2>1. calls' \in [CallId -> Call] /\ faults' \in 0 .. MaxFaults
    BY <1>8, OneMoves, FaultTypes DEF Lose
  <2> QED BY <1>8, <2>1 DEF Lose, TypeOK, list
<1>9. ASSUME NEW c \in CallId, Answer(c) \/ AnswerUndo(c) PROVE TypeOK'
  BY <1>9, AnswerTypes, AnswerUndoTypes
<1>10. ASSUME NEW r \in Row, Activity(r) PROVE TypeOK'
  BY <1>10, ActivityTypes
<1>11. CASE Poll
  BY <1>11 DEF Poll, Refetch, TypeOK
<1>12. CASE ReadList
  BY <1>12 DEF ReadList, TypeOK
<1>13. CASE ListArrives
  <2>1. calls' \in [CallId -> Call]
    BY <1>13, FreedCalls DEF ListArrives, TypeOK
  <2> QED BY <1>13, <2>1 DEF ListArrives, TypeOK
<1>14. CASE ListFails
  <2>1. calls' \in [CallId -> Call] /\ faults' \in 0 .. MaxFaults
    BY <1>14, FreedCalls, FaultTypes DEF ListFails, TypeOK
  <2> QED BY <1>14, <2>1 DEF ListFails, TypeOK
<1>15. CASE UNCHANGED vars
  BY <1>15 DEF vars, list, TypeOK
<1> QED BY <1>1, <1>2, <1>3, <1>4, <1>5, <1>6, <1>7, <1>8, <1>9, <1>10, <1>11, <1>12, <1>13, <1>14, <1>15 DEF Next

-----------------------------------------------------------------------------
(***************************************************************************)
(* QuietListTrue speaks of the moments when nothing is under way.  To      *)
(* survive the steps before them it needs, at every moment, somebody who   *)
(* is still to ask for the list: a list that arrives, or one that nobody   *)
(* is reading, may differ from the server only while there is a call whose *)
(* answer has not been seen, since the answer asks for the list again.     *)
(* Versions never run ahead of the server, so activity cannot make an old  *)
(* row look like the current one.                                          *)
(***************************************************************************)
Behind(view) == \A r \in Row : view[r].version <= server[r].version
Agrees(view) == \A r \in Row : view[r].version = server[r].version => view[r] = server[r]

VersionsBehind ==
  /\ Behind(cache)
  /\ reply \in ListView => Behind(reply)
  /\ \A c \in CallId : calls[c].previous \in ListView => Behind(calls[c].previous)

\* Taken by the server after the list was read, and not answered.
ReadTrue ==
  fetching = "read" /\ ~Agrees(reply) => \E c \in CallId : calls[c].st \in {"done", "lost"}

\* Not answered, whatever became of it.
ShownTrue ==
  fetching = "none" /\ listOk /\ ~Agrees(cache)
    => \E c \in CallId : calls[c].st \in {"posted", "done", "refused", "lost"}

IInv == TypeOK /\ VersionsBehind /\ ReadTrue /\ ShownTrue

\* No answer is a list only when there are no rows.
LEMMA NoReplyBehind == NoReply \in ListView => Row = {}
<1> SUFFICES ASSUME NoReply \in ListView PROVE Row = {}
  OBVIOUS
<1>1. DOMAIN NoReply = {} /\ DOMAIN NoReply = Row
  BY DEF NoReply, ListView
<1> QED BY <1>1

LEMMA InitInv == Init => IInv
<1> SUFFICES ASSUME Init PROVE IInv
  OBVIOUS
<1>1. TypeOK
  BY InitTypes
<1>2. cache = server /\ fetching = "none" /\ reply = NoReply /\ \A c \in CallId : calls[c].previous = NoReply
  BY FirstCall DEF Init
<1>3. \A r \in Row : server[r].version \in Nat
  BY <1>1 DEF TypeOK, ListView, RowView
<1>4. Behind(server)
  BY <1>3 DEF Behind
<1> QED BY <1>1, <1>2, <1>4, NoReplyBehind DEF IInv, VersionsBehind, ReadTrue, ShownTrue, Agrees, Behind

\* What is posted and predicted.
LEMMA MutateInv ==
  ASSUME IInv, NEW c \in CallId, NEW surface \in {"list", "sheet"}, NEW r \in Row,
         NEW action \in Action, Mutate(c, surface, r, action), server' = server, TypeOK'
  PROVE  IInv'
<1>1. TypeOK /\ Fresh(c)
  BY DEF IInv, Mutate
<1>2. /\ calls'[c].st = "posted"
      /\ \A d \in CallId : calls'[d].previous \in {calls[d].previous, cache, NoReply}
      /\ \A d \in CallId : d # c /\ calls[d].st # "settling" => calls'[d] = calls[d]
      /\ \A q \in Row : cache'[q].version = cache[q].version
      /\ \/ UNCHANGED list
         \/ listOk' = TRUE /\ fetching' = "none" /\ reply' = NoReply
  BY <1>1, Mutated
<1>4. VersionsBehind'
  <2>1. Behind(cache) /\ Behind(cache)'
    BY <1>2 DEF IInv, VersionsBehind, Behind
  <2>2. (reply \in ListView => Behind(reply))'
    BY <1>2, NoReplyBehind DEF IInv, VersionsBehind, Behind, list
  <2>3. ASSUME NEW d \in CallId, calls'[d].previous \in ListView
        PROVE  Behind(calls[d].previous)'
    <3>1. CASE calls'[d].previous = calls[d].previous
      BY <2>3, <3>1 DEF IInv, VersionsBehind, Behind
    <3>2. CASE calls'[d].previous = cache
      BY <2>1, <3>2 DEF Behind
    <3>3. CASE calls'[d].previous = NoReply
      BY <2>3, <3>3, NoReplyBehind DEF Behind
    <3> QED BY <1>2, <3>1, <3>2, <3>3
  <2> QED BY <2>1, <2>2, <2>3 DEF VersionsBehind
<1>5. ReadTrue'
  <2> SUFFICES ASSUME fetching' = "read", ~Agrees(reply)'
               PROVE  \E d \in CallId : calls'[d].st \in {"done", "lost"}
    BY DEF ReadTrue
  <2>1. fetching = "read" /\ ~Agrees(reply)
    BY <1>2 DEF list, Agrees
  <2>2. PICK d \in CallId : calls[d].st \in {"done", "lost"}
    BY <2>1 DEF IInv, ReadTrue
  <2> QED BY <1>1, <1>2, <2>2 DEF Fresh
<1>6. ShownTrue'
  BY <1>2 DEF ShownTrue
<1> QED BY <1>4, <1>5, <1>6 DEF IInv

\* Steps that leave the server and the list alone and move only calls that
\* are not answered on to others that are not.
LEMMA CallsMove ==
  ASSUME IInv, TypeOK', UNCHANGED <<server, list>>,
         \A d \in CallId : calls'[d].previous \in {calls[d].previous, NoReply},
         \A d \in CallId : calls[d].st \in {"done", "lost"} => calls'[d].st \in {"done", "lost"},
         \A d \in CallId : calls[d].st \in {"posted", "refused"} => calls'[d].st \in {"posted", "done", "refused", "lost"}
  PROVE  IInv'
<1>1. VersionsBehind'
  <2>1. (Behind(cache) /\ (reply \in ListView => Behind(reply)))'
    BY DEF IInv, VersionsBehind, Behind, list
  <2>2. ASSUME NEW d \in CallId, calls'[d].previous \in ListView
        PROVE  Behind(calls[d].previous)'
    BY <2>2, NoReplyBehind DEF IInv, VersionsBehind, Behind
  <2> QED BY <2>1, <2>2 DEF VersionsBehind
<1>2. ReadTrue'
  BY DEF IInv, ReadTrue, Agrees, list
<1>3. ShownTrue'
  BY DEF IInv, ShownTrue, Agrees, list
<1> QED BY <1>1, <1>2, <1>3 DEF IInv

\* The answers ask for the list again.
LEMMA AnswerInv ==
  ASSUME IInv, NEW c \in CallId, Answer(c) \/ AnswerUndo(c)
  PROVE  IInv'
<1>1. /\ TypeOK' /\ fetching' = "sent" /\ cache' \in {cache, calls[c].previous}
      /\ server' = server /\ reply' = NoReply
  BY AnswerTypes, AnswerUndoTypes DEF IInv, Answer, AnswerUndo, Refetch
<1>2. Behind(cache)'
  BY <1>1 DEF IInv, VersionsBehind, Behind, TypeOK
<1>3. (reply \in ListView => Behind(reply))'
  BY <1>1, NoReplyBehind DEF Behind
<1>4. \A d \in CallId : calls'[d].previous \in {calls[d].previous, NoReply}
  <2>1. /\ [calls[c] EXCEPT !.st = "settling", !.previous = NoReply].previous = NoReply
        /\ [calls[c] EXCEPT !.st = "settling"].previous = calls[c].previous
    BY DEF IInv, TypeOK, Call
  <2>2. \/ calls' = [calls EXCEPT ![c] = [calls[c] EXCEPT !.st = "settling", !.previous = NoReply]]
        \/ calls' = [calls EXCEPT ![c] = [calls[c] EXCEPT !.st = "settling"]]
    BY DEF Answer, AnswerUndo
  <2> QED BY <2>1, <2>2 DEF IInv, TypeOK
<1>5. ASSUME NEW d \in CallId, calls'[d].previous \in ListView
      PROVE  Behind(calls[d].previous)'
  BY <1>1, <1>4, <1>5, NoReplyBehind DEF IInv, VersionsBehind, Behind
<1> QED BY <1>1, <1>2, <1>3, <1>5 DEF IInv, VersionsBehind, ReadTrue, ShownTrue

\* An action taken by the server is not answered yet.
LEMMA TakesInv ==
  ASSUME IInv, NEW c \in CallId, ServerTakes(c), TypeOK'
  PROVE  IInv'
<1>1. \A q \in Row : server'[q].version = server[q].version
  <2>1. /\ calls[c].row \in Row \cup {NoRow} /\ calls[c].action \in Action
        /\ Apply(calls[c].row, calls[c].action)
    BY DEF IInv, TypeOK, Call, ServerTakes
  <2> QED BY <2>1, ApplyTypes DEF IInv
<1>2. calls'[c].st = "done" /\ \A d \in CallId : calls'[d].previous = calls[d].previous
  <2>1. [calls[c] EXCEPT !.st = "done"].st = "done" /\ [calls[c] EXCEPT !.st = "done"].previous = calls[c].previous
    BY DEF IInv, TypeOK, Call
  <2> QED BY <2>1 DEF ServerTakes, IInv, TypeOK
<1>3. VersionsBehind'
  BY <1>1, <1>2 DEF IInv, VersionsBehind, Behind, ServerTakes, list
<1> QED BY <1>2, <1>3 DEF IInv, ReadTrue, ShownTrue

\* Activity makes rows old, and an old row agrees with anything.
LEMMA ActivityInv ==
  ASSUME IInv, NEW r \in Row, Activity(r)
  PROVE  IInv'
<1>1. /\ TypeOK' /\ \A q \in Row \ {r} : server'[q] = server[q]
      /\ server'[r].version = server[r].version + 1
      /\ UNCHANGED <<list, calls>>
  BY ActivityTypes DEF IInv, Activity
<1>2. ASSUME NEW view \in ListView, Behind(view)
      PROVE  /\ \A q \in Row : view[q].version <= server'[q].version
             /\ Agrees(view) =>
                  \A q \in Row : view[q].version = server'[q].version => view[q] = server'[q]
  <2>1. ASSUME NEW q \in Row PROVE view[q].version \in Nat /\ server[q].version \in Nat /\ view[q].version <= server[q].version
    BY <1>2 DEF IInv, TypeOK, ListView, RowView, Behind
  <2>2. view[r].version < server'[r].version
    BY <1>1, <2>1
  <2> QED BY <1>1, <2>1, <2>2 DEF Agrees
<1>3. VersionsBehind'
  BY <1>1, <1>2 DEF IInv, VersionsBehind, Behind, TypeOK, list
<1>4. ReadTrue'
  BY <1>1, <1>2 DEF IInv, VersionsBehind, ReadTrue, Agrees, TypeOK, list
<1>5. ShownTrue'
  BY <1>1, <1>2 DEF IInv, VersionsBehind, ShownTrue, Agrees, TypeOK, list
<1> QED BY <1>1, <1>3, <1>4, <1>5 DEF IInv

\* The list is read, arrives or fails.
LEMMA ReadInv ==
  ASSUME IInv, ReadList, TypeOK'
  PROVE  IInv'
<1>1. Behind(server)
  BY DEF IInv, TypeOK, ListView, RowView, Behind
<1> QED BY <1>1 DEF IInv, ReadList, VersionsBehind, Behind, ReadTrue, ShownTrue, Agrees

LEMMA ListInv ==
  ASSUME IInv, ListArrives \/ ListFails, TypeOK'
  PROVE  IInv'
<1>1. /\ \A c \in CallId : calls[c].st # "settling" => calls'[c] = calls[c]
      /\ \A c \in CallId : calls'[c].previous \in {calls[c].previous, NoReply}
  BY FreedCalls DEF IInv, TypeOK, ListArrives, ListFails
<1>2. server' = server /\ fetching' = "none" /\ reply' = NoReply
  BY DEF ListArrives, ListFails
<1>3. VersionsBehind'
  <2>1. cache' = cache \/ (cache' = reply /\ reply \in ListView)
    BY DEF ListArrives, ListFails, IInv, TypeOK
  <2>2. Behind(cache)' /\ (reply \in ListView => Behind(reply))'
    BY <1>2, <2>1, NoReplyBehind DEF IInv, VersionsBehind, Behind
  <2>3. ASSUME NEW d \in CallId, calls'[d].previous \in ListView
        PROVE  Behind(calls[d].previous)'
    BY <1>1, <1>2, <2>3, NoReplyBehind DEF IInv, VersionsBehind, Behind
  <2> QED BY <2>2, <2>3 DEF VersionsBehind
<1>4. ShownTrue'
  <2>1. CASE ListFails
    BY <2>1 DEF ListFails, ShownTrue
  <2>2. CASE ListArrives
    BY <1>1, <1>2, <2>2 DEF ListArrives, IInv, ReadTrue, ShownTrue, Agrees
  <2> QED BY <2>1, <2>2
<1> QED BY <1>2, <1>3, <1>4 DEF IInv, ReadTrue

LEMMA InvStep == IInv /\ [Next]_vars => IInv'
<1> SUFFICES ASSUME IInv, [Next]_vars PROVE IInv'
  OBVIOUS
<1>1. TypeOK /\ TypeOK' /\ calls \in [CallId -> Call]
  BY TypeStep DEF IInv, TypeOK
<1>2. ASSUME NEW c \in CallId, NEW st \in {"posted", "done", "refused", "lost"},
             calls' = [calls EXCEPT ![c].st = st]
      PROVE  /\ \A d \in CallId : calls'[d].previous \in {calls[d].previous, NoReply}
             /\ calls'[c].st = st /\ \A d \in CallId \ {c} : calls'[d] = calls[d]
  <2>1. [calls[c] EXCEPT !.st = st].st = st /\ [calls[c] EXCEPT !.st = st].previous = calls[c].previous
    BY <1>1 DEF Call
  <2> QED BY <1>1, <1>2, <2>1
<1>3. ASSUME NEW r \in Row, NEW a \in Action, PressInList(r, a) \/ PressInSheet(r, a) PROVE IInv'
  <2>1. PICK surface \in {"list", "sheet"} : Press(surface, r, a)
    BY <1>3 DEF PressInList, PressInSheet
  <2> QED BY <1>1, <2>1, MutateInv DEF Press
<1>4. ASSUME NEW r \in SheetRow, OpenSheet(r) PROVE IInv'
  <2>1. r \in Row /\ server' = server
    BY <1>4, ClientAssumption DEF OpenSheet
  <2>2. CASE UNCHANGED <<list, calls>>
    BY <1>1, <2>1, <2>2, CallsMove
  <2>3. CASE \E c \in CallId : Mutate(c, "sheet", r, "read")
    BY <1>1, <2>1, <2>3, MutateInv DEF Action
  <2> QED BY <1>4, <2>2, <2>3 DEF OpenSheet
<1>5. CASE CloseSheet
  BY <1>1, <1>5, CloseSheetTypes, CallsMove DEF CloseSheet
<1>6. CASE UndoByKey \/ UndoFromToast \/ UndoInSheet
  <2>1. PICK surface \in {"list", "sheet"} : RunUndo(surface)
    BY <1>6 DEF UndoByKey, UndoFromToast, UndoInSheet
  <2>2. /\ UNCHANGED <<server, list>>
        /\ \A d \in CallId : calls[d].st # "free" => calls'[d] = calls[d]
        /\ \A d \in CallId : calls'[d].previous \in {calls[d].previous, NoReply}
    BY <1>1, <2>1, RunUndoTypes
  <2> QED BY <1>1, <2>2, CallsMove
<1>7. CASE DismissToast
  BY <1>1, <1>7, CallsMove DEF DismissToast
<1>8. ASSUME NEW c \in CallId, ServerTakes(c) PROVE IInv'
  BY <1>1, <1>8, TakesInv
<1>9. ASSUME NEW c \in CallId, ServerRefuses(c) PROVE IInv'
  <2>1. calls' = [calls EXCEPT ![c].st = "refused"] /\ calls[c].st = "posted" /\ UNCHANGED <<server, list>>
    BY <1>9 DEF ServerRefuses
  <2> QED BY <1>1, <1>2, <2>1, CallsMove
<1>10. ASSUME NEW c \in CallId, Lose(c) PROVE IInv'
  <2>1. calls' = [calls EXCEPT ![c].st = "lost"] /\ UNCHANGED <<server, list>>
    BY <1>10 DEF Lose
  <2> QED BY <1>1, <1>2, <2>1, CallsMove
<1>11. ASSUME NEW c \in CallId, Answer(c) \/ AnswerUndo(c) PROVE IInv'
  BY <1>11, AnswerInv
<1>12. ASSUME NEW r \in Row, Activity(r) PROVE IInv'
  BY <1>12, ActivityInv
<1>13. CASE Poll
  BY <1>1, <1>13, NoReplyBehind DEF Poll, Refetch, IInv, VersionsBehind, Behind, ReadTrue, ShownTrue
<1>14. CASE ReadList
  BY <1>1, <1>14, ReadInv
<1>15. CASE ListArrives \/ ListFails
  BY <1>1, <1>15, ListInv
<1>16. CASE UNCHANGED vars
  BY <1>1, <1>16, CallsMove DEF vars
<1> QED BY <1>3, <1>4, <1>5, <1>6, <1>7, <1>8, <1>9, <1>10, <1>11, <1>12, <1>13, <1>14, <1>15, <1>16 DEF Next

-----------------------------------------------------------------------------
(* Every variable keeps its type, and a request for the list that was read *)
(* has an answer (queries.ts, followup-actions.ts).                        *)
THEOREM TypeCorrect == Spec => []TypeOK
<1>1. Init => TypeOK
  BY InitTypes
<1>2. TypeOK /\ [Next]_vars => TypeOK'
  BY TypeStep
<1> QED BY <1>1, <1>2, PTL DEF Spec

(* The refetch reconciles (followup-actions.ts:57): whatever was predicted,*)
(* refused, lost, put back or undone, and in whatever order the answers    *)
(* came, a list that nothing is under way for is the server's.             *)
THEOREM QuietListCorrect == Spec => []QuietListTrue
<1>1. Init => IInv
  BY InitInv
<1>2. IInv /\ [Next]_vars => IInv'
  BY InvStep
<1>3. IInv => QuietListTrue
  BY DEF IInv, ShownTrue, Agrees, QuietListTrue, Pending
<1> QED BY <1>1, <1>2, <1>3, PTL DEF Spec

(* The Undo of the toast never names another step than the slot holds      *)
(* (toast.ts:35, undo-slot.ts:15).                                         *)
THEOREM ToastCorrect == Spec => []ToastNamesSlot
<1>1. Init => ToastNamesSlot
  BY DEF Init, ToastNamesSlot
<1>2. ToastNamesSlot /\ [Next]_vars => ToastNamesSlot'
  <2> SUFFICES ASSUME ToastNamesSlot, [Next]_vars PROVE ToastNamesSlot'
    OBVIOUS
  <2>1. CASE UndoByKey \/ UndoFromToast \/ UndoInSheet
    BY <2>1 DEF UndoByKey, UndoFromToast, UndoInSheet, RunUndo, RetireUndoToast, ToastNamesSlot
  <2>2. CASE \E c \in CallId : Answer(c)
    BY <2>2 DEF Answer, RetireUndoToast, ToastNamesSlot
  <2>3. CASE DismissToast \/ \E c \in CallId : AnswerUndo(c)
    BY <2>3 DEF DismissToast, AnswerUndo, ToastNamesSlot
  <2>4. CASE UNCHANGED <<toast, slot>>
    BY <2>4 DEF ToastNamesSlot
  <2>5. \/ UndoByKey \/ UndoFromToast \/ UndoInSheet
        \/ \E c \in CallId : Answer(c)
        \/ DismissToast \/ \E c \in CallId : AnswerUndo(c)
        \/ UNCHANGED <<toast, slot>>
    <3>1. ASSUME NEW r \in Row, NEW a \in Action, PressInList(r, a) \/ PressInSheet(r, a)
          PROVE  UNCHANGED <<toast, slot>>
      BY <3>1 DEF PressInList, PressInSheet, Press
    <3>2. ASSUME NEW c \in CallId, ServerTakes(c) \/ ServerRefuses(c) \/ Lose(c)
          PROVE  UNCHANGED <<toast, slot>>
      BY <3>2 DEF ServerTakes, ServerRefuses, Lose
    <3>3. ASSUME NEW r \in Row, OpenSheet(r) \/ Activity(r) PROVE UNCHANGED <<toast, slot>>
      BY <3>3 DEF OpenSheet, Activity
    <3>4. ASSUME CloseSheet \/ Poll \/ ReadList \/ ListArrives \/ ListFails PROVE UNCHANGED <<toast, slot>>
      BY <3>4 DEF CloseSheet, Poll, ReadList, ListArrives, ListFails
    <3> QED BY <3>1, <3>2, <3>3, <3>4, ClientAssumption DEF Next, vars
  <2> QED BY <2>1, <2>2, <2>3, <2>4, <2>5
<1> QED BY <1>1, <1>2, PTL DEF Spec
=============================================================================
