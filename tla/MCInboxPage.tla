---------------------------- MODULE MCInboxPage -----------------------------
(* Three rows: one that is to be done and may turn waiting, one that may   *)
(* be muted, one that may be merged.                                       *)
EXTENDS InboxPage

F(state, muted, unread, since) ==
  [state |-> state, muted |-> muted, unread |-> unread, since |-> since, role |-> "authored", repo |-> "x",
   tones |-> IF state = "action" THEN {"action"} ELSE {"waiting"}, words |-> {"w"}, ready |-> FALSE,
   merged |-> FALSE]

MCFact ==
  << {F("action", FALSE, TRUE, 2), F("waiting", FALSE, FALSE, 3)},
     {F("waiting", TRUE, FALSE, 1), F("waiting", FALSE, FALSE, 4)},
     {[F("follow_up", FALSE, TRUE, 3) EXCEPT !.role = "reviewer", !.tones = {"blocked"}],
      [F("archived", FALSE, FALSE, 3) EXCEPT !.merged = TRUE, !.ready = TRUE]} >>
MCLink == {[Default EXCEPT !.focus = 1], [Default EXCEPT !.status = "all", !.focus = 2],
           [Default EXCEPT !.status = "archived", !.merged = "1"], [Default EXCEPT !.status = "all", !.tone = "action"]}
=============================================================================
