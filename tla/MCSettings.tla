----------------------------- MODULE MCSettings -----------------------------
(* The tabs of the settings share nothing but the page, so a behaviour     *)
(* works on one of them.  A reader who types into the form for a           *)
(* destination leaves the rows above it alone, and one who has left a team *)
(* does not make the last of the edits.                                    *)
EXTENDS ReminderForm, DestinationPanel, TLC

VARIABLE tab

MCFolded == [r \in Repo |-> "a"]
MCFirstDays == {<<>>, [name \in {"a"} |-> "7"]}
MCSymmetry == Permutations(Item)

MCInit ==
  /\ tab \in {"schedule", "lists"} /\ FormInit /\ BoardInit
  /\ tab = "schedule" => board = "tokens" /\ fresh = Item
  /\ tab = "lists" => stored.teams = {} /\ stored.days = <<>>

RowsStill == toggle = Idle /\ removal = Idle /\ asking = {} /\ removing = {}

Schedule ==
  /\ tab = "schedule" /\ FormNext
  /\ edits' = MaxEdits => members' = Team
  /\ UNCHANGED <<tab, boardVars>>
Lists ==
  /\ tab = "lists" /\ BoardNext /\ (typed' = 0 \/ RowsStill')
  /\ UNCHANGED <<tab, formVars>>
MCNext == Schedule \/ Lists

MCSpec == MCInit /\ [][MCNext]_<<tab, formVars, boardVars>>
=============================================================================
