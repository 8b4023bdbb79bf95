----------------------------- MODULE InboxPage ------------------------------
(***************************************************************************)
(* The Inbox page: the filters of its address, the order in which rows are *)
(* held still, the keyboard cursor, the focus, and the pane that follows.  *)
(* An action is an event and the render after it with its effects, which   *)
(* run in the order of the source; the timers, and the render that an      *)
(* effect asks for itself, are steps of their own.                         *)
(*                                                                         *)
(* What a row says is a member of Fact.  tones are those of its reasons: a *)
(* reason derived from GitHub facts is one of tone "blocked".  words are   *)
(* what a search finds it by.  muted follows from its reminder and the     *)
(* clock at the render.                                                    *)
(*                                                                         *)
(* Left out: what the verbs of a row do (FollowUpClient), scrolling, what  *)
(* is announced, and that a row which leaves stays for its animation.      *)
(***************************************************************************)
EXTENDS Integers, Sequences, FiniteSets, Selections

CONSTANTS
  MaxItem,        \* rows are 1 .. MaxItem
  Fact,           \* what the list may say of each of them, a function to sets
  Link,           \* the addresses that a link, a notification or Back opens
  Roles, Statuses, Words,  \* what the controls of the page may choose
  MaxChanges,     \* bound of the changes of the list
  MaxFilters      \* bound of the changes of the address

Item == 1 .. MaxItem
NoItem == 0
NoFact == <<>>
\* Where the focus may be but on a row: the list, another control, nowhere.
List == -1
Out == -2
Body == -3

States == {"action", "follow_up", "waiting", "draft", "archived"}
IsFact(f) == f.state \in States /\ f.muted \in BOOLEAN /\ f.since \in Int

ASSUME InboxAssumption ==
  /\ MaxItem \in Nat /\ MaxChanges \in Nat /\ MaxFilters \in Nat
  /\ DOMAIN Fact = Item
  /\ \A i \in Item : \A f \in Fact[i] : f # NoFact /\ IsFact(f)

VARIABLES
  query,          \* "pending", "error" or "ok"
  data,           \* per row what the list says of it, or NoFact
  filter,         \* the parameters of the address
  order,          \* the rows known under the filters, in the order they are held in
  items,          \* those of them that are listed
  mutedOpen,      \* the disclosure of the muted rows
  opening,        \* an effect has asked to open it, and no render has come since
  cursor, paneId,
  focus,          \* a row, List, Out or Body
  focusedRow,     \* the row that the page believes to hold the focus
  arrived,        \* the row of the last link that was arrived at
  changes, filters

inboxVars == <<query, data, filter, order, items, mutedOpen, opening, cursor, paneId, focus,
               focusedRow, arrived, changes, filters>>

----------------------------------------------------------------------------
(* followup-view.ts.                                                       *)
GroupOf(f) == IF f.state = "waiting" /\ f.muted THEN "muted" ELSE f.state
GroupRank == [action |-> 1, follow_up |-> 2, muted |-> 3, waiting |-> 4, draft |-> 5, archived |-> 6]
MatchesStatus(f, status) ==
  CASE status = "todo" -> f.state \in {"action", "follow_up"}
    [] status = "all" -> f.state # "archived"
    [] status = "muted" -> f.muted
    [] OTHER -> f.state = status
MatchesReady(f) == f.ready /\ f.role = "authored" /\ f.state # "archived" /\ ~f.muted

(* The filters of the address.                                             *)
Default == [role |-> "all", status |-> "todo", repo |-> "", merged |-> "", tone |-> "", ready |-> "", q |-> "",
            focus |-> NoItem]
Linked == {"focus", "merged", "tone", "ready"}
Without(v, keys) == [k \in DOMAIN v |-> IF k \in keys THEN Default[k] ELSE v[k]]
Key(v) == Without(v, {"focus"})
Narrowed(v) == Without(v, {"focus", "status"}) # Default \/ v.status \notin {"todo", "all"}

Matches(f, v) ==
  /\ v.role \in {"all", f.role} /\ v.repo \in {"", f.repo}
  /\ MatchesStatus(f, v.status)
  /\ v.merged = "" \/ f.merged
  /\ v.tone \in {""} \cup f.tones
  /\ v.ready = "" \/ MatchesReady(f)
  /\ v.q \in {""} \cup f.words

----------------------------------------------------------------------------
(* The rows of the list: oldest first at first, then held where they are,  *)
(* with new ones at the end.                                               *)
Older(rows, d) ==
  {p \in rows \X rows : \/ d[p[1]].since < d[p[2]].since
                        \/ d[p[1]].since = d[p[2]].since /\ p[1] < p[2]}
Filtered(d, v) ==
  LET rows == {i \in Item : d[i] # NoFact /\ Matches(d[i], v)} IN Ranked(rows, Older(rows, d))

SortedAnew(rows, held) == rows
StableOrder(rows, held) == Among(held, ToSet(rows)) \o Apart(rows, ToSet(held))

Adopt(rows, held) == IF held = <<>> THEN rows ELSE held \o Apart(rows, ToSet(held))

(* The rows that are drawn, and the order the cursor walks them in: group  *)
(* after group, and as they are listed within one.                         *)
Visible == {i \in ToSet(items) : mutedOpen \/ GroupOf(data[i]) # "muted"}
Place(i) == CHOOSE n \in DOMAIN items : items[n] = i
Rank(i) == GroupRank[GroupOf(data[i])]
Above ==
  {p \in Visible \X Visible : \/ Rank(p[1]) < Rank(p[2])
                              \/ Rank(p[1]) = Rank(p[2]) /\ Place(p[1]) < Place(p[2])}
Walk == Ranked(Visible, Above)

(* What the page shows in the list's place.                                *)
Screen ==
  CASE query = "pending" -> "loading"
    [] query = "error" -> "unavailable"
    [] query = "ok" /\ items # <<>> -> "rows"
    [] OTHER -> IF Narrowed(filter) THEN "no results" ELSE "caught up"

----------------------------------------------------------------------------
(* The effects of a render, after an event that leaves the focus at "at",  *)
(* asks for the cursor "wanted" and notes the focus as "noted".            *)
PaneKept(c) == IF paneId = NoItem THEN c ELSE paneId
PaneFollows(c) == IF c = NoItem \/ paneId = NoItem THEN c ELSE paneId

Successor(held) ==
  LET at == IF Contains(items, held) THEN Place(held) ELSE 1 IN
  IF items' = <<>> THEN NoItem ELSE items'[IF at > Len(items') THEN Len(items') ELSE at]

(* The element that holds the focus is still there: a row that changes its *)
(* group is drawn anew.                                                    *)
FocusStands(at) ==
  CASE at \in Item -> at \in Visible' /\ Contains(items, at) /\ GroupOf(data'[at]) = GroupOf(data[at])
    [] at = List -> items' # <<>>
    [] OTHER -> TRUE

(* A row inside a closed disclosure takes no focus and is not arrived at.  *)
Reach(i) == mutedOpen' \/ GroupOf(data'[i]) # "muted"

(* What the arrival at the row of a link waits for.                        *)
AddressOrRows == filter'.focus # filter.focus \/ items' # items
ArrivalRuns == filter'.focus # filter.focus \/ items' # items \/ mutedOpen' # mutedOpen

(* The disclosure is open after the render if "open".                      *)
Render(at, wanted, noted, open) ==
  LET kept == IF Key(filter') # Key(filter) THEN NoItem ELSE wanted
      held == IF at = Out THEN NoItem ELSE noted
      lost == held # NoItem /\ ~Contains(items', held)
      next == Successor(held)
      goal == filter'.focus
      due == goal # NoItem /\ goal # arrived /\ Contains(items', goal) /\ ArrivalRuns
      arrives == due /\ Reach(goal)
  IN
  /\ \E rows \in {Filtered(data', filter')} :
       /\ order' = Adopt(rows, IF Key(filter') # Key(filter) THEN <<>> ELSE order)
       /\ items' = StableOrder(rows, order')
  /\ mutedOpen' = open
  /\ focusedRow' = IF lost THEN next ELSE held
  /\ focus' = IF lost THEN IF next # NoItem /\ Reach(next) THEN next ELSE Body
              ELSE IF FocusStands(at) THEN at ELSE Body
  /\ opening' = (due /\ ~Reach(goal))
  /\ arrived' = IF arrives THEN goal ELSE arrived
  /\ cursor' = IF arrives THEN goal ELSE IF lost THEN next ELSE kept
  /\ paneId' = PaneFollows(cursor')

(* A render takes along what was asked for before it.                      *)
OpenNow == mutedOpen \/ opening

----------------------------------------------------------------------------
InboxInit ==
  /\ query = "pending" /\ data = [i \in Item |-> NoFact]
  /\ filter \in Link /\ order = <<>> /\ items = <<>> /\ mutedOpen = FALSE /\ opening = FALSE
  /\ cursor = NoItem /\ paneId = NoItem
  /\ focus = Body /\ focusedRow = NoItem /\ arrived = NoItem
  /\ changes = 0 /\ filters = 0

(* The list changes: an answer arrives, an action is predicted or taken    *)
(* back, a reminder is over.  A claim lasts until the row is seen read.    *)
ListChanges(d) ==
  /\ changes < MaxChanges /\ changes' = changes + 1
  /\ d # data \/ query # "ok"
  /\ data' = d /\ query' = "ok"
  /\ UNCHANGED <<filter, filters>>
  /\ Render(focus, cursor, focusedRow, OpenNow)

(* Without a list there is an error in its place; a list stays, and says   *)
(* that it is old.                                                         *)
ListFails ==
  /\ query = "pending" /\ query' = "error"
  /\ UNCHANGED <<data, filter, order, items, mutedOpen, opening, cursor, paneId, focus, focusedRow, arrived,
                 changes, filters>>

(* The render that the arrival asked for.                                  *)
Opens ==
  /\ opening /\ UNCHANGED <<query, data, filter, changes, filters>>
  /\ Render(focus, cursor, focusedRow, OpenNow)

(* The address changes.                                                    *)
Goes(v, at) ==
  /\ filters < MaxFilters /\ filters' = filters + 1
  /\ v # filter /\ filter' = v
  /\ UNCHANGED data
  /\ Render(at, cursor, IF at = Out THEN NoItem ELSE focusedRow, OpenNow)
  /\ UNCHANGED <<query, changes>>

Change(key, value, at) == Goes([Without(filter, Linked) EXCEPT ![key] = value], at)
ChooseRole(value) == Change("role", value, Out)
ChooseStatus(value) == Change("status", value, Out)
ChooseRepo(i) == i \in Visible /\ Change("repo", data[i].repo, focus)
ClearChip(key) == filter[key] # "" /\ Goes(Without(filter, {key}), Out)
Search(word) == Goes([Without(filter, {"focus"}) EXCEPT !.q = word], Out)
ShowAll == Screen = "no results" /\ Goes([Default EXCEPT !.status = "all"], Out)
FollowLink(v) == \E at \in {focus, Out} : Goes(v, at)

----------------------------------------------------------------------------
(* The reader moves.  Nothing of this changes the rows.                    *)
Still == UNCHANGED <<query, data, filter, order, items, opening, arrived, changes, filters>>
Cursor(i) == cursor' = i /\ paneId' = PaneFollows(i)

FocusRow(i) ==
  /\ i \in Visible /\ focus # i
  /\ focus' = i /\ focusedRow' = i /\ Cursor(i)
  /\ Still /\ UNCHANGED <<mutedOpen>>

FocusElsewhere(at) ==
  /\ focus # at /\ focus' = at
  /\ Still /\ UNCHANGED <<mutedOpen, cursor, paneId, focusedRow>>

(* j and k.                                                                *)
MoveTo(step) ==
  /\ Screen = "rows"
  /\ \E walk \in {Walk} :
       LET at == IF Contains(walk, cursor) THEN CHOOSE n \in DOMAIN walk : walk[n] = cursor ELSE 0
           to == IF at + step < 1 THEN 1 ELSE IF at + step > Len(walk) THEN Len(walk) ELSE at + step
       IN walk # <<>> /\ focus' = walk[to] /\ focusedRow' = walk[to] /\ Cursor(walk[to])
  /\ Still /\ UNCHANGED <<mutedOpen>>

Escape ==
  /\ cursor # NoItem /\ Cursor(NoItem)
  /\ Still /\ UNCHANGED <<mutedOpen, focus, focusedRow>>

(* The reader opens or closes the disclosure.                              *)
ToggleMuted ==
  /\ Screen = "rows" /\ (\E i \in ToSet(items) : GroupOf(data[i]) = "muted")
  /\ UNCHANGED <<query, data, filter, changes, filters>>
  /\ Render(List, cursor, NoItem, ~mutedOpen)

(* Enter, a click on the row, Show activity, or the newer version of a row *)
(* that changed under its reader.  On a screen without the pane it opens   *)
(* the sheet, which leaves the list as it is.                              *)
OpenItem(i) ==
  /\ Screen = "rows" /\ i \in Visible /\ cursor # i /\ Cursor(i)
  /\ Still /\ UNCHANGED <<mutedOpen, focus, focusedRow>>

(* A timer: walking the list does not load every row on the way.           *)
PaneCatchesUp ==
  /\ cursor # NoItem /\ paneId # cursor /\ paneId' = cursor
  /\ Still /\ UNCHANGED <<mutedOpen, cursor, focus, focusedRow>>

Lists == {d \in [Item -> (UNION {Fact[i] : i \in Item}) \cup {NoFact}] : \A i \in Item : d[i] \in Fact[i] \cup {NoFact}}

InboxNext ==
  \/ \E d \in Lists : ListChanges(d)
  \/ ListFails \/ Opens
  \/ \E r \in Roles : ChooseRole(r)
  \/ \E s \in Statuses : ChooseStatus(s)
  \/ \E k \in {"repo", "merged", "tone", "ready"} : ClearChip(k)
  \/ \E w \in Words : Search(w)
  \/ ShowAll
  \/ \E v \in Link : FollowLink(v)
  \/ \E i \in Item : ChooseRepo(i) \/ FocusRow(i) \/ OpenItem(i)
  \/ \E at \in {Out, Body} : FocusElsewhere(at)
  \/ MoveTo(1) \/ MoveTo(-1) \/ Escape \/ ToggleMuted \/ PaneCatchesUp

InboxSpec == InboxInit /\ [][InboxNext]_inboxVars

----------------------------------------------------------------------------
(* The values of the variables; a row that is believed to hold the focus   *)
(* is listed, the focus is on a row that can be seen, and a pane without a *)
(* cursor shows its prompt.                                                *)
InboxTypeOK ==
  /\ query \in {"pending", "error", "ok"} /\ data \in Lists
  /\ IsInjective(order) /\ ToSet(order) \subseteq Item /\ {mutedOpen, opening} \subseteq BOOLEAN
  /\ {cursor, arrived} \subseteq Item \cup {NoItem}
  /\ focusedRow = NoItem \/ Contains(items, focusedRow)
  /\ focus \in Item => focus \in Visible
  /\ paneId # NoItem => cursor # NoItem
  /\ changes \in 0 .. MaxChanges /\ filters \in 0 .. MaxFilters

Precedes(rows, i, j) == \E m, n \in DOMAIN rows : m < n /\ rows[m] = i /\ rows[n] = j

(* InboxPage.tsx, the frozen order: while the filters stay, no two rows    *)
(* change places, however often the answer of the server is sorted anew.   *)
OrderHeld ==
  [][Key(filter') = Key(filter) =>
       \A i, j \in Item : Precedes(items, i, j) => ~Precedes(items', j, i)]_inboxVars

(* Arriving from a link: "open it first and arrive once it is open".  A    *)
(* listed row that the address asks for has been arrived at, or its        *)
(* disclosure is about to open; whatever lists, addresses and clicks come  *)
(* between the two, no row waits for an event that may not come.           *)
LinkAwaited ==
  filter.focus # NoItem /\ Contains(items, filter.focus) =>
    arrived = filter.focus \/ (opening /\ ~mutedOpen)

(* InboxPage.tsx: "When the row that held focus leaves the list, focus     *)
(* moves to the row that took its index, or to the list itself when none   *)
(* is left".                                                               *)
FocusRescued ==
  [][(focus \in Item /\ filter' = filter /\ ~Contains(items', focus)) => focus' # Body]_inboxVars
=============================================================================
