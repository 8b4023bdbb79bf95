-------------------------- MODULE DestinationPanel --------------------------
(***************************************************************************)
(* The two lists of the settings whose entries are removed after a         *)
(* question asked in place: the notification destinations, which are also  *)
(* added and switched on and off here, and the API tokens.  They are read  *)
(* and removed in the same way; board says which of them is open.          *)
(*                                                                         *)
(* A field of the form for a destination is "" or "ok", "bad" when its     *)
(* text fits no field, "private" for the address of a private host, and    *)
(* "plain" for one over http.                                              *)
(*                                                                         *)
(* Left out: the focus, what is announced, names, the confirm button       *)
(* pressed again while the removal it started is under way, a change that  *)
(* another tab makes, the form opened again before the answer to a save it *)
(* was closed on, the server's own checks of a destination (it may refuse  *)
(* any with a reason).                                                     *)
(***************************************************************************)
EXTENDS Integers, FiniteSets

CONSTANTS
  Item,           \* entries
  NoItem,         \* none of them
  Channel,        \* those of "telegram", "webhook" and "email" on offer
  AllowPrivate,   \* the server accepts private hosts and plain http
  MaxTyped,       \* bound of the fields typed into
  MaxFaults       \* bound of the requests that fail

ASSUME BoardAssumption ==
  /\ Item # {} /\ NoItem \notin Item
  /\ Channel # {} /\ Channel \subseteq {"telegram", "webhook", "email"}
  /\ AllowPrivate \in BOOLEAN /\ MaxTyped \in Nat /\ MaxFaults \in Nat

VARIABLES
  board,          \* "destinations" or "tokens"
  held,           \* on the server, per entry: "none", "on" or "off"
  fresh,          \* entries that never existed
  \* the query client
  listed,         \* the list on the screen, or NoList
  listing,        \* its request: "none", "sent" or "read"
  listAnswer,     \* what the server read for it, or NoList
  listError,
  \* mutations: what the panel tracks of the last one, and those under way
  toggle, removal, removing,
  untold,         \* entries whose change failed where nothing says so
  asking,         \* entries that ask whether to remove them
  \* the form
  formOpen, channel, draft, errors,
  adding,         \* "idle", "pending", "left" (the form was closed), "refused" or "error"
  typed, boardFaults

lists == <<listed, listing, listAnswer, listError>>
form == <<formOpen, channel, draft, errors, adding, typed>>
boardVars == <<board, held, fresh, lists, toggle, removal, removing, untold, asking, form, boardFaults>>

NoList == <<>>
Field == {"name", "token", "chat_id", "url", "host", "port", "from", "to"}
EmptyDraft == [f \in Field |-> IF f = "port" THEN "ok" ELSE ""]
Idle == [st |-> "idle", item |-> NoItem]
Failed == [st |-> "error", item |-> NoItem]
FieldsOf(c) ==
  {"name"} \cup CASE c = "telegram" -> {"token", "chat_id"}
                  [] c = "webhook" -> {"url"}
                  [] OTHER -> {"host", "port", "from", "to"}
Typable(f) ==
  {"", "ok", "bad"} \cup CASE f = "url" -> {"private", "plain"}
                           [] f = "host" -> {"private"}
                           [] OTHER -> {}

----------------------------------------------------------------------------
(* draftErrors: the fields of the channel that the server would refuse.    *)
(* Only an address may be private, and only the port may stay empty.       *)
DraftErrors ==
  {f \in FieldsOf(channel) :
     ~ \/ draft[f] = "ok"
       \/ draft[f] \in {"private", "plain"} /\ AllowPrivate
       \/ f = "port" /\ draft[f] = ""}

(* What stands in the rows, and which of them can be pressed.              *)
Loaded == listed # NoList
Shown == IF Loaded THEN {i \in Item : listed[i] # "none"} ELSE {}
AddOffered == board = "destinations" /\ Loaded /\ ~formOpen

(* A change of the list makes it be read again; a request that has data on *)
(* the screen is dropped for the new one.                                  *)
InvalidateJoining ==
  /\ listing' = IF listing = "none" THEN "sent" ELSE listing
  /\ listAnswer' = IF listing = "none" THEN NoList ELSE listAnswer
  /\ UNCHANGED <<listed, listError>>
Invalidate ==
  /\ listing' = IF listing = "none" \/ Loaded THEN "sent" ELSE listing
  /\ listAnswer' = IF listing = "none" \/ Loaded THEN NoList ELSE listAnswer
  /\ UNCHANGED <<listed, listError>>

BoardInit ==
  /\ board \in {"destinations", "tokens"}
  /\ \E some \in SUBSET Item : held = [i \in Item |-> IF i \in some THEN "on" ELSE "none"] /\ fresh = Item \ some
  /\ listed = NoList /\ listing = "sent" /\ listAnswer = NoList /\ listError = FALSE
  /\ toggle = Idle /\ removal = Idle /\ removing = {} /\ untold = {} /\ asking = {}
  /\ formOpen = FALSE /\ channel = CHOOSE c \in Channel : TRUE
  /\ draft = EmptyDraft /\ errors = {} /\ adding = "idle" /\ typed = 0 /\ boardFaults = 0

Fault == boardFaults < MaxFaults /\ boardFaults' = boardFaults + 1

----------------------------------------------------------------------------
(* The list is read when the panel opens, on the way back to the window,   *)
(* and when the reader asks after a failure.                               *)
ListAsked ==
  /\ listing = "none" /\ listing' = "sent" /\ listAnswer' = NoList
  /\ UNCHANGED <<board, held, fresh, listed, listError, toggle, removal, removing, untold, asking, form, boardFaults>>

ListRead ==
  /\ listing = "sent" /\ listing' = "read" /\ listAnswer' = held
  /\ UNCHANGED <<board, held, fresh, listed, listError, toggle, removal, removing, untold, asking, form, boardFaults>>

ListArrives ==
  /\ listing = "read" /\ listing' = "none" /\ listAnswer' = NoList
  /\ listed' = listAnswer /\ listError' = FALSE
  \* a row that is gone takes its question with it
  /\ asking' = {i \in asking : listAnswer[i] # "none"}
  /\ untold' = {i \in untold : listAnswer[i] # held[i]}
  /\ UNCHANGED <<board, held, fresh, toggle, removal, removing, form, boardFaults>>

ListFails ==
  /\ listing # "none" /\ Fault
  /\ listing' = "none" /\ listAnswer' = NoList /\ listError' = TRUE
  /\ UNCHANGED <<board, held, fresh, listed, toggle, removal, removing, untold, asking, form>>

----------------------------------------------------------------------------
(* A destination is switched on or off, one at a time: what is sent is the *)
(* opposite of what the row says.                                          *)
Toggle(i) ==
  /\ board = "destinations" /\ i \in Shown /\ toggle.st \in {"idle", "error"}
  /\ toggle' = [st |-> IF listed[i] = "on" THEN "off" ELSE "on", item |-> i]
  /\ UNCHANGED <<board, held, fresh, lists, removal, removing, untold, asking, form, boardFaults>>

ToggleAccepted ==
  /\ toggle.st \in {"on", "off"} /\ held[toggle.item] # "none"
  /\ held' = [held EXCEPT ![toggle.item] = toggle.st]
  /\ toggle' = Idle /\ Invalidate
  /\ UNCHANGED <<board, fresh, removal, removing, untold, asking, form, boardFaults>>

(* The request fails, or its answer is lost; a row that is gone is not     *)
(* found.                                                                  *)
ToggleFails ==
  /\ toggle.st \in {"on", "off"}
  /\ IF held[toggle.item] = "none" THEN UNCHANGED <<held, boardFaults>>
     ELSE Fault /\ held' \in {held, [held EXCEPT ![toggle.item] = toggle.st]}
  /\ toggle' = Failed
  /\ UNCHANGED <<board, fresh, lists, removal, removing, untold, asking, form>>

----------------------------------------------------------------------------
(* ConfirmInline.  A removal that succeeds takes every question back.      *)
Ask(i) ==
  /\ i \in Shown \ asking /\ asking' = asking \cup {i}
  /\ UNCHANGED <<board, held, fresh, lists, toggle, removal, removing, untold, form, boardFaults>>

Cancel(i) ==
  /\ i \in asking /\ asking' = asking \ {i}
  /\ UNCHANGED <<board, held, fresh, lists, toggle, removal, removing, untold, form, boardFaults>>

Confirmed(i) ==
  /\ i \in Shown \cap asking /\ i \notin removing
  /\ removing' = removing \cup {i} /\ removal' = [st |-> "pending", item |-> i]
  /\ UNCHANGED <<board, held, fresh, lists, toggle, untold, asking, form, boardFaults>>

RemoveDestination(i) == board = "destinations" /\ Confirmed(i)
RevokeToken(i) == board = "tokens" /\ Confirmed(i)

Tracked(i) == removal.item = i

RemovalAccepted(i) ==
  /\ i \in removing /\ held[i] # "none"
  /\ held' = [held EXCEPT ![i] = "none"] /\ removing' = removing \ {i}
  /\ removal' = IF Tracked(i) THEN Idle ELSE removal
  /\ asking' = {} /\ Invalidate
  /\ UNCHANGED <<board, fresh, toggle, untold, form, boardFaults>>

(* Only the failure of the removal that the panel tracks is shown.         *)
RemovalFails(i) ==
  /\ i \in removing /\ removing' = removing \ {i}
  /\ IF held[i] = "none" THEN UNCHANGED <<held, boardFaults>>
     ELSE Fault /\ held' \in {held, [held EXCEPT ![i] = "none"]}
  /\ removal' = IF Tracked(i) THEN Failed ELSE removal
  /\ untold' = IF Tracked(i) THEN untold ELSE untold \cup {i}
  /\ UNCHANGED <<board, fresh, lists, toggle, asking, form>>

----------------------------------------------------------------------------
(* The form for a new destination keeps its draft while it is open.        *)
OpenForm ==
  /\ AddOffered /\ adding # "left" /\ formOpen' = TRUE
  /\ UNCHANGED <<board, held, fresh, lists, toggle, removal, removing, untold, asking, channel, draft, errors,
                 adding, typed, boardFaults>>

CloseForm ==
  /\ formOpen /\ formOpen' = FALSE
  /\ channel' = (CHOOSE c \in Channel : TRUE) /\ draft' = EmptyDraft /\ errors' = {}
  /\ adding' = IF adding = "pending" THEN "left" ELSE "idle"
  /\ UNCHANGED <<board, held, fresh, lists, toggle, removal, removing, untold, asking, typed, boardFaults>>

(* Typing into a field takes its error away; a field that keeps its error  *)
(* keeps it until the next save.  A failed save is forgotten.              *)
Type(f) ==
  /\ formOpen /\ f \in FieldsOf(channel) /\ typed < MaxTyped /\ typed' = typed + 1
  /\ \E v \in Typable(f) \ {draft[f]} : draft' = [draft EXCEPT ![f] = v]
  /\ errors' = errors \ {f}
  /\ adding' = IF adding = "pending" THEN adding ELSE "idle"
  /\ UNCHANGED <<board, held, fresh, lists, toggle, removal, removing, untold, asking, formOpen, channel, boardFaults>>

(* Another channel keeps the name and empties the rest.                    *)
ErrorsKept == errors
ErrorsOfNewChannel == {}
ChooseChannel ==
  /\ formOpen /\ channel' \in Channel \ {channel}
  /\ draft' = [EmptyDraft EXCEPT !["name"] = draft["name"]]
  /\ errors' = ErrorsOfNewChannel
  /\ adding' = IF adding = "pending" THEN adding ELSE "idle"
  /\ UNCHANGED <<board, held, fresh, lists, toggle, removal, removing, untold, asking, formOpen, typed, boardFaults>>

Add ==
  /\ formOpen /\ adding # "pending"
  /\ errors' = DraftErrors
  /\ adding' = IF DraftErrors = {} THEN "pending" ELSE adding
  /\ UNCHANGED <<board, held, fresh, lists, toggle, removal, removing, untold, asking, formOpen, channel, draft,
                 typed, boardFaults>>

(* The destination exists; the draft is emptied, whatever was typed since. *)
AddAccepted ==
  /\ adding \in {"pending", "left"}
  /\ \E i \in fresh : held' = [held EXCEPT ![i] = "on"] /\ fresh' = fresh \ {i}
  /\ adding' = "idle" /\ draft' = EmptyDraft /\ Invalidate
  /\ UNCHANGED <<board, toggle, removal, removing, untold, asking, formOpen, channel, errors, typed, boardFaults>>

(* It is refused with a reason, or the request or its answer is lost.  The *)
(* form shows the failure until it is changed or closed.                   *)
AddFails ==
  /\ adding \in {"pending", "left"} /\ Fault
  /\ \/ UNCHANGED <<held, fresh, untold>>
     \/ \E i \in fresh : held' = [held EXCEPT ![i] = "on"] /\ fresh' = fresh \ {i} /\ untold' = untold \cup {i}
  /\ adding' \in IF adding = "left" THEN {"idle"} ELSE IF held' = held THEN {"refused", "error"} ELSE {"error"}
  /\ UNCHANGED <<board, lists, toggle, removal, removing, asking, formOpen, channel, draft, errors, typed>>

BoardNext ==
  \/ ListAsked \/ ListRead \/ ListArrives \/ ListFails
  \/ ToggleAccepted \/ ToggleFails
  \/ \E i \in Item : \/ Toggle(i) \/ Ask(i) \/ Cancel(i) \/ RemoveDestination(i) \/ RevokeToken(i)
                     \/ RemovalAccepted(i) \/ RemovalFails(i)
  \/ OpenForm \/ CloseForm \/ \E f \in Field : Type(f)
  \/ ChooseChannel \/ Add \/ AddAccepted \/ AddFails

BoardSpec == BoardInit /\ [][BoardNext]_boardVars

----------------------------------------------------------------------------
(* The values each variable takes; in particular an error stands only at a *)
(* field that the channel of the form has, and only a row on the screen    *)
(* asks to be confirmed.                                                   *)
BoardTypeOK ==
  /\ board \in {"destinations", "tokens"}
  /\ held \in [Item -> {"none", "on", "off"}] /\ fresh \subseteq Item
  /\ listed = NoList \/ listed \in [Item -> {"none", "on", "off"}]
  /\ listing \in {"none", "sent", "read"} /\ listError \in BOOLEAN
  /\ (listing = "read") = (listAnswer # NoList)
  /\ toggle.st \in {"idle", "on", "off", "error"} /\ removal.st \in {"idle", "pending", "error"}
  /\ removing \subseteq Item /\ untold \subseteq Item /\ asking \subseteq Shown
  /\ formOpen \in BOOLEAN /\ channel \in Channel /\ errors \subseteq FieldsOf(channel)
  /\ adding \in {"idle", "pending", "left", "refused", "error"}
  /\ typed \in 0 .. MaxTyped /\ boardFaults \in 0 .. MaxFaults

(* The lists of the settings: once nothing is under way, a row says what   *)
(* the server holds, or the panel says that something failed.  The         *)
(* exceptions are a removal that failed while a later one was tracked, and *)
(* a destination that was added although the answer was lost.              *)
RowsTrueOrTold ==
  (Loaded /\ listing = "none" /\ toggle.st \notin {"on", "off"} /\ removing = {} /\ adding \notin {"pending", "left"}) =>
     \/ listError \/ toggle.st = "error" \/ removal.st = "error"
     \/ \A i \in Item : listed[i] = held[i] \/ i \in untold
=============================================================================
