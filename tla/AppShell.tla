------------------------------ MODULE AppShell ------------------------------
(***************************************************************************)
(* The frame of the web application: the address and what it is rewritten  *)
(* to, what is shown for a session, the navigation, the detail sheet, the  *)
(* command palette, and the keys with their sequences.                     *)
(*                                                                         *)
(* An address is a path and the set of its parameters.  A key press runs   *)
(* every listener on the window, in the order they were registered, as one *)
(* step.  Ages are counted in units of the window of a sequence.           *)
(*                                                                         *)
(* Left out: the pages themselves, how results are matched and drawn, the  *)
(* theme and the language.                                                 *)
(***************************************************************************)
EXTENDS Integers, Sequences, FiniteSets, Selections

CONSTANTS
  Link,           \* the addresses that are opened from outside
  Queries,        \* what may be typed into the palette: the entries it finds
  MaxVisits       \* bound of the changes of the address

To(path, keys) == [path |-> path, keys |-> keys]
IsAddress(a) == a = To(a.path, a.keys)

ASSUME ShellAssumption == (\A a \in Link : IsAddress(a)) /\ MaxVisits \in Nat

VARIABLES
  addr, asked,    \* the address, and the one that was opened
  redirects,      \* how often it was rewritten since
  visits,
  session,        \* useAuth: "checking", "failed", "in", "out"
  visited,        \* per destination the address it was last left at
  sheet,          \* the path that the open detail sheet belongs to, or ""
  palette, shortcuts,  \* the two overlays
  found, chosen,  \* the palette: what the query finds, what is selected
  dueListed, syncing,  \* whether a follow-up can be found, a run is in flight
  singleKeys,     \* the switch of the character keys
  hearing,        \* the listeners in the order of their registration
  buffer,         \* the age of a g that may be continued, or Closed
  opened,         \* shortcuts.ts: sequenceOpenedAt, as an age
  acted           \* what the last key press did

addrVars == <<addr, asked, redirects, visits, visited, sheet>>
paletteVars == <<palette, shortcuts, found, chosen>>
keyVars == <<singleKeys, hearing, buffer, opened, acted>>
shellVars == <<addrVars, session, paletteVars, dueListed, syncing, keyVars>>

----------------------------------------------------------------------------
(* routes.ts.                                                              *)
Canonical == [inbox |-> "/inbox", prs |-> "/prs", repos |-> "/repos", insights |-> "/insights",
              settings |-> "/settings", about |-> "/about"]
Destination == DOMAIN Canonical
Nowhere == "nowhere"
PRView == {"/prs", "/prs/blocked"}
DestinationOf(path) ==
  IF path \in PRView THEN "prs"
  ELSE IF \E d \in Destination : Canonical[d] = path THEN CHOOSE d \in Destination : Canonical[d] = path ELSE Nowhere

OverviewParams == {"year", "visibility", "repo"}
Legacy == [p \in {"/attention", "/pull-requests", "/repositories", "/blocked", "/prs/open"} |->
             CASE p = "/attention" -> "/inbox" [] p = "/repositories" -> "/repos"
               [] p = "/blocked" -> "/prs/blocked" [] OTHER -> "/prs"]

(* Where an address belongs; a canonical one stays.                        *)
LegacyDropped(a) == IF DestinationOf(a.path) = Nowhere THEN To("/inbox", {}) ELSE a
LegacyRedirect(a) ==
  CASE a.path = "/settings" -> To(a.path, a.keys \ {"tab=schedule"})
    [] a.path = "/" -> To(IF a.keys \cap OverviewParams # {} THEN "/insights" ELSE "/inbox", a.keys)
    [] a.path \in DOMAIN Legacy -> To(Legacy[a.path], a.keys)
    [] OTHER -> IF DestinationOf(a.path) = Nowhere THEN To("/inbox", {}) ELSE a

AddressSettled == LegacyRedirect(addr) = addr

(* What is on the screen: every page but About needs a session.            *)
Screen ==
  CASE ~AddressSettled -> "nothing"
    [] AddressSettled /\ addr.path = "/about" -> "about"
    [] OTHER -> CASE session = "checking" -> "skeleton" [] session = "failed" -> "unavailable"
                  [] session = "out" -> "welcome" [] session = "in" -> DestinationOf(addr.path)

----------------------------------------------------------------------------
(* Every change of the path closes the detail sheet; where each            *)
(* destination was left is noted when it is drawn.                         *)
KeepsSheet(path) == sheet
ClosesSheet(path) == IF path = addr.path THEN sheet ELSE ""

Visit(a) ==
  /\ visits < MaxVisits /\ visits' = visits + 1
  /\ addr' = a /\ asked' = a /\ redirects' = 0 /\ sheet' = ClosesSheet(a.path)
  /\ visited' = IF LegacyRedirect(a) = a THEN [visited EXCEPT ![DestinationOf(a.path)] = a] ELSE visited

(* It is rewritten before anything renders under it.                       *)
Navigate ==
  /\ ~AddressSettled /\ addr' = LegacyRedirect(addr) /\ redirects' = redirects + 1
  /\ sheet' = ClosesSheet(addr'.path)
  /\ visited' = IF LegacyRedirect(addr') = addr' THEN [visited EXCEPT ![DestinationOf(addr'.path)] = addr'] ELSE visited
  /\ UNCHANGED <<asked, visits, session, paletteVars, dueListed, syncing, keyVars>>

OpenLink(a) == Visit(a) /\ UNCHANGED <<session, paletteVars, dueListed, syncing, keyVars>>

Dialog == palette \/ shortcuts \/ sheet # ""

(* The navigation returns to where its destination was last left.          *)
FollowNav(d) ==
  /\ AddressSettled /\ session # "out" /\ ~Dialog
  /\ Visit(visited[d]) /\ UNCHANGED <<session, paletteVars, dueListed, syncing, keyVars>>

(* The session check answers, fails, is asked again.                       *)
SessionAnswers(s) ==
  /\ session \in {"checking", "failed"} /\ session' = s
  /\ UNCHANGED <<addrVars, paletteVars, dueListed, syncing, keyVars>>

OpenSheet ==
  /\ Screen \in {"inbox", "prs"} /\ ~Dialog /\ sheet' = addr.path
  /\ UNCHANGED <<addr, asked, redirects, visits, visited, session, paletteVars, dueListed, syncing, keyVars>>
CloseSheet ==
  /\ sheet # "" /\ ~palette /\ sheet' = ""
  /\ UNCHANGED <<addr, asked, redirects, visits, visited, session, paletteVars, dueListed, syncing, keyVars>>

----------------------------------------------------------------------------
(* The palette.  Its entries in their order; which of them are found is up *)
(* to the query, and a query that is not empty may search pull requests.   *)
Entries == <<"inbox", "repos", "about", "follow-up", "sync", "shortcuts", "single-keys", "search">>
SignedOutToo == {"about", "shortcuts", "single-keys"}
Offered(e) ==
  /\ e \in found /\ (session = "in" \/ e \in SignedOutToo)
  /\ e = "follow-up" => dueListed
Found == Selected(Entries, {n \in DOMAIN Entries : Offered(Entries[n])})
Enabled(e) == e = "sync" => ~syncing
Ids == Selected(Entries, {n \in DOMAIN Entries : Offered(Entries[n]) /\ Enabled(Entries[n])})
(* A selection that the query or the list has removed gives way.           *)
Value == LET ids == Ids IN IF Contains(ids, chosen) THEN chosen ELSE IF ids = <<>> THEN "" ELSE ids[1]

Closed == 2
PaletteOpens == palette' = TRUE /\ shortcuts' = FALSE /\ found' \in Queries /\ chosen' = ""
PaletteCloses == palette' = FALSE /\ found' = {} /\ chosen' = ""

TogglePalette ==
  /\ AddressSettled
  /\ IF palette THEN PaletteCloses /\ UNCHANGED shortcuts ELSE PaletteOpens
  /\ UNCHANGED <<addrVars, session, dueListed, syncing, keyVars>>

TypeQuery ==
  /\ palette /\ found' \in Queries /\ found' # found /\ chosen' = ""
  /\ UNCHANGED <<addrVars, session, palette, shortcuts, dueListed, syncing, keyVars>>

Choose(e) ==
  /\ palette /\ Contains(Ids, e) /\ chosen' = e /\ chosen # e
  /\ UNCHANGED <<addrVars, session, palette, shortcuts, found, dueListed, syncing, keyVars>>

(* Enter closes the palette and does what is selected.                     *)
Goes == [e \in {"inbox", "repos", "about", "follow-up", "search"} |->
           CASE e = "follow-up" -> To("/inbox", {"focus"}) [] e = "search" -> To("/prs", {"q"})
             [] OTHER -> To(Canonical[e], {})]
Enter ==
  /\ palette /\ Value # "" /\ PaletteCloses
  /\ IF Value \in DOMAIN Goes THEN Visit(Goes[Value]) ELSE UNCHANGED addrVars
  /\ shortcuts' = (Value = "shortcuts")
  /\ syncing' = (syncing \/ Value = "sync")
  /\ singleKeys' = IF Value = "single-keys" THEN ~singleKeys ELSE singleKeys
  /\ UNCHANGED <<session, dueListed, hearing, buffer, opened, acted>>

CloseShortcuts ==
  /\ shortcuts /\ ~palette /\ shortcuts' = FALSE /\ UNCHANGED <<palette, found, chosen>>
  /\ singleKeys' \in BOOLEAN
  /\ UNCHANGED <<addrVars, session, dueListed, syncing, hearing, buffer, opened, acted>>

(* The list and the run change under the open palette.                     *)
ListChanges ==
  /\ palette /\ dueListed' = ~dueListed
  /\ UNCHANGED <<addrVars, session, paletteVars, syncing, keyVars>>
SyncOver ==
  /\ syncing /\ syncing' = FALSE
  /\ UNCHANGED <<addrVars, session, paletteVars, dueListed, keyVars>>

----------------------------------------------------------------------------
(* shortcuts.ts.  The sequences are one listener, the keys of the page and *)
(* of the sheet of shortcuts others.                                       *)
GoKey == [i |-> "inbox", s |-> "settings", r |-> "repos"]
PageKey == IF Screen = "inbox" THEN {"s", "r", "?"} ELSE {"?"}
Key == DOMAIN GoKey \cup {"g", "?", "x"}

Live(age) == age < Closed

(* What a key does to the open sequence: complete it, start one, end it.   *)
HearSequence(h, key) ==
  IF Live(h.buffer) /\ key \in DOMAIN GoKey
  THEN [prevented |-> TRUE, buffer |-> Closed, opened |-> Closed, acted |-> h.acted \cup {<<"go", key>>}]
  ELSE LET age == IF key = "g" THEN 0 ELSE Closed IN [h EXCEPT !.buffer = age, !.opened = age]

(* A single key stands down while a sequence is open.                      *)
NeverStandsDown(h) == FALSE
StandsDown(h) == Live(h.opened)
HearPage(h, key) ==
  IF StandsDown(h) \/ key \notin PageKey THEN h
  ELSE [h EXCEPT !.prevented = TRUE, !.acted = @ \cup {<<"page", key>>}]

Hear(h, listener, key) ==
  IF h.prevented THEN h ELSE IF listener = "palette" THEN HearSequence(h, key) ELSE HearPage(h, key)

(* A key in a field or while a dialog is open is text, or the dialog's.    *)
PressKey(key) ==
  LET before == [prevented |-> FALSE, buffer |-> buffer, opened |-> opened, acted |-> {}]
      heard == Hear(Hear(before, hearing[1], key), hearing[2], key)
      went == {a \in heard.acted : a[1] = "go"}
  IN /\ AddressSettled /\ ~Dialog /\ singleKeys
     /\ buffer' = heard.buffer /\ opened' = heard.opened /\ acted' = heard.acted
     /\ shortcuts' = (<<"page", "?">> \in heard.acted) /\ UNCHANGED <<palette, found, chosen>>
     /\ IF went # {} THEN Visit(To(Canonical[GoKey[key]], {})) ELSE UNCHANGED addrVars
     /\ UNCHANGED <<session, dueListed, syncing, singleKeys, hearing>>

TimePasses ==
  /\ Live(buffer) \/ Live(opened)
  /\ buffer' = (IF Live(buffer) THEN buffer + 1 ELSE Closed) /\ opened' = (IF Live(opened) THEN opened + 1 ELSE Closed)
  /\ UNCHANGED <<addrVars, session, paletteVars, dueListed, syncing, singleKeys, hearing, acted>>

(* The page is a chunk of its own: its listeners come before or after      *)
(* those of the palette, and a page that is opened anew comes last.        *)
PageRegisters ==
  /\ hearing # <<"palette", "page">> /\ hearing' = <<"palette", "page">>
  /\ UNCHANGED <<addrVars, session, paletteVars, dueListed, syncing, singleKeys, buffer, opened, acted>>

ShellInit ==
  /\ addr \in Link /\ asked = addr /\ redirects = 0 /\ visits = 0
  /\ session = "checking" /\ sheet = "" /\ dueListed = TRUE /\ syncing = FALSE
  /\ visited = [[d \in Destination |-> To(Canonical[d], {})] EXCEPT
                  ![IF AddressSettled THEN DestinationOf(addr.path) ELSE "inbox"] =
                  IF AddressSettled THEN addr ELSE @]
  /\ palette = FALSE /\ shortcuts = FALSE /\ found = {} /\ chosen = ""
  /\ singleKeys = TRUE /\ hearing \in {<<"page", "palette">>, <<"palette", "page">>}
  /\ buffer = Closed /\ opened = Closed /\ acted = {}

ShellNext ==
  \/ Navigate \/ \E a \in Link : OpenLink(a)
  \/ \E d \in Destination : FollowNav(d)
  \/ \E s \in {"in", "out", "failed"} : SessionAnswers(s)
  \/ OpenSheet \/ CloseSheet
  \/ TogglePalette \/ TypeQuery \/ \E e \in {"repos", "follow-up", "sync"} : Choose(e)
  \/ Enter \/ CloseShortcuts \/ ListChanges \/ SyncOver
  \/ \E k \in Key : PressKey(k)
  \/ TimePasses \/ PageRegisters

ShellSpec == ShellInit /\ [][ShellNext]_shellVars

----------------------------------------------------------------------------
(* The values of the variables; the sheet belongs to the page under it,    *)
(* Enter never acts on an entry that is not there or is disabled, and the  *)
(* navigation leads to canonical addresses of its destinations.            *)
ShellTypeOK ==
  /\ sheet \in {"", addr.path} /\ visits \in 0 .. MaxVisits
  /\ session \in {"checking", "failed", "in", "out"}
  /\ LET value == Value IN value # "" => Contains(Found, value) /\ Enabled(value)
  /\ \A d \in Destination : DestinationOf(visited[d].path) = d /\ LegacyRedirect(visited[d]) = visited[d]
  /\ buffer \in 0 .. Closed /\ opened = buffer /\ Cardinality(acted) <= 1

(* routes.ts: an address is rewritten at most once, and the one that       *)
(* notifications and digests link to, #/attention?focus, reaches the inbox *)
(* with its parameters.                                                    *)
RedirectSettles ==
  /\ redirects <= 1
  /\ (AddressSettled /\ asked.path \in {"/attention", "/inbox"}) => addr = To("/inbox", asked.keys)

(* shortcuts.ts: a key that completes a sequence goes where it says and is *)
(* not also, or instead, a key of the page, whichever listener was         *)
(* registered first.                                                       *)
SequenceWins ==
  [][\A k \in DOMAIN GoKey : (PressKey(k) /\ Live(buffer)) => acted' = {<<"go", k>>}]_shellVars
=============================================================================
