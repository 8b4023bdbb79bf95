---------------------------- MODULE Shell_proofs ----------------------------
(***************************************************************************)
(* Theorems about the parts of the page: the frame, the state of the       *)
(* synchronization, the two lists and the service worker, each for any     *)
(* value of its constants, and about MCShell, which composes them.         *)
(*                                                                         *)
(* Each part has its own inductive invariant: FrameInvariant,              *)
(* PageInvariant, ListInvariant, FieldInvariant and ConnectionInvariant.   *)
(***************************************************************************)
EXTENDS MCShell, Selections_proofs, TLAPS

-----------------------------------------------------------------------------
(* THE FRAME                                                               *)

(* Addresses.                                                              *)
CanonicalPath == {"/inbox", "/prs", "/prs/blocked", "/repos", "/insights", "/settings", "/about"}

LEMMA DestinationNames == Destination = {"inbox", "prs", "repos", "insights", "settings", "about"}
  BY DEF Destination, Canonical

LEMMA CanonicalPaths ==
  ASSUME NEW d \in Destination
  PROVE  Canonical[d] \in CanonicalPath \ {"/prs/blocked"}
  BY DestinationNames DEF Canonical, CanonicalPath

\* An address has a destination when its path is one of the canonical ones.
LEMMA DestinationKnown ==
  ASSUME NEW path
  PROVE  /\ path \in CanonicalPath => DestinationOf(path) \in Destination
         /\ DestinationOf(path) \in Destination \cup {Nowhere}
         /\ DestinationOf(path) # Nowhere => path \in CanonicalPath
<1>1. CASE path \in PRView
  BY <1>1, DestinationNames DEF PRView, DestinationOf, CanonicalPath, Nowhere
<1>2. CASE path \notin PRView /\ \E d \in Destination : Canonical[d] = path
  BY <1>2, CanonicalPaths DEF DestinationOf
<1>3. CASE path \notin PRView /\ ~\E d \in Destination : Canonical[d] = path
  <2>1. path \notin CanonicalPath
    BY <1>3, DestinationNames DEF PRView, CanonicalPath, Canonical
  <2> QED BY <1>3, <2>1 DEF DestinationOf
<1> QED BY <1>1, <1>2, <1>3

LEMMA NowhereIsNoDestination == Nowhere \notin Destination
  BY DestinationNames DEF Nowhere

LEMMA CanonicalOf ==
  ASSUME NEW d \in Destination
  PROVE  DestinationOf(Canonical[d]) = d
<1>1. CASE d = "prs"
  BY <1>1 DEF DestinationOf, PRView, Canonical
<1>2. CASE d # "prs"
  <2>1. Canonical[d] \notin PRView
    BY <1>2, DestinationNames DEF PRView, Canonical
  <2>2. \A e \in Destination : Canonical[e] = Canonical[d] => e = d
    BY DestinationNames DEF Canonical
  <2> QED BY <2>1, <2>2 DEF DestinationOf
<1> QED BY <1>1, <1>2

LEMMA LegacyPaths ==
  ASSUME NEW path \in DOMAIN Legacy
  PROVE  Legacy[path] \in CanonicalPath \ {"/settings"} /\ path \notin CanonicalPath \cup {"/"}
  BY DEF Legacy, CanonicalPath

LEMMA OldAddresses ==
  /\ "/settings" \notin DOMAIN Legacy
  /\ "/" \notin DOMAIN Legacy
  BY DEF Legacy

\* An address whose path is canonical stays, but for the settings' old parameter.
LEMMA CanonicalStays ==
  ASSUME NEW a, IsAddress(a), a.path \in CanonicalPath,
         a.path = "/settings" => "tab=schedule" \notin a.keys
  PROVE  LegacyRedirect(a) = a
<1>1. a = [path |-> a.path, keys |-> a.keys]
  BY DEF IsAddress, To
<1>2. CASE a.path = "/settings"
  <2>1. a.keys \ {"tab=schedule"} = a.keys
    BY <1>2
  <2> QED BY <1>1, <1>2, <2>1, OldAddresses DEF LegacyRedirect, To
<1>3. CASE a.path # "/settings"
  <2>1. a.path # "/" /\ a.path \notin DOMAIN Legacy /\ DestinationOf(a.path) # Nowhere
    BY LegacyPaths, DestinationKnown, NowhereIsNoDestination DEF CanonicalPath
  <2> QED BY <1>3, <2>1 DEF LegacyRedirect
<1> QED BY <1>2, <1>3

\* Where an address is rewritten to, it stays.
LEMMA RedirectLands ==
  ASSUME NEW a, IsAddress(a)
  PROVE  /\ IsAddress(LegacyRedirect(a))
         /\ LegacyRedirect(a).path \in CanonicalPath
         /\ LegacyRedirect(LegacyRedirect(a)) = LegacyRedirect(a)
<1> DEFINE b == LegacyRedirect(a)
<1>1. IsAddress(b) /\ b.path \in CanonicalPath /\ (b.path = "/settings" => "tab=schedule" \notin b.keys)
  <2>1. CASE a.path = "/settings"
    BY <2>1, OldAddresses DEF LegacyRedirect, To, IsAddress, CanonicalPath
  <2>2. CASE a.path = "/"
    <3>1. PICK path \in {"/insights", "/inbox"} : b = To(path, a.keys)
      BY <2>2, OldAddresses DEF LegacyRedirect
    <3> HIDE DEF b
    <3> QED BY <3>1 DEF To, IsAddress, CanonicalPath
  <2>3. CASE a.path \in DOMAIN Legacy
    <3>1. a.path # "/settings" /\ a.path # "/"
      BY <2>3, LegacyPaths DEF CanonicalPath
    <3>2. b = To(Legacy[a.path], a.keys)
      BY <2>3, <3>1 DEF LegacyRedirect
    <3>3. Legacy[a.path] \in CanonicalPath \ {"/settings"}
      BY <2>3, LegacyPaths
    <3> QED BY <3>2, <3>3 DEF To, IsAddress
  <2>4. CASE a.path \notin {"/settings", "/"} \cup DOMAIN Legacy
    <3>1. b = IF DestinationOf(a.path) = Nowhere THEN To("/inbox", {}) ELSE a
      BY <2>4 DEF LegacyRedirect
    <3>2. DestinationOf(a.path) # Nowhere => a.path \in CanonicalPath
      BY DestinationKnown
    <3> HIDE DEF b
    <3>3. CASE DestinationOf(a.path) = Nowhere
      BY <3>1, <3>3 DEF To, IsAddress, CanonicalPath
    <3> QED BY <2>4, <3>1, <3>2, <3>3
  <2> QED BY <2>1, <2>2, <2>3, <2>4
<1> HIDE DEF b
<1>2. LegacyRedirect(b) = b
  BY <1>1, CanonicalStays
<1> QED BY <1>1, <1>2 DEF b

LEMMA InboxLinks ==
  ASSUME NEW a, IsAddress(a), a.path \in {"/attention", "/inbox"}
  PROVE  LegacyRedirect(a) = To("/inbox", a.keys)
<1>1. CASE a.path = "/inbox"
  <2>1. LegacyRedirect(a) = a
    BY <1>1, CanonicalStays DEF CanonicalPath
  <2> QED BY <1>1, <2>1 DEF IsAddress, To
<1>2. CASE a.path = "/attention"
  BY <1>2 DEF LegacyRedirect, Legacy, To
<1> QED BY <1>1, <1>2

-----------------------------------------------------------------------------
(* The address and what follows it.                                        *)
WhereLeft(d) == IsAddress(visited[d]) /\ DestinationOf(visited[d].path) = d /\ LegacyRedirect(visited[d]) = visited[d]

SheetOverPage == sheet \in {"", addr.path}

AddressInvariant ==
  /\ IsAddress(addr) /\ IsAddress(asked) /\ addr \in {asked, LegacyRedirect(asked)}
  /\ redirects \in 0 .. 1 /\ (redirects = 1 => AddressSettled)
  /\ visits \in 0 .. MaxVisits /\ SheetOverPage
  /\ DOMAIN visited = Destination /\ \A d \in Destination : WhereLeft(d)

\* Where a destination was left is noted.
LEMMA Noted ==
  ASSUME AddressInvariant, NEW a, IsAddress(a),
         visited' = IF LegacyRedirect(a) = a THEN [visited EXCEPT ![DestinationOf(a.path)] = a] ELSE visited
  PROVE  DOMAIN visited' = Destination /\ \A d \in Destination : WhereLeft(d)'
<1>1. ASSUME LegacyRedirect(a) = a
      PROVE  a.path \in CanonicalPath
  BY <1>1, RedirectLands
<1>2. CASE LegacyRedirect(a) = a
  <2>1. DestinationOf(a.path) \in Destination
    BY <1>1, <1>2, DestinationKnown
  <2>2. visited' = [visited EXCEPT ![DestinationOf(a.path)] = a]
    BY <1>2
  <2>3. ASSUME NEW d \in Destination
        PROVE  WhereLeft(d)'
    BY <1>2, <2>1, <2>2, <2>3 DEF AddressInvariant, WhereLeft
  <2> QED BY <2>2, <2>3 DEF AddressInvariant
<1>3. CASE LegacyRedirect(a) # a
  BY <1>3 DEF AddressInvariant, WhereLeft
<1> QED BY <1>2, <1>3

\* What the conjuncts of the invariant say.
LEMMA AddressFacts ==
  ASSUME AddressInvariant
  PROVE  /\ IsAddress(addr) /\ IsAddress(asked) /\ addr \in {asked, LegacyRedirect(asked)}
         /\ redirects \in 0 .. 1 /\ (redirects = 1 => AddressSettled)
         /\ visits \in 0 .. MaxVisits /\ SheetOverPage
  BY DEF AddressInvariant

LEMMA AddressFromFacts ==
  ASSUME IsAddress(addr'), IsAddress(asked'), addr' \in {asked', LegacyRedirect(asked')},
         redirects' \in 0 .. 1, redirects' = 1 => AddressSettled',
         visits' \in 0 .. MaxVisits, SheetOverPage',
         DOMAIN visited' = Destination, \A d \in Destination : WhereLeft(d)'
  PROVE  AddressInvariant'
  BY DEF AddressInvariant

LEMMA SheetCloses ==
  ASSUME AddressInvariant, NEW path, sheet' = ClosesSheet(path), addr'.path = path
  PROVE  SheetOverPage'
<1>1. sheet \in {"", addr.path}
  BY AddressFacts DEF SheetOverPage
<1>2. sheet' = (IF path = addr.path THEN sheet ELSE "")
  BY DEF ClosesSheet
<1>3. sheet' = path \/ sheet' = ""
  BY <1>1, <1>2, Zenon
<1>4. sheet' = addr'.path \/ sheet' = ""
  BY <1>3, Zenon
<1> QED BY <1>4, Zenon DEF SheetOverPage

LEMMA VisitStep ==
  ASSUME AddressInvariant, NEW a, IsAddress(a), Visit(a)
  PROVE  AddressInvariant'
<1>1. DOMAIN visited' = Destination /\ \A d \in Destination : WhereLeft(d)'
  BY Noted DEF Visit
<1>2. addr' = a /\ asked' = a /\ redirects' = 0
  BY DEF Visit
<1>3. SheetOverPage'
  BY <1>2, SheetCloses DEF Visit
<1>4. visits' \in 0 .. MaxVisits
  <2>1. visits < MaxVisits /\ visits' = visits + 1
    BY DEF Visit
  <2> QED BY <2>1, AddressFacts, ShellAssumption
<1> QED BY <1>1, <1>2, <1>3, <1>4, AddressFromFacts

LEMMA NavigateStep ==
  ASSUME AddressInvariant, Navigate
  PROVE  AddressInvariant'
<1>1. ~AddressSettled
  BY DEF Navigate
<1>2. addr = asked /\ redirects = 0 /\ IsAddress(addr)
  BY <1>1, AddressFacts, RedirectLands DEF AddressSettled
<1>3. addr' = LegacyRedirect(addr) /\ redirects' = 1 /\ UNCHANGED <<asked, visits>>
  BY <1>2 DEF Navigate
<1>4. IsAddress(addr') /\ LegacyRedirect(addr') = addr'
  BY <1>2, <1>3, RedirectLands
<1>5. DOMAIN visited' = Destination /\ \A d \in Destination : WhereLeft(d)'
  BY <1>4, Noted DEF Navigate
<1>6. SheetOverPage'
  BY SheetCloses DEF Navigate
<1>7. AddressSettled'
  BY <1>4 DEF AddressSettled
<1> QED BY <1>2, <1>3, <1>4, <1>5, <1>6, <1>7, AddressFacts, AddressFromFacts

LEMMA AddressStays ==
  ASSUME AddressInvariant, UNCHANGED <<addr, asked, redirects, visits, visited>>, SheetOverPage'
  PROVE  AddressInvariant'
  BY AddressFacts, AddressFromFacts DEF AddressInvariant, AddressSettled, WhereLeft

LEMMA InitAddress == ShellInit => AddressInvariant
<1> SUFFICES ASSUME ShellInit
             PROVE  AddressInvariant
  OBVIOUS
<1> DEFINE fresh == [d \in Destination |-> To(Canonical[d], {})]
           start == IF AddressSettled THEN DestinationOf(addr.path) ELSE "inbox"
<1>1. IsAddress(addr)
  BY ShellAssumption DEF ShellInit
<1>2. ASSUME NEW d \in Destination
      PROVE  /\ IsAddress(fresh[d]) /\ DestinationOf(fresh[d].path) = d
             /\ LegacyRedirect(fresh[d]) = fresh[d]
  <2>1. fresh[d].path = Canonical[d] /\ fresh[d].keys = {} /\ IsAddress(fresh[d])
    BY DEF To, IsAddress
  <2> QED BY <2>1, CanonicalOf, CanonicalPaths, CanonicalStays
<1> HIDE DEF fresh
<1>3. DOMAIN fresh = Destination
  BY DEF fresh
<1>4. start \in Destination
  BY <1>1, RedirectLands, DestinationKnown, DestinationNames DEF AddressSettled
<1>5. visited = [fresh EXCEPT ![start] = IF AddressSettled THEN addr ELSE @]
  BY DEF ShellInit, fresh
<1>6. ASSUME NEW d \in Destination
      PROVE  WhereLeft(d)
  BY <1>1, <1>2, <1>3, <1>4, <1>5 DEF WhereLeft, AddressSettled
<1>7. DOMAIN visited = Destination
  BY <1>3, <1>5
<1>8. asked = addr /\ redirects = 0 /\ visits = 0 /\ SheetOverPage
  BY DEF ShellInit, SheetOverPage
<1> QED BY <1>1, <1>6, <1>7, <1>8, ShellAssumption DEF AddressInvariant

-----------------------------------------------------------------------------
(* The keys.                                                               *)
Orders == {<<"page", "palette">>, <<"palette", "page">>}
KeyInvariant ==
  /\ hearing \in Orders
  /\ buffer \in 0 .. Closed /\ opened = buffer /\ Cardinality(acted) <= 1

\* What the listeners have made of a key: at most one of them has acted on it.
HeardRecord(h) == h = [prevented |-> h.prevented, buffer |-> h.buffer, opened |-> h.opened, acted |-> h.acted]
Heard(h) ==
  /\ HeardRecord(h) /\ h.prevented \in BOOLEAN
  /\ h.buffer \in 0 .. Closed /\ h.opened = h.buffer
  /\ h.acted = {} \/ (h.prevented /\ \E a : h.acted = {a})

NewKey == [prevented |-> FALSE, buffer |-> buffer, opened |-> opened, acted |-> {}]
Outcome(key) == Hear(Hear(NewKey, hearing[1], key), hearing[2], key)

LEMMA NewKeyHeard == KeyInvariant => Heard(NewKey)
  BY DEF KeyInvariant, Heard, HeardRecord, NewKey

LEMMA SequenceHeard ==
  ASSUME NEW h, Heard(h), ~h.prevented, NEW key
  PROVE  Heard(HearSequence(h, key))
<1> USE DEF Closed
<1>1. CASE Live(h.buffer) /\ key \in DOMAIN GoKey
  <2>1. HearSequence(h, key) = [prevented |-> TRUE, buffer |-> Closed, opened |-> Closed, acted |-> {<<"go", key>>}]
    BY <1>1 DEF HearSequence, Heard
  <2> QED BY <2>1 DEF Heard, HeardRecord
<1>2. CASE ~(Live(h.buffer) /\ key \in DOMAIN GoKey)
  <2>1. PICK age \in {0, Closed} : HearSequence(h, key) = [h EXCEPT !.buffer = age, !.opened = age]
    BY <1>2 DEF HearSequence
  <2>2. HearSequence(h, key) = [prevented |-> FALSE, buffer |-> age, opened |-> age, acted |-> {}]
    BY <2>1 DEF Heard, HeardRecord
  <2> QED BY <2>2 DEF Heard, HeardRecord
<1> QED BY <1>1, <1>2

LEMMA PageHeard ==
  ASSUME NEW h, Heard(h), ~h.prevented, NEW key
  PROVE  Heard(HearPage(h, key))
<1>1. CASE StandsDown(h) \/ key \notin PageKey
  BY <1>1 DEF HearPage
<1>2. CASE ~(StandsDown(h) \/ key \notin PageKey)
  <2>1. HearPage(h, key) = [prevented |-> TRUE, buffer |-> h.buffer, opened |-> h.opened, acted |-> {<<"page", key>>}]
    BY <1>2 DEF HearPage, Heard, HeardRecord
  <2> QED BY <2>1 DEF Heard, HeardRecord
<1> QED BY <1>1, <1>2

LEMMA KeyHeard ==
  ASSUME NEW h, Heard(h), NEW listener, NEW key
  PROVE  Heard(Hear(h, listener, key))
<1>1. CASE h.prevented
  BY <1>1 DEF Hear
<1>2. CASE ~h.prevented
  BY <1>2, SequenceHeard, PageHeard DEF Hear
<1> QED BY <1>1, <1>2

LEMMA PressKeyStep ==
  ASSUME KeyInvariant, NEW key, PressKey(key)
  PROVE  KeyInvariant'
<1>1. Heard(Outcome(key))
  BY NewKeyHeard, KeyHeard DEF Outcome
<1>2. /\ buffer' = Outcome(key).buffer /\ opened' = Outcome(key).opened
      /\ acted' = Outcome(key).acted /\ UNCHANGED hearing
  BY DEF PressKey, Outcome, NewKey
<1>3. acted' = {} \/ \E a : acted' = {a}
  BY <1>1, <1>2 DEF Heard
<1>4. CASE acted' = {}
  <2>1. Cardinality(acted') = 0
    BY <1>4, FS_EmptySet
  <2> QED BY <1>1, <1>2, <2>1 DEF Heard, KeyInvariant
<1>5. CASE \E a : acted' = {a}
  <2>1. PICK a : acted' = {a}
    BY <1>5
  <2>2. Cardinality(acted') = 1
    BY <2>1, FS_Singleton
  <2> QED BY <1>1, <1>2, <2>2 DEF Heard, KeyInvariant
<1> QED BY <1>3, <1>4, <1>5

\* The page stands down while a sequence is open, before and after it.
LEMMA SequenceFirst ==
  ASSUME KeyInvariant, NEW k \in DOMAIN GoKey, PressKey(k), Live(buffer)
  PROVE  acted' = {<<"go", k>>}
<1> DEFINE gone == [prevented |-> TRUE, buffer |-> Closed, opened |-> Closed, acted |-> {<<"go", k>>}]
<1>1. acted' = Outcome(k).acted
  BY DEF PressKey, Outcome, NewKey
<1>2. Hear(NewKey, "palette", k) = gone
  BY DEF Hear, HearSequence, NewKey
<1>3. Hear(NewKey, "page", k) = NewKey
  BY DEF Hear, HearPage, StandsDown, NewKey, KeyInvariant
<1>4. Hear(gone, "page", k) = gone
  BY DEF Hear
<1> HIDE DEF gone
<1>5. Outcome(k) = gone
  BY <1>2, <1>3, <1>4 DEF Outcome, KeyInvariant, Orders
<1> QED BY <1>1, <1>5 DEF gone

LEMMA KeysStay ==
  ASSUME KeyInvariant, UNCHANGED <<hearing, buffer, opened, acted>>
  PROVE  KeyInvariant'
  BY DEF KeyInvariant

LEMMA TimeStep ==
  ASSUME KeyInvariant, TimePasses
  PROVE  KeyInvariant'
  BY DEF KeyInvariant, TimePasses, Live, Closed

LEMMA RegisterStep ==
  ASSUME KeyInvariant, PageRegisters
  PROVE  KeyInvariant'
  BY DEF KeyInvariant, PageRegisters, Orders

LEMMA InitKeys == ShellInit => KeyInvariant
<1> SUFFICES ASSUME ShellInit
             PROVE  KeyInvariant
  OBVIOUS
<1>1. hearing \in Orders
  BY DEF ShellInit, Orders
<1>2. buffer = Closed /\ opened = Closed
  BY DEF ShellInit
<1>3. acted = {}
  BY DEF ShellInit
<1>4. Cardinality(acted) = 0
  BY <1>3, FS_EmptySet
<1> QED BY <1>1, <1>2, <1>4 DEF KeyInvariant, Closed

-----------------------------------------------------------------------------
(* The palette.                                                            *)
LEMMA FoundEntries ==
  /\ Found \in Seq(ToSet(Entries))
  /\ Ids \in Seq(ToSet(Entries))
  /\ \A e : Contains(Ids, e) => Contains(Found, e) /\ Enabled(e)
<1> DEFINE there == {n \in DOMAIN Entries : Offered(Entries[n])}
           enabled == {n \in DOMAIN Entries : Offered(Entries[n]) /\ Enabled(Entries[n])}
<1>1. Entries \in Seq(ToSet(Entries)) /\ DOMAIN Entries = 1 .. Len(Entries)
  BY DEF Entries, ToSet
<1>2. there \in SUBSET (1 .. Len(Entries)) /\ enabled \in SUBSET (1 .. Len(Entries))
  BY <1>1
<1>3. /\ Found \in Seq(ToSet(Entries))
      /\ \A e : Contains(Found, e) <=> \E i \in there : Entries[i] = e
  BY <1>1, <1>2, SelectedMembers DEF Found
<1>4. /\ Ids \in Seq(ToSet(Entries))
      /\ \A e : Contains(Ids, e) <=> \E i \in enabled : Entries[i] = e
  BY <1>1, <1>2, SelectedMembers DEF Ids
<1>5. ASSUME NEW e, Contains(Ids, e)
      PROVE  Contains(Found, e) /\ Enabled(e)
  <2>1. PICK i \in enabled : Entries[i] = e
    BY <1>4, <1>5
  <2>2. i \in there /\ Enabled(e)
    BY <2>1
  <2> QED BY <1>3, <2>1, <2>2
<1> QED BY <1>3, <1>4, <1>5

LEMMA SelectedEntry ==
  Value # "" => Contains(Found, Value) /\ Enabled(Value)
<1>1. CASE Contains(Ids, chosen)
  BY <1>1, FoundEntries DEF Value
<1>2. CASE ~Contains(Ids, chosen) /\ Ids # <<>>
  <2>1. Contains(Ids, Ids[1])
    BY <1>2, FoundEntries DEF Contains
  <2> QED BY <1>2, <2>1, FoundEntries DEF Value
<1>3. CASE ~Contains(Ids, chosen) /\ Ids = <<>>
  BY <1>3 DEF Value
<1> QED BY <1>1, <1>2, <1>3

-----------------------------------------------------------------------------
(* A step of the frame.                                                    *)
FrameInvariant ==
  /\ AddressInvariant /\ KeyInvariant
  /\ session \in {"checking", "failed", "in", "out"}

LEMMA InitFrame == ShellInit => FrameInvariant
  BY InitAddress, InitKeys DEF ShellInit, FrameInvariant

LEMMA EntriesGo ==
  ASSUME NEW e \in DOMAIN Goes
  PROVE  IsAddress(Goes[e])
  BY DEF Goes, To, IsAddress, Canonical

LEMMA FrameStep ==
  ASSUME FrameInvariant, [ShellNext]_shellVars
  PROVE  FrameInvariant'
<1> USE DEF FrameInvariant
<1>1. CASE Navigate
  BY <1>1, NavigateStep, KeysStay DEF Navigate, keyVars
<1>2. ASSUME NEW a \in Link, OpenLink(a)
      PROVE  FrameInvariant'
  BY <1>2, ShellAssumption, VisitStep, KeysStay DEF OpenLink, keyVars
<1>3. ASSUME NEW d \in Destination, FollowNav(d)
      PROVE  FrameInvariant'
  <2>1. IsAddress(visited[d])
    BY DEF AddressInvariant, WhereLeft
  <2> QED BY <1>3, <2>1, VisitStep, KeysStay DEF FollowNav, keyVars
<1>4. ASSUME UNCHANGED <<addrVars, keyVars>>, session' \in {"checking", "failed", "in", "out"}
      PROVE  FrameInvariant'
  <2>1. SheetOverPage'
    BY <1>4 DEF addrVars, AddressInvariant, SheetOverPage
  <2> QED BY <1>4, <2>1, AddressStays, KeysStay DEF addrVars, keyVars
<1>5. CASE \/ (\E s \in {"in", "out", "failed"} : SessionAnswers(s)) \/ TogglePalette \/ TypeQuery
           \/ (\E e \in {"repos", "follow-up", "sync"} : Choose(e)) \/ ListChanges \/ SyncOver
           \/ UNCHANGED shellVars
  BY <1>4, <1>5 DEF SessionAnswers, TogglePalette, TypeQuery, Choose, ListChanges, SyncOver, shellVars
<1>6. CASE OpenSheet \/ CloseSheet
  <2>1. SheetOverPage' /\ UNCHANGED <<addr, asked, redirects, visits, visited, keyVars, session>>
    BY <1>6 DEF OpenSheet, CloseSheet, SheetOverPage
  <2> QED BY <2>1, AddressStays, KeysStay DEF keyVars
<1>7. CASE Enter
  <2>1. KeyInvariant' /\ UNCHANGED session
    BY <1>7, KeysStay DEF Enter
  <2>2. CASE Value \in DOMAIN Goes
    BY <1>7, <2>1, <2>2, EntriesGo, VisitStep DEF Enter
  <2>3. CASE UNCHANGED addrVars
    <3>1. SheetOverPage'
      BY <2>3 DEF addrVars, AddressInvariant, SheetOverPage
    <3> QED BY <2>1, <2>3, <3>1, AddressStays DEF addrVars
  <2> QED BY <1>7, <2>2, <2>3 DEF Enter
<1>8. CASE CloseShortcuts \/ TimePasses \/ PageRegisters
  <2>1. KeyInvariant' /\ UNCHANGED <<addrVars, session>>
    BY <1>8, KeysStay, TimeStep, RegisterStep DEF CloseShortcuts, TimePasses, PageRegisters
  <2>2. SheetOverPage'
    BY <2>1 DEF addrVars, AddressInvariant, SheetOverPage
  <2> QED BY <2>1, <2>2, AddressStays DEF addrVars
<1>9. ASSUME NEW key \in Key, PressKey(key)
      PROVE  FrameInvariant'
  <2>1. KeyInvariant' /\ UNCHANGED session
    BY <1>9, PressKeyStep DEF PressKey
  <2>2. CASE UNCHANGED addrVars
    <3>1. SheetOverPage'
      BY <2>2 DEF addrVars, AddressInvariant, SheetOverPage
    <3> QED BY <2>1, <2>2, <3>1, AddressStays DEF addrVars
  <2>3. CASE Visit(To(Canonical[GoKey[key]], {}))
    BY <2>1, <2>3, VisitStep DEF To, IsAddress
  <2> QED BY <1>9, <2>2, <2>3 DEF PressKey
<1> QED BY <1>1, <1>2, <1>3, <1>5, <1>6, <1>7, <1>8, <1>9 DEF ShellNext

LEMMA FrameTypes == FrameInvariant => ShellTypeOK
<1> SUFFICES ASSUME FrameInvariant
             PROVE  ShellTypeOK
  OBVIOUS
<1>1. sheet \in {"", addr.path} /\ visits \in 0 .. MaxVisits
  BY DEF FrameInvariant, AddressInvariant, SheetOverPage
<1>2. \A d \in Destination : DestinationOf(visited[d].path) = d /\ LegacyRedirect(visited[d]) = visited[d]
  BY DEF FrameInvariant, AddressInvariant, WhereLeft
<1> QED BY <1>1, <1>2, SelectedEntry DEF FrameInvariant, KeyInvariant, ShellTypeOK

LEMMA RedirectOnce == FrameInvariant => RedirectSettles
<1> SUFFICES ASSUME FrameInvariant
             PROVE  RedirectSettles
  OBVIOUS
<1>1. IsAddress(asked) /\ addr \in {asked, LegacyRedirect(asked)} /\ redirects <= 1
  BY AddressFacts DEF FrameInvariant
<1>2. ASSUME AddressSettled, asked.path \in {"/attention", "/inbox"}
      PROVE  addr = To("/inbox", asked.keys)
  BY <1>1, <1>2, InboxLinks DEF AddressSettled
<1> QED BY <1>1, <1>2 DEF RedirectSettles

(* Shell.tsx and shortcuts.ts: an address that is shown is one of the      *)
(* application, what is open fits the page it is open on, and the keys     *)
(* typed so far are those of a sequence, for any links and any number of   *)
(* visits.                                                                 *)
THEOREM FrameTypesCorrect == ShellSpec => []ShellTypeOK
<1>1. ShellSpec => []FrameInvariant
  BY InitFrame, FrameStep, PTL DEF ShellSpec
<1> QED BY <1>1, FrameTypes, PTL

(* routes.ts: an old address leads, in one step, to one that is not        *)
(* redirected again, and a link to the attention page lands on the inbox   *)
(* with all that it carried.                                               *)
THEOREM RedirectsSettle == ShellSpec => []RedirectSettles
<1>1. ShellSpec => []FrameInvariant
  BY InitFrame, FrameStep, PTL DEF ShellSpec
<1> QED BY <1>1, RedirectOnce, PTL

(* shortcuts.ts: the second key of a sequence goes to its page and does    *)
(* nothing else, whichever listener hears it first.                        *)
THEOREM SequencesWin == ShellSpec => SequenceWins
<1>1. ShellSpec => []FrameInvariant
  BY InitFrame, FrameStep, PTL DEF ShellSpec
<1>2. FrameInvariant /\ [ShellNext]_shellVars =>
        [\A k \in DOMAIN GoKey : (PressKey(k) /\ Live(buffer)) => acted' = {<<"go", k>>}]_shellVars
  BY SequenceFirst DEF FrameInvariant
<1> QED BY <1>1, <1>2, PTL DEF ShellSpec, SequenceWins

-----------------------------------------------------------------------------
(* THE STATE OF THE SYNCHRONIZATION                                        *)

Statuses == {"none", "idle", "queued", "running", "complete", "failed", "interrupted"}
Progress ==
  [status : Statuses, phase : {"history", "account", "saving", "details"}, mode : {"full", "incremental"},
   at : Nat, rows : Nat, code : {"", "reconnect"}, last : Nat]

-----------------------------------------------------------------------------
(* The server.  The run that ended last is one that started before the     *)
(* one in progress, and no run wrote a version that is not there.          *)
ServerInvariant ==
  /\ progress \in Progress /\ progress.status # "none"
  /\ rows \in Nat /\ runs \in Nat /\ hour \in Nat
  /\ progress.rows <= rows /\ progress.at <= runs
  /\ progress.status = "running" => progress.at < runs
  /\ progress.status = "idle" => progress.last = Never

(* The poll is never ahead of the server, and two answers about one run    *)
(* are about the same rows.                                                *)
PollInvariant ==
  /\ polled \in Progress
  /\ polled.at <= progress.at /\ polled.rows <= progress.rows
  /\ polled.at = progress.at => polled.rows = progress.rows
  /\ polled.status \in {"none", "idle"} => polled.last = Never
  /\ first \in Nat \cup {NoRun} /\ (first = NoRun <=> polled = NoPoll)

(* After a complete sync that ended under the eyes of the page, the lists  *)
(* hold it, or an answer that does is on its way, or what is on its way    *)
(* failed or was joined too late.                                          *)
CaughtUp ==
  polled.status = "complete" /\ polled.at # first =>
    \/ listing = "sent"
    \/ listing = "read" /\ (joined \/ listReply >= polled.rows)
    \/ listing = "none" /\ (joined \/ ~listOk \/ shown >= polled.rows)

StatusInvariant ==
  /\ ServerInvariant /\ PollInvariant /\ CaughtUp
  /\ listing \in {"none", "sent", "read"} /\ joined \in BOOLEAN

LEMMA Numbers ==
  ASSUME NEW p \in Progress
  PROVE  p.at \in Nat /\ p.rows \in Nat /\ p.last \in Nat /\ p.status \in Statuses
  BY DEF Progress

LEMMA InitStatus == StatusInit => StatusInvariant
<1> SUFFICES ASSUME StatusInit
             PROVE  StatusInvariant
  OBVIOUS
<1>1. Idle \in Progress /\ NoPoll \in Progress /\ NoPoll.status = "none" /\ NoPoll.last = Never
      /\ Idle.status = "idle" /\ Idle.last = Never
      /\ NoPoll.at = 0 /\ NoPoll.rows = 0 /\ Idle.at = 0 /\ Idle.rows = 0
  BY DEF Idle, NoPoll, Progress, Statuses, Never
<1>2. progress = Idle /\ polled = NoPoll /\ first = NoRun /\ rows = 0 /\ runs = 0 /\ hour = 0
      /\ listing = "sent" /\ joined = FALSE
  BY DEF StatusInit
<1>3. ServerInvariant
  BY <1>1, <1>2 DEF ServerInvariant
<1>4. PollInvariant
  BY <1>1, <1>2 DEF PollInvariant
<1>5. CaughtUp
  BY <1>1, <1>2 DEF CaughtUp
<1> QED BY <1>2, <1>3, <1>4, <1>5 DEF StatusInvariant

-----------------------------------------------------------------------------
(* The lists.                                                              *)
\* A refresh sends a request, or joins one that has yet to be read, or says so.
LEMMA Refreshed ==
  ASSUME StatusInvariant, RefreshLists
  PROVE  /\ listing' \in {"none", "sent", "read"} /\ joined' \in BOOLEAN
         /\ CaughtUp'
  BY DEF StatusInvariant, RefreshLists, CaughtUp

\* The lists stay, and so does what the page knows of the server.
LEMMA ListsStay ==
  ASSUME StatusInvariant, UNCHANGED <<polled, first, listVars>>
  PROVE  /\ listing' \in {"none", "sent", "read"} /\ joined' \in BOOLEAN
         /\ CaughtUp'
  BY DEF StatusInvariant, CaughtUp, listVars

\* A step that leaves the answers of the poll and of the server alone.
LEMMA ServerStays ==
  ASSUME StatusInvariant, UNCHANGED <<progress, rows, runs>>, hour' \in Nat
  PROVE  ServerInvariant' /\ (UNCHANGED <<polled, first>> => PollInvariant')
  BY DEF StatusInvariant, ServerInvariant, PollInvariant

LEMMA PollStep ==
  ASSUME StatusInvariant, Poll
  PROVE  StatusInvariant'
<1> USE DEF StatusInvariant
<1>1. UNCHANGED <<progress, rows, runs, hour>> /\ polled' = progress
  BY DEF Poll, serverVars
<1>2. progress # NoPoll /\ NoRun \notin Nat /\ progress.at \in Nat /\ progress.rows \in Nat
  <2>1. NoPoll.status = "none"
    BY DEF NoPoll, Idle
  <2>2. NoRun \notin Nat
    BY DEF NoRun
  <2> QED BY <2>1, <2>2, Numbers DEF ServerInvariant
<1>3. ServerInvariant'
  BY <1>1 DEF ServerInvariant
<1>4. first' \in Nat /\ (polled = NoPoll => polled'.at = first') /\ (polled # NoPoll => UNCHANGED first)
  BY <1>1, <1>2 DEF Poll, PollInvariant
<1>5. PollInvariant'
  <2>1. polled'.status \in {"none", "idle"} => polled'.last = Never
    BY <1>1 DEF ServerInvariant
  <2>2. first' \in Nat /\ first' # NoRun /\ polled' # NoPoll
    BY <1>1, <1>2, <1>4
  <2>3. polled' \in Progress /\ progress' = progress
    BY <1>1 DEF ServerInvariant
  <2> QED BY <1>1, <1>2, <2>1, <2>2, <2>3 DEF PollInvariant
<1>6. CASE ShouldRefresh(polled, progress)
  BY <1>3, <1>5, <1>6, Refreshed DEF Poll
<1>7. CASE ~ShouldRefresh(polled, progress)
  <2>1. UNCHANGED listVars
    BY <1>7 DEF Poll
  <2>2. CASE polled'.status = "complete" /\ polled'.at # first'
    <3>1. polled # NoPoll /\ UNCHANGED first
      BY <1>4, <2>2
    <3>2. polled.status = "complete" /\ polled.at = progress.at
      BY <1>1, <1>7, <2>2, <3>1 DEF ShouldRefresh
    <3>3. polled.rows = polled'.rows
      BY <1>1, <3>2 DEF PollInvariant
    <3>4. CaughtUp'
      BY <1>1, <2>1, <2>2, <3>1, <3>2, <3>3 DEF CaughtUp, listVars
    <3> QED BY <1>3, <1>5, <2>1, <3>4 DEF listVars
  <2>3. CASE ~(polled'.status = "complete" /\ polled'.at # first')
    BY <1>3, <1>5, <2>1, <2>3 DEF CaughtUp, listVars
  <2> QED BY <2>2, <2>3
<1> QED BY <1>6, <1>7

LEMMA ListStep ==
  ASSUME StatusInvariant, RowsRead \/ RowsArrive \/ RowsFail
  PROVE  StatusInvariant'
<1>1. UNCHANGED <<progress, rows, runs, hour, polled, first, joined>>
  BY DEF RowsRead, RowsArrive, RowsFail, serverVars, pollVars
<1>2. ServerInvariant' /\ PollInvariant'
  BY <1>1, ServerStays DEF StatusInvariant, ServerInvariant
<1>3. polled.rows <= rows /\ polled.rows \in Nat /\ rows \in Nat
  BY Numbers DEF StatusInvariant, ServerInvariant, PollInvariant
<1>4. CaughtUp' /\ listing' \in {"none", "sent", "read"}
  BY <1>1, <1>3 DEF RowsRead, RowsArrive, RowsFail, StatusInvariant, CaughtUp
<1> QED BY <1>1, <1>2, <1>4 DEF StatusInvariant

-----------------------------------------------------------------------------
(* A request for a run.                                                    *)
LEMMA PostStep ==
  ASSUME StatusInvariant, NEW k \in Caller, Queued(k) \/ Refused(k) \/ PostLost(k)
  PROVE  StatusInvariant'
<1> USE DEF StatusInvariant
<1>1. UNCHANGED <<rows, runs, hour, polled, first>> /\ (RefreshLists \/ UNCHANGED listVars)
  BY DEF Queued, Refused, PostLost, SyncSettled, pollVars
<1>2. \/ UNCHANGED progress
      \/ progress' \in Progress /\ progress'.status = "queued" /\ progress'.at = progress.at
         /\ progress'.rows = progress.rows
  <2>1. CASE Accepted(k)
    BY <2>1 DEF Accepted, ServerInvariant, Progress, Statuses
  <2> QED BY <2>1 DEF Queued, Refused, PostLost
<1>3. ServerInvariant'
  BY <1>1, <1>2 DEF ServerInvariant
<1>4. PollInvariant'
  BY <1>1, <1>2 DEF PollInvariant
<1> QED BY <1>1, <1>3, <1>4, Refreshed, ListsStay

LEMMA AllNumbers ==
  ASSUME StatusInvariant
  PROVE  /\ progress.at \in Nat /\ progress.rows \in Nat /\ progress.last \in Nat
         /\ rows \in Nat /\ runs \in Nat /\ hour \in Nat
         /\ polled.at \in Nat /\ polled.rows \in Nat
  BY Numbers DEF StatusInvariant, ServerInvariant, PollInvariant

LEMMA RunGoesOn ==
  ASSUME StatusInvariant, RunStarts \/ RunSaves \/ RunFetchesDetails
  PROVE  StatusInvariant'
<1>1. UNCHANGED <<hour, polled, first, listVars>>
  BY DEF RunStarts, RunSaves, RunFetchesDetails, ClientStill, pollVars
<1>2. /\ progress' \in Progress /\ progress'.status = "running"
      /\ progress'.at = progress.at /\ progress'.rows = progress.rows
  BY DEF RunStarts, RunSaves, RunFetchesDetails, StatusInvariant, ServerInvariant, Progress, Statuses
<1>3. /\ rows' = rows \/ rows' = rows + 1
      /\ (runs' = runs /\ progress.status = "running") \/ runs' = runs + 1
  BY DEF RunStarts, RunSaves, RunFetchesDetails
<1>4. ServerInvariant'
  <2>1. progress.at < runs' /\ progress.rows <= rows' /\ rows' \in Nat /\ runs' \in Nat
    BY <1>3, AllNumbers DEF StatusInvariant, ServerInvariant
  <2> QED BY <1>1, <1>2, <2>1, AllNumbers DEF ServerInvariant
<1>5. PollInvariant'
  BY <1>1, <1>2 DEF StatusInvariant, PollInvariant
<1> QED BY <1>1, <1>4, <1>5, ListsStay DEF StatusInvariant

\* What a run that ends leaves behind.
Ended(outcome, why, time) ==
  [progress EXCEPT !.status = outcome, !.code = why, !.at = runs, !.rows = rows, !.last = time]

LEMMA EndedProgress ==
  ASSUME StatusInvariant, NEW outcome \in {"complete", "failed", "interrupted"},
         NEW why \in {"", "reconnect"}, NEW time \in Nat
  PROVE  /\ Ended(outcome, why, time) \in Progress
         /\ Ended(outcome, why, time).status = outcome
         /\ Ended(outcome, why, time).at = runs
         /\ Ended(outcome, why, time).rows = rows
  BY DEF Ended, StatusInvariant, ServerInvariant, Progress, Statuses

LEMMA TimeEnded ==
  ASSUME StatusInvariant, NEW complete \in BOOLEAN
  PROVE  (IF complete THEN hour + 1 ELSE progress.last) \in Nat
  BY AllNumbers

LEMMA RunIsOver ==
  ASSUME StatusInvariant, progress.status = "running", progress' \in Progress,
         progress'.status \notin {"none", "idle", "running"},
         progress'.at = runs, progress'.rows = rows,
         UNCHANGED <<rows, runs, hour, polled, first, listVars>>
  PROVE  StatusInvariant'
<1>1. progress.at < runs
  BY DEF StatusInvariant, ServerInvariant
<1>2. ServerInvariant'
  BY AllNumbers DEF ServerInvariant
<1>3. polled.at < runs /\ polled.rows <= rows
  BY <1>1, AllNumbers DEF StatusInvariant, ServerInvariant, PollInvariant
<1>4. PollInvariant'
  BY <1>3, AllNumbers DEF StatusInvariant, PollInvariant
<1> QED BY <1>2, <1>4, ListsStay DEF StatusInvariant

LEMMA RunEndStep ==
  ASSUME StatusInvariant, NEW outcome \in {"complete", "failed", "interrupted"},
         NEW why \in {"", "reconnect"}, RunEnds(outcome, why)
  PROVE  StatusInvariant'
<1> DEFINE time == IF outcome = "complete" THEN hour + 1 ELSE progress.last
           p == Ended(outcome, why, time)
<1>1. UNCHANGED <<rows, runs, hour, polled, first, listVars>> /\ progress.status = "running"
  BY DEF RunEnds, ClientStill, pollVars
<1>2. progress' = p
  BY DEF RunEnds, Ended
<1>3. time \in Nat
  <2>1. (outcome = "complete") \in BOOLEAN
    OBVIOUS
  <2> QED BY <2>1, TimeEnded, Zenon
<1> HIDE DEF time
<1>5. p \in Progress /\ p.status = outcome /\ p.at = runs /\ p.rows = rows
  BY <1>3, EndedProgress, Zenon
<1>6. outcome \notin {"none", "idle", "running"}
  BY Zenon
<1> HIDE DEF p
<1>7. /\ progress' \in Progress /\ progress'.status = outcome
      /\ progress'.at = runs /\ progress'.rows = rows
  BY <1>2, <1>5, Zenon
<1>8. progress'.status \notin {"none", "idle", "running"}
  BY <1>6, <1>7, Zenon
<1> QED BY <1>1, <1>7, <1>8, RunIsOver, Zenon

LEMMA StatusStep ==
  ASSUME StatusInvariant, [StatusNext]_statusVars
  PROVE  StatusInvariant'
<1> USE DEF StatusInvariant
<1>1. CASE PollFails \/ PressSync \/ CheckAccess \/ DismissError \/ Grant \/ UNCHANGED statusVars
  <2>1. UNCHANGED <<progress, rows, runs, hour, polled, first, listVars>>
    BY <1>1 DEF PollFails, PressSync, CheckAccess, DismissError, Grant, ClientStill, serverVars, pollVars,
                statusVars
  <2> QED BY <2>1, ServerStays, ListsStay DEF ServerInvariant
<1>2. CASE RunTimer
  <2>1. UNCHANGED <<progress, rows, runs, hour, polled, first>> /\ RefreshLists
    BY <1>2 DEF RunTimer, serverVars, pollVars
  <2> QED BY <2>1, ServerStays, Refreshed DEF ServerInvariant
<1>3. CASE HourPasses
  <2>1. UNCHANGED <<progress, rows, runs, polled, first, listVars>> /\ hour' \in Nat
    BY <1>3 DEF HourPasses, ClientStill, serverVars, pollVars, ServerInvariant
  <2> QED BY <2>1, ServerStays, ListsStay
<1> QED BY <1>1, <1>2, <1>3, PollStep, ListStep, PostStep, RunGoesOn, RunEndStep DEF StatusNext

LEMMA FreshRows == StatusInvariant => FreshMeansCaughtUp
<1> SUFFICES ASSUME StatusInvariant, Health = "fresh"
             PROVE  polled.status = "complete"
  BY DEF StatusInvariant, CaughtUp, FreshMeansCaughtUp
<1>1. ~Failed(polled) /\ ~InFlight(polled) /\ LastSynced # Never
  BY DEF Health
<1> QED BY <1>1 DEF StatusInvariant, PollInvariant, Progress, Statuses, Failed, InFlight, Started, LastSynced

(* SyncProgress.tsx: "The pill says in a few words whether the data on     *)
(* screen can be trusted".  When it calls a sync fresh that ended while    *)
(* the page was open, the lists hold what that sync wrote.                 *)
THEOREM FreshIsCaughtUp == StatusSpec => []FreshMeansCaughtUp
<1>1. StatusSpec => []StatusInvariant
  BY InitStatus, StatusStep, PTL DEF StatusSpec
<1> QED BY <1>1, FreshRows, PTL

(* What the page shows.  The rows of the run under way are not counted     *)
(* until they are saved, and only a run that failed lacks authorization.   *)
Toasts == {"", "already running", "network"}
Watched == {"none", "no", "yes"}
LacksAccess(p) == p.code = "reconnect" => p.status = "failed"
NotYetSaved == progress.status = "running" /\ progress.phase = "history" => rows < runs

CountInvariant ==
  /\ runs \in 0 .. MaxRuns /\ rows <= runs /\ NotYetSaved
  /\ shown \in NoList .. rows /\ listReply \in 0 .. rows
CodeInvariant == LacksAccess(progress) /\ LacksAccess(polled)
PostInvariant ==
  /\ post \in [Caller -> {"none", "sent"}] /\ watched \in Watched
  /\ toast \in Toasts /\ (Started(polled) => toast = "")

PageInvariant == StatusInvariant /\ CountInvariant /\ CodeInvariant /\ PostInvariant

LEMMA InitPage == StatusInit => PageInvariant
<1> SUFFICES ASSUME StatusInit
             PROVE  PageInvariant
  OBVIOUS
<1>1. progress = Idle /\ polled = NoPoll /\ rows = 0 /\ runs = 0 /\ shown = NoList /\ listReply = 0
  BY DEF StatusInit
<1>2. CountInvariant
  <2>1. NotYetSaved
    BY <1>1 DEF NotYetSaved, Idle
  <2>2. 0 \in 0 .. MaxRuns /\ NoList \in NoList .. 0 /\ 0 \in 0 .. 0
    BY StatusAssumption DEF NoList
  <2> QED BY <1>1, <2>1, <2>2 DEF CountInvariant
<1>3. CodeInvariant
  BY <1>1 DEF CodeInvariant, LacksAccess, Idle, NoPoll
<1>4. post = [k \in Caller |-> "none"] /\ watched = "none" /\ toast = ""
  BY DEF StatusInit
<1>5. PostInvariant
  BY <1>4 DEF PostInvariant, Toasts, Watched
<1> QED BY <1>2, <1>3, <1>5, InitStatus DEF PageInvariant

LEMMA CountNumbers ==
  ASSUME PageInvariant
  PROVE  rows \in Nat /\ runs \in Nat /\ MaxRuns \in Nat
  BY AllNumbers, StatusAssumption DEF PageInvariant

\* The lists are asked for again: what is on the screen stays.
LEMMA RefreshCounts ==
  ASSUME PageInvariant, RefreshLists, UNCHANGED <<rows, runs>>, NotYetSaved'
  PROVE  CountInvariant'
<1>1. UNCHANGED shown /\ listReply' \in {listReply, 0}
  BY DEF RefreshLists
<1> QED BY <1>1, CountNumbers DEF PageInvariant, CountInvariant

LEMMA CountsStay ==
  ASSUME PageInvariant, UNCHANGED <<progress, rows, runs, listVars>>
  PROVE  CountInvariant'
  BY DEF PageInvariant, CountInvariant, NotYetSaved, listVars

LEMMA PostsStay ==
  ASSUME PageInvariant, UNCHANGED <<polled, postVars>>
  PROVE  PostInvariant'
  BY DEF PageInvariant, PostInvariant, Started, postVars

LEMMA CodesStay ==
  ASSUME PageInvariant, UNCHANGED <<progress, polled>>
  PROVE  CodeInvariant'
  BY DEF PageInvariant, CodeInvariant, LacksAccess

\* An error about a request is withdrawn when the run is known to go on.
LEMMA Withdraws ==
  ASSUME NEW text \in Toasts, NEW p
  PROVE  Withdrawn(text, p) \in Toasts /\ (Started(p) => Withdrawn(text, p) = "")
  BY DEF Withdrawn, Toasts

LEMMA PollPage ==
  ASSUME PageInvariant, Poll
  PROVE  CountInvariant' /\ CodeInvariant' /\ PostInvariant'
<1>1. /\ UNCHANGED <<progress, rows, runs, post, watched>> /\ polled' = progress
      /\ RefreshLists \/ UNCHANGED listVars
      /\ toast' = Withdrawn(toast, progress)
  BY DEF Poll, serverVars
<1>2. NotYetSaved'
  BY <1>1 DEF PageInvariant, CountInvariant, NotYetSaved
<1>3. CountInvariant'
  BY <1>1, <1>2, RefreshCounts, CountsStay
<1>4. CodeInvariant'
  BY <1>1 DEF PageInvariant, CodeInvariant, LacksAccess
<1>5. PostInvariant'
  BY <1>1, Withdraws DEF PageInvariant, PostInvariant, Started
<1> QED BY <1>3, <1>4, <1>5

LEMMA ListPage ==
  ASSUME PageInvariant, RowsRead \/ RowsArrive \/ RowsFail
  PROVE  CountInvariant' /\ CodeInvariant' /\ PostInvariant'
<1>1. UNCHANGED <<progress, rows, runs, polled, postVars>>
  BY DEF RowsRead, RowsArrive, RowsFail, serverVars, pollVars
<1>2. shown' \in {shown, listReply} /\ listReply' \in {0, rows}
  BY DEF RowsRead, RowsArrive, RowsFail
<1>3. CountInvariant'
  BY <1>1, <1>2, CountNumbers DEF PageInvariant, CountInvariant, NotYetSaved, NoList
<1> QED BY <1>1, <1>3, CodesStay, PostsStay

LEMMA AskPage ==
  ASSUME PageInvariant, PressSync \/ CheckAccess \/ DismissError
  PROVE  CountInvariant' /\ CodeInvariant' /\ PostInvariant'
<1>1. UNCHANGED <<progress, rows, runs, polled, listVars>>
  BY DEF PressSync, CheckAccess, DismissError, serverVars, pollVars
<1>2. toast' \in {toast, ""} /\ watched' \in Watched
  BY DEF PressSync, CheckAccess, DismissError, Watched, PageInvariant, PostInvariant
<1>3. post' = post \/ \E k \in Caller : post' = [post EXCEPT ![k] = "sent"]
  BY DEF PressSync, CheckAccess, DismissError, Caller
<1>4. post' \in [Caller -> {"none", "sent"}]
  BY <1>3 DEF PageInvariant, PostInvariant
<1>5. PostInvariant'
  <2>1. Started(polled)' <=> Started(polled)
    BY <1>1 DEF Started
  <2>2. toast' \in Toasts /\ (Started(polled)' => toast' = "")
    BY <1>2, <2>1 DEF Toasts, PageInvariant, PostInvariant
  <2> QED BY <1>2, <1>4, <2>2 DEF PostInvariant
<1> QED BY <1>1, <1>5, CountsStay, CodesStay

LEMMA PostPage ==
  ASSUME PageInvariant, NEW k \in Caller, Queued(k) \/ Refused(k) \/ PostLost(k)
  PROVE  CountInvariant' /\ CodeInvariant' /\ PostInvariant'
<1>1. /\ UNCHANGED <<rows, runs, polled, watched>> /\ post' = [post EXCEPT ![k] = "none"]
      /\ RefreshLists \/ UNCHANGED listVars
  BY DEF Queued, Refused, PostLost, SyncSettled, pollVars
<1>2. UNCHANGED progress \/ (progress'.status = "queued" /\ progress'.code = "")
  <2>1. CASE Accepted(k)
    BY <2>1 DEF Accepted, PageInvariant, StatusInvariant, ServerInvariant, Progress
  <2> QED BY <2>1 DEF Queued, Refused, PostLost
<1>3. NotYetSaved'
  BY <1>1, <1>2 DEF PageInvariant, CountInvariant, NotYetSaved
<1>4. LacksAccess(progress')
  BY <1>2 DEF PageInvariant, CodeInvariant, LacksAccess
<1>5. CodeInvariant'
  BY <1>1, <1>4 DEF PageInvariant, CodeInvariant
<1>6. toast' = toast \/ \E text \in Toasts : toast' = Withdrawn(text, polled)
  BY DEF Queued, Refused, PostLost, Toasts
<1>7. toast' \in Toasts /\ (Started(polled) => toast' = "")
  BY <1>6, Withdraws DEF PageInvariant, PostInvariant
<1>8. PostInvariant'
  BY <1>1, <1>7 DEF PageInvariant, PostInvariant, Started
<1>9. CASE RefreshLists
  BY <1>1, <1>3, <1>5, <1>8, <1>9, RefreshCounts
<1>10. CASE UNCHANGED listVars
  BY <1>1, <1>3, <1>5, <1>8, <1>10 DEF PageInvariant, CountInvariant, listVars
<1> QED BY <1>1, <1>9, <1>10

LEMMA RunPage ==
  ASSUME PageInvariant, RunStarts \/ RunSaves \/ RunFetchesDetails
  PROVE  CountInvariant' /\ CodeInvariant' /\ PostInvariant'
<1>1. UNCHANGED <<polled, listVars, postVars>>
  BY DEF RunStarts, RunSaves, RunFetchesDetails, ClientStill, pollVars
<1>2. progress'.status = "running" /\ progress'.code \in {progress.code, ""}
  BY DEF RunStarts, RunSaves, RunFetchesDetails, PageInvariant, StatusInvariant, ServerInvariant, Progress
<1>3. LacksAccess(progress')
  <2>1. CASE RunStarts
    <3>1. progress'.code = ""
      BY <2>1 DEF RunStarts, PageInvariant, StatusInvariant, ServerInvariant, Progress
    <3> QED BY <3>1 DEF LacksAccess
  <2>2. CASE RunSaves \/ RunFetchesDetails
    <3>1. progress.status = "running" /\ progress'.code = progress.code
      BY <2>2 DEF RunSaves, RunFetchesDetails, PageInvariant, StatusInvariant, ServerInvariant, Progress
    <3> QED BY <3>1 DEF LacksAccess, PageInvariant, CodeInvariant
  <2> QED BY <2>1, <2>2
<1>4. CodeInvariant'
  BY <1>1, <1>3 DEF PageInvariant, CodeInvariant
<1>5. CASE RunStarts
  <2>1. UNCHANGED rows /\ runs' = runs + 1 /\ runs < MaxRuns
    BY <1>5 DEF RunStarts
  <2> QED BY <1>1, <1>4, <2>1, CountNumbers, PostsStay DEF PageInvariant, CountInvariant, NotYetSaved, listVars
<1>6. CASE RunSaves
  <2>1. rows' = rows + 1 /\ UNCHANGED runs /\ rows < runs /\ progress'.phase = "saving"
    BY <1>6 DEF RunSaves, PageInvariant, StatusInvariant, ServerInvariant, Progress, CountInvariant, NotYetSaved
  <2>2. NotYetSaved'
    BY <2>1 DEF NotYetSaved
  <2> QED BY <1>1, <1>4, <2>1, <2>2, CountNumbers, PostsStay DEF PageInvariant, CountInvariant, NoList, listVars
<1>7. CASE RunFetchesDetails
  <2>1. UNCHANGED <<rows, runs>> /\ progress'.phase = "details"
    BY <1>7 DEF RunFetchesDetails, PageInvariant, StatusInvariant, ServerInvariant, Progress
  <2>2. NotYetSaved'
    BY <2>1 DEF NotYetSaved
  <2> QED BY <1>1, <1>4, <2>1, <2>2, PostsStay DEF PageInvariant, CountInvariant, listVars
<1> QED BY <1>5, <1>6, <1>7

LEMMA EndPage ==
  ASSUME PageInvariant, NEW outcome \in {"complete", "failed", "interrupted"}, NEW why \in {"", "reconnect"},
         why = "reconnect" => outcome = "failed", RunEnds(outcome, why)
  PROVE  CountInvariant' /\ CodeInvariant' /\ PostInvariant'
<1>1. UNCHANGED <<rows, runs, polled, listVars, postVars>>
  BY DEF RunEnds, ClientStill, pollVars
<1>2. progress'.status = outcome /\ progress'.code = why
  BY DEF RunEnds, PageInvariant, StatusInvariant, ServerInvariant, Progress
<1>3. NotYetSaved' /\ LacksAccess(progress')
  BY <1>2 DEF NotYetSaved, LacksAccess
<1>4. CodeInvariant' /\ CountInvariant'
  BY <1>1, <1>3 DEF PageInvariant, CodeInvariant, CountInvariant, listVars
<1> QED BY <1>1, <1>4, PostsStay

LEMMA PageStep ==
  ASSUME PageInvariant, [StatusNext]_statusVars
  PROVE  PageInvariant'
<1>1. StatusInvariant'
  BY StatusStep DEF PageInvariant
<1>2. CASE PollFails \/ Grant \/ HourPasses \/ UNCHANGED statusVars
  <2>1. UNCHANGED <<progress, rows, runs, polled, listVars, postVars>>
    BY <1>2 DEF PollFails, Grant, HourPasses, ClientStill, serverVars, pollVars, statusVars
  <2> QED BY <1>1, <2>1, CountsStay, CodesStay, PostsStay DEF PageInvariant
<1>3. CASE RunTimer
  <2>1. UNCHANGED <<progress, rows, runs, polled, postVars>> /\ RefreshLists
    BY <1>3 DEF RunTimer, serverVars, pollVars
  <2>2. NotYetSaved'
    BY <2>1 DEF PageInvariant, CountInvariant, NotYetSaved
  <2> QED BY <1>1, <2>1, <2>2, RefreshCounts, CodesStay, PostsStay DEF PageInvariant
<1> QED BY <1>1, <1>2, <1>3, PollPage, ListPage, AskPage, PostPage, RunPage, EndPage DEF StatusNext, PageInvariant

\* A run that ended for want of authorization is said first.
LEMMA ReconnectSaid ==
  ASSUME PageInvariant, polled.code = "reconnect", NEW e \in BOOLEAN
  PROVE  Banners(e)[1].key \in {"paused", "reconnect"}
<1> DEFINE all == <<[key |-> "paused", said |-> authPaused], [key |-> "reconnect", said |-> AsksToReconnect],
                    [key |-> "oauth", said |-> e], [key |-> "first-sync", said |-> FirstSync]>>
           kept == {n \in DOMAIN all : all[n].said}
           said == Selected(all, kept)
<1>1. Failed(polled)
  BY DEF PageInvariant, CodeInvariant, LacksAccess, Failed
<1>2. all[1].said = authPaused /\ all[2].said = AsksToReconnect /\ DOMAIN all = 1 .. 4 /\ Len(all) = 4
  OBVIOUS
<1>3. all[1].key = "paused" /\ all[2].key = "reconnect" /\ all \in Seq({all[1], all[2], all[3], all[4]})
  OBVIOUS
<1>4. Banners(e) = SubSeq(said, 1, IF Len(said) < 2 THEN Len(said) ELSE 2)
  BY DEF Banners
<1> HIDE DEF all
<1>5. kept \in SUBSET (1 .. Len(all)) /\ \E n \in {1, 2} : n \in kept
  <2>1. authPaused \/ AsksToReconnect
    BY <1>1, Zenon DEF AsksToReconnect
  <2>2. \E n \in {1, 2} : all[n].said
    BY <1>2, <2>1, Zenon
  <2> QED BY <1>2, <2>2
<1>6. Len(said) \in Nat \ {0} /\ \E i \in kept : (\A j \in kept : i <= j) /\ said[1] = all[i]
  BY <1>3, <1>5, SelectedFirst
<1>7. PICK i \in {1, 2} : said[1] = all[i]
  BY <1>2, <1>5, <1>6
<1>8. said \in Seq({all[1], all[2], all[3], all[4]})
  BY <1>3, <1>5, SelectedKeeps
<1> HIDE DEF said
<1>9. Banners(e)[1] = said[1]
  BY <1>4, <1>6, <1>8
<1> QED BY <1>3, <1>7, <1>9

LEMMA PageTypes == PageInvariant => StatusTypeOK
<1> SUFFICES ASSUME PageInvariant
             PROVE  StatusTypeOK
  OBVIOUS
<1>1. polled \in Progress /\ listing \in {"none", "sent", "read"}
  BY DEF PageInvariant, StatusInvariant, PollInvariant
<1>2. polled.status \in Statuses /\ Stage(polled) \in 0 .. 2
  BY <1>1, Numbers DEF Stage
<1> QED BY <1>1, <1>2, ReconnectSaid
        DEF StatusTypeOK, PageInvariant, CountInvariant, PostInvariant, Statuses, Toasts, Watched

(* sync-model.ts and Banners.tsx: every variable takes the values it       *)
(* should; a poll that asks for a reconnection is what the page says       *)
(* first, unless the session is paused.                                    *)
THEOREM StatusTypesCorrect == StatusSpec => []StatusTypeOK
<1>1. StatusSpec => []PageInvariant
  BY InitPage, PageStep, PTL DEF StatusSpec
<1> QED BY <1>1, PageTypes, PTL

-----------------------------------------------------------------------------
(* THE PULL REQUESTS                                                       *)

(* The rows of an answer.                                                  *)
Selecting(r) == {p \in PR : Selects(r, github[p])}

LEMMA NewestFirstIsOrder ==
  ASSUME NEW S \in SUBSET PR
  PROVE  IsOrder(S, NewestFirst)
<1>1. \A p, q \in S : <<p, q>> \in NewestFirst <=> p > q
  BY DEF NewestFirst
<1>2. S \subseteq Nat
  BY ListAssumption
<1> QED BY <1>1, <1>2 DEF IsOrder

LEMMA OffsetIsNatural ==
  ASSUME NEW a
  PROVE  Request(a).offset \in Nat
<1>1. PageOf(a.page) \in Nat
  <2>1. PageLimit \in Nat
    BY DEF PageLimit
  <2> QED BY <2>1 DEF PageOf
<1>2. PageOf(a.page) * PageSize \in Nat
  BY <1>1, ListAssumption
<1> QED BY <1>2 DEF Request

LEMMA AnswerSelects ==
  ASSUME NEW r, r.offset \in Nat, NEW n \in DOMAIN Answer(r).rows
  PROVE  \E p \in PR : Selects(r, github[p]) /\ Answer(r).rows[n].fact = github[p]
<1> DEFINE all == Ranked(Selecting(r), NewestFirst)
           size == IF Len(all) - r.offset > PageSize THEN PageSize
                   ELSE IF Len(all) > r.offset THEN Len(all) - r.offset ELSE 0
           slice == [i \in 1 .. size |-> [id |-> all[r.offset + i], fact |-> github[all[r.offset + i]]]]
<1>1. IsFiniteSet(Selecting(r)) /\ IsOrder(Selecting(r), NewestFirst)
  <2>1. Selecting(r) \in SUBSET PR
    BY DEF Selecting
  <2> QED BY <2>1, ListAssumption, FS_Subset, NewestFirstIsOrder
<1>2. all \in Seq(Selecting(r))
  BY <1>1, RankedOrder
<1>3. Answer(r) = [total |-> Len(all), rows |-> slice]
  BY DEF Answer, Selecting
<1> HIDE DEF all
<1>4. n \in 1 .. size
  BY <1>3
<1>5. r.offset + n \in 1 .. Len(all)
  <2>1. Len(all) \in Nat /\ PageSize \in Nat
    BY <1>2, ListAssumption
  <2> QED BY <1>4, <2>1
<1>6. all[r.offset + n] \in Selecting(r)
  BY <1>2, <1>5, ElementOfSeq
<1>7. Answer(r).rows[n].fact = github[all[r.offset + n]]
  BY <1>3, <1>4
<1> QED BY <1>6, <1>7 DEF Selecting

\* What a request selects is a matter of its list: the page only skips rows.
OfKey(k) == [view |-> k.view, page |-> 0, q |-> k.q, repo |-> k.repo]

LEMMA SelectsByList ==
  ASSUME NEW a, NEW f
  PROVE  Selects(Request(a), f) <=> Selects(Request(OfKey(KeyOf(a))), f)
<1> DEFINE r == Request(a)
           s == Request(OfKey(KeyOf(a)))
<1>1. KeyOf(a).view = a.view /\ KeyOf(a).q = a.q /\ KeyOf(a).repo = a.repo
  BY DEF KeyOf, ListKey
<1>2. OfKey(KeyOf(a)).view = a.view /\ OfKey(KeyOf(a)).q = a.q /\ OfKey(KeyOf(a)).repo = a.repo
  BY <1>1 DEF OfKey
<1>3. /\ r.repo = s.repo /\ r.search = s.search /\ r.attention = s.attention /\ r.merged = s.merged
      /\ r.state = s.state /\ r.review = s.review
  BY <1>2 DEF Request
<1> HIDE DEF r, s
<1>4. Selects(r, f) <=> Selects(s, f)
  BY <1>3 DEF Selects
<1> QED BY <1>4 DEF r, s

-----------------------------------------------------------------------------
(* Every answer that is kept is one of the list that it is kept for, and   *)
(* of facts that GitHub may say.                                           *)
Believable(f) == \E p \in PR : f \in Fact[p]
Belongs(k) ==
  \A n \in DOMAIN answers[k].rows :
    LET f == answers[k].rows[n].fact IN Selects(Request(OfKey(k)), f) /\ Believable(f)

ListInvariant ==
  /\ DOMAIN github = PR /\ \A p \in PR : github[p] \in Fact[p]
  /\ IsListAddress(at) /\ \A k \in DOMAIN answers : Belongs(k)

LEMMA InitList == ListPageInit => ListInvariant
<1> SUFFICES ASSUME ListPageInit
             PROVE  ListInvariant
  OBVIOUS
<1>1. DOMAIN github = PR /\ \A p \in PR : github[p] \in Fact[p]
  BY DEF ListPageInit
<1>2. IsListAddress(at) /\ DOMAIN answers = {}
  BY ListAssumption DEF ListPageInit
<1> QED BY <1>1, <1>2 DEF ListInvariant

LEMMA GoStep ==
  ASSUME ListInvariant, NEW a, IsListAddress(a), UNCHANGED <<github, answers>>, at' \in {a, at}
  PROVE  ListInvariant'
  BY DEF ListInvariant, Belongs

LEMMA ListGoesStep ==
  ASSUME ListInvariant, NEW a, IsListAddress(a), ListGoes(a)
  PROVE  ListInvariant'
<1>1. UNCHANGED <<github, answers>> /\ at' = a
  BY DEF ListGoes, Show
<1> QED BY <1>1, GoStep

\* What the controls of the page make of its address.
LEMMA AddressKept ==
  ASSUME ListInvariant
  PROVE  /\ \A pg : IsListAddress([at EXCEPT !.page = pg])
         /\ \A q, pg : IsListAddress([at EXCEPT !.q = q, !.page = pg])
         /\ \A repo, pg : IsListAddress([at EXCEPT !.repo = repo, !.page = pg])
         /\ \A q, repo, pg : IsListAddress([at EXCEPT !.q = q, !.repo = repo, !.page = pg])
         /\ \A view \in Views : \A pg : IsListAddress([at EXCEPT !.view = view, !.page = pg])
<1>1. at = [view |-> at.view, page |-> at.page, q |-> at.q, repo |-> at.repo] /\ at.view \in Views
  BY DEF ListInvariant, IsListAddress
<1>2. PICK v, p, q0, r : v \in Views /\ at = [view |-> v, page |-> p, q |-> q0, repo |-> r]
  BY <1>1
<1>3. ASSUME NEW pg, NEW q, NEW repo, NEW view \in Views
      PROVE  /\ IsListAddress([at EXCEPT !.page = pg])
             /\ IsListAddress([at EXCEPT !.repo = repo, !.page = pg])
             /\ IsListAddress([at EXCEPT !.q = q, !.page = pg])
             /\ IsListAddress([at EXCEPT !.q = q, !.repo = repo, !.page = pg])
             /\ IsListAddress([at EXCEPT !.view = view, !.page = pg])
  <2> DEFINE A == [view : {v, view}, page : {p, pg}, q : {q0, q}, repo : {r, repo}]
  <2>1. at \in A
    BY <1>2
  <2>2. /\ [at EXCEPT !.page = pg] \in A
        /\ [at EXCEPT !.repo = repo, !.page = pg] \in A
        /\ [at EXCEPT !.q = q, !.page = pg] \in A
        /\ [at EXCEPT !.q = q, !.repo = repo, !.page = pg] \in A
        /\ [at EXCEPT !.view = view, !.page = pg] \in A
    BY <2>1
  <2>3. \A a \in A : IsListAddress(a)
    BY <1>2 DEF IsListAddress
  <2> QED BY <2>2, <2>3
<1> QED BY <1>1, <1>3

LEMMA AnsweredStep ==
  ASSUME ListInvariant, Answered
  PROVE  ListInvariant'
<1> DEFINE r == Request(at)
<1>1. UNCHANGED <<github, at>>
  BY DEF Answered
<1> PICK k : k = KeyOf(at)
  OBVIOUS
<1>2. DOMAIN answers' = DOMAIN answers \cup {k} /\ answers'[k] = Answer(r)
      /\ \A j \in DOMAIN answers \ {k} : answers'[j] = answers[j]
  BY DEF Answered
<1>3. ASSUME NEW j \in DOMAIN answers', j # k
      PROVE  Belongs(j)'
  BY <1>1, <1>2, <1>3 DEF ListInvariant, Belongs
<1>4. Belongs(k)'
  <2>1. ASSUME NEW n \in DOMAIN Answer(r).rows
        PROVE  Selects(Request(OfKey(k)), Answer(r).rows[n].fact) /\ Believable(Answer(r).rows[n].fact)
    <3>1. r.offset \in Nat
      BY OffsetIsNatural
    <3>2. PICK p \in PR : Selects(r, github[p]) /\ Answer(r).rows[n].fact = github[p]
      BY <3>1, AnswerSelects
    <3> QED BY <3>2, SelectsByList DEF ListInvariant, Believable
  <2> QED BY <1>2, <2>1 DEF Belongs
<1> QED BY <1>1, <1>3, <1>4 DEF ListInvariant

LEMMA ForgottenStep ==
  ASSUME ListInvariant, Forgotten
  PROVE  ListInvariant'
<1>1. PICK k \in DOMAIN answers : answers' = [j \in DOMAIN answers \ {k} |-> answers[j]] /\ UNCHANGED <<github, at>>
  BY DEF Forgotten, Restrict
<1> QED BY <1>1 DEF ListInvariant, Belongs

LEMMA ChangesStep ==
  ASSUME ListInvariant, NEW p \in PR, NEW f \in Fact[p], Changes(p, f)
  PROVE  ListInvariant'
  BY DEF ListInvariant, Belongs, Changes

LEMMA ListPageStep ==
  ASSUME ListInvariant, [ListPageNext]_listPageVars
  PROVE  ListInvariant'
<1>1. ASSUME UNCHANGED <<github, at, answers>>
      PROVE  ListInvariant'
  BY <1>1 DEF ListInvariant, Belongs
<1>2. CASE Fails \/ Refetch \/ Connection \/ UNCHANGED listPageVars
  BY <1>1, <1>2 DEF Fails, Refetch, Connection, listPageVars
<1>3. ASSUME NEW p, Marks(p)
      PROVE  ListInvariant'
  BY <1>1, <1>3 DEF Marks
<1>4. CASE MarkNext(1) \/ MarkNext(-1) \/ Unmark \/ \E p \in PR : OpenActivity(p)
  BY <1>3, <1>4 DEF MarkNext, Unmark, OpenActivity
<1>5. CASE Next \/ Previous \/ FirstPage
  BY <1>5, AddressKept, ListGoesStep DEF Next, Previous, FirstPage, SetPage
<1>6. CASE ClearRepository \/ ClearFilters
  BY <1>6, AddressKept, ListGoesStep DEF ClearRepository, ClearFilters
<1>7. ASSUME NEW w \in Typed, UpdateSearch(w)
      PROVE  ListInvariant'
  BY <1>7, AddressKept, ListGoesStep DEF UpdateSearch
<1>8. ASSUME NEW v \in ListView, ShowView(v)
      PROVE  ListInvariant'
  BY <1>8, ListAssumption, AddressKept, ListGoesStep DEF ShowView
<1>9. ASSUME NEW n, FilterRepository(n)
      PROVE  ListInvariant'
  BY <1>9, AddressKept, ListGoesStep DEF FilterRepository
<1>10. ASSUME NEW a \in ListLink, FollowLink(a) \/ Reopen(a)
       PROVE  ListInvariant'
  <2>1. IsListAddress(a)
    BY ListAssumption
  <2>2. CASE Reopen(a)
    BY <2>1, <2>2, GoStep DEF Reopen, Show
  <2> QED BY <1>10, <2>1, <2>2, ListGoesStep DEF FollowLink
<1> QED BY <1>2, <1>4, <1>5, <1>6, <1>7, <1>8, <1>9, <1>10, AnsweredStep, ForgottenStep, ChangesStep DEF ListPageNext

\* A row says what it was selected for.
LEMMA SelectedSaysWhy ==
  ASSUME NEW a, IsListAddress(a), NEW f, Believable(f), Selects(Request(a), f), IsListAddress(at)
  PROVE  SaysWhy(a.view, f)
<1>1. IsFact(f)
  BY ListAssumption DEF Believable
<1>2. CASE a.view = "merged"
  BY <1>2 DEF Request, Selects, SaysWhy, PRStatus, StatusOf
<1>3. CASE a.view = "blocked"
  <2>1. /\ f.state = "open" /\ ~f.merged
        /\ f.conflict \/ f.review = "changes_requested" \/ f.checks \in Red
    BY <1>3 DEF Request, Selects
  <2> QED BY <1>3, <2>1 DEF SaysWhy, PRStatus, StatusOf, ChecksChip, PRTone, Red
<1>4. CASE a.view = "open"
  <2>1. f.state = "open" /\ ~f.merged
    BY <1>1, <1>4 DEF Request, Selects, IsFact
  <2> QED BY <1>1, <1>4, <2>1 DEF SaysWhy, PRStatus, StatusOf, IsFact, Reviews
<1>5. CASE a.view \in {"review-requested", "changes-requested", "approved"}
  <2>1. f.state = "open" /\ ~f.merged /\ f.review = Request(a).review
    BY <1>1, <1>5 DEF Request, Selects, IsFact
  <2>2. Request([at EXCEPT !.view = a.view]).review = Request(a).review
    BY DEF Request, IsListAddress
  <2> QED BY <1>5, <2>1, <2>2 DEF SaysWhy, PRStatus, StatusOf
<1> QED BY <1>2, <1>3, <1>4, <1>5 DEF IsListAddress, Views

LEMMA RowsAreOfList == ListInvariant => RowsBelong
<1> SUFFICES ASSUME ListInvariant, Body = "rows", ~StandsIn, NEW n \in DOMAIN Data.rows
             PROVE  Selects(Request(at), Data.rows[n].fact) /\ SaysWhy(at.view, Data.rows[n].fact)
  BY DEF RowsBelong
<1>1. Data = Kept /\ Data # NoAnswer
  BY DEF Data, Body, NoAnswer
<1>2. KeyOf(at) \in DOMAIN answers /\ Data = answers[KeyOf(at)]
  BY <1>1 DEF Kept, Cached
<1>3. Selects(Request(OfKey(KeyOf(at))), Data.rows[n].fact) /\ Believable(Data.rows[n].fact)
  BY <1>2 DEF ListInvariant, Belongs
<1> QED BY <1>3, SelectsByList, SelectedSaysWhy DEF ListInvariant

(* PullRequestsPage.tsx: whatever was answered, cached or forgotten, a row *)
(* on the page belongs to the list that the page is about, and the reason  *)
(* it is shown with is one of that list.                                   *)
THEOREM RowsAreOfTheirList == ListPageSpec => []RowsBelong
<1>1. ListPageSpec => []ListInvariant
  BY InitList, ListPageStep, PTL DEF ListPageSpec
<1> QED BY <1>1, RowsAreOfList, PTL

-----------------------------------------------------------------------------
(* THE REPOSITORIES                                                        *)

(* The order of the rows.                                                  *)
ByRow(sort) == {p \in listed \X listed : Before(sort, p[1], p[2])}

LEMMA Counts ==
  ASSUME NEW r \in Name
  PROVE  /\ r \in Nat /\ Repository[r].open \in Nat
         /\ Repository[r].attention \in Nat /\ Repository[r].conflicts \in Nat
  BY RepositoriesAssumption

LEMMA BeforeByName ==
  ASSUME NEW r, NEW s
  PROVE  Before("name", r, s) <=> r < s
  BY DEF Before

LEMMA BeforeByOpen ==
  ASSUME NEW r, NEW s
  PROVE  LET m == Repository[r].open  n == Repository[s].open IN
         Before("open", r, s) <=> m > n \/ (m = n /\ r < s)
  BY DEF Before

LEMMA BeforeByAttention ==
  ASSUME NEW r, NEW s
  PROVE  LET m == Repository[r].attention  n == Repository[s].attention
             i == Repository[r].conflicts  j == Repository[s].conflicts IN
         Before("attention", r, s) <=> m > n \/ (m = n /\ i > j) \/ (m = n /\ i = j /\ r < s)
  BY DEF Before

LEMMA BeforeIsOrder ==
  ASSUME listed \subseteq Name, NEW S \in SUBSET listed, NEW sort \in {"name", "open", "attention"}
  PROVE  IsOrder(S, ByRow(sort))
<1>1. \A r, s \in S : <<r, s>> \in ByRow(sort) <=> Before(sort, r, s)
  BY DEF ByRow
<1>2. \A r \in S : /\ r \in Nat /\ Repository[r].open \in Nat
                   /\ Repository[r].attention \in Nat /\ Repository[r].conflicts \in Nat
  BY Counts
<1>3. ASSUME NEW r \in S, NEW s \in S
      PROVE  /\ r = s \/ Before(sort, r, s) \/ Before(sort, s, r)
             /\ ~(Before(sort, r, s) /\ Before(sort, s, r))
  <2>1. CASE sort = "name"
    BY <1>2, <2>1, BeforeByName
  <2>2. CASE sort = "open"
    BY <1>2, <2>2, BeforeByOpen
  <2>3. CASE sort = "attention"
    <3>1. /\ r \in Nat /\ Repository[r].attention \in Nat /\ Repository[r].conflicts \in Nat
          /\ s \in Nat /\ Repository[s].attention \in Nat /\ Repository[s].conflicts \in Nat
      BY <1>2
    <3> DEFINE m == Repository[r].attention  n == Repository[s].attention
               i == Repository[r].conflicts  j == Repository[s].conflicts
    <3>2. Before("attention", r, s) <=> m > n \/ (m = n /\ i > j) \/ (m = n /\ i = j /\ r < s)
      BY BeforeByAttention
    <3>3. Before("attention", s, r) <=> n > m \/ (n = m /\ j > i) \/ (n = m /\ j = i /\ s < r)
      BY BeforeByAttention
    <3>4. m \in Nat /\ n \in Nat /\ i \in Nat /\ j \in Nat /\ r \in Nat /\ s \in Nat
      BY <3>1
    <3> HIDE DEF m, n, i, j
    <3> QED BY <2>3, <3>2, <3>3, <3>4
  <2> QED BY <2>1, <2>2, <2>3
<1>4. ASSUME NEW r \in S, NEW s \in S, NEW t \in S, Before(sort, r, s), Before(sort, s, t)
      PROVE  Before(sort, r, t)
  <2>1. CASE sort = "name"
    BY <1>2, <1>4, <2>1, BeforeByName
  <2>2. CASE sort = "open"
    BY <1>2, <1>4, <2>2, BeforeByOpen
  <2>3. CASE sort = "attention"
    BY <1>2, <1>4, <2>3, BeforeByAttention
  <2> QED BY <2>1, <2>2, <2>3
<1> QED BY <1>1, <1>3, <1>4 DEF IsOrder

LEMMA RowsNarrowed ==
  ASSUME listed \subseteq Name, NEW n \in DOMAIN Rows
  PROVE  Rows[n] \in Narrowed(drawn)
<1>1. Narrowed(drawn) \in SUBSET listed /\ IsFiniteSet(Narrowed(drawn))
  <2>1. Narrowed(drawn) \in SUBSET listed
    BY DEF Narrowed
  <2> QED BY <2>1, RepositoriesAssumption, FS_Subset
<1>2. SortOf(drawn) \in {"name", "open", "attention"}
  BY DEF SortOf
<1>3. Rows = Ranked(Narrowed(drawn), ByRow(SortOf(drawn)))
  BY DEF Rows, ByRow
<1>4. Rows \in [1 .. Cardinality(Narrowed(drawn)) -> Narrowed(drawn)]
  BY <1>1, <1>2, <1>3, BeforeIsOrder, RankedOrder
<1> QED BY <1>4

-----------------------------------------------------------------------------
(* The field.  What a control writes is an address with all its parts.     *)
Searches == Text \cup {a.q : a \in RepoLink}
Owned == {""} \cup {Repository[r].owner : r \in Name} \cup {a.owner : a \in RepoLink}
Scopes == {"", "all", "attention", "conflicts"} \cup {a.scope : a \in RepoLink}
Sorts == {"attention", "open", "name"} \cup {a.sort : a \in RepoLink}
Place == [q : Searches, owner : Owned, scope : Scopes, sort : Sorts]

LEMMA LinksArePlaces ==
  ASSUME NEW a \in RepoLink
  PROVE  a \in Place
<1>1. a = [q |-> a.q, owner |-> a.owner, scope |-> a.scope, sort |-> a.sort]
  BY RepositoriesAssumption DEF IsPlace
<1>2. a.q \in Searches /\ a.owner \in Owned /\ a.scope \in Scopes /\ a.sort \in Sorts
  BY DEF Searches, Owned, Scopes, Sorts
<1> QED BY <1>1, <1>2 DEF Place

LEMMA NoText == "" \in Searches /\ "" \in Owned /\ "" \in Scopes
  BY RepositoriesAssumption DEF Searches, Owned, Scopes

PlaceInvariant ==
  /\ listed \subseteq Name
  /\ drawn \in Place /\ due \in Seq(Place) /\ sent \in Seq(Text)

\* The address that is written by another control.
LEMMA ControlsWrite ==
  ASSUME PlaceInvariant,
         NEW a, \/ \E scope \in {"", "attention", "conflicts"} : a = [drawn EXCEPT !.scope = scope]
                \/ \E owner \in {""} \cup Owners : a = [drawn EXCEPT !.owner = owner]
                \/ \E sort \in {"attention", "open", "name"} : a = [drawn EXCEPT !.sort = sort]
                \/ a = [drawn EXCEPT !.q = "", !.owner = "", !.scope = ""]
                \/ a \in RepoLink
  PROVE  a \in Place
<1>1. CASE \E scope \in {"", "attention", "conflicts"} : a = [drawn EXCEPT !.scope = scope]
  BY <1>1 DEF PlaceInvariant, Place, Scopes
<1>2. CASE \E owner \in {""} \cup Owners : a = [drawn EXCEPT !.owner = owner]
  <2>1. Owners \subseteq Owned
    BY DEF PlaceInvariant, Owners, Owned
  <2> QED BY <1>2, <2>1, NoText DEF PlaceInvariant, Place
<1>3. CASE \E sort \in {"attention", "open", "name"} : a = [drawn EXCEPT !.sort = sort]
  BY <1>3 DEF PlaceInvariant, Place, Sorts
<1>4. CASE a = [drawn EXCEPT !.q = "", !.owner = "", !.scope = ""]
  BY <1>4, NoText DEF PlaceInvariant, Place
<1> QED BY <1>1, <1>2, <1>3, <1>4, LinksArePlaces

(* What the field shows is what it reported last, or what the page was     *)
(* drawn with.  Unless something else changed the search, every address    *)
(* that is due is one that was reported, in the order of the reports, or   *)
(* has the search that the page was drawn with.                            *)
Reports(from, to, list, m) ==
  /\ m \in [1 .. Len(to) -> 0 .. Len(list)]
  /\ \A i, j \in 1 .. Len(to) : i <= j => m[i] <= m[j]
  /\ \A i \in 1 .. Len(to) : to[i].q = IF m[i] = 0 THEN from.q ELSE list[m[i]]

FieldInvariant ==
  /\ PlaceInvariant
  /\ draft = IF sent = <<>> THEN drawn.q ELSE Last(sent)
  /\ ~others => draft = Address.q /\ \E m : Reports(drawn, due, sent, m)

LEMMA InitField == RepoPageInit => FieldInvariant
<1> SUFFICES ASSUME RepoPageInit
             PROVE  FieldInvariant
  OBVIOUS
<1>1. PlaceInvariant
  BY LinksArePlaces DEF RepoPageInit, PlaceInvariant
<1>2. due = <<>> /\ sent = <<>> /\ draft = drawn.q
  BY DEF RepoPageInit
<1>3. Reports(drawn, due, sent, <<>>)
  BY <1>2 DEF Reports
<1> QED BY <1>1, <1>2, <1>3 DEF FieldInvariant, Address

\* The first report of a text, if there is one.
LEMMA EchoIsFirst ==
  ASSUME NEW list \in Seq(Text), NEW value
  PROVE  LET e == Echo(value, list) IN
         /\ e \in 0 .. Len(list)
         /\ e > 0 => list[e] = value
         /\ \A i \in 1 .. Len(list) : list[i] = value => e > 0 /\ e <= i
<1> DEFINE matching == {i \in 1 .. Len(list) : list[i] = value}
<1>1. Echo(value, list) = IF matching # {} THEN Min(matching) ELSE 0
  BY DEF Echo, SelectInSeq
<1>2. CASE matching = {}
  BY <1>1, <1>2
<1>3. CASE matching # {}
  <2>1. matching \in SUBSET (1 .. Len(list)) /\ list \in Seq(Text)
    OBVIOUS
  <2>2. \E i \in matching : \A j \in matching : i <= j
    BY <1>3, <2>1, SelectedFirst
  <2>3. Min(matching) \in matching /\ \A j \in matching : Min(matching) <= j
    BY <2>2 DEF Min
  <2>4. Echo(value, list) = Min(matching)
    BY <1>1, <1>3
  <2>5. /\ Echo(value, list) \in 1 .. Len(list) /\ list[Echo(value, list)] = value
        /\ \A i \in 1 .. Len(list) : list[i] = value => Echo(value, list) <= i
    BY <2>3, <2>4
  <2> QED BY <2>5
<1> QED BY <1>2, <1>3

LEMMA ReportGrows ==
  ASSUME PlaceInvariant, NEW a \in Place, NEW list \in Seq(Text),
         NEW m, Reports(drawn, due, sent, m),
         list = sent \/ \E text \in Text : list = Append(sent, text),
         NEW k \in 0 .. Len(list), \A i \in 1 .. Len(due) : m[i] <= k,
         a.q = IF k = 0 THEN drawn.q ELSE list[k]
  PROVE  \E n : Reports(drawn, Append(due, a), list, n)
<1> DEFINE n == [i \in 1 .. Len(due) + 1 |-> IF i <= Len(due) THEN m[i] ELSE k]
           longer == Append(due, a)
<1>1. Len(due) \in Nat /\ Len(sent) \in Nat /\ Len(list) \in Nat /\ Len(sent) <= Len(list)
  BY DEF PlaceInvariant
<1>2. Len(longer) = Len(due) + 1 /\ longer[Len(due) + 1] = a
      /\ \A i \in 1 .. Len(due) : longer[i] = due[i]
  BY DEF PlaceInvariant
<1>3. \A i \in 1 .. Len(sent) : list[i] = sent[i]
  BY DEF PlaceInvariant
<1> HIDE DEF longer
<1>4. n \in [1 .. Len(longer) -> 0 .. Len(list)]
  BY <1>1, <1>2 DEF Reports
<1>5. ASSUME NEW i \in 1 .. Len(longer), NEW j \in 1 .. Len(longer), i <= j
      PROVE  n[i] <= n[j]
  BY <1>1, <1>2, <1>5 DEF Reports
<1>6. ASSUME NEW i \in 1 .. Len(longer)
      PROVE  longer[i].q = IF n[i] = 0 THEN drawn.q ELSE list[n[i]]
  <2>1. CASE i <= Len(due)
    BY <1>1, <1>2, <1>3, <2>1 DEF Reports
  <2>2. CASE i = Len(due) + 1
    BY <1>1, <1>2, <2>2
  <2> QED BY <1>1, <1>2, <2>1, <2>2
<1> HIDE DEF n
<1> QED BY <1>4, <1>5, <1>6 DEF Reports, longer

LEMMA UpdateStep ==
  ASSUME FieldInvariant, NEW text \in Text, Update(text)
  PROVE  FieldInvariant'
<1> DEFINE a == [drawn EXCEPT !.q = text]
<1>1. a \in Place /\ a.q = text
  BY DEF FieldInvariant, PlaceInvariant, Place, Searches
<1>2. due' = Append(due, a) /\ sent' = Append(sent, text) /\ draft' = text /\ UNCHANGED <<listed, drawn>>
  BY DEF Update, Write
<1> HIDE DEF a
<1>3. due \in Seq(Place) /\ sent \in Seq(Text) /\ due' \in Seq(Place) /\ sent' \in Seq(Text)
  BY <1>1, <1>2 DEF FieldInvariant, PlaceInvariant
<1>4. PlaceInvariant'
  BY <1>2, <1>3 DEF FieldInvariant, PlaceInvariant
<1>5. /\ Len(sent') = Len(sent) + 1 /\ Len(sent) \in Nat /\ sent'[Len(sent')] = text /\ sent' # <<>>
      /\ Last(due') = a /\ due' # <<>>
  <2>1. Len(sent') = Len(sent) + 1 /\ Len(sent) \in Nat /\ sent'[Len(sent) + 1] = text
    BY <1>2, <1>3
  <2>2. Len(due') = Len(due) + 1 /\ Len(due) \in Nat /\ due'[Len(due) + 1] = a
    BY <1>1, <1>2, <1>3
  <2> QED BY <2>1, <2>2 DEF Last
<1>6. draft' = Last(sent') /\ draft' = Address'.q
  BY <1>1, <1>2, <1>5 DEF Last, Address
<1>7. ASSUME ~others'
      PROVE  \E m : Reports(drawn, due', sent', m)
  <2>1. \E m : Reports(drawn, due, sent, m)
    <3>1. CASE ~others
      BY <3>1 DEF FieldInvariant
    <3>2. CASE due = <<>>
      <4>1. Reports(drawn, due, sent, <<>>)
        BY <3>2 DEF Reports
      <4> QED BY <4>1
    <3> QED BY <1>7, <3>1, <3>2 DEF Update, AtRest
  <2>2. PICK m : Reports(drawn, due, sent, m)
    BY <2>1
  <2>3. \A i \in 1 .. Len(due) : m[i] <= Len(sent')
    BY <1>5, <2>2 DEF Reports
  <2>4. Len(sent') \in 0 .. Len(sent') /\ Len(sent') # 0
    BY <1>5
  <2> QED BY <1>1, <1>2, <1>3, <1>5, <2>2, <2>3, <2>4, ReportGrows DEF FieldInvariant
<1> QED BY <1>2, <1>4, <1>5, <1>6, <1>7 DEF FieldInvariant

LEMMA ElsewhereStep ==
  ASSUME FieldInvariant, NEW a \in Place, Elsewhere(a), UNCHANGED <<listed, drawn>>
  PROVE  FieldInvariant'
<1>1. due' = Append(due, a) /\ UNCHANGED <<draft, sent>> /\ (~others' => ~others /\ a.q = Address.q)
  BY DEF Elsewhere, Write
<1>2. PlaceInvariant' /\ due \in Seq(Place) /\ sent \in Seq(Text) /\ Len(due) \in Nat /\ Len(sent) \in Nat
  BY <1>1 DEF FieldInvariant, PlaceInvariant
<1>3. Last(due') = a /\ due' # <<>>
  BY <1>1, <1>2 DEF Last
<1>4. ASSUME ~others'
      PROVE  draft' = Address'.q /\ \E m : Reports(drawn, due', sent', m)
  <2>1. draft' = Address'.q
    BY <1>1, <1>3, <1>4 DEF FieldInvariant, Address
  <2>2. PICK m : Reports(drawn, due, sent, m)
    BY <1>1, <1>4 DEF FieldInvariant
  <2>3. CASE due = <<>>
    <3>1. a.q = drawn.q /\ 0 \in 0 .. Len(sent) /\ \A i \in 1 .. Len(due) : m[i] <= 0
      BY <1>1, <1>2, <1>4, <2>3 DEF Address
    <3> QED BY <1>1, <1>2, <2>1, <2>2, <3>1, ReportGrows DEF FieldInvariant
  <2>4. CASE due # <<>>
    <3>1. Len(due) \in 1 .. Len(due) /\ a.q = due[Len(due)].q
      BY <1>1, <1>2, <1>4, <2>4 DEF Address, Last
    <3>2. m[Len(due)] \in 0 .. Len(sent) /\ \A i \in 1 .. Len(due) : m[i] <= m[Len(due)]
      BY <1>2, <2>2, <3>1 DEF Reports
    <3>3. a.q = IF m[Len(due)] = 0 THEN drawn.q ELSE sent[m[Len(due)]]
      BY <2>2, <3>1 DEF Reports
    <3> QED BY <1>1, <1>2, <2>1, <2>2, <3>2, <3>3, ReportGrows DEF FieldInvariant
  <2> QED BY <2>3, <2>4
<1> QED BY <1>1, <1>2, <1>4 DEF FieldInvariant

\* What was reported before the first report of what is drawn now is behind.
LEMMA ReportsLeft ==
  ASSUME PlaceInvariant, NEW m, Reports(drawn, due, sent, m), NEW n \in 1 .. Len(due),
         NEW e \in 0 .. Len(sent), e <= m[n], e = 0 => due[n].q = drawn.q,
         e > 0 => sent[e] = due[n].q
  PROVE  \E k : Reports(due[n], SubSeq(due, n + 1, Len(due)), SubSeq(sent, e + 1, Len(sent)), k)
<1> DEFINE rest == SubSeq(due, n + 1, Len(due))
           left == SubSeq(sent, e + 1, Len(sent))
           k == [i \in 1 .. Len(due) - n |-> m[i + n] - e]
<1>1. Len(due) \in Nat /\ Len(sent) \in Nat /\ due \in Seq(Place) /\ sent \in Seq(Text)
  BY DEF PlaceInvariant
<1>2. Len(rest) = Len(due) - n /\ \A i \in 1 .. Len(due) - n : rest[i] = due[i + n]
  <2>1. n \in Nat /\ n + 1 \in 1 .. Len(due) + 1
    BY <1>1
  <2>2. Len(rest) = Len(due) - n
    BY <1>1, <2>1
  <2>3. ASSUME NEW i \in 1 .. Len(due) - n
        PROVE  rest[i] = due[i + n]
    <3>1. i + n \in 1 .. Len(due) /\ (n + 1) + i - 1 = i + n
      BY <1>1, <2>1
    <3> QED BY <1>1, <2>1, <3>1
  <2> QED BY <2>2, <2>3
<1>3. Len(left) = Len(sent) - e /\ \A i \in 1 .. Len(sent) - e : left[i] = sent[i + e]
  BY <1>1
<1> HIDE DEF rest, left
<1>4. ASSUME NEW i \in 1 .. Len(due) - n
      PROVE  i + n \in 1 .. Len(due) /\ m[i + n] \in e .. Len(sent) /\ k[i] \in 0 .. Len(sent) - e
             /\ k[i] = m[i + n] - e
  <2>1. i + n \in 1 .. Len(due) /\ n <= i + n
    BY <1>1
  <2>2. m[n] <= m[i + n] /\ m[i + n] \in 0 .. Len(sent) /\ m[n] \in 0 .. Len(sent)
    BY <2>1 DEF Reports
  <2> QED BY <1>1, <2>1, <2>2
<1>5. k \in [1 .. Len(rest) -> 0 .. Len(left)]
  BY <1>2, <1>3, <1>4
<1>6. ASSUME NEW i \in 1 .. Len(rest), NEW j \in 1 .. Len(rest), i <= j
      PROVE  k[i] <= k[j]
  <2>1. i + n \in 1 .. Len(due) /\ j + n \in 1 .. Len(due) /\ i + n <= j + n
    BY <1>1, <1>2, <1>6
  <2>2. m[i + n] <= m[j + n]
    BY <2>1 DEF Reports
  <2>3. /\ k[i] = m[i + n] - e /\ k[j] = m[j + n] - e
        /\ m[i + n] \in e .. Len(sent) /\ m[j + n] \in e .. Len(sent)
    BY <1>2, <1>4
  <2> HIDE DEF k
  <2> QED BY <1>1, <2>2, <2>3
<1>7. ASSUME NEW i \in 1 .. Len(rest)
      PROVE  rest[i].q = IF k[i] = 0 THEN due[n].q ELSE left[k[i]]
  <2>1. m[i + n] \in e .. Len(sent) /\ k[i] = m[i + n] - e /\ rest[i] = due[i + n] /\ i + n \in 1 .. Len(due)
    BY <1>2, <1>4
  <2>2. rest[i].q = IF m[i + n] = 0 THEN drawn.q ELSE sent[m[i + n]]
    BY <2>1 DEF Reports
  <2>3. CASE k[i] = 0
    BY <1>1, <2>1, <2>2, <2>3
  <2>4. CASE k[i] # 0
    <3>1. k[i] \in 1 .. Len(sent) - e /\ k[i] + e = m[i + n] /\ m[i + n] # 0
      BY <1>1, <2>1, <2>4
    <3> QED BY <1>3, <2>2, <2>4, <3>1
  <2> QED BY <2>3, <2>4
<1> HIDE DEF k
<1> QED BY <1>5, <1>6, <1>7 DEF Reports, rest, left

LEMMA DrawStep ==
  ASSUME FieldInvariant, NEW n \in DOMAIN due, Draw(n)
  PROVE  FieldInvariant'
<1> DEFINE e == Echo(drawn'.q, sent)
<1>1. due \in Seq(Place) /\ sent \in Seq(Text) /\ n \in 1 .. Len(due) /\ Len(due) \in Nat /\ Len(sent) \in Nat
  BY DEF FieldInvariant, PlaceInvariant
<1>2. drawn' = due[n] /\ due' = SubSeq(due, n + 1, Len(due)) /\ UNCHANGED <<listed, others>>
  BY DEF Draw
<1>3. drawn' \in Place /\ due' \in Seq(Place)
  BY <1>1, <1>2
<1>4. ~others => Address'.q = Address.q
  <2>1. due # <<>> /\ Address = due[Len(due)]
    BY <1>1 DEF Address, Last
  <2>2. CASE n = Len(due)
    <3>1. due' = <<>>
      BY <1>1, <1>2, <2>2
    <3> QED BY <1>2, <2>1, <2>2, <3>1 DEF Address
  <2>3. CASE n # Len(due)
    <3>1. Len(due') = Len(due) - n /\ Len(due') \in Nat \ {0} /\ due'[Len(due) - n] = due[Len(due)]
      <4>1. Len(due) - n \in Nat \ {0} /\ Len(due) - n \in 1 .. Len(due) - n
        BY <1>1, <2>3
      <4>2. /\ Len(due') = Len(due) - n
            /\ \A i \in 1 .. Len(due) - n : due'[i] = due[i + n]
        BY <1>1, <1>2
      <4>3. due'[Len(due) - n] = due[(Len(due) - n) + n]
        BY <4>1, <4>2, Zenon
      <4>4. (Len(due) - n) + n = Len(due)
        BY <1>1
      <4> QED BY <4>1, <4>2, <4>3, <4>4, Zenon
    <3>2. due' # <<>>
      BY <3>1
    <3> QED BY <2>1, <3>1, <3>2 DEF Address, Last
  <2> QED BY <2>2, <2>3
<1>5. /\ e \in 0 .. Len(sent)
      /\ e > 0 => sent[e] = drawn'.q
      /\ \A i \in 1 .. Len(sent) : sent[i] = drawn'.q => e > 0 /\ e <= i
  BY <1>1, EchoIsFirst
<1> HIDE DEF e
<1>6. CASE drawn'.q = drawn.q
  <2>1. UNCHANGED <<draft, sent>>
    BY <1>6 DEF Draw
  <2>2. ASSUME ~others
        PROVE  \E m : Reports(drawn', due', sent, m)
    <3>1. PICK m : Reports(drawn, due, sent, m)
      BY <2>2 DEF FieldInvariant
    <3>2. 0 \in 0 .. Len(sent) /\ 0 <= m[n] /\ SubSeq(sent, 0 + 1, Len(sent)) = sent
      BY <1>1, <3>1 DEF Reports
    <3>3. PlaceInvariant /\ due[n].q = drawn.q
      BY <1>2, <1>6 DEF FieldInvariant
    <3>4. \E k : Reports(due[n], SubSeq(due, n + 1, Len(due)), SubSeq(sent, 0 + 1, Len(sent)), k)
      <4>1. n \in 1 .. Len(due) /\ (0 > 0 => sent[0] = due[n].q)
        BY <1>1
      <4> HIDE DEF FieldInvariant
      <4> QED BY <3>1, <3>2, <3>3, <4>1, ReportsLeft
    <3> QED BY <1>2, <3>2, <3>4
  <2> QED BY <1>1, <1>2, <1>3, <1>4, <1>6, <2>1, <2>2 DEF FieldInvariant, PlaceInvariant
<1>7. CASE drawn'.q # drawn.q /\ e > 0
  <2>1. UNCHANGED draft /\ sent' = SubSeq(sent, e + 1, Len(sent))
    BY <1>7 DEF Draw, IsEcho, EchoTaken, Left, SinceEcho, e
  <2>2. sent' \in Seq(Text) /\ draft' = IF sent' = <<>> THEN drawn'.q ELSE Last(sent')
    <3>1. sent # <<>> /\ draft = sent[Len(sent)]
      BY <1>1, <1>5, <1>7 DEF FieldInvariant, Last
    <3>2. CASE e = Len(sent)
      BY <1>1, <1>5, <1>7, <2>1, <3>1, <3>2
    <3>3. CASE e # Len(sent)
      <4>1. Len(sent') = Len(sent) - e /\ Len(sent') \in Nat \ {0} /\ sent'[Len(sent) - e] = sent[Len(sent)]
        BY <1>1, <1>5, <2>1, <3>3
      <4>2. sent' # <<>> /\ Last(sent') = draft'
        BY <2>1, <3>1, <4>1 DEF Last
      <4> QED BY <1>1, <1>5, <2>1, <4>2
    <3> QED BY <3>2, <3>3
  <2>3. ASSUME ~others
        PROVE  \E m : Reports(drawn', due', sent', m)
    <3>1. PICK m : Reports(drawn, due, sent, m)
      BY <2>3 DEF FieldInvariant
    <3>2. m[n] \in 1 .. Len(sent) /\ sent[m[n]] = drawn'.q
      BY <1>1, <1>2, <1>7, <3>1 DEF Reports
    <3>3. e <= m[n]
      BY <1>5, <3>2
    <3> QED BY <1>1, <1>2, <1>5, <1>7, <2>1, <3>1, <3>3, ReportsLeft DEF FieldInvariant
  <2> QED BY <1>1, <1>2, <1>3, <1>4, <2>1, <2>2, <2>3 DEF FieldInvariant, PlaceInvariant
<1>8. CASE drawn'.q # drawn.q /\ ~(e > 0)
  <2>1. draft' = drawn'.q /\ sent' = <<>>
    BY <1>8 DEF Draw, IsEcho, EchoTaken, e
  <2>2. others
    <3>1. ASSUME ~others
          PROVE  FALSE
      <4>1. PICK m : Reports(drawn, due, sent, m)
        BY <3>1 DEF FieldInvariant
      <4>2. m[n] \in 1 .. Len(sent) /\ sent[m[n]] = drawn'.q
        BY <1>1, <1>2, <1>8, <4>1 DEF Reports
      <4> QED BY <1>5, <1>8, <4>2
    <3> QED BY <3>1
  <2> QED BY <1>2, <1>3, <2>1, <2>2 DEF FieldInvariant, PlaceInvariant
<1> QED BY <1>6, <1>7, <1>8

LEMMA FieldStep ==
  ASSUME FieldInvariant, [RepoPageNext]_repoPageVars
  PROVE  FieldInvariant'
<1>1. CASE ListFails \/ TryAgain \/ UNCHANGED repoPageVars \/ \E rs \in SUBSET Name : ListArrives(rs)
  <2>1. UNCHANGED <<drawn, due, draft, sent, others>> /\ listed' \in {listed} \cup SUBSET Name
    BY <1>1 DEF ListFails, TryAgain, ListArrives, repoPageVars
  <2>2. PlaceInvariant'
    BY <2>1 DEF FieldInvariant, PlaceInvariant
  <2> QED BY <2>1, <2>2 DEF FieldInvariant, Address
<1>2. ASSUME NEW a, Elsewhere(a),
             \/ \E scope \in {"", "attention", "conflicts"} : a = [drawn EXCEPT !.scope = scope]
             \/ \E owner \in {""} \cup Owners : a = [drawn EXCEPT !.owner = owner]
             \/ \E sort \in {"attention", "open", "name"} : a = [drawn EXCEPT !.sort = sort]
             \/ a = [drawn EXCEPT !.q = "", !.owner = "", !.scope = ""]
             \/ a \in RepoLink
      PROVE  FieldInvariant'
  <2>1. a \in Place
    BY <1>2, ControlsWrite, Zenon DEF FieldInvariant
  <2>2. UNCHANGED <<listed, drawn>>
    BY <1>2 DEF Elsewhere, Write
  <2> QED BY <1>2, <2>1, <2>2, ElsewhereStep
<1>3. ASSUME NEW scope \in {"all", "attention", "conflicts"}, ChooseScope(scope)
      PROVE  FieldInvariant'
  <2>1. PICK s \in {"", "attention", "conflicts"} : Elsewhere([drawn EXCEPT !.scope = s])
    BY <1>3 DEF ChooseScope
  <2> QED BY <2>1, <1>2
<1>4. ASSUME NEW owner \in {""} \cup Owners, ChooseOwner(owner)
      PROVE  FieldInvariant'
  BY <1>2, <1>4 DEF ChooseOwner
<1>5. ASSUME NEW sort \in {"attention", "open", "name"}, ChooseSort(sort)
      PROVE  FieldInvariant'
  BY <1>2, <1>5 DEF ChooseSort
<1>6. CASE ClearAll
  BY <1>2, <1>6 DEF ClearAll
<1>7. ASSUME NEW a \in RepoLink, FollowRepoLink(a)
      PROVE  FieldInvariant'
  BY <1>2, <1>7 DEF FollowRepoLink
<1> QED BY <1>1, <1>3, <1>4, <1>5, <1>6, <1>7, DrawStep, UpdateStep DEF RepoPageNext

LEMMA FieldShows == FieldInvariant => FieldAgrees
<1> SUFFICES ASSUME FieldInvariant
             PROVE  FieldAgrees
  OBVIOUS
<1>1. ~others => draft = Address.q
  BY DEF FieldInvariant
<1>2. sent = <<>> => draft = drawn.q
  BY DEF FieldInvariant
<1>3. \A n \in DOMAIN Rows : drawn.q \in Repository[Rows[n]].found
  BY RowsNarrowed DEF FieldInvariant, PlaceInvariant, Narrowed
<1>4. Page = "no repositories" => drawn.q = ""
  BY DEF Page, Filtered
<1> QED BY <1>1, <1>2, <1>3, <1>4 DEF FieldAgrees

(* Repositories.tsx and SearchField of ui-controls.tsx: from when the      *)
(* reader types into a page at rest until something else changes the       *)
(* search, the field shows what the address narrows by; in a page at       *)
(* rest, with every report of the field come back, it shows what the       *)
(* rows were narrowed by.                                                  *)
THEOREM FieldsAgree == RepoPageSpec => []FieldAgrees
<1>1. RepoPageSpec => []FieldInvariant
  BY InitField, FieldStep, PTL DEF RepoPageSpec
<1> QED BY <1>1, FieldShows, PTL

-----------------------------------------------------------------------------
(* THE SERVICE WORKER                                                      *)

(* What the copy rests on.  The network answers only while the browser     *)
(* reports a connection, caches are swept only if it did so when the hard  *)
(* reload was asked for, and a page that is loading is one of some build.  *)
ConnectionInvariant ==
  /\ reaches => onLine
  /\ hard = "sweeping" => pressed
  /\ deployed # None /\ (page = "loading" => build # None)

LEMMA InitConnection == WorkerInit => ConnectionInvariant
  BY DEF WorkerInit, ConnectionInvariant, None

\* A document that is opened ends every hard reload, and its page has a build.
LEMMA OpenedDocument ==
  ASSUME OpenDocument, deployed # None
  PROVE  hard' = "no" /\ (page' = "loading" => build' # None)
  BY DEF OpenDocument

LEMMA ConnectionStep ==
  ASSUME ConnectionInvariant, [WorkerNext]_workerVars
  PROVE  ConnectionInvariant'
<1>1. CASE Launch \/ Reload \/ HardReloads
  BY <1>1, OpenedDocument DEF Launch, Reload, HardReloads, ConnectionInvariant
<1>2. CASE Close \/ Crash \/ ShowIcon \/ Install \/ Activate
  BY <1>2 DEF Close, Crash, ShowIcon, Install, Activate, hardVars, pageVars, cacheVars,
              ConnectionInvariant
<1>3. CASE PressHardReload
  BY <1>3 DEF PressHardReload, Sweeps, SweepsOnline, pageVars, ConnectionInvariant
<1>4. CASE Sweep
  BY <1>4 DEF Sweep, pageVars, ConnectionInvariant
<1>5. CASE NetworkChanges
  BY <1>5 DEF NetworkChanges, hardVars, pageVars, ConnectionInvariant
<1>9. CASE Deploy
  BY <1>9, WorkerAssumption DEF Deploy, hardVars, pageVars, ConnectionInvariant
<1>6. ASSUME NEW b \in Build, NEW file \in Needed[b] \cup Lazy[b],
             LaunchLoads(file) \/ PageLoads(file)
      PROVE  ConnectionInvariant'
  BY <1>6 DEF LaunchLoads, PageLoads, hardVars, ConnectionInvariant
<1>7. ASSUME NEW b \in Build, NEW file \in Needed[b] \cup Lazy[b], ChunkGone(file)
      PROVE  ConnectionInvariant'
  BY <1>7, OpenedDocument DEF ChunkGone, hardVars, ConnectionInvariant
<1>8. CASE UNCHANGED workerVars
  BY <1>8 DEF workerVars, hardVars, pageVars, ConnectionInvariant
<1> QED BY <1>1, <1>2, <1>3, <1>4, <1>5, <1>6, <1>7, <1>8, <1>9 DEF WorkerNext

-----------------------------------------------------------------------------
(* What a step may do to a copy that opens.                                *)
CopyStays ==
  OpensOffline =>
    /\ ~OpensOffline' => onLine \/ (hard = "sweeping" /\ pressed)
    /\ page' = "dead" => page = "dead" \/ ~controlled' \/ build' \notin {None, document}

\* Without a connection an opened document comes from the copy and leaves it.
LEMMA OpenedFromCopy ==
  ASSUME ConnectionInvariant, OpensOffline, OpenDocument, UNCHANGED <<worker, files>>
  PROVE  /\ ~onLine => OpensOffline'
         /\ page' = "dead" => ~controlled'
<1>1. page' = "dead" => ~controlled'
  BY DEF OpenDocument, OpensOffline
<1>2. ASSUME ~onLine
      PROVE  UNCHANGED document
  BY <1>2 DEF OpenDocument, ConnectionInvariant
<1>3. ASSUME ~onLine
      PROVE  OpensOffline'
  BY <1>2, <1>3 DEF OpensOffline
<1> QED BY <1>1, <1>3

\* A part that the copy holds is taken from it.
LEMMA LoadedFromCopy ==
  ASSUME ConnectionInvariant, ~onLine, NEW file, Load(file)
  PROVE  UNCHANGED files
  BY DEF Load, Fetched, ConnectionInvariant

LEMMA KeptStep ==
  ASSUME ConnectionInvariant, [WorkerNext]_workerVars
  PROVE  CopyStays
<1> SUFFICES ASSUME OpensOffline
             PROVE  /\ ~OpensOffline' => onLine \/ (hard = "sweeping" /\ pressed)
                    /\ page' = "dead" => page = "dead" \/ ~controlled' \/ build' \notin {None, document}
  BY DEF CopyStays
<1>1. CASE Launch \/ Reload \/ HardReloads
  BY <1>1, OpenedFromCopy DEF Launch, Reload, HardReloads
<1>2. CASE Close \/ Crash \/ Activate \/ Deploy \/ PressHardReload \/ NetworkChanges
  <2>1. UNCHANGED <<document, files>> /\ (worker' = worker \/ worker' = "active")
        /\ (page' = page \/ page' \in {"closed", "crashed"})
    BY <1>2 DEF Close, Crash, Activate, KeptIn, CurrentCaches, Deploy, PressHardReload, NetworkChanges,
                cacheVars, pageVars
  <2> QED BY <2>1 DEF OpensOffline
<1>3. CASE ShowIcon \/ Install
  <2>1. reaches /\ UNCHANGED pageVars
    BY <1>3 DEF ShowIcon, Install
  <2> QED BY <2>1 DEF ConnectionInvariant, pageVars
<1>4. CASE Sweep
  BY <1>4 DEF Sweep, ConnectionInvariant, pageVars
<1>5. ASSUME NEW b \in Build, NEW file \in Needed[b] \cup Lazy[b], LaunchLoads(file)
      PROVE  /\ ~OpensOffline' => onLine
             /\ page' = "dead" => ~controlled' \/ build' \notin {None, document}
  <2>1. UNCHANGED <<worker, document, build, controlled>> /\ page = "loading" /\ file \in Needed[build]
    BY <1>5 DEF LaunchLoads
  <2>2. CASE Load(file) /\ page' # "dead"
    BY <2>1, <2>2, LoadedFromCopy DEF OpensOffline
  <2>3. CASE CannotLoad(file) /\ UNCHANGED files
    BY <2>1, <2>3 DEF OpensOffline, CannotLoad, ConnectionInvariant
  <2> QED BY <1>5, <2>2, <2>3 DEF LaunchLoads
<1>6. ASSUME NEW b \in Build, NEW file \in Needed[b] \cup Lazy[b], PageLoads(file)
      PROVE  (~OpensOffline' => onLine) /\ page' # "dead"
  <2>1. UNCHANGED <<worker, document>> /\ page' = "open" /\ Load(file)
    BY <1>6 DEF PageLoads
  <2> QED BY <2>1, LoadedFromCopy DEF OpensOffline
<1>7. ASSUME NEW b \in Build, NEW file \in Needed[b] \cup Lazy[b], ChunkGone(file)
      PROVE  /\ ~OpensOffline' => onLine
             /\ page' = "dead" => ~controlled'
  <2>1. CASE chunkReload
    BY <1>7, <2>1 DEF ChunkGone, OpensOffline
  <2>2. CASE ~chunkReload
    BY <1>7, <2>2, OpenedFromCopy DEF ChunkGone
  <2> QED BY <2>1, <2>2
<1>8. CASE UNCHANGED workerVars
  BY <1>8 DEF workerVars, cacheVars, pageVars, OpensOffline
<1> QED BY <1>1, <1>2, <1>3, <1>4, <1>5, <1>6, <1>7, <1>8 DEF WorkerNext

(* service-worker.ts: the shell cache "is the only copy of the application *)
(* on the device at that moment".  Without a connection no step takes a    *)
(* copy that opens away, and no launch from it fails.                      *)
THEOREM OfflineCopyKept == WorkerSpec => CopyKept
<1>1. WorkerSpec => []ConnectionInvariant
  BY InitConnection, ConnectionStep, PTL DEF WorkerSpec
<1>2. ConnectionInvariant /\ [WorkerNext]_workerVars => [CopyStays]_workerVars
  BY KeptStep
<1> QED BY <1>1, <1>2, PTL DEF WorkerSpec, CopyKept, CopyStays

-----------------------------------------------------------------------------
(* THE COMPOSITION                                                         *)

(* The parts beside one another: a step of the page is one of one part and *)
(* leaves the others as they are, so that what holds of a part by itself   *)
(* holds of the page.                                                      *)
LEMMA OneOfTheParts ==
  ASSUME [MCNext]_<<part, shellVars, statusVars, listPageVars, repoPageVars, workerVars>>
  PROVE  /\ [ShellNext]_shellVars /\ [StatusNext]_statusVars /\ [ListPageNext]_listPageVars
         /\ [RepoPageNext]_repoPageVars /\ [WorkerNext]_workerVars
<1>1. CASE Shell
  BY <1>1, Zenon DEF Shell
<1>2. CASE Status
  BY <1>2, Zenon DEF Status
<1>3. CASE List
  BY <1>3, Zenon DEF List
<1>4. CASE Repositories
  BY <1>4, Zenon DEF Repositories
<1>5. CASE Worker
  BY <1>5, Zenon DEF Worker
<1>6. CASE UNCHANGED <<part, shellVars, statusVars, listPageVars, repoPageVars, workerVars>>
  BY <1>6, Zenon
<1> QED BY <1>1, <1>2, <1>3, <1>4, <1>5, <1>6, Zenon DEF MCNext

(* MCShell composes the parts and nothing else: each of them behaves in it *)
(* as its own specification says.                                          *)
THEOREM PartsAreThemselves ==
  MCSpec => ShellSpec /\ StatusSpec /\ ListPageSpec /\ RepoPageSpec /\ WorkerSpec
<1>1. MCInit => ShellInit /\ StatusInit /\ ListPageInit /\ RepoPageInit /\ WorkerInit
  BY DEF MCInit
<1> QED BY <1>1, OneOfTheParts, PTL DEF MCSpec, ShellSpec, StatusSpec, ListPageSpec, RepoPageSpec, WorkerSpec

(* The frame and the state of the synchronization, composed with the lists *)
(* and the worker, hold what they should.                                  *)
THEOREM TypesCorrect == MCSpec => []TypeOK
  BY PartsAreThemselves, FrameTypesCorrect, StatusTypesCorrect, PTL DEF TypeOK
=============================================================================
