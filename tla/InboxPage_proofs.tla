-------------------------- MODULE InboxPage_proofs --------------------------
(***************************************************************************)
(* What holds of the Inbox page for every list, every link and every       *)
(* number of changes: the rows keep their places, what holds the focus can *)
(* be seen, and the row of a link is not left waiting.                     *)
(*                                                                         *)
(* The rows on the page are those of the held order that are listed now,   *)
(* in that order (ListHeld); the order only grows at its end until the     *)
(* filters change.                                                         *)
(***************************************************************************)
EXTENDS InboxPage, Selections_proofs, TLAPS

(* Two keys order a set, the second one where the first is the same.       *)
LEMMA TwoKeys ==
  ASSUME NEW S, NEW a \in [S -> Int], NEW b \in [S -> Int],
         \A x, y \in S : b[x] = b[y] => x = y
  PROVE  IsOrder(S, {p \in S \X S : \/ a[p[1]] < a[p[2]]
                                    \/ a[p[1]] = a[p[2]] /\ b[p[1]] < b[p[2]]})
<1> DEFINE before == {p \in S \X S : \/ a[p[1]] < a[p[2]]
                                     \/ a[p[1]] = a[p[2]] /\ b[p[1]] < b[p[2]]}
<1>1. ASSUME NEW x \in S, NEW y \in S
      PROVE  <<x, y>> \in before <=> (a[x] < a[y] \/ (a[x] = a[y] /\ b[x] < b[y]))
  OBVIOUS
<1>2. \A x \in S : a[x] \in Int /\ b[x] \in Int
  OBVIOUS
<1> HIDE DEF before
<1>3. ASSUME NEW x \in S, NEW y \in S
      PROVE  /\ x = y \/ <<x, y>> \in before \/ <<y, x>> \in before
             /\ ~(<<x, y>> \in before /\ <<y, x>> \in before)
  <2>1. a[x] \in Int /\ b[x] \in Int /\ a[y] \in Int /\ b[y] \in Int
    BY <1>2
  <2>2. /\ <<x, y>> \in before <=> (a[x] < a[y] \/ (a[x] = a[y] /\ b[x] < b[y]))
        /\ <<y, x>> \in before <=> (a[y] < a[x] \/ (a[y] = a[x] /\ b[y] < b[x]))
    BY <1>1
  <2>3. x = y \/ b[x] # b[y]
    OBVIOUS
  <2> QED BY <2>1, <2>2, <2>3
<1>5. \A x, y, z \in S : <<x, y>> \in before /\ <<y, z>> \in before => <<x, z>> \in before
  BY <1>1, <1>2
<1>6. IsOrder(S, before)
  BY <1>3, <1>5 DEF IsOrder
<1> QED BY <1>6 DEF before

(* What stays of a list without repetitions keeps its order.               *)
LEMMA SelectedPart ==
  ASSUME NEW T, NEW s \in Seq(T), IsInjective(s), NEW kept \in SUBSET (1 .. Len(s))
  PROVE  LET t == Selected(s, kept) IN
         /\ t \in Seq(T) /\ IsInjective(t)
         /\ \A e : e \in ToSet(t) <=> \E i \in kept : s[i] = e
         /\ \A x, y : Precedes(t, x, y) => Precedes(s, x, y)
<1> DEFINE t == Selected(s, kept)
<1>1. t \in Seq(T)
  BY SelectedKeeps
<1>2. PICK at \in [1 .. Len(t) -> kept] :
        /\ \A m, n \in 1 .. Len(t) : m < n <=> at[m] < at[n]
        /\ \A i \in kept : \E n \in 1 .. Len(t) : at[n] = i
        /\ \A n \in 1 .. Len(t) : t[n] = s[at[n]]
  BY SelectedKeeps
<1> HIDE DEF t
<1>3. DOMAIN t = 1 .. Len(t) /\ DOMAIN s = 1 .. Len(s) /\ Len(t) \in Nat /\ Len(s) \in Nat
  BY <1>1
<1>4. ASSUME NEW n \in 1 .. Len(t)
      PROVE  at[n] \in kept /\ at[n] \in 1 .. Len(s) /\ at[n] \in Int
  <2>1. at[n] \in kept
    OBVIOUS
  <2>2. at[n] \in 1 .. Len(s)
    BY <2>1
  <2> QED BY <1>3, <2>1, <2>2
<1>5. IsInjective(t)
  <2> SUFFICES ASSUME NEW m \in 1 .. Len(t), NEW n \in 1 .. Len(t), t[m] = t[n]
               PROVE  m = n
    BY <1>3 DEF IsInjective
  <2>1. at[m] = at[n]
    BY <1>2, <1>3, <1>4 DEF IsInjective
  <2>2. at[m] \in Int /\ at[n] \in Int
    BY <1>4
  <2>3. ~(m < n) /\ ~(n < m)
    BY <1>2, <2>1, <2>2
  <2> QED BY <1>3, <2>3
<1>6. ASSUME NEW e
      PROVE  e \in ToSet(t) <=> \E i \in kept : s[i] = e
  <2>1. e \in ToSet(t) <=> \E n \in 1 .. Len(t) : t[n] = e
    BY <1>3 DEF ToSet
  <2>2. ASSUME NEW n \in 1 .. Len(t), t[n] = e
        PROVE  \E i \in kept : s[i] = e
    BY <1>2, <1>4, <2>2
  <2>3. ASSUME NEW i \in kept, s[i] = e
        PROVE  \E n \in 1 .. Len(t) : t[n] = e
    BY <1>2, <2>3
  <2> QED BY <2>1, <2>2, <2>3
<1>7. ASSUME NEW x, NEW y, Precedes(t, x, y)
      PROVE  Precedes(s, x, y)
  <2>1. PICK m \in 1 .. Len(t), n \in 1 .. Len(t) : m < n /\ t[m] = x /\ t[n] = y
    BY <1>3, <1>7 DEF Precedes
  <2>2. at[m] < at[n] /\ s[at[m]] = x /\ s[at[n]] = y
    BY <1>2, <2>1
  <2> QED BY <1>3, <1>4, <2>2 DEF Precedes
<1> QED BY <1>1, <1>5, <1>6, <1>7 DEF t

LEMMA AmongIs ==
  ASSUME NEW T, NEW s \in Seq(T), IsInjective(s), NEW A
  PROVE  /\ Among(s, A) \in Seq(T) /\ IsInjective(Among(s, A))
         /\ ToSet(Among(s, A)) = ToSet(s) \cap A
         /\ \A x, y : Precedes(Among(s, A), x, y) => Precedes(s, x, y)
<1> DEFINE kept == {n \in DOMAIN s : s[n] \in A}
<1>1. kept \in SUBSET (1 .. Len(s)) /\ Among(s, A) = Selected(s, kept)
  BY DEF Among
<1>2. \A e : (\E i \in kept : s[i] = e) <=> e \in ToSet(s) /\ e \in A
  BY DEF ToSet
<1> HIDE DEF kept
<1> QED BY <1>1, <1>2, SelectedPart

LEMMA ApartIs ==
  ASSUME NEW T, NEW s \in Seq(T), IsInjective(s), NEW A
  PROVE  /\ Apart(s, A) \in Seq(T) /\ IsInjective(Apart(s, A))
         /\ ToSet(Apart(s, A)) = ToSet(s) \ A
<1> DEFINE kept == {n \in DOMAIN s : s[n] \notin A}
<1>1. kept \in SUBSET (1 .. Len(s)) /\ Apart(s, A) = Selected(s, kept)
  BY DEF Apart
<1>2. \A e : (\E i \in kept : s[i] = e) <=> e \in ToSet(s) /\ e \notin A
  BY DEF ToSet
<1> HIDE DEF kept
<1> QED BY <1>1, <1>2, SelectedPart

(* A list followed by another one that shares no member with it.           *)
LEMMA Joined ==
  ASSUME NEW T, NEW s \in Seq(T), NEW t \in Seq(T), IsInjective(s), IsInjective(t),
         ToSet(s) \cap ToSet(t) = {}
  PROVE  /\ s \o t \in Seq(T) /\ IsInjective(s \o t)
         /\ ToSet(s \o t) = ToSet(s) \cup ToSet(t)
         /\ \A x, y : Precedes(s, x, y) => Precedes(s \o t, x, y)
<1> DEFINE u == s \o t
<1>1. /\ u \in Seq(T) /\ Len(u) = Len(s) + Len(t) /\ Len(s) \in Nat /\ Len(t) \in Nat
      /\ \A n \in 1 .. Len(s) : u[n] = s[n]
      /\ \A n \in 1 .. Len(t) : u[Len(s) + n] = t[n]
  OBVIOUS
<1>2. DOMAIN u = 1 .. Len(u) /\ DOMAIN s = 1 .. Len(s) /\ DOMAIN t = 1 .. Len(t)
  BY <1>1
<1> HIDE DEF u
<1>3. \A n \in 1 .. Len(u) : \/ n \in 1 .. Len(s) /\ u[n] = s[n]
                             \/ n - Len(s) \in 1 .. Len(t) /\ u[n] = t[n - Len(s)]
  <2> TAKE n \in 1 .. Len(u)
  <2>1. CASE n <= Len(s)
    BY <1>1, <2>1
  <2>2. CASE n > Len(s)
    <3>1. n - Len(s) \in 1 .. Len(t) /\ Len(s) + (n - Len(s)) = n
      BY <1>1, <2>2
    <3> QED BY <1>1, <3>1
  <2> QED BY <1>1, <2>1, <2>2
<1>4. /\ \A n \in 1 .. Len(s) : s[n] \in ToSet(s)
      /\ \A n \in 1 .. Len(t) : t[n] \in ToSet(t)
  BY <1>2 DEF ToSet
<1>5. IsInjective(u)
  <2> SUFFICES ASSUME NEW m \in 1 .. Len(u), NEW n \in 1 .. Len(u), u[m] = u[n]
               PROVE  m = n
    BY <1>2 DEF IsInjective
  <2>1. CASE m \in 1 .. Len(s) /\ u[m] = s[m]
    <3>1. n \in 1 .. Len(s) /\ u[n] = s[n]
      BY <1>3, <1>4, <2>1
    <3> QED BY <1>2, <2>1, <3>1 DEF IsInjective
  <2>2. CASE m - Len(s) \in 1 .. Len(t) /\ u[m] = t[m - Len(s)]
    <3>1. n - Len(s) \in 1 .. Len(t) /\ u[n] = t[n - Len(s)]
      BY <1>3, <1>4, <2>2
    <3>2. m - Len(s) = n - Len(s)
      BY <1>2, <2>2, <3>1 DEF IsInjective
    <3> QED BY <1>1, <3>2
  <2> QED BY <1>3, <2>1, <2>2
<1>6. ToSet(u) \subseteq ToSet(s) \cup ToSet(t)
  <2>1. ASSUME NEW n \in 1 .. Len(u)
        PROVE  u[n] \in ToSet(s) \cup ToSet(t)
    BY <1>3, <1>4
  <2> QED BY <1>2, <2>1 DEF ToSet
<1>7. ToSet(s) \subseteq ToSet(u)
  <2>1. \A n \in 1 .. Len(s) : n \in 1 .. Len(u)
    BY <1>1
  <2> QED BY <1>1, <1>2, <2>1 DEF ToSet
<1>8. ToSet(t) \subseteq ToSet(u)
  <2>1. \A n \in 1 .. Len(t) : Len(s) + n \in 1 .. Len(u)
    BY <1>1
  <2> QED BY <1>1, <1>2, <2>1 DEF ToSet
<1>9. ASSUME NEW x, NEW y, Precedes(s, x, y)
      PROVE  Precedes(u, x, y)
  <2>1. PICK m \in 1 .. Len(s), n \in 1 .. Len(s) : m < n /\ s[m] = x /\ s[n] = y
    BY <1>2, <1>9 DEF Precedes
  <2>2. m \in 1 .. Len(u) /\ n \in 1 .. Len(u)
    BY <1>1
  <2> QED BY <1>1, <1>2, <2>1, <2>2 DEF Precedes
<1> QED BY <1>1, <1>5, <1>6, <1>7, <1>8, <1>9 DEF u

(* In a list without repetitions nothing comes before and after another.   *)
LEMMA OneWay ==
  ASSUME NEW T, NEW s \in Seq(T), IsInjective(s), NEW x, NEW y, Precedes(s, x, y)
  PROVE  ~Precedes(s, y, x)
<1>1. DOMAIN s = 1 .. Len(s) /\ Len(s) \in Nat
  OBVIOUS
<1> QED BY <1>1 DEF Precedes, IsInjective

-----------------------------------------------------------------------------
(* The rows of the list.                                                   *)
Groups == {"action", "follow_up", "muted", "waiting", "draft", "archived"}

LEMMA RanksOfGroups == \A g \in Groups : GroupRank[g] \in Int
  BY DEF Groups, GroupRank

LEMMA Known ==
  ASSUME NEW d \in Lists, NEW i \in Item, d[i] # NoFact
  PROVE  d[i].since \in Int /\ GroupOf(d[i]) \in Groups
<1>1. d[i] \in Fact[i]
  BY DEF Lists
<1>2. IsFact(d[i])
  BY <1>1, InboxAssumption
<1>3. d[i].since \in Int /\ d[i].state \in States
  BY <1>2 DEF IsFact
<1>4. States \subseteq Groups /\ "muted" \in Groups
  BY DEF States, Groups
<1> QED BY <1>3, <1>4, Zenon DEF GroupOf

LEMMA ItemsAre == Item \subseteq Int /\ IsFiniteSet(Item) /\ NoItem \notin Item
<1>1. MaxItem \in Nat
  BY InboxAssumption
<1>2. IsFiniteSet(1 .. MaxItem)
  BY <1>1, FS_Interval
<1> QED BY <1>1, <1>2 DEF Item, NoItem

LEMMA FilteredRows ==
  ASSUME NEW d \in Lists, NEW v
  PROVE  /\ Filtered(d, v) \in Seq(Item) /\ IsInjective(Filtered(d, v))
         /\ \A i \in ToSet(Filtered(d, v)) : i \in Item /\ d[i] # NoFact
<1> DEFINE rows == {i \in Item : d[i] # NoFact /\ Matches(d[i], v)}
           a == [i \in rows |-> d[i].since]
           b == [i \in rows |-> i]
           r == Ranked(rows, Older(rows, d))
<1>1. rows \subseteq Item /\ IsFiniteSet(rows) /\ \A i \in rows : d[i] # NoFact
  BY ItemsAre, FS_Subset
<1>2. Filtered(d, v) = r
  BY DEF Filtered
<1> HIDE DEF rows
<1>3. IsOrder(rows, Older(rows, d))
  <2>1. a \in [rows -> Int] /\ b \in [rows -> Int] /\ \A x, y \in rows : b[x] = b[y] => x = y
    BY <1>1, Known, ItemsAre
  <2>2. Older(rows, d) = {p \in rows \X rows : \/ a[p[1]] < a[p[2]]
                                               \/ a[p[1]] = a[p[2]] /\ b[p[1]] < b[p[2]]}
    BY DEF Older
  <2> HIDE DEF a, b
  <2> QED BY <2>1, <2>2, TwoKeys
<1>4. /\ r \in [1 .. Cardinality(rows) -> rows] /\ r \in Seq(rows)
      /\ \A m, n \in 1 .. Cardinality(rows) : r[m] = r[n] => m = n
  BY <1>1, <1>3, RankedOrder
<1> HIDE DEF r
<1>5. r \in Seq(Item) /\ IsInjective(r)
  BY <1>1, <1>4 DEF IsInjective
<1>6. \A i \in ToSet(r) : i \in rows
  BY <1>4 DEF ToSet
<1> QED BY <1>1, <1>2, <1>5, <1>6

-----------------------------------------------------------------------------
(* The rows on the page are rows of the held order, in that order.         *)
ListHeld ==
  /\ order \in Seq(Item) /\ IsInjective(order)
  /\ items \in Seq(Item) /\ IsInjective(items)
  /\ \A i, j : Precedes(items, i, j) => Precedes(order, i, j)
  /\ \A i \in ToSet(items) : i \in Item /\ data[i] # NoFact

(* The focus is on what can be seen.                                       *)
FocusHeld ==
  /\ mutedOpen \in BOOLEAN /\ {cursor, arrived} \subseteq Item \cup {NoItem}
  /\ focusedRow = NoItem \/ Contains(items, focusedRow)
  /\ focus \in Item => focus \in Visible
  /\ paneId # NoItem => cursor # NoItem

(* What is asked to open is closed, so that the render which opens it is   *)
(* one that the arrival waits for.                                         *)
LinkHeld == opening \in BOOLEAN /\ (opening => ~mutedOpen) /\ LinkAwaited

Counted ==
  query \in {"pending", "error", "ok"} /\ changes \in 0 .. MaxChanges /\ filters \in 0 .. MaxFilters

PageInv == Counted /\ data \in Lists /\ ListHeld /\ FocusHeld /\ LinkHeld

LEMMA PageTypes == PageInv => InboxTypeOK
<1> SUFFICES ASSUME PageInv
             PROVE  InboxTypeOK
  OBVIOUS
<1>1. ToSet(order) \subseteq Item
  BY DEF PageInv, ListHeld, ToSet
<1> QED BY <1>1, Zenon DEF PageInv, Counted, ListHeld, FocusHeld, LinkHeld, InboxTypeOK

LEMMA PageInit == InboxInit => PageInv
<1> SUFFICES ASSUME InboxInit
             PROVE  PageInv
  OBVIOUS
<1>1. query = "pending" /\ changes = 0 /\ filters = 0
  BY DEF InboxInit
<1>2. Counted
  BY <1>1, InboxAssumption DEF Counted
<1>3. data \in Lists
  <2>1. data = [i \in Item |-> NoFact]
    BY DEF InboxInit
  <2>2. data \in [Item -> (UNION {Fact[i] : i \in Item}) \cup {NoFact}]
    <3> DEFINE V == (UNION {Fact[i] : i \in Item}) \cup {NoFact}
    <3>1. NoFact \in V
      OBVIOUS
    <3> HIDE DEF V
    <3>2. data \in [Item -> V]
      BY <2>1, <3>1
    <3> QED BY <3>2 DEF V
  <2>3. \A i \in Item : data[i] = NoFact
    BY <2>1
  <2> QED BY <2>2, <2>3 DEF Lists
<1>4. order = <<>> /\ items = <<>>
  BY DEF InboxInit
<1>5. ListHeld
  <2>1. DOMAIN items = {} /\ DOMAIN order = {} /\ items \in Seq(Item) /\ order \in Seq(Item)
    BY <1>4
  <2> QED BY <2>1 DEF ListHeld, ToSet, IsInjective, Precedes
<1>6. mutedOpen = FALSE /\ cursor = NoItem /\ paneId = NoItem /\ focus = Body /\ focusedRow = NoItem /\ arrived = NoItem
  BY DEF InboxInit
<1>7. Body \notin Item
  BY InboxAssumption DEF Item, Body
<1>8. FocusHeld
  BY <1>6, <1>7 DEF FocusHeld
<1>9. LinkHeld
  <2>1. opening = FALSE /\ \A i : ~Contains(items, i)
    BY <1>4 DEF InboxInit, Contains
  <2> QED BY <2>1 DEF LinkHeld, LinkAwaited
<1> QED BY <1>2, <1>3, <1>5, <1>8, <1>9 DEF PageInv

-----------------------------------------------------------------------------
(* A render.                                                               *)
LEMMA AdoptedRows ==
  ASSUME NEW rows \in Seq(Item), IsInjective(rows), NEW held \in Seq(Item), IsInjective(held)
  PROVE  LET adopted == Adopt(rows, held) IN
         /\ adopted \in Seq(Item) /\ IsInjective(adopted) /\ ToSet(rows) \subseteq ToSet(adopted)
         /\ \A i, j : Precedes(held, i, j) => Precedes(adopted, i, j)
<1>1. CASE held = <<>>
  <2>1. \A i, j : ~Precedes(held, i, j)
    BY <1>1 DEF Precedes
  <2> QED BY <1>1, <2>1 DEF Adopt
<1>2. CASE held # <<>>
  <2> DEFINE new == Apart(rows, ToSet(held))
  <2>1. new \in Seq(Item) /\ IsInjective(new) /\ ToSet(new) = ToSet(rows) \ ToSet(held)
    BY ApartIs
  <2>2. Adopt(rows, held) = held \o new
    BY <1>2 DEF Adopt
  <2> HIDE DEF new
  <2>3. ToSet(held) \cap ToSet(new) = {}
    BY <2>1
  <2> QED BY <2>1, <2>2, <2>3, Joined
<1> QED BY <1>1, <1>2

LEMMA StableRows ==
  ASSUME NEW rows \in Seq(Item), IsInjective(rows), NEW held \in Seq(Item), IsInjective(held),
         ToSet(rows) \subseteq ToSet(held)
  PROVE  LET stable == StableOrder(rows, held) IN
         /\ stable \in Seq(Item) /\ IsInjective(stable) /\ ToSet(stable) = ToSet(rows)
         /\ \A i, j : Precedes(stable, i, j) => Precedes(held, i, j)
<1> DEFINE known == Among(held, ToSet(rows))
           new == Apart(rows, ToSet(held))
<1>1. /\ known \in Seq(Item) /\ IsInjective(known) /\ ToSet(known) = ToSet(held) \cap ToSet(rows)
      /\ \A i, j : Precedes(known, i, j) => Precedes(held, i, j)
  BY AmongIs
<1>2. new \in Seq(Item) /\ ToSet(new) = ToSet(rows) \ ToSet(held)
  BY ApartIs
<1>3. StableOrder(rows, held) = known \o new
  BY DEF StableOrder
<1> HIDE DEF known, new
<1>4. new = <<>>
  <2>1. ToSet(new) = {}
    BY <1>2
  <2>2. ASSUME new # <<>>
        PROVE  FALSE
    <3>1. Len(new) \in Nat /\ Len(new) # 0 /\ DOMAIN new = 1 .. Len(new)
      BY <1>2, <2>2
    <3>2. 1 \in DOMAIN new
      BY <3>1
    <3> QED BY <2>1, <3>2 DEF ToSet
  <2> QED BY <2>2
<1>5. StableOrder(rows, held) = known
  BY <1>1, <1>3, <1>4
<1> QED BY <1>1, <1>5

LEMMA RenderedRows ==
  ASSUME PageInv, data' \in Lists, NEW at, NEW wanted, NEW noted, NEW open,
         Render(at, wanted, noted, open)
  PROVE  /\ ListHeld'
         /\ ToSet(items') = ToSet(Filtered(data', filter'))
         /\ Key(filter') = Key(filter) => \A i, j : Precedes(items, i, j) => Precedes(order', i, j)
<1> DEFINE rows == Filtered(data', filter')
           held == IF Key(filter') # Key(filter) THEN <<>> ELSE order
<1>1. order' = Adopt(rows, held) /\ items' = StableOrder(rows, order')
  BY DEF Render
<1>2. rows \in Seq(Item) /\ IsInjective(rows) /\ \A i \in ToSet(rows) : i \in Item /\ data'[i] # NoFact
  BY FilteredRows
<1>3. held \in Seq(Item) /\ IsInjective(held)
  BY DEF PageInv, ListHeld, IsInjective
<1>4. Key(filter') = Key(filter) => held = order
  OBVIOUS
<1> HIDE DEF rows, held
<1>5. /\ order' \in Seq(Item) /\ IsInjective(order') /\ ToSet(rows) \subseteq ToSet(order')
      /\ \A i, j : Precedes(held, i, j) => Precedes(order', i, j)
  BY <1>1, <1>2, <1>3, AdoptedRows
<1>6. /\ items' \in Seq(Item) /\ IsInjective(items') /\ ToSet(items') = ToSet(rows)
      /\ \A i, j : Precedes(items', i, j) => Precedes(order', i, j)
  BY <1>1, <1>2, <1>5, StableRows
<1>7. \A i \in ToSet(items') : i \in Item /\ data'[i] # NoFact
  BY <1>2, <1>6
<1>8. ListHeld'
  BY <1>5, <1>6, <1>7 DEF ListHeld, IsInjective, Precedes, ToSet
<1>9. \A i, j : Precedes(items, i, j) => Precedes(order, i, j)
  BY DEF PageInv, ListHeld
<1> QED BY <1>4, <1>5, <1>6, <1>8, <1>9 DEF rows

LEMMA SuccessorIsListed ==
  ASSUME items \in Seq(Item), items' \in Seq(Item), NEW held
  PROVE  Successor(held) = NoItem \/ Successor(held) \in ToSet(items')
<1> DEFINE at == IF Contains(items, held) THEN Place(held) ELSE 1
           last == IF at > Len(items') THEN Len(items') ELSE at
<1>1. at \in Nat /\ at >= 1
  <2>1. CASE Contains(items, held)
    <3>1. \E n \in DOMAIN items : items[n] = held
      BY <2>1 DEF Contains
    <3>2. Place(held) \in DOMAIN items
      BY <3>1 DEF Place
    <3> QED BY <2>1, <3>2
  <2> QED BY <2>1
<1> HIDE DEF at
<1>2. CASE items' = <<>>
  BY <1>2 DEF Successor
<1>3. CASE items' # <<>>
  <2>1. Len(items') \in Nat /\ Len(items') >= 1 /\ DOMAIN items' = 1 .. Len(items')
    BY <1>3
  <2>2. last \in DOMAIN items'
    BY <1>1, <2>1
  <2>3. Successor(held) = items'[last]
    BY <1>3 DEF Successor, at
  <2> QED BY <2>2, <2>3 DEF ToSet
<1> QED BY <1>2, <1>3

LEMMA ContainsMembers ==
  ASSUME NEW s \in Seq(Item), NEW e
  PROVE  Contains(s, e) <=> e \in ToSet(s)
<1>1. DOMAIN s = 1 .. Len(s)
  OBVIOUS
<1> QED BY <1>1 DEF Contains, ToSet

LEMMA RenderedFocus ==
  ASSUME PageInv, data' \in Lists, NEW at, NEW wanted \in Item \cup {NoItem}, NEW noted, NEW open \in BOOLEAN,
         Render(at, wanted, noted, open)
  PROVE  FocusHeld'
<1> DEFINE kept == IF Key(filter') # Key(filter) THEN NoItem ELSE wanted
           held == IF at = Out THEN NoItem ELSE noted
           lost == held # NoItem /\ ~Contains(items', held)
           next == Successor(held)
           goal == filter'.focus
           arrives == goal # NoItem /\ goal # arrived /\ Contains(items', goal) /\ ArrivalRuns /\ Reach(goal)
<1>1. /\ mutedOpen' = open
      /\ focusedRow' = IF lost THEN next ELSE held
      /\ focus' = IF lost THEN IF next # NoItem /\ Reach(next) THEN next ELSE Body
                  ELSE IF FocusStands(at) THEN at ELSE Body
      /\ arrived' = IF arrives THEN goal ELSE arrived
      /\ cursor' = IF arrives THEN goal ELSE IF lost THEN next ELSE kept
      /\ paneId' = PaneFollows(cursor')
  BY Zenon DEF Render
<1>2. /\ items' \in Seq(Item) /\ items \in Seq(Item)
      /\ \A i \in ToSet(items') : i \in Item
  BY RenderedRows DEF ListHeld, PageInv
<1>3. \A e : Contains(items', e) <=> e \in ToSet(items')
  BY <1>2, ContainsMembers
<1>4. next = NoItem \/ next \in ToSet(items')
  BY <1>2, SuccessorIsListed
<1>5. kept \in Item \cup {NoItem}
  OBVIOUS
<1>6. mutedOpen \in BOOLEAN /\ {cursor, arrived} \subseteq Item \cup {NoItem} /\ Body \notin Item
  BY InboxAssumption DEF PageInv, FocusHeld, Item, Body
<1> HIDE DEF kept, held, next, goal
<1>7. mutedOpen' \in BOOLEAN
  BY <1>1
<1>8. arrives => goal \in ToSet(items')
  BY <1>3
<1>9. lost \/ held = NoItem \/ held \in ToSet(items')
  BY <1>3
<1>10. {cursor', arrived'} \subseteq Item \cup {NoItem}
  BY <1>1, <1>2, <1>4, <1>5, <1>6, <1>8
<1>11. focusedRow' = NoItem \/ Contains(items', focusedRow')
  BY <1>1, <1>3, <1>4, <1>9
<1>12. ASSUME NEW i \in ToSet(items'), Reach(i)
       PROVE  i \in Visible'
  BY <1>12 DEF Reach, Visible
<1>13. focus' \in Item => focus' \in Visible'
  <2> SUFFICES ASSUME focus' \in Item
               PROVE  focus' \in Visible'
    OBVIOUS
  <2>1. CASE lost
    BY <1>1, <1>4, <1>6, <1>12, <2>1
  <2>2. CASE ~lost
    <3>1. FocusStands(at) /\ at \in Item /\ focus' = at
      BY <1>1, <1>6, <2>2
    <3>2. at # List
      BY <3>1, ItemsAre, InboxAssumption DEF Item, List
    <3>3. at \in Visible'
      BY <3>1, <3>2, Zenon DEF FocusStands
    <3> QED BY <3>1, <3>3
  <2> QED BY <2>1, <2>2
<1>14. paneId' # NoItem => cursor' # NoItem
  BY <1>1 DEF PaneFollows
<1> QED BY <1>7, <1>10, <1>11, <1>13, <1>14 DEF FocusHeld

(* A render that opens what it was asked to open.                          *)
LEMMA RenderedLink ==
  ASSUME PageInv, NEW at, NEW wanted, NEW noted, NEW open \in BOOLEAN, opening => open,
         Render(at, wanted, noted, open)
  PROVE  LinkHeld'
<1> DEFINE goal == filter'.focus
           due == goal # NoItem /\ goal # arrived /\ Contains(items', goal) /\ ArrivalRuns
<1>1. /\ mutedOpen' = open /\ opening' = (due /\ ~Reach(goal))
      /\ arrived' = IF due /\ Reach(goal) THEN goal ELSE arrived
  BY Zenon DEF Render
<1>2. opening' \in BOOLEAN /\ (opening' => ~mutedOpen')
  BY <1>1 DEF Reach
<1>3. ASSUME goal # NoItem, Contains(items', goal)
      PROVE  arrived' = goal \/ opening'
  <2>1. CASE ArrivalRuns
    <3>1. CASE goal = arrived
      BY <1>1, <3>1
    <3>2. CASE goal # arrived
      BY <1>1, <1>3, <2>1, <3>2
    <3> QED BY <3>1, <3>2
  <2>2. CASE ~ArrivalRuns
    <3>1. goal = filter.focus /\ items' = items /\ mutedOpen' = mutedOpen
      BY <2>2 DEF ArrivalRuns
    <3>2. filter.focus # NoItem /\ Contains(items, filter.focus)
      BY <1>3, <3>1 DEF Contains
    <3>3. LinkAwaited
      BY DEF PageInv, LinkHeld
    <3>4. arrived = goal \/ (opening /\ ~mutedOpen)
      BY <3>1, <3>2, <3>3, Zenon DEF LinkAwaited
    <3>5. ~(opening /\ ~mutedOpen)
      BY <1>1, <3>1
    <3> QED BY <1>1, <3>4, <3>5
  <2> QED BY <2>1, <2>2
<1>4. LinkAwaited'
  BY <1>2, <1>3 DEF LinkAwaited, Contains
<1> QED BY <1>2, <1>4 DEF LinkHeld

(* What holds of the step and not of the state.                            *)
Held == Key(filter') = Key(filter) => \A i, j \in Item : Precedes(items, i, j) => ~Precedes(items', j, i)

LEMMA RenderedPage ==
  ASSUME PageInv, data' \in Lists, Counted', NEW at, NEW wanted \in Item \cup {NoItem}, NEW noted,
         NEW open \in BOOLEAN, opening => open, Render(at, wanted, noted, open)
  PROVE  PageInv' /\ Held
<1>1. ListHeld' /\ FocusHeld' /\ LinkHeld'
  BY RenderedRows, RenderedFocus, RenderedLink
<1>2. Held
  <2> SUFFICES ASSUME Key(filter') = Key(filter), NEW i \in Item, NEW j \in Item,
                      Precedes(items, i, j), Precedes(items', j, i)
               PROVE  FALSE
    BY DEF Held
  <2>1. Precedes(order', i, j)
    BY RenderedRows
  <2>2. Precedes(order', j, i)
    BY <1>1 DEF ListHeld, Precedes
  <2>3. order' \in Seq(Item) /\ IsInjective(order')
    BY <1>1 DEF ListHeld, IsInjective
  <2> QED BY <2>1, <2>2, <2>3, OneWay
<1> QED BY <1>1, <1>2 DEF PageInv

-----------------------------------------------------------------------------
(* The steps.                                                              *)
LEMMA OpenNowIs ==
  ASSUME PageInv
  PROVE  OpenNow \in BOOLEAN /\ (opening => OpenNow)
  BY DEF OpenNow, PageInv, FocusHeld, LinkHeld

(* A render of the page as it is.                                          *)
LEMMA SameAddress ==
  ASSUME PageInv, UNCHANGED <<query, data, filter, changes, filters>>
  PROVE  data' \in Lists /\ Counted' /\ cursor \in Item \cup {NoItem}
  BY DEF PageInv, Counted, FocusHeld

LEMMA Disclosed ==
  ASSUME PageInv, Opens \/ ToggleMuted
  PROVE  PageInv' /\ Held
<1>1. data' \in Lists /\ Counted' /\ cursor \in Item \cup {NoItem}
  BY SameAddress DEF Opens, ToggleMuted
<1>2. CASE Opens
  BY <1>1, <1>2, OpenNowIs, RenderedPage DEF Opens
<1>3. CASE ToggleMuted
  <2>1. (~mutedOpen) \in BOOLEAN
    OBVIOUS
  <2>2. Render(List, cursor, NoItem, ~mutedOpen)
    BY <1>3 DEF ToggleMuted
  <2>3. opening => ~mutedOpen
    BY DEF PageInv, LinkHeld
  <2> QED BY <1>1, <2>1, <2>2, <2>3, RenderedPage
<1> QED BY <1>2, <1>3

LEMMA NewList ==
  ASSUME PageInv, NEW d \in Lists, ListChanges(d)
  PROVE  PageInv' /\ Held
<1>1. /\ data' = d /\ query' = "ok" /\ changes < MaxChanges /\ changes' = changes + 1 /\ filters' = filters
      /\ Render(focus, cursor, focusedRow, OpenNow)
  BY DEF ListChanges
<1>2. changes' \in 0 .. MaxChanges
  BY <1>1, InboxAssumption DEF PageInv, Counted
<1>3. Counted'
  BY <1>1, <1>2 DEF PageInv, Counted
<1> QED BY <1>1, <1>3, OpenNowIs, RenderedPage DEF PageInv, FocusHeld

LEMMA NewAddress ==
  ASSUME PageInv, NEW v, NEW at, Goes(v, at)
  PROVE  PageInv' /\ Held
<1>1. /\ data' = data /\ query' = query /\ filters < MaxFilters /\ filters' = filters + 1 /\ changes' = changes
      /\ Render(at, cursor, IF at = Out THEN NoItem ELSE focusedRow, OpenNow)
  BY DEF Goes
<1>2. filters' \in 0 .. MaxFilters
  BY <1>1, InboxAssumption DEF PageInv, Counted
<1>3. Counted'
  BY <1>1, <1>2 DEF PageInv, Counted
<1> QED BY <1>1, <1>3, OpenNowIs, RenderedPage DEF PageInv, FocusHeld

LEMMA Going ==
  ASSUME \/ \E r \in Roles : ChooseRole(r)
         \/ \E s \in Statuses : ChooseStatus(s)
         \/ \E k \in {"repo", "merged", "tone", "ready"} : ClearChip(k)
         \/ \E w \in Words : Search(w)
         \/ ShowAll
         \/ \E v \in Link : FollowLink(v)
         \/ \E i \in Item : ChooseRepo(i)
  PROVE  \E v, at : Goes(v, at)
  BY Zenon DEF ChooseRole, ChooseStatus, ClearChip, Search, ShowAll, FollowLink, ChooseRepo, Change

LEMMA StillPage ==
  ASSUME PageInv, Still, UNCHANGED mutedOpen, FocusHeld'
  PROVE  PageInv' /\ Held
<1>1. UNCHANGED <<query, data, filter, order, items, opening, arrived, changes, filters>>
  BY DEF Still
<1>2. Counted' /\ data' \in Lists
  BY <1>1 DEF PageInv, Counted
<1>3. ListHeld'
  BY <1>1 DEF PageInv, ListHeld, Precedes, IsInjective, ToSet
<1>4. Held
  <2>1. items \in Seq(Item) /\ IsInjective(items) /\ items' = items
    BY <1>1 DEF PageInv, ListHeld
  <2> QED BY <2>1, OneWay DEF Held
<1>5. LinkHeld'
  BY <1>1 DEF PageInv, LinkHeld, LinkAwaited, Contains
<1> QED BY <1>2, <1>3, <1>4, <1>5 DEF PageInv

LEMMA VisibleRows ==
  ASSUME PageInv
  PROVE  /\ Visible \subseteq Item /\ IsFiniteSet(Visible)
         /\ \A i \in Visible : Contains(items, i) /\ data[i] # NoFact
<1>1. /\ items \in Seq(Item) /\ \A i \in ToSet(items) : i \in Item /\ data[i] # NoFact
  BY DEF PageInv, ListHeld
<1>2. Visible \subseteq ToSet(items)
  BY DEF Visible
<1> QED BY <1>1, <1>2, ContainsMembers, ItemsAre, FS_Subset

(* A cursor that moves, and a pane that follows.                           *)
LEMMA CursorMoves ==
  ASSUME PageInv, NEW i \in Item \cup {NoItem}, Cursor(i)
  PROVE  cursor' \in Item \cup {NoItem} /\ (paneId' # NoItem => cursor' # NoItem)
  BY DEF Cursor, PaneFollows

LEMMA WalkIsSeen ==
  ASSUME PageInv
  PROVE  /\ Walk \in Seq(Visible)
         /\ \A n \in DOMAIN Walk : Walk[n] \in Visible
<1> DEFINE a == [i \in Visible |-> Rank(i)]
           b == [i \in Visible |-> Place(i)]
<1>1. ASSUME NEW i \in Visible
      PROVE  Rank(i) \in Int
  <2>1. GroupOf(data[i]) \in Groups
    BY VisibleRows, Known DEF PageInv
  <2> QED BY <2>1, RanksOfGroups DEF Rank
<1>2. ASSUME NEW i \in Visible
      PROVE  Place(i) \in Int /\ items[Place(i)] = i
  <2>1. \E n \in DOMAIN items : items[n] = i
    BY VisibleRows DEF Contains, PageInv, ListHeld
  <2>2. Place(i) \in DOMAIN items /\ items[Place(i)] = i
    BY <2>1 DEF Place
  <2>3. DOMAIN items \subseteq Int
    BY DEF PageInv, ListHeld
  <2> QED BY <2>2, <2>3
<1>3. IsOrder(Visible, Above)
  <2>1. a \in [Visible -> Int] /\ b \in [Visible -> Int] /\ \A x, y \in Visible : b[x] = b[y] => x = y
    BY <1>1, <1>2
  <2>2. Above = {p \in Visible \X Visible : \/ a[p[1]] < a[p[2]]
                                            \/ a[p[1]] = a[p[2]] /\ b[p[1]] < b[p[2]]}
    BY DEF Above
  <2> HIDE DEF a, b
  <2> QED BY <2>1, <2>2, TwoKeys
<1>4. Ranked(Visible, Above) \in Seq(Visible)
  BY <1>3, VisibleRows, RankedOrder
<1> QED BY <1>4 DEF Walk

LEMMA MoveIsSeen ==
  ASSUME PageInv, NEW step \in Int, MoveTo(step)
  PROVE  \E i \in Visible : focus' = i /\ focusedRow' = i /\ Cursor(i)
<1> DEFINE at == IF Contains(Walk, cursor) THEN CHOOSE n \in DOMAIN Walk : Walk[n] = cursor ELSE 0
           to == IF at + step < 1 THEN 1 ELSE IF at + step > Len(Walk) THEN Len(Walk) ELSE at + step
<1>1. Walk # <<>> /\ focus' = Walk[to] /\ focusedRow' = Walk[to] /\ Cursor(Walk[to])
  BY DEF MoveTo
<1>2. Len(Walk) \in Nat /\ Len(Walk) >= 1 /\ DOMAIN Walk = 1 .. Len(Walk)
  BY <1>1, WalkIsSeen
<1>3. at \in Int
  <2>1. CASE Contains(Walk, cursor)
    <3>1. \E n \in DOMAIN Walk : Walk[n] = cursor
      BY <1>2, <2>1 DEF Contains
    <3>2. at \in DOMAIN Walk
      BY <2>1, <3>1
    <3> QED BY <1>2, <3>2
  <2> QED BY <2>1
<1> HIDE DEF at
<1>4. to \in DOMAIN Walk
  BY <1>2, <1>3
<1> HIDE DEF to
<1> QED BY <1>1, <1>4, WalkIsSeen

LEMMA ReaderMoves ==
  ASSUME PageInv,
         \/ \E i \in Item : FocusRow(i) \/ OpenItem(i)
         \/ \E at \in {Out, Body} : FocusElsewhere(at)
         \/ MoveTo(1) \/ MoveTo(-1) \/ Escape \/ PaneCatchesUp
  PROVE  PageInv' /\ Held
<1>1. Still /\ UNCHANGED mutedOpen
  BY DEF FocusRow, OpenItem, FocusElsewhere, MoveTo, Escape, PaneCatchesUp
<1>2. UNCHANGED <<data, items, arrived>>
  BY <1>1 DEF Still
<1>3. UNCHANGED mutedOpen => Visible' = Visible
  BY <1>2 DEF Visible, ToSet
<1>4. /\ mutedOpen \in BOOLEAN /\ {cursor, arrived} \subseteq Item \cup {NoItem}
      /\ focusedRow = NoItem \/ Contains(items, focusedRow)
      /\ focus \in Item => focus \in Visible
      /\ paneId # NoItem => cursor # NoItem
  BY DEF PageInv, FocusHeld
<1>5. \A e : Contains(items', e) <=> Contains(items, e)
  BY <1>2 DEF Contains
<1>6. FocusHeld'
  <2>1. ASSUME NEW i \in Visible, focus' = i, focusedRow' = i, Cursor(i), UNCHANGED mutedOpen
        PROVE  FocusHeld'
    <3>1. i \in Item /\ Contains(items, i)
      BY VisibleRows
    <3>2. cursor' \in Item \cup {NoItem} /\ (paneId' # NoItem => cursor' # NoItem)
      BY <2>1, <3>1, CursorMoves
    <3> QED BY <1>2, <1>3, <1>4, <1>5, <2>1, <3>1, <3>2 DEF FocusHeld
  <2>2. CASE \E i \in Item : FocusRow(i)
    BY <2>1, <2>2 DEF FocusRow
  <2>3. ASSUME NEW step \in Int, MoveTo(step)
        PROVE  FocusHeld'
    BY <2>1, <2>3, MoveIsSeen DEF MoveTo
  <2>4. ASSUME NEW i \in Item \cup {NoItem}, Cursor(i), UNCHANGED <<mutedOpen, focus, focusedRow>>
        PROVE  FocusHeld'
    <3>1. cursor' \in Item \cup {NoItem} /\ (paneId' # NoItem => cursor' # NoItem)
      BY <2>4, CursorMoves
    <3> QED BY <1>2, <1>3, <1>4, <1>5, <2>4, <3>1 DEF FocusHeld
  <2>5. CASE \E i \in Item : OpenItem(i)
    BY <2>4, <2>5 DEF OpenItem
  <2>6. CASE Escape
    BY <2>4, <2>6 DEF Escape
  <2>7. CASE \E at \in {Out, Body} : FocusElsewhere(at)
    <3>1. focus' \in {Out, Body} /\ UNCHANGED <<mutedOpen, cursor, paneId, focusedRow>>
      BY <2>7 DEF FocusElsewhere
    <3>2. focus' \notin Item
      BY <3>1, InboxAssumption DEF Item, Out, Body
    <3> QED BY <1>2, <1>4, <1>5, <3>1, <3>2 DEF FocusHeld
  <2>9. CASE PaneCatchesUp
    <3>1. cursor # NoItem /\ UNCHANGED <<mutedOpen, cursor, focus, focusedRow>>
      BY <2>9 DEF PaneCatchesUp
    <3> QED BY <1>2, <1>3, <1>4, <1>5, <3>1 DEF FocusHeld
  <2>10. 1 \in Int /\ -1 \in Int
    OBVIOUS
  <2> QED BY <2>2, <2>3, <2>5, <2>6, <2>7, <2>9, <2>10
<1> QED BY <1>1, <1>6, StillPage

LEMMA PageStep ==
  ASSUME PageInv, [InboxNext]_inboxVars
  PROVE  PageInv' /\ Held
<1>1. CASE \E d \in Lists : ListChanges(d)
  BY <1>1, NewList
<1>2. CASE \E v, at : Goes(v, at)
  BY <1>2, NewAddress
<1>3. ASSUME UNCHANGED <<data, filter, order, items, mutedOpen, opening, cursor, paneId, focus, focusedRow, arrived,
                         changes, filters>>,
             query' = query \/ query' = "error"
      PROVE  PageInv' /\ Held
  <2>1. Counted' /\ data' \in Lists
    BY <1>3 DEF PageInv, Counted
  <2>2. ListHeld'
    BY <1>3 DEF PageInv, ListHeld, Precedes, IsInjective, ToSet
  <2>3. FocusHeld'
    BY <1>3 DEF PageInv, FocusHeld, Visible, ToSet, Contains
  <2>4. Held
    <3>1. items \in Seq(Item) /\ IsInjective(items) /\ items' = items
      BY <1>3 DEF PageInv, ListHeld
    <3> QED BY <3>1, OneWay DEF Held
  <2>5. LinkHeld'
    BY <1>3 DEF PageInv, LinkHeld, LinkAwaited, Contains
  <2> QED BY <2>1, <2>2, <2>3, <2>4, <2>5 DEF PageInv
<1>4. CASE ListFails
  BY <1>3, <1>4 DEF ListFails
<1>5. CASE UNCHANGED inboxVars
  BY <1>3, <1>5 DEF inboxVars
<1>6. CASE \/ \E i \in Item : FocusRow(i) \/ OpenItem(i)
           \/ \E at \in {Out, Body} : FocusElsewhere(at)
           \/ MoveTo(1) \/ MoveTo(-1) \/ Escape \/ PaneCatchesUp
  BY <1>6, ReaderMoves
<1>9. CASE Opens \/ ToggleMuted
  BY <1>9, Disclosed
<1>7. CASE \/ \E r \in Roles : ChooseRole(r)
           \/ \E s \in Statuses : ChooseStatus(s)
           \/ \E k \in {"repo", "merged", "tone", "ready"} : ClearChip(k)
           \/ \E w \in Words : Search(w)
           \/ ShowAll
           \/ \E v \in Link : FollowLink(v)
           \/ \E i \in Item : ChooseRepo(i)
  BY <1>2, <1>7, Going
<1>8. \/ \E d \in Lists : ListChanges(d)
      \/ ListFails \/ Opens \/ UNCHANGED inboxVars
      \/ \E i \in Item : FocusRow(i) \/ OpenItem(i)
      \/ \E at \in {Out, Body} : FocusElsewhere(at)
      \/ MoveTo(1) \/ MoveTo(-1) \/ Escape \/ ToggleMuted \/ PaneCatchesUp
      \/ \E r \in Roles : ChooseRole(r)
      \/ \E s \in Statuses : ChooseStatus(s)
      \/ \E k \in {"repo", "merged", "tone", "ready"} : ClearChip(k)
      \/ \E w \in Words : Search(w)
      \/ ShowAll
      \/ \E v \in Link : FollowLink(v)
      \/ \E i \in Item : ChooseRepo(i)
  BY Zenon DEF InboxNext
<1> QED BY <1>1, <1>4, <1>5, <1>6, <1>7, <1>8, <1>9

(* The inductive invariant holds of the page, and every step of it keeps   *)
(* the order.                                                              *)
LEMMA PageAlways == InboxSpec => [](PageInv /\ InboxTypeOK /\ LinkAwaited) /\ [][Held]_inboxVars
<1>1. InboxInit => PageInv
  BY PageInit
<1>2. PageInv /\ [InboxNext]_inboxVars => PageInv' /\ Held
  BY PageStep
<1>3. PageInv => InboxTypeOK /\ LinkAwaited
  BY PageTypes DEF PageInv, LinkHeld
<1> QED BY <1>1, <1>2, <1>3, PTL DEF InboxSpec

(* InboxPage.tsx: what is focused can be seen, what is believed to hold    *)
(* the focus is on the list, and a pane without a cursor shows its prompt, *)
(* for any list and any address.                                           *)
THEOREM InboxTypesCorrect == InboxSpec => []InboxTypeOK
  BY PageAlways, PTL

(* InboxPage.tsx, the frozen order: whatever the server answers, no two    *)
(* rows change places as long as the filters stay.                         *)
THEOREM OrderIsHeld == InboxSpec => OrderHeld
<1>1. Held => (Key(filter') = Key(filter) =>
                 \A i, j \in Item : Precedes(items, i, j) => ~Precedes(items', j, i))
  BY DEF Held
<1> QED BY <1>1, PageAlways, PTL DEF OrderHeld

(* InboxPage.tsx: a listed row that a link asks for has been arrived at,   *)
(* or the disclosure it sits in is about to open, for any list, any link   *)
(* and any order of answers and clicks.                                    *)
THEOREM LinksAreAwaited == InboxSpec => []LinkAwaited
  BY PageAlways, PTL
=============================================================================
