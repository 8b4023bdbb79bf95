-------------------------- MODULE Settings_proofs ---------------------------
(***************************************************************************)
(* Theorems about the tabs of the settings, for any names, periods, zones, *)
(* teams, entries and channels, and any number of rows, edits and          *)
(* failures: the form for the reminders (FormTyped is its inductive        *)
(* invariant), the lists of destinations and tokens (BoardInvariant), and  *)
(* MCSettings, which puts them beside one another.                         *)
(***************************************************************************)
EXTENDS MCSettings, Selections_proofs, TLAPS

-----------------------------------------------------------------------------
(* THE FORM FOR THE REMINDERS                                              *)

(* The server always has settings, a request carries some, and a form is   *)
(* open only over settings in hand, which no failure takes away.           *)
FormInvariant ==
  /\ stored # Nothing
  /\ mounted => settings # Nothing

LEMMA SettingsAreSomething ==
  ASSUME NEW z, NEW t, NEW d
  PROVE  Settings(z, t, d) # Nothing
<1>1. DOMAIN Settings(z, t, d) = {"zone", "teams", "days"}
  BY DEF Settings
<1>2. DOMAIN Nothing = {}
  BY DEF Nothing
<1> QED BY <1>1, <1>2

LEMMA InitForm == FormInit => FormInvariant
  BY SettingsAreSomething DEF FormInit, FormInvariant

\* What is done in the form asks nothing of the server and loses nothing in hand.
LEMMA TypedKeeps ==
  ASSUME FormInvariant, Edited
  PROVE  FormInvariant' /\ UNCHANGED reading
  BY DEF Edited, server, queries, FormInvariant

LEMMA EditingStep ==
  ASSUME FormInvariant,
         \/ ChangeZone \/ (\E t \in Team : CheckTeam(t))
         \/ (\E i \in 1 .. MaxRows : UpdateRow(i) \/ RemoveRow(i))
         \/ AddRow \/ EditText \/ ToText \/ ToRows
  PROVE  FormInvariant' /\ UNCHANGED reading
<1>1. Edited
  BY DEF ChangeZone, CheckTeam, UpdateRow, RemoveRow, AddRow, EditText, ToText, ToRows, Typed
<1> QED BY <1>1, TypedKeeps

\* What a step may do to what is typed while a request is sent or answered.
ValuesStay == mounted /\ reading' # reading => mounted' /\ UNCHANGED <<zone, selected, mode, rows, text>>

LEMMA FormStep ==
  ASSUME FormInvariant, [FormNext]_formVars
  PROVE  FormInvariant' /\ ValuesStay
<1>1. CASE Mount
  BY <1>1 DEF Mount, server, FormInvariant, ValuesStay
<1>2. CASE Leave \/ ToRowsRefused \/ Submit \/ TeamsArrive \/ LeaveTeam \/ UNCHANGED formVars
  <2>1. UNCHANGED <<stored, settings, reading>> /\ (mounted' => mounted)
    <3>1. CASE Leave \/ TeamsArrive
      BY <3>1 DEF Leave, TeamsArrive, server, queries
    <3>2. CASE ToRowsRefused \/ Submit \/ LeaveTeam
      BY <3>2 DEF ToRowsRefused, Submit, LeaveTeam, server, queries
    <3>3. CASE UNCHANGED formVars
      BY <3>3 DEF formVars, server, queries
    <3> QED BY <1>2, <3>1, <3>2, <3>3
  <2> QED BY <2>1 DEF FormInvariant, ValuesStay
<1>3. CASE SaveAccepted
  BY <1>3 DEF SaveAccepted, fields, editor, FormInvariant, ValuesStay
<1>4. CASE SaveFails
  BY <1>4 DEF SaveFails, queries, fields, editor, FormInvariant, ValuesStay
<1>5. CASE Refetch \/ SettingsArrive
  BY <1>5 DEF Refetch, SettingsArrive, server, fields, editor, FormInvariant, ValuesStay
<1>6. CASE SettingsFail
  BY <1>6 DEF SettingsFail, PanelShown, server, fields, editor, FormInvariant, ValuesStay
<1>7. CASE \/ ChangeZone \/ (\E t \in Team : CheckTeam(t))
           \/ (\E i \in 1 .. MaxRows : UpdateRow(i) \/ RemoveRow(i))
           \/ AddRow \/ EditText \/ ToText \/ ToRows
  BY <1>7, EditingStep DEF ValuesStay
<1> QED BY <1>1, <1>2, <1>3, <1>4, <1>5, <1>6, <1>7 DEF FormNext

(* ReminderSettings: a request for the settings that fails, or answers     *)
(* with other settings, takes neither the form nor a value of it away.     *)
THEOREM TypedValuesKept == FormSpec => EditsKept
<1>1. FormInvariant /\ [FormNext]_formVars => FormInvariant' /\ [ValuesStay]_formVars
  BY FormStep
<1>2. FormSpec => []FormInvariant
  BY InitForm, <1>1, PTL DEF FormSpec
<1> QED BY <1>1, <1>2, PTL DEF FormSpec, EditsKept, ValuesStay

(* What is sent: periods by name, finitely many.                           *)
Sound(days) == days \in Periods /\ IsFiniteSet(DOMAIN days)
SoundSettings(s) == s \in SettingsType /\ Sound(s.days)

LEMMA SettingsSound ==
  ASSUME NEW z \in Zone, NEW t \in SUBSET Team, NEW d, Sound(d)
  PROVE  SoundSettings(Settings(z, t, d))
  BY DEF SoundSettings, Sound, SettingsType, Settings

LEMMA NonEmptyRow ==
  ASSUME NEW row, ~IsEmpty(row)
  PROVE  Listed(row) # Blank
  BY DEF IsEmpty, Listed, Blank

LEMMA SameListed ==
  ASSUME NEW row
  PROVE  Listed(row)[1] = row.repo /\ Listed(row)[2] = row.days
  BY DEF Listed

LEMMA ElementOf ==
  ASSUME NEW T, NEW s \in Seq(T), NEW i \in DOMAIN s
  PROVE  s[i] \in T
  OBVIOUS

\* Rows without a problem say what they are about, and say it once, in whatever case.
LEMMA RowsChecked ==
  ASSUME NEW rs \in Seq(Row), CheckRows(rs) = {}
  PROVE  /\ \A i \in DOMAIN rs : IsEmpty(rs[i]) \/ (rs[i].repo \in Repo /\ rs[i].days \in Days)
         /\ \A i, j \in DOMAIN rs :
              (~IsEmpty(rs[i]) /\ ~IsEmpty(rs[j]) /\ Folded[rs[i].repo] = Folded[rs[j].repo]) => i = j
<1>1. ASSUME NEW i \in DOMAIN rs, ~IsEmpty(rs[i])
      PROVE  FieldsWrong(rs, i) = {}
  BY <1>1 DEF CheckRows
<1>2. ASSUME NEW i \in DOMAIN rs, ~IsEmpty(rs[i])
      PROVE  /\ rs[i].repo \in Repo /\ rs[i].days \in Days
             /\ ~\E j \in 1 .. i - 1 : rs[j].repo \in Repo /\ Folded[rs[j].repo] = Folded[rs[i].repo]
  <2>1. FieldsWrong(rs, i) = {}
    BY <1>1, <1>2
  <2> QED BY <2>1, Zenon DEF FieldsWrong
<1>3. ASSUME NEW i \in DOMAIN rs, NEW j \in DOMAIN rs, i < j,
             ~IsEmpty(rs[i]), ~IsEmpty(rs[j]), Folded[rs[i].repo] = Folded[rs[j].repo]
      PROVE  FALSE
  <2>1. i \in 1 .. j - 1
    BY <1>3
  <2> QED BY <1>2, <1>3, <2>1
<1>4. DOMAIN rs \subseteq Int
  OBVIOUS
<1> QED BY <1>2, <1>3, <1>4

\* A set of positions that is not empty has a last one.
LEMMA LastOfIs ==
  ASSUME NEW n \in Nat, NEW S \in SUBSET (1 .. n), S # {}
  PROVE  LastOf(S) \in S /\ \A j \in S : j <= LastOf(S)
<1> DEFINE mirrored == {n + 1 - i : i \in S}
           s == [i \in 1 .. n |-> i]
<1>1. s \in Seq(Nat) /\ Len(s) = n
  OBVIOUS
<1>2. mirrored \in SUBSET (1 .. n) /\ mirrored # {}
  <2>1. \A i \in S : i \in Int /\ 1 <= i /\ i <= n
    OBVIOUS
  <2>2. \A i \in S : n + 1 - i \in 1 .. n
    BY <2>1
  <2> QED BY <2>2
<1> HIDE DEF s
<1>3. PICK m \in mirrored : \A j \in mirrored : m <= j
  <2> HIDE DEF mirrored
  <2> QED BY <1>1, <1>2, SelectedFirst
<1>4. PICK k \in S : m = n + 1 - k
  BY <1>3
<1>5. ASSUME NEW j \in S
      PROVE  j <= k
  <2>1. m <= n + 1 - j
    BY <1>3
  <2> QED BY <1>4, <2>1
<1>6. \E i \in S : \A j \in S : j <= i
  BY <1>4, <1>5
<1> QED BY <1>6 DEF LastOf

\* What a name stands for is listed under it.
LEMMA ByNameIs ==
  ASSUME NEW T, NEW ls \in Seq(T)
  PROVE  /\ ByName(ls) = [name \in DOMAIN ByName(ls) |-> ByName(ls)[name]]
         /\ DOMAIN ByName(ls) = {ls[i][1] : i \in DOMAIN ls} \ {""}
         /\ \A name \in DOMAIN ByName(ls) :
              \E k \in DOMAIN ls : ls[k][1] = name /\ ByName(ls)[name] = ls[k][2]
<1> DEFINE names == {ls[i][1] : i \in DOMAIN ls} \ {""}
<1>1. ByName(ls) = [name \in names |-> ls[LastOf(Named(ls, name))][2]]
  BY DEF ByName
<1>2. DOMAIN ls = 1 .. Len(ls) /\ Len(ls) \in Nat
  OBVIOUS
<1>3. ASSUME NEW name \in names
      PROVE  \E k \in DOMAIN ls : ls[k][1] = name /\ ByName(ls)[name] = ls[k][2]
  <2> DEFINE S == Named(ls, name)
  <2>1. S \in SUBSET (1 .. Len(ls)) /\ S # {}
    BY <1>2 DEF Named
  <2>2. LastOf(S) \in S
    <3> HIDE DEF S
    <3> QED BY <1>2, <2>1, LastOfIs
  <2>3. LastOf(S) \in DOMAIN ls /\ ls[LastOf(S)][1] = name
    BY <2>2 DEF Named
  <2>4. ByName(ls)[name] = ls[LastOf(S)][2]
    BY <1>1
  <2> HIDE DEF S
  <2> QED BY <2>3, <2>4
<1> QED BY <1>1, <1>3

LEMMA DomainsFinite ==
  ASSUME NEW T, NEW s \in Seq(T), NEW kept \in SUBSET (DOMAIN s)
  PROVE  IsFiniteSet(kept)
<1>1. DOMAIN s = 1 .. Len(s) /\ Len(s) \in Nat
  OBVIOUS
<1>2. IsFiniteSet(1 .. Len(s))
  BY <1>1, FS_Interval
<1> QED BY <1>1, <1>2, FS_Subset

\* Entries that parse are periods by name.
LEMMA ByNameSound ==
  ASSUME NEW T, NEW ls \in Seq(T), \A i \in DOMAIN ls : Parses(ls[i])
  PROVE  Sound(ByName(ls))
<1> DEFINE days == ByName(ls)
           all == {ls[i][1] : i \in DOMAIN ls}
<1>1. /\ days = [name \in DOMAIN days |-> days[name]]
      /\ DOMAIN days = all \ {""}
      /\ \A name \in DOMAIN days : \E k \in DOMAIN ls : ls[k][1] = name /\ days[name] = ls[k][2]
  BY ByNameIs
<1>2. IsFiniteSet(DOMAIN ls)
  BY DomainsFinite
<1>3. IsFiniteSet(all)
  <2> DEFINE f == [i \in DOMAIN ls |-> ls[i][1]]
  <2>1. f \in Surjection(DOMAIN ls, all)
    BY DEF Surjection
  <2> QED BY <1>2, <2>1, FS_Surjection
<1> HIDE DEF days
<1>4. IsFiniteSet(DOMAIN days)
  BY <1>1, <1>3, FS_Subset
<1>5. ASSUME NEW name \in DOMAIN days
      PROVE  name \in Repo /\ days[name] \in Days
  <2>1. PICK k \in DOMAIN ls : ls[k][1] = name /\ days[name] = ls[k][2]
    BY <1>1
  <2>2. name # ""
    BY <1>1
  <2>3. Blank[1] = ""
    BY DEF Blank
  <2>4. ls[k] # Blank
    BY <2>1, <2>2, <2>3
  <2> QED BY <2>1, <2>4 DEF Parses
<1>6. days \in [DOMAIN days -> Days] /\ DOMAIN days \in SUBSET Repo
  BY <1>1, <1>5
<1> QED BY <1>4, <1>6 DEF Sound, Periods, days

LEMMA ListedRows ==
  ASSUME NEW rs \in Seq(Row)
  PROVE  LET ls == [i \in DOMAIN rs |-> Listed(rs[i])] IN
         /\ ls \in Seq(Line) /\ DOMAIN ls = DOMAIN rs
         /\ \A i \in DOMAIN rs : ls[i] = Listed(rs[i]) /\ ls[i][1] = rs[i].repo /\ ls[i][2] = rs[i].days
<1>1. \A i \in DOMAIN rs : Listed(rs[i]) \in Line
  <2>1. \A i \in DOMAIN rs : rs[i] \in Row
    BY ElementOf
  <2> QED BY <2>1 DEF Row, Line, Listed
<1>2. DOMAIN rs = 1 .. Len(rs) /\ Len(rs) \in Nat
  OBVIOUS
<1> QED BY <1>1, <1>2, SameListed

LEMMA EmptyListed ==
  ASSUME NEW row, IsEmpty(row)
  PROVE  Listed(row) = Blank
  BY DEF IsEmpty, Listed, Blank

\* What rows without a problem ask for.
LEMMA RowDaysSound ==
  ASSUME NEW rs \in Seq(Row), CheckRows(rs) = {}
  PROVE  Sound(RowDays(rs))
<1> DEFINE ls == [i \in DOMAIN rs |-> Listed(rs[i])]
<1>1. /\ ls \in Seq(Line) /\ DOMAIN ls = DOMAIN rs
      /\ \A i \in DOMAIN rs : ls[i] = Listed(rs[i]) /\ ls[i][1] = rs[i].repo /\ ls[i][2] = rs[i].days
  BY ListedRows
<1>2. RowDays(rs) = ByName(ls)
  BY DEF RowDays
<1> HIDE DEF ls
<1>3. \A i \in DOMAIN ls : Parses(ls[i])
  BY <1>1, RowsChecked, EmptyListed DEF Parses
<1> QED BY <1>1, <1>2, <1>3, ByNameSound

\* The first bad line, and that there is none.
LEMMA InvalidLineIs ==
  ASSUME NEW T, NEW ls \in Seq(T)
  PROVE  /\ InvalidLine(ls) \in Nat
         /\ InvalidLine(ls) = 0 => \A i \in DOMAIN ls : Parses(ls[i])
<1> DEFINE bad == {i \in DOMAIN ls : ~Parses(ls[i])}
<1>1. DOMAIN ls = 1 .. Len(ls) /\ Len(ls) \in Nat
  OBVIOUS
<1>2. InvalidLine(ls) = IF bad = {} THEN 0 ELSE CHOOSE i \in bad : \A j \in bad : i <= j
  BY DEF InvalidLine
<1>3. bad \in SUBSET (1 .. Len(ls))
  BY <1>1
<1>4. bad = {} => \A i \in DOMAIN ls : Parses(ls[i])
  OBVIOUS
<1> HIDE DEF bad
<1>5. CASE bad # {}
  <2>1. \E i \in bad : \A j \in bad : i <= j
    BY <1>3, <1>5, SelectedFirst
  <2>2. InvalidLine(ls) \in bad
    BY <1>2, <1>5, <2>1
  <2>3. InvalidLine(ls) \in 1 .. Len(ls)
    BY <1>3, <2>2
  <2> QED BY <1>1, <2>3
<1>6. CASE bad = {}
  BY <1>2, <1>4, <1>6
<1> QED BY <1>5, <1>6

\* What text that parses asks for.
LEMMA ParseSound ==
  ASSUME NEW ls \in Seq(Line), InvalidLine(ls) = 0
  PROVE  Sound(ParseOverrides(ls))
<1>1. \A i \in DOMAIN ls : Parses(ls[i])
  BY InvalidLineIs
<1> QED BY <1>1, ByNameSound DEF ParseOverrides

-----------------------------------------------------------------------------
(* The two views.                                                          *)
LEMMA TextOfRows ==
  ASSUME NEW rs \in Seq(Row)
  PROVE  LET t == RowsToText(rs)
             kept == {i \in DOMAIN rs : ~IsEmpty(rs[i])} IN
         /\ t \in Seq(Line)
         /\ \E at \in [1 .. Len(t) -> kept] :
              /\ \A m, n \in 1 .. Len(t) : m < n <=> at[m] < at[n]
              /\ \A i \in kept : \E n \in 1 .. Len(t) : at[n] = i
              /\ \A n \in 1 .. Len(t) : t[n] = Listed(rs[at[n]])
<1> DEFINE kept == {i \in DOMAIN rs : ~IsEmpty(rs[i])}
           s == Selected(rs, kept)
           t == RowsToText(rs)
<1>1. kept \in SUBSET (1 .. Len(rs))
  OBVIOUS
<1> HIDE DEF kept
<1>2. s \in Seq(Row)
  BY <1>1, SelectedKeeps
<1>3. PICK at \in [1 .. Len(s) -> kept] :
        /\ \A m, n \in 1 .. Len(s) : m < n <=> at[m] < at[n]
        /\ \A i \in kept : \E n \in 1 .. Len(s) : at[n] = i
        /\ \A n \in 1 .. Len(s) : s[n] = rs[at[n]]
  BY <1>1, SelectedKeeps
<1>4. t = [i \in DOMAIN s |-> Listed(s[i])]
  BY DEF RowsToText, kept
<1> HIDE DEF s, t
<1>5. \A n \in 1 .. Len(s) : Listed(s[n]) \in Line
  <2>1. \A n \in 1 .. Len(s) : s[n] \in Row
    BY <1>2, ElementOfSeq
  <2> QED BY <2>1 DEF Row, Line, Listed
<1>6. DOMAIN s = 1 .. Len(s) /\ Len(s) \in Nat
  BY <1>2
<1>7. t \in Seq(Line) /\ Len(t) = Len(s)
  BY <1>4, <1>5, <1>6
<1>8. \A n \in 1 .. Len(t) : t[n] = Listed(rs[at[n]])
  BY <1>3, <1>4, <1>6, <1>7
<1>9. /\ at \in [1 .. Len(t) -> kept]
      /\ \A m, n \in 1 .. Len(t) : m < n <=> at[m] < at[n]
      /\ \A i \in kept : \E n \in 1 .. Len(t) : at[n] = i
  BY <1>3, <1>7
<1> QED BY <1>7, <1>8, <1>9 DEF kept, t

\* Nothing that is typed into a row is dropped on the way to the text.
LEMMA TextKeepsRows ==
  ASSUME NEW rs \in Seq(Row), NEW i \in DOMAIN rs, ~IsEmpty(rs[i])
  PROVE  \E j \in DOMAIN RowsToText(rs) : RowsToText(rs)[j] = Listed(rs[i])
<1> DEFINE t == RowsToText(rs)
<1>1. t \in Seq(Line)
  BY TextOfRows
<1>2. PICK at \in [1 .. Len(t) -> {k \in DOMAIN rs : ~IsEmpty(rs[k])}] :
        /\ \A k \in {k \in DOMAIN rs : ~IsEmpty(rs[k])} : \E n \in 1 .. Len(t) : at[n] = k
        /\ \A n \in 1 .. Len(t) : t[n] = Listed(rs[at[n]])
  BY TextOfRows
<1> HIDE DEF t
<1>3. DOMAIN t = 1 .. Len(t)
  BY <1>1
<1>4. \E j \in DOMAIN t : t[j] = Listed(rs[i])
  BY <1>2, <1>3
<1> QED BY <1>4 DEF t

\* The text of rows without a problem holds an entry for each of them, and each name once, in whatever case.
LEMMA TextOfCheckedRows ==
  ASSUME NEW rs \in Seq(Row), CheckRows(rs) = {}
  PROVE  LET t == RowsToText(rs) IN
         /\ \A n \in DOMAIN t : \E i \in DOMAIN rs : ~IsEmpty(rs[i]) /\ t[n] = Listed(rs[i])
         /\ \A m, n \in DOMAIN t : Folded[t[m][1]] = Folded[t[n][1]] => m = n
<1> DEFINE t == RowsToText(rs)
           kept == {i \in DOMAIN rs : ~IsEmpty(rs[i])}
<1>1. t \in Seq(Line)
  BY TextOfRows
<1>2. PICK at \in [1 .. Len(t) -> kept] :
        /\ \A m, n \in 1 .. Len(t) : m < n <=> at[m] < at[n]
        /\ \A n \in 1 .. Len(t) : t[n] = Listed(rs[at[n]])
  BY TextOfRows
<1> HIDE DEF t
<1>3. DOMAIN t = 1 .. Len(t) /\ Len(t) \in Nat
  BY <1>1
<1>4. \A i, j \in kept : Folded[rs[i].repo] = Folded[rs[j].repo] => i = j
  BY RowsChecked
<1>5. \A i \in kept : i \in Int
  OBVIOUS
<1>6. \A n \in DOMAIN t : \E i \in DOMAIN rs : ~IsEmpty(rs[i]) /\ t[n] = Listed(rs[i])
  BY <1>2, <1>3
<1> HIDE DEF kept
<1>7. ASSUME NEW m \in 1 .. Len(t), NEW n \in 1 .. Len(t), Folded[t[m][1]] = Folded[t[n][1]]
      PROVE  m = n
  <2>1. at[m] \in kept /\ at[n] \in kept /\ t[m][1] = rs[at[m]].repo /\ t[n][1] = rs[at[n]].repo
    BY <1>2, SameListed
  <2>2. at[m] = at[n]
    BY <1>4, <1>7, <2>1
  <2>3. ~(m < n) /\ ~(n < m)
    BY <1>2, <1>5, <2>1, <2>2
  <2> QED BY <1>3, <2>3
<1> QED BY <1>3, <1>6, <1>7 DEF t

\* Rows without a problem ask for the same as their text.
LEMMA TextAsksSame ==
  ASSUME NEW rs \in Seq(Row), CheckRows(rs) = {}
  PROVE  ParseOverrides(RowsToText(rs)) = RowDays(rs)
<1> DEFINE t == RowsToText(rs)
           ls == [i \in DOMAIN rs |-> Listed(rs[i])]
<1>1. t \in Seq(Line)
  BY TextOfRows
<1>2. /\ ls \in Seq(Line) /\ DOMAIN ls = DOMAIN rs
      /\ \A i \in DOMAIN rs : ls[i] = Listed(rs[i]) /\ ls[i][1] = rs[i].repo /\ ls[i][2] = rs[i].days
  BY ListedRows
<1>3. RowDays(rs) = ByName(ls) /\ ParseOverrides(t) = ByName(t)
  BY DEF RowDays, ParseOverrides
<1>4. \A n \in DOMAIN t : \E i \in DOMAIN ls : t[n] = ls[i]
  BY <1>2, TextOfCheckedRows
<1>5. \A i \in DOMAIN ls : ls[i] = Blank \/ \E n \in DOMAIN t : t[n] = ls[i]
  <2>1. ASSUME NEW i \in DOMAIN rs, ~IsEmpty(rs[i])
        PROVE  \E n \in DOMAIN t : t[n] = Listed(rs[i])
    BY <2>1, TextKeepsRows
  <2> HIDE DEF t, ls
  <2> QED BY <1>2, <2>1, EmptyListed
<1>6. \A i, j \in DOMAIN ls : (ls[i][1] = ls[j][1] /\ ls[i][1] # "") => i = j
  <2>1. ASSUME NEW i \in DOMAIN rs, NEW j \in DOMAIN rs, rs[i].repo = rs[j].repo, rs[i].repo # ""
        PROVE  i = j
    <3>1. ~IsEmpty(rs[i]) /\ ~IsEmpty(rs[j])
      BY <2>1 DEF IsEmpty
    <3> QED BY <2>1, <3>1, RowsChecked
  <2> HIDE DEF t, ls
  <2>2. ASSUME NEW i \in DOMAIN ls, NEW j \in DOMAIN ls, ls[i][1] = ls[j][1], ls[i][1] # ""
        PROVE  i = j
    <3>1. i \in DOMAIN rs /\ j \in DOMAIN rs
      BY <1>2
    <3>2. ls[i][1] = rs[i].repo /\ ls[j][1] = rs[j].repo
      BY <1>2, <3>1
    <3> QED BY <2>1, <2>2, <3>1, <3>2
  <2> QED BY <2>2
<1> HIDE DEF t, ls
<1>7. DOMAIN ByName(t) = {t[n][1] : n \in DOMAIN t} \ {""} /\ DOMAIN ByName(ls) = {ls[i][1] : i \in DOMAIN ls} \ {""}
  BY <1>1, <1>2, ByNameIs
<1>8. DOMAIN ByName(t) = DOMAIN ByName(ls)
  <2>1. Blank[1] = ""
    BY DEF Blank
  <2>2. \A n \in DOMAIN t : \E i \in DOMAIN ls : t[n][1] = ls[i][1]
    BY <1>4
  <2>3. \A i \in DOMAIN ls : ls[i][1] = "" \/ \E n \in DOMAIN t : t[n][1] = ls[i][1]
    BY <1>5, <2>1
  <2>4. ASSUME NEW x, x # ""
        PROVE  (\E n \in DOMAIN t : x = t[n][1]) <=> (\E i \in DOMAIN ls : x = ls[i][1])
    <3>1. ASSUME NEW n \in DOMAIN t, x = t[n][1]
          PROVE  \E i \in DOMAIN ls : x = ls[i][1]
      BY <2>2, <3>1
    <3>2. ASSUME NEW i \in DOMAIN ls, x = ls[i][1]
          PROVE  \E n \in DOMAIN t : x = t[n][1]
      BY <2>3, <2>4, <3>2
    <3> QED BY <3>1, <3>2
  <2>5. \A x : x \in DOMAIN ByName(t) <=> x \in DOMAIN ByName(ls)
    BY <1>7, <2>4
  <2> QED BY <2>5
<1>9. ASSUME NEW name \in DOMAIN ByName(t)
      PROVE  ByName(t)[name] = ByName(ls)[name]
  <2>1. PICK n \in DOMAIN t : t[n][1] = name /\ ByName(t)[name] = t[n][2]
    BY <1>1, ByNameIs
  <2>0. name \in DOMAIN ByName(ls) /\ ls \in Seq(Line)
    BY <1>2, <1>8
  <2>2. PICK k \in DOMAIN ls : ls[k][1] = name /\ ByName(ls)[name] = ls[k][2]
    BY <2>0, ByNameIs
  <2>3. PICK i \in DOMAIN ls : t[n] = ls[i]
    BY <1>4
  <2>4. name # ""
    BY <1>7
  <2>5. i = k
    BY <1>6, <2>1, <2>2, <2>3, <2>4
  <2> QED BY <2>1, <2>2, <2>3, <2>5
<1>10. ByName(t) = ByName(ls)
  <2>1. /\ ByName(t) = [name \in DOMAIN ByName(t) |-> ByName(t)[name]]
        /\ ByName(ls) = [name \in DOMAIN ByName(ls) |-> ByName(ls)[name]]
    BY <1>1, <1>2, ByNameIs
  <2> QED BY <1>8, <1>9, <2>1
<1> QED BY <1>3, <1>10 DEF t

\* A set in some order.
LEMMA InSomeOrder ==
  ASSUME NEW S, IsFiniteSet(S)
  PROVE  LET s == SetToSeq(S) IN
         /\ Cardinality(S) \in Nat /\ s \in [1 .. Cardinality(S) -> S]
         /\ \A x \in S : \E i \in 1 .. Cardinality(S) : s[i] = x
<1> DEFINE c == Cardinality(S)
<1>1. c \in Nat
  BY FS_CardinalityType
<1>2. PICK b : b \in Bijection(1 .. c, S)
  BY FS_CardinalityType DEF ExistsBijection
<1>3. b \in [1 .. c -> S] /\ IsInjective(b)
  BY <1>2 DEF Bijection, Injection, IsInjective
<1>4. SetToSeq(S) \in [1 .. c -> S] /\ IsInjective(SetToSeq(S))
  BY <1>3 DEF SetToSeq
<1>5. SetToSeq(S) \in Injection(1 .. c, S)
  BY <1>4 DEF Injection
<1>6. IsFiniteSet(1 .. c) /\ Cardinality(1 .. c) = c
  BY <1>1, FS_Interval
<1>7. SetToSeq(S) \in Surjection(1 .. c, S)
  BY <1>5, <1>6, FS_Injection
<1> QED BY <1>1, <1>4, <1>7 DEF Surjection

\* The rows that the text turns into.
LEMMA RowsOfDays ==
  ASSUME NEW days, Sound(days), lastKey \in Nat, MaxKey \in Nat, KeysFor(days)
  PROVE  /\ RowsFromDays(days) \in Seq(Row) /\ lastKey' \in 0 .. MaxKey
         /\ RowDays(RowsFromDays(days)) = days
<1> DEFINE c == Cardinality(DOMAIN days)
           names == SetToSeq(DOMAIN days)
           rs == RowsFromDays(days)
           ls == [i \in DOMAIN rs |-> Listed(rs[i])]
<1>0. DOMAIN days \subseteq Repo /\ days = [name \in DOMAIN days |-> days[name]]
      /\ \A name \in DOMAIN days : days[name] \in Days
  BY DEF Sound, Periods
<1>1. c \in Nat /\ names \in [1 .. c -> DOMAIN days] /\ \A x \in DOMAIN days : \E i \in 1 .. c : names[i] = x
  BY InSomeOrder DEF Sound
<1>2. rs = [i \in 1 .. c |-> [key |-> lastKey + i, repo |-> names[i], days |-> days[names[i]]]]
  BY <1>1 DEF RowsFromDays
<1>3. lastKey + c <= MaxKey /\ lastKey' = lastKey + c
  BY DEF KeysFor
<1> HIDE DEF c, names, rs, ls
<1>4. ASSUME NEW i \in 1 .. c
      PROVE  rs[i] \in Row /\ rs[i].repo = names[i] /\ rs[i].days = days[names[i]] /\ names[i] \in DOMAIN days
  <2>1. names[i] \in DOMAIN days
    BY <1>1
  <2>2. names[i] \in TypedRepo /\ days[names[i]] \in TypedDays
    BY <1>0, <2>1 DEF TypedRepo, TypedDays
  <2>3. lastKey + i \in 1 .. MaxKey
    BY <1>1, <1>3
  <2> QED BY <1>2, <2>1, <2>2, <2>3 DEF Row
<1>5. rs \in Seq(Row) /\ DOMAIN rs = 1 .. c
  BY <1>1, <1>2, <1>4
<1>6. /\ ls \in Seq(Line) /\ DOMAIN ls = 1 .. c
      /\ \A i \in 1 .. c : ls[i][1] = names[i] /\ ls[i][2] = days[names[i]]
  BY <1>4, <1>5, ListedRows DEF ls
<1>7. RowDays(rs) = ByName(ls)
  BY DEF RowDays, ls
<1>8. DOMAIN ByName(ls) = DOMAIN days
  <2>1. DOMAIN ByName(ls) = {ls[i][1] : i \in DOMAIN ls} \ {""}
    BY <1>6, ByNameIs
  <2>2. "" \notin DOMAIN days
    BY <1>0, FormAssumption
  <2>3. \A i \in DOMAIN ls : ls[i][1] \in DOMAIN days
    BY <1>1, <1>6
  <2>4. \A name \in DOMAIN days : \E i \in DOMAIN ls : ls[i][1] = name
    <3>1. ASSUME NEW name \in DOMAIN days
          PROVE  \E i \in DOMAIN ls : ls[i][1] = name
      <4>1. PICK i \in 1 .. c : names[i] = name
        BY <1>1
      <4> QED BY <1>6, <4>1
    <3> QED BY <3>1
  <2> QED BY <2>1, <2>2, <2>3, <2>4
<1>9. ASSUME NEW name \in DOMAIN days
      PROVE  ByName(ls)[name] = days[name]
  <2>1. name \in DOMAIN ByName(ls) /\ ls \in Seq(Line)
    BY <1>6, <1>8
  <2>2. PICK k \in DOMAIN ls : ls[k][1] = name /\ ByName(ls)[name] = ls[k][2]
    BY <2>1, ByNameIs
  <2> QED BY <1>6, <2>2
<1>10. ByName(ls) = days
  <2>1. ByName(ls) = [name \in DOMAIN ByName(ls) |-> ByName(ls)[name]]
    BY <1>6, ByNameIs
  <2> QED BY <1>0, <1>8, <1>9, <2>1
<1>11. lastKey' \in 0 .. MaxKey
  BY <1>1, <1>3
<1> QED BY <1>5, <1>7, <1>10, <1>11 DEF rs

-----------------------------------------------------------------------------
(* What the form holds, and what is stored because of it.                  *)
Store ==
  /\ SoundSettings(stored)
  /\ settings = Nothing \/ SoundSettings(settings)
  /\ posted = Nothing \/ SoundSettings(posted)
  /\ members \subseteq Team /\ fetched \subseteq Team
  /\ reading \in {"none", "sent"} /\ readFailed \in BOOLEAN

Outcomes == {"idle", "pending", "success", "error"}
Switches ==
  /\ mounted \in BOOLEAN /\ dirty \in BOOLEAN /\ edits \in 0 .. MaxEdits /\ save \in Outcomes
ZoneAndTeams ==
  /\ zone \in Zone \cup {"", "bad"} /\ zoneInvalid \in BOOLEAN
  /\ selected \subseteq Team /\ saved \subseteq Team

Problem == (1 .. MaxKey) \X {"repo", "days"}
Editor ==
  /\ mode \in {"rows", "text"} /\ rows \in Seq(Row) /\ text \in Seq(Line)
  /\ rowProblems \subseteq Problem /\ line \in Nat /\ lastKey \in 0 .. MaxKey

FormTyped == Store /\ Switches /\ ZoneAndTeams /\ Editor

LEMMA FormBounds == MaxRows \in Nat /\ MaxKey \in Nat /\ MaxEdits \in Nat
  BY FormAssumption

LEMMA InitTyped == FormInit => FormTyped
<1> SUFFICES ASSUME FormInit
             PROVE  FormTyped
  OBVIOUS
<1>1. SoundSettings(stored)
  <2>1. PICK z \in Zone, t \in SUBSET Team, d \in FirstDays : stored = Settings(z, t, d)
    BY DEF FormInit
  <2>2. Sound(d)
    BY FormAssumption DEF Sound
  <2> QED BY <2>1, <2>2, SettingsSound
<1>2. Store
  BY <1>1 DEF FormInit, Store
<1>3. Switches
  <2>1. /\ mounted = FALSE /\ dirty = FALSE /\ edits = 0
        /\ save = "idle"
    BY DEF FormInit
  <2>2. edits \in 0 .. MaxEdits
    BY <2>1, FormBounds
  <2>3. save \in Outcomes
    BY <2>1, Zenon DEF Outcomes
  <2> QED BY <2>1, <2>2, <2>3 DEF Switches
<1>4. zone = "" /\ zoneInvalid = FALSE /\ selected = {} /\ saved = {}
  BY DEF FormInit
<1>5. ZoneAndTeams
  BY <1>4 DEF ZoneAndTeams
<1>6. mode = "rows" /\ rows = <<>> /\ text = <<>> /\ rowProblems = {} /\ line = 0 /\ lastKey = 0
  BY DEF FormInit
<1>7. Editor
  BY <1>6, FormBounds DEF Editor
<1> QED BY <1>2, <1>3, <1>5, <1>7 DEF FormTyped

LEMMA StoreStays ==
  ASSUME Store, UNCHANGED <<server, queries, posted>>
  PROVE  Store'
  BY DEF Store, server, queries

LEMMA EditedKeeps ==
  ASSUME FormTyped, Edited, edits' = edits \/ Typed
  PROVE  Store' /\ Switches' /\ UNCHANGED saved
<1>1. Store'
  BY StoreStays DEF Edited, FormTyped
<1>2. save' \in Outcomes /\ mounted' \in BOOLEAN /\ dirty' \in BOOLEAN
  BY DEF Edited, FormTyped, Switches, Outcomes
<1>3. edits' \in 0 .. MaxEdits
  BY FormBounds DEF Typed, FormTyped, Switches
<1> QED BY <1>1, <1>2, <1>3 DEF Edited, Switches

LEMMA EditorStays ==
  ASSUME Editor, UNCHANGED editor
  PROVE  Editor'
  BY DEF Editor, editor

LEMMA TypedZone ==
  ASSUME FormTyped, ChangeZone \/ \E t \in Team : CheckTeam(t)
  PROVE  FormTyped'
<1>1. Typed /\ UNCHANGED editor
  BY DEF ChangeZone, CheckTeam
<1>2. Store' /\ Switches' /\ UNCHANGED saved
  BY <1>1, EditedKeeps DEF Typed
<1>3. CASE ChangeZone
  <2>1. zone' \in Zone \cup {"", "bad"} /\ zoneInvalid' \in BOOLEAN /\ UNCHANGED selected
    BY <1>3 DEF ChangeZone
  <2> QED BY <1>1, <1>2, <2>1, EditorStays DEF FormTyped, ZoneAndTeams
<1>4. CASE \E t \in Team : CheckTeam(t)
  <2>1. selected' \subseteq Team /\ UNCHANGED <<zone, zoneInvalid>>
    BY <1>4 DEF CheckTeam, FormTyped, ZoneAndTeams
  <2> QED BY <1>1, <1>2, <2>1, EditorStays DEF FormTyped, ZoneAndTeams
<1> QED BY <1>3, <1>4

LEMMA KeyIsNatural ==
  ASSUME FormTyped
  PROVE  lastKey \in Nat /\ MaxKey \in Nat
  BY FormBounds DEF FormTyped, Editor

LEMMA RowChanges ==
  ASSUME NEW rs \in Seq(Row), NEW i \in DOMAIN rs
  PROVE  /\ \A r \in TypedRepo : [rs EXCEPT ![i].repo = r] \in Seq(Row)
         /\ \A d \in TypedDays : [rs EXCEPT ![i].days = d] \in Seq(Row)
         /\ RemoveAt(rs, i) \in Seq(Row)
<1>1. rs[i] \in Row
  OBVIOUS
<1>2. ASSUME NEW row \in Row
      PROVE  [rs EXCEPT ![i] = row] \in Seq(Row)
  OBVIOUS
<1>3. ASSUME NEW r \in TypedRepo
      PROVE  [rs EXCEPT ![i].repo = r] \in Seq(Row)
  <2>1. [rs[i] EXCEPT !.repo = r] \in Row
    BY <1>1 DEF Row
  <2> QED BY <1>2, <2>1
<1>4. ASSUME NEW d \in TypedDays
      PROVE  [rs EXCEPT ![i].days = d] \in Seq(Row)
  <2>1. [rs[i] EXCEPT !.days = d] \in Row
    BY <1>1 DEF Row
  <2> QED BY <1>2, <2>1
<1>5. RemoveAt(rs, i) \in Seq(Row)
  <2>1. SubSeq(rs, 1, i - 1) \in Seq(Row) /\ SubSeq(rs, i + 1, Len(rs)) \in Seq(Row)
    OBVIOUS
  <2> QED BY <2>1 DEF RemoveAt
<1> QED BY <1>3, <1>4, <1>5

LEMMA TypedRow ==
  ASSUME FormTyped, AddRow \/ \E i \in 1 .. MaxRows : UpdateRow(i) \/ RemoveRow(i)
  PROVE  FormTyped'
<1>1. Typed /\ UNCHANGED <<zone, zoneInvalid, selected, mode, text, line>>
  BY DEF AddRow, UpdateRow, RemoveRow
<1>2. Store' /\ Switches' /\ ZoneAndTeams'
  BY <1>1, EditedKeeps DEF Typed, FormTyped, ZoneAndTeams
<1>3. rows' \in Seq(Row) /\ lastKey' \in 0 .. MaxKey /\ rowProblems' \subseteq rowProblems
  <2>1. CASE AddRow
    <3>1. PICK d \in Days : rows' = Append(rows, [key |-> lastKey + 1, repo |-> "", days |-> d])
      BY <2>1 DEF AddRow
    <3>0. lastKey < MaxKey /\ lastKey' = lastKey + 1 /\ UNCHANGED rowProblems
      BY <2>1 DEF AddRow
    <3>2. lastKey + 1 \in 1 .. MaxKey
      BY <3>0, KeyIsNatural
    <3>3. [key |-> lastKey + 1, repo |-> "", days |-> d] \in Row
      <4>1. "" \in TypedRepo /\ d \in TypedDays
        BY DEF TypedRepo, TypedDays
      <4> QED BY <3>2, <4>1 DEF Row
    <3>4. lastKey' \in 0 .. MaxKey
      BY <3>0, KeyIsNatural
    <3>5. rows \in Seq(Row)
      BY DEF FormTyped, Editor
    <3>6. rows' \in Seq(Row)
      <4> DEFINE row == [key |-> lastKey + 1, repo |-> "", days |-> d]
      <4>1. row \in Row /\ rows' = Append(rows, row)
        BY <3>1, <3>3
      <4> HIDE DEF row
      <4> QED BY <4>1, <3>5
    <3> QED BY <3>0, <3>4, <3>6
  <2>2. ASSUME NEW i \in 1 .. MaxRows, UpdateRow(i)
        PROVE  rows' \in Seq(Row) /\ UNCHANGED lastKey /\ rowProblems' \subseteq rowProblems
    <3>1. rows \in Seq(Row) /\ i \in DOMAIN rows /\ UNCHANGED lastKey
      BY <2>2 DEF UpdateRow, FormTyped, Editor
    <3>2. rowProblems' \subseteq rowProblems
      BY <2>2 DEF UpdateRow
    <3>3. CASE \E r \in TypedRepo : rows' = [rows EXCEPT ![i].repo = r]
      <4>1. \A r \in TypedRepo : [rows EXCEPT ![i].repo = r] \in Seq(Row)
        BY <3>1, RowChanges
      <4> QED BY <3>1, <3>2, <3>3, <4>1
    <3>4. CASE \E d \in TypedDays : rows' = [rows EXCEPT ![i].days = d]
      <4>1. \A d \in TypedDays : [rows EXCEPT ![i].days = d] \in Seq(Row)
        BY <3>1, RowChanges
      <4> QED BY <3>1, <3>2, <3>4, <4>1
    <3>5. \/ \E r \in TypedRepo : rows' = [rows EXCEPT ![i].repo = r]
          \/ \E d \in TypedDays : rows' = [rows EXCEPT ![i].days = d]
      BY <2>2 DEF UpdateRow
    <3> QED BY <3>1, <3>2, <3>3, <3>4, <3>5
  <2>3. ASSUME NEW i \in 1 .. MaxRows, RemoveRow(i)
        PROVE  rows' \in Seq(Row) /\ UNCHANGED lastKey /\ rowProblems' \subseteq rowProblems
    BY <2>3, RowChanges DEF RemoveRow, FormTyped, Editor
  <2> QED BY <2>1, <2>2, <2>3 DEF FormTyped, Editor
<1>4. Editor'
  BY <1>1, <1>3 DEF FormTyped, Editor
<1> QED BY <1>2, <1>4 DEF FormTyped

LEMMA TypedText ==
  ASSUME FormTyped, EditText
  PROVE  FormTyped'
<1>1. Typed /\ UNCHANGED <<zone, zoneInvalid, selected, mode, rows, rowProblems, lastKey>> /\ line' = 0
  BY DEF EditText
<1>2. Store' /\ Switches' /\ ZoneAndTeams'
  BY <1>1, EditedKeeps DEF Typed, FormTyped, ZoneAndTeams
<1>3. PICK i \in 1 .. Len(text) + 1, l \in (Repo \X Days) \cup {Blank, <<"bad", "bad">>} :
        text' = IF i <= Len(text) THEN [text EXCEPT ![i] = l] ELSE Append(text, l)
  BY DEF EditText
<1>4. l \in Line
  <2>1. Blank \in Line /\ <<"bad", "bad">> \in Line
    BY DEF Blank, Line, TypedRepo, TypedDays
  <2>2. Repo \X Days \subseteq Line
    <3>1. Repo \subseteq TypedRepo /\ Days \subseteq TypedDays
      BY DEF TypedRepo, TypedDays
    <3> QED BY <3>1 DEF Line
  <2> QED BY <2>1, <2>2
<1>5. text' \in Seq(Line)
  BY <1>3, <1>4 DEF FormTyped, Editor
<1>6. Editor'
  BY <1>1, <1>5 DEF FormTyped, Editor
<1> QED BY <1>2, <1>6 DEF FormTyped

LEMMA ViewStep ==
  ASSUME FormTyped, ToText \/ ToRows
  PROVE  FormTyped'
<1>1. Edited /\ UNCHANGED <<zone, zoneInvalid, selected, edits>> /\ rowProblems' = {} /\ line' = 0
  BY DEF ToText, ToRows
<1>2. Store' /\ Switches' /\ ZoneAndTeams'
  BY <1>1, EditedKeeps DEF FormTyped, ZoneAndTeams
<1>3. mode' \in {"rows", "text"} /\ rows' \in Seq(Row) /\ text' \in Seq(Line) /\ lastKey' \in 0 .. MaxKey
  <2>1. CASE ToText
    <3>1. mode' = "text" /\ rows' = <<>> /\ text' = RowsToText(rows) /\ UNCHANGED lastKey
      BY <2>1 DEF ToText
    <3> QED BY <3>1, TextOfRows DEF FormTyped, Editor
  <2>2. CASE ToRows
    <3>1. /\ mode' = "rows" /\ rows' = RowsFromDays(ParseOverrides(text)) /\ text' = <<>>
          /\ InvalidLine(text) = 0 /\ KeysFor(ParseOverrides(text))
      BY <2>2 DEF ToRows
    <3>2. Sound(ParseOverrides(text))
      BY <3>1, ParseSound DEF FormTyped, Editor
    <3>3. rows' \in Seq(Row) /\ lastKey' \in 0 .. MaxKey
      BY <3>1, <3>2, KeyIsNatural, RowsOfDays
    <3> QED BY <3>1, <3>3
  <2> QED BY <2>1, <2>2
<1>4. Editor'
  BY <1>1, <1>3 DEF Editor
<1> QED BY <1>2, <1>4 DEF FormTyped

LEMMA MountStep ==
  ASSUME FormTyped, Mount
  PROVE  FormTyped'
<1>1. SoundSettings(settings)
  BY DEF Mount, FormTyped, Store
<1>2. Store'
  <2>1. UNCHANGED <<server, settings, readFailed, fetched, posted>> /\ reading' \in {"none", "sent"}
    BY DEF Mount, FormTyped, Store
  <2> QED BY <2>1 DEF FormTyped, Store, server
<1>3. Switches'
  BY DEF Mount, FormTyped, Switches, Outcomes
<1>4. zone' = settings.zone /\ zoneInvalid' = FALSE /\ selected' = settings.teams /\ saved' = settings.teams
  BY DEF Mount
<1>5. settings.zone \in Zone /\ settings.teams \subseteq Team
  BY <1>1 DEF SoundSettings, SettingsType
<1>6. ZoneAndTeams'
  BY <1>4, <1>5 DEF ZoneAndTeams
<1>7. /\ mode' = "rows" /\ rows' = RowsFromDays(settings.days) /\ text' = <<>> /\ rowProblems' = {} /\ line' = 0
      /\ KeysFor(settings.days)
  BY DEF Mount
<1>8. rows' \in Seq(Row) /\ lastKey' \in 0 .. MaxKey
  BY <1>1, <1>7, KeyIsNatural, RowsOfDays DEF SoundSettings
<1>9. Editor'
  BY <1>7, <1>8 DEF Editor
<1> QED BY <1>2, <1>3, <1>6, <1>9 DEF FormTyped

LEMMA LeaveStep ==
  ASSUME FormTyped, Leave
  PROVE  FormTyped'
<1>1. Store' /\ Switches'
  BY StoreStays DEF Leave, FormTyped, Switches, Outcomes
<1>2. zone' = "" /\ zoneInvalid' = FALSE /\ selected' = {} /\ saved' = {}
  BY DEF Leave
<1>3. ZoneAndTeams'
  BY <1>2 DEF ZoneAndTeams
<1>4. mode' = "rows" /\ rows' = <<>> /\ text' = <<>> /\ rowProblems' = {} /\ line' = 0 /\ UNCHANGED lastKey
  BY DEF Leave
<1>5. Editor'
  BY <1>4 DEF FormTyped, Editor
<1> QED BY <1>1, <1>3, <1>5 DEF FormTyped

LEMMA RefusedStep ==
  ASSUME FormTyped, ToRowsRefused
  PROVE  FormTyped'
<1>1. UNCHANGED <<server, queries, mounted, zone, zoneInvalid, selected, saved, dirty, save, posted, edits>>
  BY DEF ToRowsRefused
<1>2. Store' /\ Switches' /\ ZoneAndTeams'
  BY <1>1, StoreStays DEF FormTyped, Switches, ZoneAndTeams
<1>3. line' \in Nat
  BY InvalidLineIs DEF ToRowsRefused, FormTyped, Editor
<1>4. Editor'
  BY <1>3 DEF ToRowsRefused, FormTyped, Editor
<1> QED BY <1>2, <1>4 DEF FormTyped

LEMMA CheckedFields ==
  ASSUME NEW rs \in Seq(Row)
  PROVE  CheckRows(rs) \subseteq Problem
<1>1. ASSUME NEW i \in DOMAIN rs
      PROVE  FieldsWrong(rs, i) \subseteq Problem
  <2>0. rs[i] \in Row
    OBVIOUS
  <2>1. rs[i].key \in 1 .. MaxKey
    BY <2>0 DEF Row
  <2>2. <<rs[i].key, "repo">> \in Problem /\ <<rs[i].key, "days">> \in Problem
    BY <2>1 DEF Problem
  <2> QED BY <2>2, Zenon DEF FieldsWrong
<1> QED BY <1>1 DEF CheckRows

\* What a form without a problem posts.
LEMMA DaysPosted ==
  ASSUME FormTyped, OverridesValid
  PROVE  Sound(OverridesDays)
<1>1. CASE mode = "text"
  BY <1>1, ParseSound DEF OverridesValid, OverridesDays, FormTyped, Editor
<1>2. CASE mode # "text"
  BY <1>2, RowDaysSound DEF OverridesValid, OverridesDays, FormTyped, Editor
<1> QED BY <1>1, <1>2

LEMMA SubmitStep ==
  ASSUME FormTyped, Submit
  PROVE  FormTyped'
<1>1. UNCHANGED <<server, queries, mounted, zone, selected, saved, mode, rows, text, lastKey, dirty, edits>>
  BY DEF Submit
<1>2. /\ zoneInvalid' \in BOOLEAN /\ save' \in {save, "pending"}
      /\ rowProblems' \in {CheckRows(rows), {}} /\ line' \in {InvalidLine(text), 0}
  BY DEF Submit
<1>3. ZoneAndTeams'
  BY <1>1, <1>2 DEF FormTyped, ZoneAndTeams
<1>4. Switches'
  BY <1>1, <1>2 DEF FormTyped, Switches, Outcomes
<1>5. Editor'
  BY <1>1, <1>2, CheckedFields, InvalidLineIs DEF FormTyped, Editor
<1>6. UNCHANGED posted \/ SoundSettings(posted')
  <2>1. CASE zone \in Zone /\ OverridesValid
    <3>1. posted' = Settings(zone, selected, OverridesDays)
      BY <2>1 DEF Submit
    <3>2. selected \in SUBSET Team
      BY DEF FormTyped, ZoneAndTeams
    <3> QED BY <2>1, <3>1, <3>2, DaysPosted, SettingsSound
  <2>2. CASE ~(zone \in Zone /\ OverridesValid)
    BY <2>2 DEF Submit
  <2> QED BY <2>1, <2>2
<1>7. Store'
  BY <1>1, <1>6 DEF FormTyped, Store, server, queries
<1> QED BY <1>3, <1>4, <1>5, <1>7 DEF FormTyped

LEMMA FieldsStay ==
  ASSUME FormTyped, UNCHANGED fields
  PROVE  ZoneAndTeams' /\ Editor'
  BY EditorStays DEF FormTyped, ZoneAndTeams, fields

LEMMA AnswerStep ==
  ASSUME FormTyped, SaveAccepted \/ SaveFails
  PROVE  FormTyped'
<1>1. UNCHANGED <<members, settings, readFailed, fetched, mounted, fields, edits>>
  BY DEF SaveAccepted, SaveFails, queries
<1>2. /\ posted' = Nothing /\ SoundSettings(stored') /\ reading' \in {"none", "sent"}
  BY DEF SaveAccepted, SaveFails, queries, FormTyped, Store
<1>3. save' \in Outcomes /\ dirty' \in BOOLEAN
  BY DEF SaveAccepted, SaveFails, FormTyped, Switches, Outcomes
<1>4. Store' /\ Switches'
  BY <1>1, <1>2, <1>3 DEF FormTyped, Store, Switches
<1> QED BY <1>1, <1>4, FieldsStay DEF FormTyped

LEMMA ReadStep ==
  ASSUME FormTyped, Refetch \/ SettingsArrive \/ SettingsFail \/ TeamsArrive \/ LeaveTeam
  PROVE  FormTyped'
<1>1. UNCHANGED <<stored, fields, dirty, save, posted, edits>>
  BY DEF Refetch, SettingsArrive, SettingsFail, TeamsArrive, LeaveTeam, server
<1>2. mounted' \in BOOLEAN
  BY DEF Refetch, SettingsArrive, SettingsFail, TeamsArrive, LeaveTeam, FormTyped, Switches
<1>3. /\ settings' \in {settings, stored} /\ reading' \in {"none", "sent"} /\ readFailed' \in BOOLEAN
      /\ members' \subseteq Team /\ fetched' \subseteq Team
  <2>1. CASE Refetch \/ SettingsArrive \/ SettingsFail
    BY <2>1 DEF Refetch, SettingsArrive, SettingsFail, server, FormTyped, Store
  <2>2. CASE TeamsArrive \/ LeaveTeam
    BY <2>2 DEF TeamsArrive, LeaveTeam, server, queries, FormTyped, Store
  <2> QED BY <2>1, <2>2
<1>4. Store' /\ Switches'
  BY <1>1, <1>2, <1>3 DEF FormTyped, Store, Switches
<1> QED BY <1>1, <1>4, FieldsStay DEF FormTyped

LEMMA TypedStep ==
  ASSUME FormTyped, [FormNext]_formVars
  PROVE  FormTyped'
<1>1. CASE UNCHANGED formVars
  BY <1>1, StoreStays, FieldsStay DEF formVars, FormTyped, Switches
<1> QED BY <1>1, TypedZone, TypedRow, TypedText, ViewStep, MountStep, LeaveStep, RefusedStep, SubmitStep,
           AnswerStep, ReadStep DEF FormNext

LEMMA TypedIsType == FormTyped => FormTypeOK
<1>1. \A s : SoundSettings(s) => s \in SettingsType
  BY DEF SoundSettings
<1> QED BY <1>1 DEF FormTyped, Store, Switches, ZoneAndTeams, Editor, Outcomes, Problem, FormTypeOK

\* What the switch of the views carries across.
CarriedAcross ==
  /\ OverridesValid /\ OverridesValid' => OverridesDays' = OverridesDays
  /\ mode' = "text" =>
       \A i \in DOMAIN rows : IsEmpty(rows[i]) \/ \E j \in DOMAIN text' : text'[j] = Listed(rows[i])

LEMMA ToTextCarries ==
  ASSUME FormTyped, ToText
  PROVE  CarriedAcross
<1>1. mode = "rows" /\ mode' = "text" /\ text' = RowsToText(rows) /\ rows \in Seq(Row)
  BY DEF ToText, FormTyped, Editor
<1>2. OverridesDays = RowDays(rows) /\ OverridesDays' = ParseOverrides(text')
  BY <1>1 DEF OverridesDays
<1>3. OverridesValid => CheckRows(rows) = {}
  BY <1>1 DEF OverridesValid
<1>4. OverridesValid => OverridesDays' = OverridesDays
  BY <1>1, <1>2, <1>3, TextAsksSame
<1> QED BY <1>1, <1>4, TextKeepsRows DEF CarriedAcross

LEMMA ToRowsCarries ==
  ASSUME FormTyped, ToRows
  PROVE  CarriedAcross
<1>1. /\ mode = "text" /\ mode' = "rows" /\ text \in Seq(Line) /\ InvalidLine(text) = 0
      /\ rows' = RowsFromDays(ParseOverrides(text)) /\ KeysFor(ParseOverrides(text))
  BY DEF ToRows, FormTyped, Editor
<1>2. OverridesDays = ParseOverrides(text) /\ OverridesDays' = RowDays(rows')
  BY <1>1 DEF OverridesDays
<1>3. Sound(ParseOverrides(text))
  BY <1>1, ParseSound
<1>4. RowDays(rows') = ParseOverrides(text)
  BY <1>1, <1>3, KeyIsNatural, RowsOfDays
<1> QED BY <1>1, <1>2, <1>4 DEF CarriedAcross

LEMMA SwitchStep ==
  ASSUME FormTyped, [FormNext]_formVars, mode' # mode, mounted, mounted'
  PROVE  CarriedAcross
<1>1. CASE ToText \/ ToRows
  BY <1>1, ToTextCarries, ToRowsCarries
<1>2. CASE \/ ChangeZone \/ (\E t \in Team : CheckTeam(t))
           \/ (\E i \in 1 .. MaxRows : UpdateRow(i) \/ RemoveRow(i)) \/ AddRow \/ EditText
  <2>1. UNCHANGED mode
    BY <1>2 DEF ChangeZone, CheckTeam, UpdateRow, RemoveRow, AddRow, EditText, editor
  <2> QED BY <2>1
<1>3. CASE Mount \/ Leave
  BY <1>3 DEF Mount, Leave
<1>4. CASE ToRowsRefused \/ Submit
  BY <1>4 DEF ToRowsRefused, Submit
<1>5. CASE \/ SaveAccepted \/ SaveFails \/ Refetch \/ SettingsArrive \/ SettingsFail \/ TeamsArrive
           \/ LeaveTeam \/ UNCHANGED formVars
  <2>1. UNCHANGED fields
    BY <1>5 DEF SaveAccepted, SaveFails, Refetch, SettingsArrive, SettingsFail, TeamsArrive, LeaveTeam, formVars
  <2> QED BY <2>1 DEF fields, editor
<1> QED BY <1>1, <1>2, <1>3, <1>4, <1>5 DEF FormNext

\* What is sent is what is listed.
ListedIsSent ==
  /\ \A i \in DOMAIN ListedNow : ListedNow[i] = Blank \/ ListedNow[i][1] \in DOMAIN posted'.days
  /\ \A name \in DOMAIN posted'.days : Contains(ListedNow, <<name, posted'.days[name]>>)
  /\ mode = "rows" =>
       \A i, j \in DOMAIN ListedNow : Folded[ListedNow[i][1]] = Folded[ListedNow[j][1]] => i = j

LEMMA LinesSent ==
  ASSUME NEW ls \in Seq(Line), \A i \in DOMAIN ls : Parses(ls[i])
  PROVE  /\ \A i \in DOMAIN ls : ls[i] = Blank \/ ls[i][1] \in DOMAIN ByName(ls)
         /\ \A name \in DOMAIN ByName(ls) : Contains(ls, <<name, ByName(ls)[name]>>)
<1>1. DOMAIN ByName(ls) = {ls[i][1] : i \in DOMAIN ls} \ {""}
  BY ByNameIs
<1>2. ASSUME NEW i \in DOMAIN ls, ls[i] # Blank
      PROVE  ls[i][1] \in DOMAIN ByName(ls)
  <2>1. ls[i][1] # ""
    BY <1>2, FormAssumption DEF Parses
  <2> QED BY <1>1, <2>1
<1>3. ASSUME NEW name \in DOMAIN ByName(ls)
      PROVE  Contains(ls, <<name, ByName(ls)[name]>>)
  <2>1. PICK k \in DOMAIN ls : ls[k][1] = name /\ ByName(ls)[name] = ls[k][2]
    BY ByNameIs
  <2>2. ls[k] \in TypedRepo \X TypedDays
    BY ElementOf DEF Line
  <2>3. ls[k] = <<name, ByName(ls)[name]>>
    BY <2>1, <2>2
  <2> QED BY <2>3 DEF Contains
<1> QED BY <1>2, <1>3

LEMMA SubmitSends ==
  ASSUME FormTyped, Submit, posted = Nothing, posted' # Nothing
  PROVE  ListedIsSent
<1>1. OverridesValid /\ posted' = Settings(zone, selected, OverridesDays)
  BY DEF Submit
<1>2. posted'.days = OverridesDays
  BY <1>1 DEF Settings
<1>3. rows \in Seq(Row) /\ text \in Seq(Line) /\ mode \in {"rows", "text"}
  BY DEF FormTyped, Editor
<1>4. CASE mode = "text"
  <2>1. ListedNow = text /\ posted'.days = ByName(text) /\ InvalidLine(text) = 0
    BY <1>1, <1>2, <1>4 DEF ListedNow, OverridesDays, OverridesValid, ParseOverrides
  <2>2. \A i \in DOMAIN text : Parses(text[i])
    BY <1>3, <2>1, InvalidLineIs
  <2> QED BY <1>3, <1>4, <2>1, <2>2, LinesSent DEF ListedIsSent
<1>5. CASE mode = "rows"
  <2> DEFINE t == RowsToText(rows)
  <2>1. ListedNow = t /\ OverridesDays = RowDays(rows) /\ CheckRows(rows) = {}
    BY <1>1, <1>5 DEF ListedNow, OverridesDays, OverridesValid
  <2>2. posted'.days = ByName(t)
    BY <1>2, <1>3, <2>1, TextAsksSame DEF ParseOverrides
  <2>3. t \in Seq(Line)
    BY <1>3, TextOfRows
  <2>4. \A n \in DOMAIN t : \E i \in DOMAIN rows : ~IsEmpty(rows[i]) /\ t[n] = Listed(rows[i])
    BY <1>3, <2>1, TextOfCheckedRows
  <2>5. \A m, n \in DOMAIN t : Folded[t[m][1]] = Folded[t[n][1]] => m = n
    BY <1>3, <2>1, TextOfCheckedRows
  <2> HIDE DEF t
  <2>6. \A n \in DOMAIN t : Parses(t[n])
    BY <1>3, <2>1, <2>4, RowsChecked, SameListed DEF Parses
  <2> QED BY <1>5, <2>1, <2>2, <2>3, <2>5, <2>6, LinesSent DEF ListedIsSent
<1> QED BY <1>3, <1>4, <1>5

LEMMA PostStep ==
  ASSUME FormTyped, [FormNext]_formVars, posted = Nothing, posted' # Nothing
  PROVE  ListedIsSent
<1>1. CASE \/ ChangeZone \/ (\E t \in Team : CheckTeam(t))
           \/ (\E i \in 1 .. MaxRows : UpdateRow(i) \/ RemoveRow(i)) \/ AddRow \/ EditText \/ ToText \/ ToRows
  <2>1. Edited
    BY <1>1 DEF ChangeZone, CheckTeam, UpdateRow, RemoveRow, AddRow, EditText, ToText, ToRows, Typed
  <2> QED BY <2>1 DEF Edited
<1>2. CASE Mount \/ Leave \/ ToRowsRefused \/ SaveAccepted \/ SaveFails
  BY <1>2 DEF Mount, Leave, ToRowsRefused, SaveAccepted, SaveFails
<1>3. CASE Refetch \/ SettingsArrive \/ SettingsFail \/ TeamsArrive \/ LeaveTeam \/ UNCHANGED formVars
  BY <1>3 DEF Refetch, SettingsArrive, SettingsFail, TeamsArrive, LeaveTeam, formVars
<1> QED BY <1>1, <1>2, <1>3, SubmitSends DEF FormNext

(* FollowUpSettings.tsx and OverridesEditor.tsx: what is typed, posted     *)
(* and stored is well formed, for any number of rows and edits.            *)
THEOREM FormTypesCorrect == FormSpec => []FormTypeOK
<1>1. FormSpec => []FormTyped
  BY InitTyped, TypedStep, PTL DEF FormSpec
<1> QED BY <1>1, TypedIsType, PTL

(* checkRows, parseOverrides: a save sends the periods that are listed, and *)
(* of rows each one, none overruled by another that names the same         *)
(* repository in whatever case, for any rows and text.                     *)
THEOREM ListedPeriodsSent == FormSpec => SentAsShown
<1>1. FormSpec => []FormTyped
  BY InitTyped, TypedStep, PTL DEF FormSpec
<1>2. FormTyped /\ [FormNext]_formVars => [posted = Nothing /\ posted' # Nothing => ListedIsSent]_formVars
  BY PostStep
<1> QED BY <1>1, <1>2, PTL DEF FormSpec, SentAsShown, ListedIsSent

(* OverridesEditor.tsx: switching views changes nothing of what a save     *)
(* would store, and drops nothing that was typed into a row.               *)
THEOREM ViewsAskTheSame == FormSpec => ViewsAgree
<1>1. FormSpec => []FormTyped
  BY InitTyped, TypedStep, PTL DEF FormSpec
<1>2. FormTyped /\ [FormNext]_formVars => [mode' # mode /\ mounted /\ mounted' => CarriedAcross]_formVars
  BY SwitchStep
<1> QED BY <1>1, <1>2, PTL DEF FormSpec, ViewsAgree, CarriedAcross

-----------------------------------------------------------------------------
(* THE LISTS OF DESTINATIONS AND TOKENS                                    *)

Entries == [Item -> {"none", "on", "off"}]

-----------------------------------------------------------------------------
(* Types.  An answer is a list; the panel tracks a removal that is under   *)
(* way, and nothing can be under way before the list is on the screen.     *)
Tracks ==
  /\ removal.st = "pending" => removal.item \in removing
  /\ removal.st # "pending" => removal.item = NoItem
Unloaded ==
  ~Loaded => /\ toggle.st = "idle" /\ removal.st = "idle" /\ removing = {}
             /\ ~formOpen /\ adding \notin {"pending", "left"}
BoardTypes ==
  /\ BoardTypeOK
  /\ listAnswer \in Entries \cup {NoList}
  /\ Tracks /\ Unloaded

LEMMA EntriesAreAList ==
  ASSUME NEW f \in Entries
  PROVE  f # NoList
  BY BoardAssumption DEF Entries, NoList

LEMMA FirstChannel == (CHOOSE c \in Channel : TRUE) \in Channel
  BY BoardAssumption

LEMMA InitTypes == BoardInit => BoardTypes
<1> SUFFICES ASSUME BoardInit
             PROVE  BoardTypes
  OBVIOUS
<1>1. ~Loaded /\ Tracks /\ Unloaded
  BY DEF BoardInit, Tracks, Unloaded, Loaded, Idle
<1>2. held \in Entries /\ fresh \subseteq Item
  BY DEF BoardInit, Entries
<1>3. channel \in Channel /\ errors = {}
  BY FirstChannel DEF BoardInit
<1>4. asking = {} /\ removing = {} /\ untold = {} /\ toggle.st = "idle" /\ removal.st = "idle"
  BY DEF BoardInit, Idle
<1>5. listed = NoList /\ listAnswer = NoList /\ listing = "sent" /\ listError = FALSE
  BY DEF BoardInit
<1>6. board \in {"destinations", "tokens"} /\ formOpen = FALSE /\ adding = "idle" /\ typed = 0 /\ boardFaults = 0
  BY DEF BoardInit
<1>7. (listing = "read") = (listAnswer # NoList)
  BY <1>5
<1>8. typed \in 0 .. MaxTyped /\ boardFaults \in 0 .. MaxFaults
  BY <1>6, BoardAssumption
<1>9. asking \subseteq Shown /\ errors \subseteq FieldsOf(channel)
  BY <1>3, <1>4
<1> QED BY <1>1, <1>2, <1>3, <1>4, <1>5, <1>6, <1>7, <1>8, <1>9 DEF BoardTypes, BoardTypeOK, Entries

\* A request for the list that is sent has no answer.
LEMMA InvalidatedTypes ==
  ASSUME BoardTypes, Invalidate
  PROVE  /\ listing' \in {"none", "sent", "read"} /\ listAnswer' \in Entries \cup {NoList}
         /\ (listing' = "read") = (listAnswer' # NoList)
         /\ UNCHANGED <<listed, listError>>
  BY DEF BoardTypes, BoardTypeOK, Invalidate

LEMMA ListTypes ==
  ASSUME BoardTypes, ListAsked \/ ListRead \/ ListArrives \/ ListFails
  PROVE  BoardTypes'
<1>1. CASE ListAsked
  BY <1>1 DEF ListAsked, form, BoardTypes, BoardTypeOK, Tracks, Unloaded, Loaded, Shown
<1>2. CASE ListRead
  <2>1. held \in Entries /\ held # NoList
    BY EntriesAreAList DEF BoardTypes, BoardTypeOK, Entries
  <2> QED BY <1>2, <2>1 DEF ListRead, form, BoardTypes, BoardTypeOK, Tracks, Unloaded, Loaded, Shown
<1>3. CASE ListArrives
  <2>1. listAnswer \in Entries /\ listAnswer # NoList /\ listed' = listAnswer
    BY <1>3 DEF ListArrives, BoardTypes, BoardTypeOK
  <2>2. asking' \subseteq Shown' /\ untold' \subseteq Item
    BY <1>3, <2>1 DEF ListArrives, BoardTypes, BoardTypeOK, Shown, Loaded
  <2>3. Tracks' /\ Unloaded'
    BY <1>3, <2>1 DEF ListArrives, form, BoardTypes, Tracks, Unloaded, Loaded
  <2> QED BY <1>3, <2>1, <2>2, <2>3 DEF ListArrives, form, BoardTypes, BoardTypeOK, Entries
<1>4. CASE ListFails
  BY <1>4, BoardAssumption
  DEF ListFails, Fault, form, BoardTypes, BoardTypeOK, Tracks, Unloaded, Loaded, Shown
<1> QED BY <1>1, <1>2, <1>3, <1>4

LEMMA ToggleTypes ==
  ASSUME BoardTypes, ToggleAccepted \/ ToggleFails \/ \E i \in Item : Toggle(i)
  PROVE  BoardTypes'
<1>1. CASE ToggleAccepted
  <2>1. held' \in Entries
    BY <1>1 DEF ToggleAccepted, BoardTypes, BoardTypeOK, Entries
  <2>2. Tracks' /\ Unloaded'
    BY <1>1, InvalidatedTypes DEF ToggleAccepted, form, BoardTypes, Tracks, Unloaded, Loaded
  <2> QED BY <1>1, <2>1, <2>2, InvalidatedTypes
          DEF ToggleAccepted, form, BoardTypes, BoardTypeOK, Shown, Loaded, Idle, Entries
<1>2. CASE ToggleFails
  <2>1. held' \in Entries /\ boardFaults' \in 0 .. MaxFaults
    BY <1>2, BoardAssumption DEF ToggleFails, Fault, BoardTypes, BoardTypeOK, Entries
  <2>2. Tracks' /\ Unloaded'
    BY <1>2 DEF ToggleFails, form, lists, BoardTypes, Tracks, Unloaded, Loaded
  <2> QED BY <1>2, <2>1, <2>2
          DEF ToggleFails, form, lists, BoardTypes, BoardTypeOK, Shown, Loaded, Failed, Entries
<1>3. ASSUME NEW i \in Item, Toggle(i)
      PROVE  BoardTypes'
  BY <1>3 DEF Toggle, form, lists, BoardTypes, BoardTypeOK, Tracks, Unloaded, Shown, Loaded
<1> QED BY <1>1, <1>2, <1>3

LEMMA RemovalTypes ==
  ASSUME BoardTypes, NEW i \in Item,
         Ask(i) \/ Cancel(i) \/ Confirmed(i) \/ RemovalAccepted(i) \/ RemovalFails(i)
  PROVE  BoardTypes'
<1>1. CASE Ask(i) \/ Cancel(i)
  BY <1>1 DEF Ask, Cancel, form, lists, BoardTypes, BoardTypeOK, Tracks, Unloaded, Shown, Loaded
<1>2. CASE Confirmed(i)
  BY <1>2 DEF Confirmed, form, lists, BoardTypes, BoardTypeOK, Tracks, Unloaded, Shown, Loaded
<1>3. CASE RemovalAccepted(i)
  <2>1. held' \in Entries /\ removing' \subseteq Item
    BY <1>3 DEF RemovalAccepted, BoardTypes, BoardTypeOK, Entries
  <2>2. Tracks' /\ Unloaded' /\ removal'.st \in {"idle", "pending", "error"}
    BY <1>3, InvalidatedTypes, BoardAssumption
    DEF RemovalAccepted, Tracked, Idle, form, BoardTypes, BoardTypeOK, Tracks, Unloaded, Loaded
  <2> QED BY <1>3, <2>1, <2>2, InvalidatedTypes
          DEF RemovalAccepted, form, BoardTypes, BoardTypeOK, Shown, Loaded, Entries
<1>4. CASE RemovalFails(i)
  <2>1. held' \in Entries /\ removing' \subseteq Item /\ untold' \subseteq Item /\ boardFaults' \in 0 .. MaxFaults
    BY <1>4, BoardAssumption DEF RemovalFails, Fault, BoardTypes, BoardTypeOK, Entries
  <2>2. Tracks' /\ Unloaded' /\ removal'.st \in {"idle", "pending", "error"}
    BY <1>4, BoardAssumption
    DEF RemovalFails, Tracked, Failed, form, lists, BoardTypes, BoardTypeOK, Tracks, Unloaded, Loaded
  <2> QED BY <1>4, <2>1, <2>2 DEF RemovalFails, form, lists, BoardTypes, BoardTypeOK, Shown, Loaded, Entries
<1> QED BY <1>1, <1>2, <1>3, <1>4

LEMMA DraftTypes ==
  ASSUME BoardTypes, OpenForm \/ CloseForm \/ (\E f \in Field : Type(f)) \/ ChooseChannel \/ Add
  PROVE  BoardTypes'
<1>1. UNCHANGED <<board, held, fresh, lists, toggle, removal, removing, untold, asking, boardFaults>>
  BY DEF OpenForm, CloseForm, Type, ChooseChannel, Add
<1>2. (Tracks /\ (Loaded => Loaded') /\ asking' \subseteq Shown')
  BY <1>1 DEF lists, BoardTypes, BoardTypeOK, Shown, Loaded
<1>3. Tracks' /\ (~Loaded => UNCHANGED form) /\ (Loaded = Loaded')
  BY <1>1 DEF OpenForm, AddOffered, CloseForm, Type, ChooseChannel, Add, lists, BoardTypes, Tracks, Unloaded,
              Loaded, form
<1>4. Unloaded'
  BY <1>1, <1>3 DEF BoardTypes, Unloaded, form
<1>5. /\ formOpen' \in BOOLEAN /\ channel' \in Channel /\ errors' \subseteq FieldsOf(channel')
      /\ adding' \in {"idle", "pending", "left", "refused", "error"} /\ typed' \in 0 .. MaxTyped
  <2>1. CASE OpenForm \/ CloseForm
    BY <2>1, FirstChannel DEF OpenForm, CloseForm, BoardTypes, BoardTypeOK
  <2>2. ASSUME NEW f \in Field, Type(f)
        PROVE  <1>5!:
    BY <2>2, BoardAssumption DEF Type, BoardTypes, BoardTypeOK
  <2>3. CASE ChooseChannel
    BY <2>3 DEF ChooseChannel, ErrorsOfNewChannel, BoardTypes, BoardTypeOK
  <2>4. CASE Add
    BY <2>4 DEF Add, DraftErrors, BoardTypes, BoardTypeOK
  <2> QED BY <2>1, <2>2, <2>3, <2>4
<1> QED BY <1>1, <1>2, <1>3, <1>4, <1>5 DEF lists, BoardTypes, BoardTypeOK

LEMMA AddTypes ==
  ASSUME BoardTypes, AddAccepted \/ AddFails
  PROVE  BoardTypes'
<1>1. Loaded
  BY DEF AddAccepted, AddFails, BoardTypes, Unloaded
<1>2. CASE AddAccepted
  <2>1. held' \in Entries /\ fresh' \subseteq Item
    BY <1>2 DEF AddAccepted, BoardTypes, BoardTypeOK, Entries
  <2> QED BY <1>1, <1>2, <2>1, InvalidatedTypes
          DEF AddAccepted, BoardTypes, BoardTypeOK, Tracks, Unloaded, Shown, Loaded, Entries
<1>3. CASE AddFails
  <2>1. held' \in Entries /\ fresh' \subseteq Item /\ untold' \subseteq Item
    BY <1>3 DEF AddFails, BoardTypes, BoardTypeOK, Entries
  <2>2. boardFaults' \in 0 .. MaxFaults /\ adding' \in {"idle", "refused", "error"}
    BY <1>3, BoardAssumption DEF AddFails, Fault, BoardTypes, BoardTypeOK
  <2> QED BY <1>1, <1>3, <2>1, <2>2
          DEF AddFails, lists, BoardTypes, BoardTypeOK, Tracks, Unloaded, Shown, Loaded, Entries
<1> QED BY <1>2, <1>3

LEMMA TypeStep ==
  ASSUME BoardTypes, [BoardNext]_boardVars
  PROVE  BoardTypes'
<1>1. CASE UNCHANGED boardVars
  BY <1>1 DEF boardVars, form, lists, BoardTypes, BoardTypeOK, Tracks, Unloaded, Shown, Loaded
<1> QED BY <1>1, ListTypes, ToggleTypes, RemovalTypes, DraftTypes, AddTypes
        DEF BoardNext, RemoveDestination, RevokeToken

(* The lists of the settings: every variable takes the values it should;   *)
(* an error stands only at a field that the channel of the form has, and   *)
(* only a row on the screen asks to be confirmed.                          *)
THEOREM BoardTypesCorrect == BoardSpec => []BoardTypeOK
<1>1. BoardSpec => []BoardTypes
  BY InitTypes, TypeStep, PTL DEF BoardSpec
<1> QED BY <1>1, PTL DEF BoardTypes
-----------------------------------------------------------------------------
(* What the rows say.  While the panel has nothing to wait for and nothing *)
(* failed, the rows are those of the server, but for those whose failure   *)
(* it did not show.  An answer that is on its way is as good, or what has  *)
(* changed since has it dropped or is said.                                *)
AsHeld(list) == \A i \in Item : list[i] = held[i] \/ i \in untold
Still == toggle.st = "idle" /\ removal.st = "idle"
RowsTrue == Loaded /\ listing = "none" /\ Still /\ ~listError => AsHeld(listed)
AnswerTrue == listing = "read" /\ Still => AsHeld(listAnswer)
BoardInvariant == BoardTypes /\ RowsTrue /\ AnswerTrue

LEMMA InitRows == BoardInit => BoardInvariant
  BY InitTypes DEF BoardInit, BoardInvariant, RowsTrue, AnswerTrue, Loaded

\* A change that the panel knows of has the list read again.
LEMMA Invalidated ==
  ASSUME Loaded, Invalidate
  PROVE  RowsTrue' /\ AnswerTrue'
  BY DEF Invalidate, Loaded, RowsTrue, AnswerTrue

\* A change that is not shown is remembered, and the others leave the rows alone.
LEMMA Remembered ==
  ASSUME BoardInvariant, UNCHANGED lists, Still' => Still,
         \A i \in Item : held'[i] = held[i] \/ i \in untold', untold \subseteq untold'
  PROVE  RowsTrue' /\ AnswerTrue'
  BY DEF BoardInvariant, RowsTrue, AnswerTrue, AsHeld, Loaded, lists

LEMMA RowsStep ==
  ASSUME BoardInvariant, [BoardNext]_boardVars
  PROVE  RowsTrue' /\ AnswerTrue'
<1> USE DEF BoardInvariant
<1>1. CASE ListAsked \/ ListFails
  BY <1>1 DEF ListAsked, ListFails, RowsTrue, AnswerTrue
<1>2. CASE ListRead
  BY <1>2 DEF ListRead, RowsTrue, AnswerTrue, AsHeld
<1>3. CASE ListArrives
  BY <1>3 DEF ListArrives, RowsTrue, AnswerTrue, Still, AsHeld
<1>4. CASE ToggleAccepted
  <2>1. Loaded
    BY <1>4 DEF ToggleAccepted, BoardTypes, Unloaded
  <2> QED BY <1>4, <2>1, Invalidated DEF ToggleAccepted
<1>5. CASE ToggleFails
  BY <1>5 DEF ToggleFails, Failed, Still, RowsTrue, AnswerTrue
<1>6. ASSUME NEW i \in Item, Toggle(i)
      PROVE  RowsTrue' /\ AnswerTrue'
  BY <1>6 DEF Toggle, Still, RowsTrue, AnswerTrue
<1>7. ASSUME NEW i \in Item, Ask(i) \/ Cancel(i)
      PROVE  RowsTrue' /\ AnswerTrue'
  BY <1>7, Remembered DEF Ask, Cancel, Still
<1>8. ASSUME NEW i \in Item, Confirmed(i)
      PROVE  RowsTrue' /\ AnswerTrue'
  BY <1>8 DEF Confirmed, Still, RowsTrue, AnswerTrue
<1>9. ASSUME NEW i \in Item, RemovalAccepted(i)
      PROVE  RowsTrue' /\ AnswerTrue'
  <2>1. Loaded
    BY <1>9 DEF RemovalAccepted, BoardTypes, Unloaded
  <2> QED BY <1>9, <2>1, Invalidated DEF RemovalAccepted
<1>10. ASSUME NEW i \in Item, RemovalFails(i)
       PROVE  RowsTrue' /\ AnswerTrue'
  <2>1. CASE Tracked(i)
    BY <1>10, <2>1 DEF RemovalFails, Failed, Still, RowsTrue, AnswerTrue
  <2>2. CASE ~Tracked(i)
    <3>1. \A j \in Item : held'[j] = held[j] \/ j = i
      BY <1>10 DEF RemovalFails, BoardTypes, BoardTypeOK
    <3> QED BY <1>10, <2>2, <3>1, Remembered DEF RemovalFails, Still
  <2> QED BY <2>1, <2>2
<1>11. CASE OpenForm \/ CloseForm \/ (\E f \in Field : Type(f)) \/ ChooseChannel \/ Add
  BY <1>11, Remembered DEF OpenForm, CloseForm, Type, ChooseChannel, Add, Still
<1>12. CASE AddAccepted
  <2>1. Loaded
    BY <1>12 DEF AddAccepted, BoardTypes, Unloaded
  <2> QED BY <1>12, <2>1, Invalidated DEF AddAccepted
<1>13. CASE AddFails
  <2>1. \A i \in Item : held'[i] = held[i] \/ i \in untold'
    BY <1>13 DEF AddFails, BoardTypes, BoardTypeOK
  <2> QED BY <1>13, <2>1, Remembered DEF AddFails, Still
<1>14. CASE UNCHANGED boardVars
  BY <1>14, Remembered DEF boardVars, Still
<1> QED BY <1>1, <1>2, <1>3, <1>4, <1>5, <1>6, <1>7, <1>8, <1>9, <1>10, <1>11, <1>12, <1>13, <1>14
        DEF BoardNext, RemoveDestination, RevokeToken

LEMMA RowsHold == BoardInvariant => RowsTrueOrTold
  BY DEF BoardInvariant, BoardTypes, BoardTypeOK, Tracks, RowsTrue, Still, AsHeld, RowsTrueOrTold

(* The lists of the settings: once nothing is under way, a row says what   *)
(* the server holds, or the panel says that something failed, but for the  *)
(* changes whose failure it has no place to say.                           *)
THEOREM RowsCorrect == BoardSpec => []RowsTrueOrTold
<1>1. BoardInvariant /\ [BoardNext]_boardVars => BoardInvariant'
  BY TypeStep, RowsStep DEF BoardInvariant
<1>2. BoardSpec => []BoardInvariant
  BY InitRows, <1>1, PTL DEF BoardSpec
<1> QED BY <1>2, RowsHold, PTL

-----------------------------------------------------------------------------
(* THE TABS                                                                *)
(* The two tabs beside one another.                                        *)
THEOREM TabsAreThemselves == MCSpec => FormSpec /\ BoardSpec
<1>1. MCInit => FormInit /\ BoardInit
  BY DEF MCInit
<1>2. [MCNext]_<<tab, formVars, boardVars>> => [FormNext]_formVars /\ [BoardNext]_boardVars
  BY Zenon DEF MCNext, Schedule, Lists
<1> QED BY <1>1, <1>2, PTL DEF MCSpec, FormSpec, BoardSpec
=============================================================================
