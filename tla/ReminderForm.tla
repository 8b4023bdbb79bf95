---------------------------- MODULE ReminderForm ----------------------------
(***************************************************************************)
(* The Reminders tab of the settings: the form over the stored settings,   *)
(* its two views of the waiting periods per repository, the review teams   *)
(* that GitHub returns, and the save.                                      *)
(*                                                                         *)
(* The form takes the settings in hand when it mounts and keeps its own    *)
(* values from then on.  What is typed into the repository field is a      *)
(* Repo, "" or "bad"; into the days field one of Days, "" or "bad".  A     *)
(* line of the text view is such a pair, Blank for a blank line; any other *)
(* line that does not parse is one that holds "bad" or one "".  The fields *)
(* of the schedule are one value, the time zone.                           *)
(*                                                                         *)
(* Left out: where the focus goes, the suggestions, a second save while    *)
(* the one of a form that was left is under way.                           *)
(***************************************************************************)
EXTENDS Integers, Sequences, FiniteSets, Selections

CONSTANTS
  Repo,           \* repository names
  Folded,         \* the lower-case form of each
  Days,           \* waiting periods from 1 to 365
  FirstDays,      \* what is stored of them at first
  Zone,           \* time zones the browser knows
  Team,           \* review teams
  MaxRows,        \* bound of the rows, and of the lines of the text
  MaxKey,         \* bound of the rows made
  MaxEdits        \* bound of the changes made, switching views not counted

(* Periods by the name of the repository, as the server stores them.       *)
Periods == UNION {[names -> Days] : names \in SUBSET Repo}

ASSUME FormAssumption ==
  /\ Folded \in [Repo -> Repo] /\ "" \notin Repo
  /\ \A d \in FirstDays : d \in Periods /\ IsFiniteSet(DOMAIN d)
  /\ MaxRows \in Nat /\ MaxKey \in Nat /\ MaxEdits \in Nat

VARIABLES
  stored,         \* the settings on the server
  members,        \* the teams GitHub returns
  \* the query client
  settings,       \* the settings in hand, or Nothing
  reading,        \* their request: "none", "sent", or the answer under way
  readFailed,
  fetched,        \* the teams in hand
  \* the form
  mounted,
  zone, zoneInvalid,
  selected,       \* teams that are checked
  saved,          \* teams that were checked when the form mounted
  mode, rows, text,             \* the editor: "rows" or "text"
  rowProblems,    \* the fields of rows that the last save found wrong
  line,           \* the first bad line the text view reports, or 0
  lastKey,
  dirty,
  save,           \* the mutation: "idle", "pending", "success" or "error"
  posted,         \* the settings in the request, or Nothing
  edits

server == <<stored, members>>
queries == <<settings, reading, readFailed, fetched>>
editor == <<mode, rows, text, rowProblems, line, lastKey>>
fields == <<zone, zoneInvalid, selected, saved, editor>>
formVars == <<server, queries, mounted, fields, dirty, save, posted, edits>>

Nothing == <<>>
TypedRepo == Repo \cup {"", "bad"}
TypedDays == Days \cup {"", "bad"}
Line == TypedRepo \X TypedDays
Blank == <<"", "">>
Settings(z, t, d) == [zone |-> z, teams |-> t, days |-> d]

----------------------------------------------------------------------------
(* The waiting periods by name: what is listed last under a name holds, as *)
(* each line or row writes its entry over an earlier one.                  *)
Named(ls, name) == {i \in DOMAIN ls : ls[i][1] = name}
LastOf(positions) == CHOOSE i \in positions : \A j \in positions : j <= i
ByName(ls) == [name \in {ls[i][1] : i \in DOMAIN ls} \ {""} |-> ls[LastOf(Named(ls, name))][2]]

(* The text form.                                                          *)
Parses(l) == l = Blank \/ (l[1] \in Repo /\ l[2] \in Days)
InvalidLine(ls) == LET bad == {i \in DOMAIN ls : ~Parses(ls[i])} IN
                   IF bad = {} THEN 0 ELSE CHOOSE i \in bad : \A j \in bad : i <= j
ParseOverrides(ls) == ByName(ls)

(* The rows.  Empty ones are ignored; a repository listed twice, in any    *)
(* case, is wrong on its second row.                                       *)
IsEmpty(row) == row.repo = "" /\ row.days = ""
Listed(row) == <<row.repo, row.days>>
FieldsCheckedNoDuplicates(rs, i) ==
  (IF rs[i].repo \in Repo THEN {} ELSE {<<rs[i].key, "repo">>})
    \cup IF rs[i].days \in Days THEN {} ELSE {<<rs[i].key, "days">>}
FieldsCheckedRepoOnly(rs, i) ==
  IF \/ rs[i].repo \notin Repo
     \/ \E j \in 1 .. i - 1 : rs[j].repo \in Repo /\ Folded[rs[j].repo] = Folded[rs[i].repo]
  THEN {<<rs[i].key, "repo">>} ELSE {}
FieldsWrong(rs, i) ==
  (IF \/ rs[i].repo \notin Repo
      \/ \E j \in 1 .. i - 1 : rs[j].repo \in Repo /\ Folded[rs[j].repo] = Folded[rs[i].repo]
   THEN {<<rs[i].key, "repo">>} ELSE {})
    \cup IF rs[i].days \in Days THEN {} ELSE {<<rs[i].key, "days">>}
CheckRows(rs) == UNION {FieldsWrong(rs, i) : i \in {k \in DOMAIN rs : ~IsEmpty(rs[k])}}
RowDays(rs) == ByName([i \in DOMAIN rs |-> Listed(rs[i])])

RowsToTextDroppingInvalid(rs) ==
  LET kept == Selected(rs, {i \in DOMAIN rs : rs[i].days # ""}) IN [i \in DOMAIN kept |-> Listed(kept[i])]
RowsToText(rs) ==
  LET kept == Selected(rs, {i \in DOMAIN rs : ~IsEmpty(rs[i])}) IN [i \in DOMAIN kept |-> Listed(kept[i])]
(* A row for each repository, with new keys.                               *)
RowsFromDays(days) ==
  LET names == SetToSeq(DOMAIN days)
  IN [i \in DOMAIN names |-> [key |-> lastKey + i, repo |-> names[i], days |-> days[names[i]]]]
KeysFor(days) ==
  /\ lastKey + Cardinality(DOMAIN days) <= MaxKey
  /\ lastKey' = lastKey + Cardinality(DOMAIN days)

(* What a save would send, and whether the view that is open allows it.    *)
OverridesValid == IF mode = "text" THEN InvalidLine(text) = 0 ELSE CheckRows(rows) = {}
OverridesDays == IF mode = "text" THEN ParseOverrides(text) ELSE RowDays(rows)

(* The teams that have a checkbox.                                         *)
TeamOptions == fetched \cup saved
(* The save button.                                                        *)
SaveOffered == mounted /\ dirty /\ save # "pending" /\ posted = Nothing

(* The form is on the screen from the first answer on, whatever becomes of *)
(* a later request.                                                        *)
PanelUnlessError == settings' # Nothing /\ ~readFailed'
PanelShown == settings' # Nothing

(* Any change clears the outcome of a save that has ended.                 *)
Edited ==
  /\ mounted /\ dirty' = TRUE
  /\ save' = IF save = "pending" THEN save ELSE "idle"
  /\ UNCHANGED <<server, queries, mounted, saved, posted>>
Typed == edits < MaxEdits /\ edits' = edits + 1 /\ Edited

FormInit ==
  /\ \E z \in Zone, t \in SUBSET Team, d \in FirstDays : stored = Settings(z, t, d)
  /\ members = Team
  /\ settings = Nothing /\ reading = "sent" /\ readFailed = FALSE /\ fetched = {}
  /\ mounted = FALSE /\ zone = "" /\ zoneInvalid = FALSE /\ selected = {} /\ saved = {}
  /\ mode = "rows" /\ rows = <<>> /\ text = <<>> /\ rowProblems = {} /\ line = 0
  /\ dirty = FALSE /\ save = "idle" /\ lastKey = 0 /\ posted = Nothing /\ edits = 0

(* The form mounts with the settings in hand.                              *)
Mount ==
  /\ ~mounted /\ settings # Nothing /\ mounted' = TRUE /\ KeysFor(settings.days)
  /\ zone' = settings.zone /\ zoneInvalid' = FALSE
  /\ selected' = settings.teams /\ saved' = settings.teams
  /\ mode' = "rows" /\ rows' = RowsFromDays(settings.days) /\ text' = <<>>
  /\ rowProblems' = {} /\ line' = 0 /\ dirty' = FALSE /\ save' = "idle"
  /\ reading' = IF reading = "none" THEN "sent" ELSE reading
  /\ UNCHANGED <<server, settings, readFailed, fetched, posted, edits>>

(* The page is left and the form with it; a save under way goes on.        *)
Leave ==
  /\ mounted /\ mounted' = FALSE
  /\ zone' = "" /\ zoneInvalid' = FALSE /\ selected' = {} /\ saved' = {}
  /\ mode' = "rows" /\ rows' = <<>> /\ text' = <<>> /\ rowProblems' = {} /\ line' = 0
  /\ dirty' = FALSE /\ save' = "idle" /\ UNCHANGED lastKey
  /\ UNCHANGED <<server, queries, posted, edits>>

----------------------------------------------------------------------------
ChangeZone ==
  /\ Typed
  /\ zone' \in (Zone \cup {"bad"}) \ {zone} /\ zoneInvalid' = FALSE
  /\ UNCHANGED <<selected, editor>>

CheckTeam(team) ==
  /\ team \in TeamOptions /\ Typed
  /\ selected' = IF team \in selected THEN selected \ {team} ELSE selected \cup {team}
  /\ UNCHANGED <<zone, zoneInvalid, editor>>

(* The problem of the field that changes is cleared, the other one stays.  *)
UpdateRow(i) ==
  /\ mode = "rows" /\ i \in DOMAIN rows /\ Typed
  /\ \/ /\ \E r \in TypedRepo \ {rows[i].repo} : rows' = [rows EXCEPT ![i].repo = r]
        /\ rowProblems' = rowProblems \ {<<rows[i].key, "repo">>}
     \/ /\ \E d \in TypedDays \ {rows[i].days} : rows' = [rows EXCEPT ![i].days = d]
        /\ rowProblems' = rowProblems \ {<<rows[i].key, "days">>}
  /\ UNCHANGED <<zone, zoneInvalid, selected, mode, text, line, lastKey>>

(* A new row proposes the default waiting period.                          *)
AddRow ==
  /\ mode = "rows" /\ Len(rows) < MaxRows /\ lastKey < MaxKey /\ Typed
  /\ \E d \in Days : rows' = Append(rows, [key |-> lastKey + 1, repo |-> "", days |-> d])
  /\ lastKey' = lastKey + 1
  /\ UNCHANGED <<zone, zoneInvalid, selected, mode, text, rowProblems, line>>

RemoveRow(i) ==
  /\ mode = "rows" /\ i \in DOMAIN rows /\ Typed
  /\ rows' = RemoveAt(rows, i)
  /\ rowProblems' = {p \in rowProblems : p[1] # rows[i].key}
  /\ UNCHANGED <<zone, zoneInvalid, selected, mode, text, line, lastKey>>

EditText ==
  /\ mode = "text" /\ Typed
  /\ \E i \in 1 .. Len(text) + 1, l \in (Repo \X Days) \cup {Blank, <<"bad", "bad">>} :
       /\ i <= MaxRows
       /\ text' = IF i <= Len(text) THEN [text EXCEPT ![i] = l] ELSE Append(text, l)
  /\ line' = 0
  /\ UNCHANGED <<zone, zoneInvalid, selected, mode, rows, rowProblems, lastKey>>

(* The editor changes views; the view that is left is made anew when it is *)
(* opened again.  The text does not turn back into rows while a line of it *)
(* does not parse.                                                         *)
ToText ==
  /\ mode = "rows" /\ Edited
  /\ mode' = "text" /\ text' = RowsToText(rows) /\ rows' = <<>> /\ rowProblems' = {} /\ line' = 0
  /\ UNCHANGED <<zone, zoneInvalid, selected, lastKey, edits>>

ToRows ==
  /\ mode = "text" /\ InvalidLine(text) = 0 /\ Edited /\ KeysFor(ParseOverrides(text))
  /\ mode' = "rows" /\ rows' = RowsFromDays(ParseOverrides(text)) /\ text' = <<>>
  /\ rowProblems' = {} /\ line' = 0
  /\ UNCHANGED <<zone, zoneInvalid, selected, edits>>

ToRowsRefused ==
  /\ mounted /\ mode = "text" /\ InvalidLine(text) # 0
  /\ line' = InvalidLine(text) /\ rowProblems' = {}
  /\ UNCHANGED <<server, queries, mounted, zone, zoneInvalid, selected, saved, mode, rows, text, lastKey,
                 dirty, save, posted, edits>>

----------------------------------------------------------------------------
(* onSubmit.  What is wrong is reported on the fields, and only a form     *)
(* without a problem is posted.                                            *)
Submit ==
  /\ SaveOffered
  /\ zoneInvalid' = (zone \notin Zone)
  /\ rowProblems' = IF mode = "rows" THEN CheckRows(rows) ELSE {}
  /\ line' = IF mode = "text" THEN InvalidLine(text) ELSE 0
  /\ IF zone \in Zone /\ OverridesValid
     THEN save' = "pending" /\ posted' = Settings(zone, selected, OverridesDays)
     ELSE UNCHANGED <<save, posted>>
  /\ UNCHANGED <<server, queries, mounted, zone, selected, saved, mode, rows, text, lastKey, dirty, edits>>

(* The server takes the settings and the settings are read again.  The     *)
(* form that posted them may be gone.                                      *)
SaveAccepted ==
  /\ posted # Nothing /\ stored' = posted /\ posted' = Nothing
  /\ reading' = "sent"
  /\ IF mounted /\ save = "pending" THEN save' = "success" /\ dirty' = FALSE ELSE UNCHANGED <<save, dirty>>
  /\ UNCHANGED <<members, settings, readFailed, fetched, mounted, fields, edits>>

(* The request fails, before or after the server took the settings.        *)
SaveFails ==
  /\ posted # Nothing /\ posted' = Nothing
  /\ stored' \in {stored, posted}
  /\ save' = IF mounted /\ save = "pending" THEN "error" ELSE save
  /\ UNCHANGED <<members, queries, mounted, fields, dirty, edits>>

(* The settings are read again when the window gets the focus, and when    *)
(* the reader asks.                                                        *)
Refetch ==
  /\ reading = "none" /\ reading' = "sent"
  /\ UNCHANGED <<server, settings, readFailed, fetched, mounted, fields, dirty, save, posted, edits>>

SettingsArrive ==
  /\ reading = "sent" /\ reading' = "none" /\ settings' = stored /\ readFailed' = FALSE
  /\ UNCHANGED <<server, fetched, mounted, fields, dirty, save, posted, edits>>

SettingsFail ==
  /\ reading = "sent" /\ reading' = "none" /\ readFailed' = TRUE
  /\ UNCHANGED settings
  /\ mounted' = (mounted /\ PanelShown)
  /\ UNCHANGED <<server, fetched, fields, dirty, save, posted, edits>>

(* The teams are read when the form mounts and when the window gets the    *)
(* focus again; a membership may end.                                      *)
TeamsArrive ==
  /\ mounted /\ fetched # members /\ fetched' = members
  /\ UNCHANGED <<server, settings, reading, readFailed, mounted, fields, dirty, save, posted, edits>>

LeaveTeam ==
  /\ \E t \in members : members' = members \ {t}
  /\ UNCHANGED <<stored, queries, mounted, fields, dirty, save, posted, edits>>

FormNext ==
  \/ Mount \/ Leave \/ ChangeZone \/ \E t \in Team : CheckTeam(t)
  \/ \E i \in 1 .. MaxRows : UpdateRow(i) \/ RemoveRow(i)
  \/ AddRow \/ EditText \/ ToText \/ ToRows \/ ToRowsRefused
  \/ Submit \/ SaveAccepted \/ SaveFails
  \/ Refetch \/ SettingsArrive \/ SettingsFail \/ TeamsArrive \/ LeaveTeam

FormSpec == FormInit /\ [][FormNext]_formVars

----------------------------------------------------------------------------
Row == [key : 1 .. MaxKey, repo : TypedRepo, days : TypedDays]
SettingsType == [zone : Zone, teams : SUBSET Team, days : Periods]

(* The values each variable takes.  What is stored, whichever view it was  *)
(* typed in, is well formed: the form posts nothing that the server or a   *)
(* later form could not read.                                              *)
FormTypeOK ==
  /\ stored \in SettingsType /\ settings \in SettingsType \cup {Nothing}
  /\ posted \in SettingsType \cup {Nothing}
  /\ reading \in {"none", "sent"} /\ readFailed \in BOOLEAN
  /\ members \subseteq Team /\ fetched \subseteq Team
  /\ zone \in Zone \cup {"", "bad"} /\ zoneInvalid \in BOOLEAN
  /\ selected \subseteq Team /\ saved \subseteq Team
  /\ mode \in {"rows", "text"} /\ rows \in Seq(Row) /\ text \in Seq(Line)
  /\ rowProblems \subseteq (1 .. MaxKey) \X {"repo", "days"} /\ line \in Nat /\ lastKey \in 0 .. MaxKey
  /\ mounted \in BOOLEAN /\ dirty \in BOOLEAN /\ edits \in 0 .. MaxEdits
  /\ save \in {"idle", "pending", "success", "error"}

(* OverridesEditor.tsx: switching views carries the value across.  What    *)
(* could be saved before is what would be saved after, unless the rows     *)
(* name what they object to; nothing typed into a row is dropped on the    *)
(* way to the text.                                                        *)
ViewsAgree ==
  [][mode' # mode /\ mounted /\ mounted' =>
       /\ OverridesValid /\ OverridesValid' => OverridesDays' = OverridesDays
       /\ mode' = "text" =>
            \A i \in DOMAIN rows : IsEmpty(rows[i]) \/ \E j \in DOMAIN text' : text'[j] = Listed(rows[i])]_formVars

(* checkRows, parseOverrides: a save sends what the reader sees.  Every    *)
(* repository that is listed is sent, and nothing that is not; and when it *)
(* is listed in rows, each row holds: none is overruled by another one     *)
(* that names the same repository, in whatever case, however the rows came *)
(* about.                                                                  *)
ListedNow == IF mode = "text" THEN text ELSE RowsToText(rows)
SentAsShown ==
  [][posted = Nothing /\ posted' # Nothing =>
       /\ \A i \in DOMAIN ListedNow : ListedNow[i] = Blank \/ ListedNow[i][1] \in DOMAIN posted'.days
       /\ \A name \in DOMAIN posted'.days : Contains(ListedNow, <<name, posted'.days[name]>>)
       /\ mode = "rows" => \A i, j \in DOMAIN ListedNow :
                              Folded[ListedNow[i][1]] = Folded[ListedNow[j][1]] => i = j]_formVars

(* ReminderSettings: what is typed into the form is changed by the reader  *)
(* only, and a request for the settings that fails, or answers with other  *)
(* settings, takes neither the form nor a value of it away.                *)
EditsKept ==
  [][mounted /\ reading' # reading => mounted' /\ UNCHANGED <<zone, selected, mode, rows, text>>]_formVars
=============================================================================
