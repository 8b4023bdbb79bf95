-------------------------- MODULE RepositoriesPage --------------------------
(***************************************************************************)
(* The page of the repositories: a list that is narrowed and sorted in the *)
(* browser, whose every control writes the address, and the search field   *)
(* in it, which shows a draft of its own while the address lags behind.    *)
(*                                                                         *)
(* The router draws the page a while after the address was written, and    *)
(* may skip an address that another one has replaced.  Until then what a   *)
(* control writes is made from the address that the page was drawn with.   *)
(*                                                                         *)
(* Left out: the history entries, the wording, where a count leads.        *)
(***************************************************************************)
EXTENDS Integers, FiniteSets, Selections

CONSTANTS
  Repository,     \* per repository its owner, its counts and the texts it is found by
  Text,           \* what the reader types, "" included
  RepoLink,       \* the addresses that a link or Back opens
  MaxWrites       \* bound of the changes of the address

Name == DOMAIN Repository
IsPlace(a) == a = [q |-> a.q, owner |-> a.owner, scope |-> a.scope, sort |-> a.sort]

ASSUME RepositoriesAssumption ==
  /\ Name \subseteq Nat /\ IsFiniteSet(Name) /\ "" \in Text /\ MaxWrites \in Nat
  /\ \A r \in Name : LET repo == Repository[r] IN
       "" \in repo.found /\ repo.open \in Nat /\ repo.attention \in Nat /\ repo.conflicts \in Nat
  /\ \A a \in RepoLink : IsPlace(a)

VARIABLES
  listed, load,   \* the repositories, and "loading", "ok", "old" or "failed"
  drawn,          \* the address that the page was drawn with
  due,            \* the addresses written since
  draft, sent,    \* SearchField
  others,         \* something but the field has changed the search since the reader typed
  writes

repoPageVars == <<listed, load, drawn, due, draft, sent, others, writes>>

Address == IF due = <<>> THEN drawn ELSE Last(due)
AtRest == due = <<>>

----------------------------------------------------------------------------
(* What the page shows.                                                    *)
ScopeOf(a) == IF a.scope \in {"attention", "conflicts"} THEN a.scope ELSE "all"
SortOf(a) == IF a.sort \in {"name", "open"} THEN a.sort ELSE "attention"
Owners == {Repository[r].owner : r \in listed}
InScope(r, scope) ==
  /\ scope = "attention" => Repository[r].attention > 0
  /\ scope = "conflicts" => Repository[r].conflicts > 0
Narrowed(a) ==
  {r \in listed : /\ a.owner \in {"", Repository[r].owner} /\ a.q \in Repository[r].found
                  /\ InScope(r, ScopeOf(a))}
Before(sort, r, s) ==
  LET more(count) == Repository[r][count] > Repository[s][count]
      same(count) == Repository[r][count] = Repository[s][count] IN
  CASE sort = "name" -> r < s
    [] sort = "open" -> more("open") \/ (same("open") /\ r < s)
    [] OTHER -> \/ more("attention")
                \/ same("attention") /\ more("conflicts")
                \/ same("attention") /\ same("conflicts") /\ r < s
Rows == Ranked(Narrowed(drawn), {p \in listed \X listed : Before(SortOf(drawn), p[1], p[2])})
Filtered == drawn.q # "" \/ drawn.owner # "" \/ ScopeOf(drawn) # "all"
ScopeCount(scope) == Cardinality({r \in listed : InScope(r, scope)})
Page ==
  CASE load = "loading" -> "skeleton"
    [] load = "failed" -> "unavailable"
    [] OTHER -> IF Rows = <<>> THEN IF Filtered THEN "no results" ELSE "no repositories" ELSE "rows"

----------------------------------------------------------------------------
(* SearchField.                                                            *)
Echo(value, list) == SelectInSeq(list, LAMBDA text : text = value)
SinceEcho(value, list) == SubSeq(list, Echo(value, list) + 1, Len(list))
NothingSent(value, list) == <<>>
(* The effect of another value: one that the field has reported is an      *)
(* echo, any other replaces the draft.                                     *)
EchoTaken(value) == Echo(value, sent) > 0
EchoIgnored(value) == FALSE
IsEcho(value) == EchoTaken(value)
Left(value, list) == SinceEcho(value, list)

Draw(n) ==
  /\ drawn' = due[n] /\ due' = SubSeq(due, n + 1, Len(due))
  /\ IF drawn'.q = drawn.q THEN UNCHANGED <<draft, sent>>
     ELSE /\ draft' = IF IsEcho(drawn'.q) THEN draft ELSE drawn'.q
          /\ sent' = IF IsEcho(drawn'.q) THEN Left(drawn'.q, sent) ELSE <<>>
  /\ UNCHANGED <<listed, load, others, writes>>

Write(a) ==
  /\ writes < MaxWrites /\ writes' = writes + 1
  /\ due' = Append(due, a) /\ UNCHANGED <<listed, load, drawn>>

(* The reader types, or empties the field with its button or with Escape.  *)
Update(text) ==
  /\ text # draft /\ draft' = text /\ sent' = Append(sent, text)
  /\ Write([drawn EXCEPT !.q = text])
  /\ others' = (others /\ ~AtRest)

(* Another control.                                                        *)
Elsewhere(a) ==
  /\ Write(a) /\ others' = (others \/ a.q # Address.q)
  /\ UNCHANGED <<draft, sent>>
ChooseScope(scope) == ScopeOf(drawn) # scope /\ Elsewhere([drawn EXCEPT !.scope = IF scope = "all" THEN "" ELSE scope])
ChooseOwner(owner) == drawn.owner # owner /\ Elsewhere([drawn EXCEPT !.owner = owner])
ChooseSort(sort) == SortOf(drawn) # sort /\ Elsewhere([drawn EXCEPT !.sort = sort])
ClearAll == Filtered /\ Elsewhere([drawn EXCEPT !.q = "", !.owner = "", !.scope = ""])
FollowRepoLink(a) == a # Address /\ Elsewhere(a)

----------------------------------------------------------------------------
ListArrives(rs) ==
  /\ rs # listed \/ load # "ok"
  /\ listed' = rs /\ load' = "ok"
  /\ UNCHANGED <<drawn, due, draft, sent, others, writes>>
ListFails ==
  /\ load' = IF load \in {"ok", "old"} THEN "old" ELSE "failed"
  /\ load' # load
  /\ UNCHANGED <<listed, drawn, due, draft, sent, others, writes>>
TryAgain ==
  /\ load = "failed" /\ load' = "loading"
  /\ UNCHANGED <<listed, drawn, due, draft, sent, others, writes>>

RepoPageInit ==
  /\ listed = {} /\ load = "loading"
  /\ drawn \in RepoLink /\ due = <<>>
  /\ draft = drawn.q /\ sent = <<>> /\ others = FALSE /\ writes = 0

RepoPageNext ==
  \/ \E n \in DOMAIN due : Draw(n)
  \/ \E text \in Text : Update(text)
  \/ \E scope \in {"all", "attention", "conflicts"} : ChooseScope(scope)
  \/ \E owner \in {""} \cup Owners : ChooseOwner(owner)
  \/ \E sort \in {"attention", "open", "name"} : ChooseSort(sort)
  \/ \E a \in RepoLink : FollowRepoLink(a)
  \/ ClearAll \/ ListFails \/ TryAgain
  \/ \E rs \in SUBSET Name : ListArrives(rs)

RepoPageSpec == RepoPageInit /\ [][RepoPageNext]_repoPageVars

----------------------------------------------------------------------------
(* ui-controls.tsx, SearchField: "an echo of something this field already  *)
(* reported must not overwrite what has been typed since".  From when the  *)
(* reader types into a page at rest until something else changes the       *)
(* search, the field shows what the address narrows by, however the drawn  *)
(* addresses lag; and in a page at rest, with nothing reported that did    *)
(* not come back, it shows what the rows were narrowed by.                 *)
FieldAgrees ==
  /\ ~others => draft = Address.q
  /\ (AtRest /\ sent = <<>> /\ Page = "rows") =>
       \A n \in DOMAIN Rows : draft \in Repository[Rows[n]].found
  /\ (AtRest /\ sent = <<>> /\ Page = "no repositories") => draft = ""
=============================================================================
