---------------------------- MODULE PullRequests ----------------------------
(***************************************************************************)
(* The list of pull requests: the view, search, repository and page of its *)
(* address, the request that asks the server for them, the answers kept    *)
(* per list, the rows of the last list that stand in while the next one is *)
(* on its way, and what a row says about its pull request.                 *)
(*                                                                         *)
(* What GitHub says of a pull request is a member of Fact.  The server     *)
(* reads its rows in the step in which the answer arrives.  offline is     *)
(* what the browser last said of its connection: requests wait under it.   *)
(*                                                                         *)
(* Left out: the counts on the pills, the chip of the follow-up, wording,  *)
(* dates, the links to GitHub, and the cursor's scrolling.                 *)
(***************************************************************************)
EXTENDS Integers, FiniteSets, Selections

CONSTANTS
  Fact,           \* what GitHub may say of each pull request, a function to sets
  ListLink,       \* the addresses that a link, a bookmark or Back opens
  ListView, Typed,    \* the pills, and what the reader searches for
  PageSize,
  MaxNews,        \* bound of the changes on GitHub
  MaxMoves        \* bound of the changes of the address

PR == DOMAIN Fact
NoPR == 0

Views == {"open", "review-requested", "changes-requested", "approved", "blocked", "merged"}
Reviews == {"pending", "review_requested", "changes_requested", "approved"}
IsListAddress(a) == a = [view |-> a.view, page |-> a.page, q |-> a.q, repo |-> a.repo] /\ a.view \in Views
(* GitHub closes a pull request when it is merged.                         *)
IsFact(f) == f.state \in {"open", "closed"} /\ f.review \in Reviews /\ (f.merged => f.state = "closed")

ASSUME ListAssumption ==
  /\ PR \subseteq Nat \ {NoPR} /\ IsFiniteSet(PR) /\ PageSize \in Nat \ {0}
  /\ \A p \in PR : \A f \in Fact[p] : IsFact(f)
  /\ (\A a \in ListLink : IsListAddress(a)) /\ ListView \subseteq Views
  /\ MaxNews \in Nat /\ MaxMoves \in Nat

VARIABLES
  github,         \* the rows that the server stores
  at,             \* the address
  answers,        \* the cached answers, per list
  previous,       \* the last answer that was shown, or NoAnswer
  fetch,          \* of the list in the address: "idle", "fetching", "paused"
  failed,         \* the lists whose last request failed
  mark,           \* the row of the keyboard cursor, or NoPR
  offline, news, moves

listPageVars == <<github, at, answers, previous, fetch, failed, mark, offline, news, moves>>

----------------------------------------------------------------------------
(* The address and the list it names.  A page is counted from 1 in the     *)
(* address and from 0 in the request.                                      *)
PageLimit == 100000
PageOf(page) == IF page \in 1 .. PageLimit THEN page - 1 ELSE 0
ListKey(a) == [view |-> a.view, page |-> PageOf(a.page), q |-> a.q, repo |-> a.repo]
ListKeyWithoutRepo(a) == [ListKey(a) EXCEPT !.repo = ""]
KeyOf(a) == ListKey(a)

(* listParameters.                                                         *)
Request(a) ==
  [offset |-> PageOf(a.page) * PageSize, repo |-> a.repo, search |-> a.q,
   attention |-> a.view = "blocked", merged |-> a.view = "merged",
   state |-> IF a.view \in {"blocked", "merged"} THEN "" ELSE "open",
   review |-> CASE a.view = "review-requested" -> "review_requested"
                [] a.view = "changes-requested" -> "changes_requested"
                [] a.view = "approved" -> "approved"
                [] OTHER -> ""]

(* The rows of a list on the server, those of one page and their number.   *)
Red == {"failure", "error"}
Selects(r, f) ==
  /\ CASE r.merged -> f.merged
       [] r.state # "" -> f.state = r.state
       [] OTHER -> f.state = "open" /\ ~f.merged
  /\ r.review \in {"", f.review} /\ r.repo \in {"", f.repo} /\ r.search \in {""} \cup f.words
  /\ r.attention => f.state = "open" /\ ~f.merged /\ (f.conflict \/ f.review = "changes_requested" \/ f.checks \in Red)
NewestFirst == {p \in PR \X PR : p[1] > p[2]}
Answer(r) ==
  LET all == Ranked({p \in PR : Selects(r, github[p])}, NewestFirst) IN
  [total |-> Len(all),
   rows |-> [n \in 1 .. (IF Len(all) - r.offset > PageSize THEN PageSize
                         ELSE IF Len(all) > r.offset THEN Len(all) - r.offset ELSE 0) |->
              [id |-> all[r.offset + n], fact |-> github[all[r.offset + n]]]]]
NoAnswer == [total |-> -1, rows |-> <<>>]

(* What a row says.                                                        *)
StatusOf(f) ==
  CASE f.merged -> "merged"
    [] ~f.merged /\ f.state = "closed" -> "closed"
    [] ~f.merged /\ f.state = "open" /\ f.draft -> "draft"
    [] OTHER -> f.review
StatusReviewFirst(f) == IF f.review # "pending" THEN f.review ELSE IF f.draft THEN "draft" ELSE f.state
PRStatus(f) == StatusOf(f)
ChecksChip(f) == CASE f.checks \in Red -> "failing" [] f.checks = "pending" -> "pending" [] OTHER -> ""
PRTone(f) ==
  CASE f.merged \/ f.state = "closed" -> "neutral"
    [] ~f.merged /\ f.state = "open" /\ (f.conflict \/ f.checks \in Red) -> "blocked"
    [] OTHER -> CASE f.draft -> "neutral"
                  [] ~f.draft /\ f.review = "changes_requested" -> "action"
                  [] ~f.draft /\ f.review = "review_requested" -> "waiting"
                  [] ~f.draft /\ f.review = "approved" -> "ready"
                  [] OTHER -> "neutral"

----------------------------------------------------------------------------
(* What is on the screen.                                                  *)
Cached(k) == IF k \in DOMAIN answers THEN answers[k] ELSE NoAnswer
Kept == Cached(KeyOf(at))
StandsIn == Kept = NoAnswer /\ KeyOf(at) \notin failed /\ previous # NoAnswer
Data == IF StandsIn THEN previous ELSE Kept
(* A request that waits without an answer shows no rows, as an empty list. *)
Body ==
  CASE Data = NoAnswer /\ KeyOf(at) \in failed -> "unavailable"
    [] Data = NoAnswer /\ KeyOf(at) \notin failed /\ fetch = "fetching" -> "loading"
    [] OTHER -> IF Data.rows = <<>> THEN "empty" ELSE "rows"
Shown == {Data.rows[n].id : n \in DOMAIN Data.rows}
OnTheWay == StandsIn /\ fetch = "fetching"
Paged == Body = "rows" /\ Data.total > PageSize
CanGoBack == Paged /\ PageOf(at.page) > 0 /\ ~OnTheWay
CanGoOn ==
  /\ Paged /\ ~OnTheWay /\ KeyOf(at) \notin failed
  /\ (PageOf(at.page) + 1) * PageSize < Data.total

----------------------------------------------------------------------------
(* A list is asked for: at once, or when the browser is online again.      *)
Ask == fetch' = IF offline THEN "paused" ELSE "fetching"

(* The page is shown with another list.  An answer of the last half minute *)
(* is not asked for again; a request for the list that was left is given   *)
(* up, and so is the keyboard's row.                                       *)
Show(a, last) ==
  LET k == KeyOf(a) IN
  /\ at' = a
  /\ previous' = IF Cached(k) # NoAnswer THEN Cached(k) ELSE last
  /\ \/ Ask
     \/ Cached(k) # NoAnswer /\ fetch' = "idle"
  /\ failed' = IF Cached(k) = NoAnswer THEN failed \ {k} ELSE failed
  /\ mark' = NoPR

ListGoes(a) ==
  /\ moves < MaxMoves /\ moves' = moves + 1 /\ a # at
  /\ IF KeyOf(a) = KeyOf(at)
     THEN at' = a /\ UNCHANGED <<previous, fetch, failed, mark>>
     ELSE Show(a, previous)
  /\ UNCHANGED <<github, answers, offline, news>>

SetPage(n) == ListGoes([at EXCEPT !.page = n + 1])
Next == CanGoOn /\ SetPage(PageOf(at.page) + 1)
Previous == CanGoBack /\ SetPage(PageOf(at.page) - 1)
FirstPage == Body = "empty" /\ PageOf(at.page) > 0 /\ SetPage(0)
UpdateSearch(word) == ListGoes([at EXCEPT !.q = word, !.page = 1])
FilterRepository(n) == Body = "rows" /\ ListGoes([at EXCEPT !.repo = Data.rows[n].fact.repo, !.page = 1])
ClearRepository == at.repo # "" /\ ListGoes([at EXCEPT !.repo = "", !.page = 1])
ClearFilters ==
  /\ Body = "empty" /\ PageOf(at.page) = 0 /\ (at.q # "" \/ at.repo # "")
  /\ ListGoes([at EXCEPT !.q = "", !.repo = "", !.page = 1])
(* A pill keeps the search and the repository, and drops the page.         *)
ShowView(v) == ListGoes([at EXCEPT !.view = v, !.page = 1])
FollowLink(a) == ListGoes(a)

(* The page is left for another and opened by a link: it has no last list. *)
Reopen(a) ==
  /\ moves < MaxMoves /\ moves' = moves + 1
  /\ Show(a, NoAnswer)
  /\ UNCHANGED <<github, answers, offline, news>>

----------------------------------------------------------------------------
Answered ==
  /\ fetch = "fetching" /\ ~offline /\ fetch' = "idle"
  /\ answers' = [k \in DOMAIN answers \cup {KeyOf(at)} |->
                   IF k = KeyOf(at) THEN Answer(Request(at)) ELSE answers[k]]
  /\ previous' = answers'[KeyOf(at)]
  /\ failed' = failed \ {KeyOf(at)}
  /\ UNCHANGED <<github, at, mark, offline, news, moves>>

(* The request failed, and so did the one that was tried after it.         *)
Fails ==
  /\ fetch = "fetching" /\ ~offline /\ fetch' = "idle"
  /\ failed' = failed \cup {KeyOf(at)}
  /\ UNCHANGED <<github, at, answers, previous, mark, offline, news, moves>>

(* Every minute, when the window is looked at again, by Try again, and     *)
(* after a request for a run.                                              *)
Refetch ==
  /\ fetch = "idle" /\ Ask
  /\ failed' = IF Kept = NoAnswer THEN failed \ {KeyOf(at)} ELSE failed
  /\ UNCHANGED <<github, at, answers, previous, mark, offline, news, moves>>

(* The connection goes, and what was asked waits to be tried again; or it  *)
(* returns.                                                                *)
Connection ==
  /\ offline' = ~offline
  /\ fetch' = CASE fetch = "fetching" /\ ~offline -> "paused" [] fetch = "paused" /\ offline -> "fetching" [] OTHER -> fetch
  /\ UNCHANGED <<github, at, answers, previous, failed, mark, news, moves>>

(* An answer that nothing shows is dropped after half an hour.             *)
Forgotten ==
  \E k \in DOMAIN answers \ {KeyOf(at)} :
    /\ answers' = Restrict(answers, DOMAIN answers \ {k})
    /\ failed' = failed \ {k}
    /\ UNCHANGED <<github, at, previous, fetch, mark, offline, news, moves>>

Changes(p, f) ==
  /\ news < MaxNews /\ news' = news + 1
  /\ f # github[p] /\ github' = [github EXCEPT ![p] = f]
  /\ UNCHANGED <<at, answers, previous, fetch, failed, mark, offline, moves>>

----------------------------------------------------------------------------
(* The keyboard.                                                           *)
Marks(p) ==
  /\ p # mark /\ mark' = p
  /\ UNCHANGED <<github, at, answers, previous, fetch, failed, offline, news, moves>>
MarkNext(step) ==
  /\ Body = "rows"
  /\ LET now == {n \in DOMAIN Data.rows : Data.rows[n].id = mark}
         n == IF now = {} THEN 1 ELSE (CHOOSE i \in now : TRUE) + step IN
     Marks(Data.rows[IF n < 1 THEN 1 ELSE IF n > Len(Data.rows) THEN Len(Data.rows) ELSE n].id)
OpenActivity(p) == Body = "rows" /\ p \in Shown /\ Marks(p)
Unmark == mark # NoPR /\ Marks(NoPR)

ListPageInit ==
  /\ github \in [PR -> UNION {Fact[p] : p \in PR}] /\ \A p \in PR : github[p] \in Fact[p]
  /\ at \in ListLink
  /\ answers = <<>> /\ previous = NoAnswer /\ failed = {} /\ mark = NoPR
  /\ offline = FALSE /\ fetch = "fetching"
  /\ news = 0 /\ moves = 0

ListPageNext ==
  \/ Next \/ Previous \/ FirstPage \/ ClearRepository \/ ClearFilters
  \/ \E w \in Typed : UpdateSearch(w)
  \/ \E v \in ListView : ShowView(v)
  \/ \E a \in ListLink : FollowLink(a) \/ Reopen(a)
  \/ \E n \in DOMAIN Data.rows : FilterRepository(n)
  \/ \E p \in PR : OpenActivity(p) \/ \E f \in Fact[p] : Changes(p, f)
  \/ MarkNext(1) \/ MarkNext(-1) \/ Unmark
  \/ Answered \/ Fails \/ Refetch \/ Connection \/ Forgotten

ListPageSpec == ListPageInit /\ [][ListPageNext]_listPageVars

----------------------------------------------------------------------------
(* What of a row shows that it is of the view.  The status of a draft      *)
(* hides what its reviewers said.                                          *)
SaysWhy(view, f) ==
  CASE view = "merged" -> PRStatus(f) = "merged"
    [] view = "blocked" ->
         /\ f.conflict \/ ChecksChip(f) = "failing" \/ PRStatus(f) \in {"changes_requested", "draft"}
         /\ PRTone(f) \in {"blocked", "action"} \/ f.draft
    [] view = "open" -> PRStatus(f) \notin {"merged", "closed"}
    [] OTHER -> PRStatus(f) \in {Request([at EXCEPT !.view = view]).review, "draft"}

(* pr-model.ts, queries.ts: "keep the rows ... on screen instead of        *)
(* replacing them".  Rows which are not those of a list that is only kept  *)
(* on the screen until the next one arrives are of the list that the       *)
(* address names, and each says what brought it there: the parameters of   *)
(* the request, the key of its answer, the rows of the server and the      *)
(* labels of the page agree.                                               *)
RowsBelong ==
  (Body = "rows" /\ ~StandsIn) =>
    \A n \in DOMAIN Data.rows :
      /\ Selects(Request(at), Data.rows[n].fact)
      /\ SaysWhy(at.view, Data.rows[n].fact)
=============================================================================
