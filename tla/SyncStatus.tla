----------------------------- MODULE SyncStatus -----------------------------
(***************************************************************************)
(* How the web application follows a synchronization: the poll of its      *)
(* progress, the lists that are read again because of it, what the pill    *)
(* and the banners say, and the requests that start a run by hand or       *)
(* because GitHub access was granted.                                      *)
(*                                                                         *)
(* The lists are one list, whose content is a version: a run that saves    *)
(* makes the next one.  A request for them is sent, read and answered in   *)
(* steps of its own; the poll, the session, the access check and a request *)
(* for a run are answered in the step in which the server reads them, at   *)
(* any time after they were sent.  Time is counted in hours, the age at    *)
(* which a sync is stale.                                                  *)
(*                                                                         *)
(* Left out: wording and counts, the wait for a rate limit, signing out,   *)
(* the retry of a list request (it is part of the request), the time of    *)
(* the last sync that the session reports until the first poll.            *)
(***************************************************************************)
EXTENDS Integers, Selections

CONSTANTS
  MaxRuns,        \* bound of the runs
  MaxHours,       \* bound of the clock
  MaxPosts,       \* bound of the requests for a run
  MaxLost         \* bound of the requests that fail on the way

ASSUME StatusAssumption == MaxRuns \in Nat \ {0} /\ MaxHours \in Nat /\ MaxPosts \in Nat /\ MaxLost \in Nat

VARIABLES
  \* the server
  progress,       \* what a poll would answer
  rows,           \* the version of the stored rows
  runs, paused, granted,
  \* the poll and the session, as the page knows them
  polled, pollError,
  first,          \* which run the first answer of the poll was about
  authPaused,
  \* the lists
  shown,          \* the version on the screen, or NoList
  listOk,         \* FALSE while marked as out of date
  listing, listReply,
  joined,         \* a refresh was taken for one that had already been read
  \* requests to start a run
  post,           \* one from the button, one from the access watcher
  watched,        \* createAccessWatcher: last
  toast,          \* the error of the last request
  hour, posts, lost

pollVars == <<polled, pollError, first, authPaused>>
listVars == <<shown, listOk, listing, listReply, joined>>
postVars == <<post, watched, toast>>
serverVars == <<progress, rows, runs, paused, granted>>
statusVars == <<serverVars, pollVars, listVars, postVars, hour, posts, lost>>

NoList == -1
NoRun == -1
Never == 0
Idle == [status |-> "idle", phase |-> "history", mode |-> "full", at |-> 0, rows |-> 0, code |-> "", last |-> Never]
NoPoll == [Idle EXCEPT !.status = "none"]
Caller == {"button", "watcher"}

----------------------------------------------------------------------------
(* sync-model.ts.                                                          *)
Started(p) == p.status \in {"queued", "running"}
Pending == \E k \in Caller : post[k] # "none"
InFlight(p) == Pending \/ Started(p)

(* A short sync can start and finish between two polls, and the first poll *)
(* has nothing to compare with.                                            *)
RefreshAfterRunning(before, now) == before # NoPoll /\ before.status = "running" /\ now.status # "running"
ShouldRefresh(before, now) ==
  /\ before # NoPoll
  /\ \/ before.status = "running" /\ now.status # "running"
     \/ now.status = "complete" /\ (before.status # "complete" \/ before.at # now.at)

Failed(p) == p.status \in {"failed", "interrupted"}
LastSynced == polled.last
Health ==
  CASE authPaused -> "paused"
    [] ~authPaused /\ Failed(polled) -> "failed"
    [] ~authPaused /\ ~Failed(polled) /\ InFlight(polled) -> "syncing"
    [] OTHER -> IF pollError THEN "unknown"
                ELSE IF LastSynced = Never THEN "first"
                ELSE IF hour + 1 > LastSynced THEN "stale" ELSE "fresh"

(* Banners.tsx: at most two, in this order.                                *)
AsksToReconnect == ~authPaused /\ Failed(polled) /\ polled.code = "reconnect"
FirstSync == Started(polled) /\ polled.mode = "full"
Banners(oauthError) ==
  LET all == <<[key |-> "paused", said |-> authPaused], [key |-> "reconnect", said |-> AsksToReconnect],
               [key |-> "oauth", said |-> oauthError], [key |-> "first-sync", said |-> FirstSync]>>
      said == Selected(all, {n \in DOMAIN all : all[n].said})
  IN SubSeq(said, 1, IF Len(said) < 2 THEN Len(said) ELSE 2)

(* The three steps of the run, and which of them are done.                 *)
Stage(p) == IF p.phase = "details" THEN 2 ELSE IF p.phase = "saving" THEN 1 ELSE 0

(* The pill: the button in it waits for a run, whoever started it.         *)
SyncOffered == polled # NoPoll /\ ~InFlight(polled)

----------------------------------------------------------------------------
(* invalidateQueries: a request under way is replaced, but the very first  *)
(* one, which has nothing on the screen yet, is joined.                    *)
RefreshLists ==
  IF shown = NoList /\ listing # "none"
  THEN joined' = (joined \/ listing = "read") /\ UNCHANGED <<shown, listOk, listing, listReply>>
  ELSE listing' = "sent" /\ listReply' = 0 /\ joined' = FALSE /\ UNCHANGED <<shown, listOk>>

(* A run that is known to have started is the news, and an error about the *)
(* request for it is withdrawn.                                            *)
Withdrawn(text, p) == IF Started(p) THEN "" ELSE text

StatusInit ==
  /\ progress = Idle /\ rows = 0 /\ runs = 0 /\ paused = FALSE /\ granted = FALSE
  /\ polled = NoPoll /\ pollError = FALSE /\ first = NoRun /\ authPaused = FALSE
  /\ shown = NoList /\ listOk = FALSE /\ listing = "sent" /\ listReply = 0 /\ joined = FALSE
  /\ post = [k \in Caller |-> "none"] /\ watched = "none" /\ toast = "" /\ hour = 0 /\ posts = 0 /\ lost = 0

(* The poll, every second during a run and every half minute without one.  *)
Poll ==
  /\ progress # polled \/ pollError
  /\ polled' = progress /\ pollError' = FALSE
  /\ first' = IF first = NoRun THEN progress.at ELSE first
  /\ IF ShouldRefresh(polled, progress)
     THEN RefreshLists /\ authPaused' = paused
     ELSE UNCHANGED <<listVars, authPaused>>
  /\ toast' = Withdrawn(toast, progress)
  /\ UNCHANGED <<serverVars, post, watched, hour, posts, lost>>

Fault == lost < MaxLost /\ lost' = lost + 1
PollFails ==
  /\ ~pollError /\ Fault /\ pollError' = TRUE
  /\ UNCHANGED <<serverVars, polled, first, authPaused, listVars, postVars, hour, posts>>

(* The page follows a run every ten seconds.                               *)
RunTimer ==
  /\ Started(polled) /\ shown # rows /\ RefreshLists
  /\ UNCHANGED <<serverVars, pollVars, postVars, hour, posts, lost>>

RowsRead ==
  /\ listing = "sent" /\ listing' = "read" /\ listReply' = rows
  /\ UNCHANGED <<serverVars, pollVars, shown, listOk, joined, postVars, hour, posts, lost>>
RowsArrive ==
  /\ listing = "read" /\ listing' = "none" /\ listReply' = 0 /\ shown' = listReply /\ listOk' = TRUE
  /\ UNCHANGED <<serverVars, pollVars, joined, postVars, hour, posts, lost>>
RowsFail ==
  /\ listing # "none" /\ Fault /\ listing' = "none" /\ listReply' = 0 /\ listOk' = FALSE
  /\ UNCHANGED <<serverVars, pollVars, shown, joined, postVars, hour, posts>>

----------------------------------------------------------------------------
(* A request for a run.                                                    *)
PressSync ==
  /\ SyncOffered /\ posts < MaxPosts /\ posts' = posts + 1
  /\ post' = [post EXCEPT !["button"] = "sent"]
  /\ UNCHANGED <<serverVars, pollVars, listVars, watched, toast, hour, lost>>

(* The installation check: the first answer only says where access stands, *)
(* and a grant after it asks for a full run.                               *)
CheckAccess ==
  /\ watched # (IF granted THEN "yes" ELSE "no")
  /\ watched' = IF granted THEN "yes" ELSE "no"
  /\ post' = IF watched = "no" /\ granted THEN [post EXCEPT !["watcher"] = "sent"] ELSE post
  /\ UNCHANGED <<serverVars, pollVars, listVars, toast, hour, posts, lost>>

(* The server refuses it while a run holds the lock.  The answer, and its  *)
(* loss, have the lists read again, but the one of the follow-ups: the     *)
(* list here may be any of them.                                           *)
Accepted(k) ==
  /\ progress.status # "running" /\ ~paused
  /\ progress' = [progress EXCEPT !.status = "queued", !.phase = "account", !.code = "",
                    !.mode = IF k = "watcher" \/ progress.last = Never THEN "full" ELSE "incremental"]
SyncSettled(k) ==
  /\ post[k] = "sent" /\ post' = [post EXCEPT ![k] = "none"]
  /\ RefreshLists \/ UNCHANGED listVars
  /\ UNCHANGED <<rows, runs, paused, granted, pollVars, watched, hour, posts>>

Queued(k) == Accepted(k) /\ SyncSettled(k) /\ UNCHANGED <<toast, lost>>
Refused(k) ==
  /\ progress.status = "running" /\ UNCHANGED <<progress, lost>>
  /\ SyncSettled(k) /\ toast' = Withdrawn("already running", polled)
PostLost(k) ==
  /\ Fault /\ (Accepted(k) \/ UNCHANGED progress)
  /\ SyncSettled(k) /\ toast' = Withdrawn("network", polled)

DismissError ==
  /\ toast # "" /\ toast' = ""
  /\ UNCHANGED <<serverVars, pollVars, listVars, post, watched, hour, posts, lost>>

----------------------------------------------------------------------------
(* The server: a run is queued or due, saves, fetches details, ends.  One  *)
(* that fails for another reason is shown as one that is interrupted.      *)
ClientStill == UNCHANGED <<pollVars, listVars, postVars, posts, lost>>

RunStarts ==
  /\ progress.status # "running" /\ ~paused /\ runs < MaxRuns /\ runs' = runs + 1
  /\ progress' = [progress EXCEPT !.status = "running", !.phase = "history", !.code = ""]
  /\ ClientStill /\ UNCHANGED <<rows, paused, granted, hour>>

RunSaves ==
  /\ progress.status = "running" /\ progress.phase = "history"
  /\ rows' = rows + 1 /\ progress' = [progress EXCEPT !.phase = "saving"]
  /\ ClientStill /\ UNCHANGED <<runs, paused, granted, hour>>
RunFetchesDetails ==
  /\ progress.status = "running" /\ progress.phase = "saving"
  /\ progress' = [progress EXCEPT !.phase = "details"]
  /\ ClientStill /\ UNCHANGED <<rows, runs, paused, granted, hour>>

RunEnds(status, code) ==
  /\ progress.status = "running" /\ (status = "complete" => progress.phase = "details")
  /\ progress' = [progress EXCEPT !.status = status, !.code = code, !.at = runs, !.rows = rows,
                    !.last = IF status = "complete" THEN hour + 1 ELSE @]
  /\ paused' = (code = "reconnect")
  /\ ClientStill /\ UNCHANGED <<rows, runs, granted, hour>>

Grant == ~granted /\ granted' = TRUE /\ ClientStill /\ UNCHANGED <<progress, rows, runs, paused, hour>>
HourPasses == hour < MaxHours /\ hour' = hour + 1 /\ ClientStill /\ UNCHANGED serverVars

StatusNext ==
  \/ Poll \/ PollFails
  \/ RunTimer \/ RowsRead \/ RowsArrive \/ RowsFail
  \/ PressSync \/ CheckAccess \/ DismissError
  \/ \E k \in Caller : Queued(k) \/ Refused(k) \/ PostLost(k)
  \/ RunStarts \/ RunSaves \/ RunFetchesDetails
  \/ RunEnds("complete", "") \/ RunEnds("failed", "reconnect") \/ RunEnds("interrupted", "")
  \/ Grant \/ HourPasses

StatusSpec == StatusInit /\ [][StatusNext]_statusVars

----------------------------------------------------------------------------
(* The values of the variables; an error about a request is not shown      *)
(* during the run it asked for; a run that ended for want of authorization *)
(* is said above the page.                                                 *)
StatusTypeOK ==
  /\ polled.status \in {"none", "idle", "queued", "running", "complete", "failed", "interrupted"}
  /\ Stage(polled) \in 0 .. 2 /\ listing \in {"none", "sent", "read"}
  /\ shown \in NoList .. rows /\ rows <= runs /\ runs \in 0 .. MaxRuns
  /\ post \in [Caller -> {"none", "sent"}]
  /\ watched \in {"none", "no", "yes"} /\ toast \in {"", "already running", "network"}
  /\ Started(polled) => toast = ""
  /\ polled.code = "reconnect" => \A e \in BOOLEAN : Banners(e)[1].key \in {"paused", "reconnect"}

(* SyncProgress.tsx: "The pill says in a few words whether the data on     *)
(* screen can be trusted".  When it calls a sync fresh that ended since    *)
(* the page was opened, and no request for the lists is under way, failed  *)
(* or joined, the lists hold what that sync wrote, however short it was.   *)
FreshMeansCaughtUp ==
  (/\ Health = "fresh" /\ polled.at # first
   /\ listing = "none" /\ listOk /\ ~joined) => shown >= polled.rows
=============================================================================
