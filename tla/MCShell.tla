------------------------------ MODULE MCShell -------------------------------
(* The parts of the page: the frame, the state of the synchronization, the *)
(* two lists, and the worker under it.  They share the address and the     *)
(* queries only, so a behaviour works on one of them.                      *)
EXTENDS AppShell, SyncStatus, PullRequests, RepositoriesPage, ServiceWorker

VARIABLE part

MCLink == {To("/attention", {"focus"}), To("/", {"repo"}), To("/prs/open", {"q"}),
           To("/settings", {"tab=schedule", "q"}), To("/lost", {"focus"})}
MCQueries == {{"repos", "follow-up", "shortcuts", "single-keys"}, {"about", "sync", "search"}}

Open == [merged |-> FALSE, state |-> "open", draft |-> FALSE, conflict |-> FALSE, checks |-> "success",
         review |-> "pending", repo |-> "r", words |-> {}]
Found1 == [Open EXCEPT !.words = {"x"}]
Conflict == [Found1 EXCEPT !.repo = "s", !.conflict = TRUE]
Approved == [Found1 EXCEPT !.review = "approved"]
MCFact == << {Open, [Open EXCEPT !.merged = TRUE, !.state = "closed"]},
             {Conflict, [Conflict EXCEPT !.conflict = FALSE, !.draft = TRUE, !.review = "changes_requested"]},
             {Approved, [Found1 EXCEPT !.review = "changes_requested", !.checks = "pending"]} >>
MCListLink == {[view |-> "open", page |-> 0, q |-> "", repo |-> ""],
               [view |-> "blocked", page |-> 2, q |-> "", repo |-> ""],
               [view |-> "approved", page |-> 1, q |-> "x", repo |-> "r"]}

MCRepository ==
  << [owner |-> "o", open |-> 1, attention |-> 1, conflicts |-> 0, found |-> {"", "a"}],
     [owner |-> "p", open |-> 2, attention |-> 1, conflicts |-> 1, found |-> {"", "a", "ab"}] >>
MCRepoLink == {[q |-> "", owner |-> "", scope |-> "", sort |-> ""],
               [q |-> "a", owner |-> "x", scope |-> "conflicts", sort |-> "none"]}

MCNeeded == << {"vendor", "entry1"}, {"vendor", "entry2"} >>
MCLazy == << {"page1"}, {"page2"} >>

(* Only the part at hand begins anywhere but in its first state.           *)
MCInit ==
  /\ part \in {"shell", "status", "list", "repositories", "worker"}
  /\ ShellInit /\ StatusInit /\ ListPageInit /\ RepoPageInit /\ WorkerInit
  /\ part # "shell" => addr = To("/lost", {"focus"}) /\ hearing[1] = "page"
  /\ github = <<Open, Conflict, Approved>>
  /\ part # "list" => at.view = "open"
  /\ part # "repositories" => drawn.q = ""

(* Few things happen at the end of a behaviour, and few at once.           *)
Plain == posts' = 0 /\ lost' = 0 /\ watched' = "none" /\ ~granted'

Shell ==
  /\ part = "shell" /\ ShellNext
  /\ visits' = MaxVisits => session' # "failed" /\ dueListed' /\ ~syncing'
  /\ UNCHANGED <<part, statusVars, listPageVars, repoPageVars, workerVars>>
Status ==
  /\ part = "status" /\ StatusNext
  /\ (runs' = MaxRuns \/ hour' > 0) => Plain
  /\ hour' > 0 => runs' < MaxRuns
  /\ UNCHANGED <<part, shellVars, listPageVars, repoPageVars, workerVars>>
List ==
  /\ part = "list" /\ ListPageNext
  /\ moves' = MaxMoves => ~offline' /\ mark' = NoPR
  /\ news' > 0 => mark' = NoPR
  /\ UNCHANGED <<part, shellVars, statusVars, repoPageVars, workerVars>>
Repositories ==
  /\ part = "repositories" /\ RepoPageNext
  /\ listed' \in {{}, Name}
  /\ <<load', listed'>> # <<load, listed>> => writes = 0
  /\ UNCHANGED <<part, shellVars, statusVars, listPageVars, workerVars>>
Worker ==
  /\ part = "worker" /\ WorkerNext
  /\ themeInit' = document' /\ (icon' # icon => deployed = 1)
  /\ deployed' > 1 => page' # "refused" /\ ~(hard' # "no" /\ (page = "crashed" \/ drops' = MaxDrops))
  /\ UNCHANGED <<part, shellVars, statusVars, listPageVars, repoPageVars>>

MCNext == Shell \/ Status \/ List \/ Repositories \/ Worker
MCSpec == MCInit /\ [][MCNext]_<<part, shellVars, statusVars, listPageVars, repoPageVars, workerVars>>

----------------------------------------------------------------------------
(* The values of the variables of the frame and of the state of the        *)
(* synchronization.                                                        *)
TypeOK == ShellTypeOK /\ StatusTypeOK
=============================================================================
