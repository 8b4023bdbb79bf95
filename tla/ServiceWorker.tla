--------------------------- MODULE ServiceWorker ----------------------------
(***************************************************************************)
(* The service worker and what surrounds it: the copy of the application   *)
(* that a device keeps, the launch of the application from the network or  *)
(* from that copy, the parts of a build that are loaded when a page needs  *)
(* them, the one reload after a part is gone, and the hard reload.         *)
(*                                                                         *)
(* A build is a document and the parts it names; a part whose content does *)
(* not change keeps its name.  The server has the parts of the last build. *)
(* icon stands for the public files, whose names do not change.            *)
(*                                                                         *)
(* Left out: the HTTP cache of the browser, which may hold more, the API   *)
(* requests, which the worker declines, and what a page shows.             *)
(***************************************************************************)
EXTENDS Integers, FiniteSets, SequencesExt

CONSTANTS
  Needed,         \* per build the parts that its launch loads
  Lazy,           \* per build the parts that its pages load
  AssetLimit,     \* how many files the cache keeps
  MaxDrops        \* bound of the changes of the connection

Build == DOMAIN Needed
None == 0
Icon == "icon"

ASSUME WorkerAssumption ==
  /\ Build \subseteq Nat \ {None} /\ DOMAIN Lazy = Build
  /\ AssetLimit \in Nat \ {0} /\ MaxDrops \in Nat

VARIABLES
  deployed,       \* the build of the server
  reaches,        \* the server answers
  onLine,         \* what the browser reports; it reports no connection only when there is none
  worker,         \* "none" or "active"
  waiting,        \* a newer one is installed
  document,       \* the build whose document the shell cache holds, or None
  themeInit,      \* ... whose theme script it holds
  files,          \* the asset cache, oldest first
  icon,           \* the build of the icon in it
  page,           \* "closed", "loading", "open", "crashed", "refused": what the server
                  \* said instead, or "dead": the browser's error page
  build,          \* the build of the page
  loaded,         \* the parts that it has loaded
  controlled,     \* the page's requests pass through the worker
  chunkReload,    \* sessionStorage
  hard,           \* a hard reload: "no", "sweeping" or "reloading"
  pressed,        \* what the browser reported when it was asked for
  drops

cacheVars == <<document, themeInit, files, icon>>
pageVars == <<page, build, loaded, controlled, chunkReload>>
hardVars == <<hard, pressed>>
workerVars == <<deployed, reaches, onLine, worker, waiting, cacheVars, pageVars, hardVars, drops>>

----------------------------------------------------------------------------
(* A file is put at the end of the cache, which is trimmed from its start. *)
Put(list, file) ==
  LET all == Append(SelectSeq(list, LAMBDA f : f # file), file) IN
  SubSeq(all, IF Len(all) > AssetLimit THEN Len(all) - AssetLimit + 1 ELSE 1, Len(all))
(* Storing fails without a word when the storage is full.                  *)
MayPut(list, file) == {list, Put(list, file)}

(* The document and the theme script: from the network, or else from the   *)
(* cache.  What a server that reaches the page says is shown, also when it *)
(* is not the document; then it is not kept.                               *)
OpenDocument ==
  /\ hard' = "no" /\ pressed' = FALSE /\ loaded' = {}
  /\ controlled' = (worker = "active")
  /\ IF reaches
     THEN \/ /\ build' = deployed /\ page' = "loading"
             /\ document' \in IF controlled' THEN {document, deployed} ELSE {document}
             /\ themeInit' \in IF controlled' THEN {themeInit, deployed} ELSE {themeInit}
          \/ /\ build' = None /\ page' = "refused"
             /\ UNCHANGED <<document, themeInit>>
     ELSE /\ IF controlled' /\ document # None
             THEN build' = document /\ page' = "loading"
             ELSE build' = None /\ page' = "dead"
          /\ UNCHANGED <<document, themeInit>>

(* A part: from the cache, or else from the network and into the cache.    *)
Fetched(file) == reaches /\ file \in Needed[deployed] \cup Lazy[deployed]
Load(file) ==
  \/ controlled /\ Contains(files, file) /\ UNCHANGED files
  \/ ~(controlled /\ Contains(files, file)) /\ Fetched(file)
     /\ files' \in IF controlled THEN MayPut(files, file) ELSE {files}
CannotLoad(file) == ~(controlled /\ Contains(files, file)) /\ ~Fetched(file)

----------------------------------------------------------------------------
(* The application is opened, in a new session, or the page is reloaded.   *)
Launch ==
  /\ page = "closed" /\ OpenDocument /\ chunkReload' = FALSE
  /\ UNCHANGED <<deployed, reaches, onLine, worker, waiting, files, icon, drops>>
Reload ==
  /\ page # "closed" /\ OpenDocument
  /\ UNCHANGED <<deployed, reaches, onLine, worker, waiting, files, icon, chunkReload, drops>>
Close ==
  /\ page # "closed" /\ page' = "closed" /\ build' = None /\ loaded' = {} /\ controlled' = FALSE
  /\ hard' = "no" /\ pressed' = FALSE
  /\ chunkReload' = FALSE
  /\ UNCHANGED <<deployed, reaches, onLine, worker, waiting, cacheVars, drops>>

(* The launch loads a part; with the last of them the page is open.  A     *)
(* part that cannot be loaded leaves an empty page.                        *)
LaunchLoads(file) ==
  /\ page = "loading" /\ file \in Needed[build] \ loaded
  /\ \/ /\ Load(file) /\ loaded' = loaded \cup {file}
        /\ page' = IF Needed[build] \subseteq loaded' THEN "open" ELSE "loading"
     \/ CannotLoad(file) /\ page' = "dead" /\ UNCHANGED <<files, loaded>>
  /\ UNCHANGED <<deployed, reaches, onLine, worker, waiting, document, themeInit, icon, build, controlled,
                 chunkReload, hardVars, drops>>

(* A page is shown for the first time.  When its part is gone, which is    *)
(* so after a deploy, one reload of the session adopts the new build; a    *)
(* second failure, and any other error, stays on the screen.               *)
PageLoads(file) ==
  /\ page = "open" /\ file \in Lazy[build] \ loaded /\ Load(file) /\ loaded' = loaded \cup {file}
  /\ UNCHANGED <<deployed, reaches, onLine, worker, waiting, document, themeInit, icon, page, build, controlled, chunkReload,
                 hardVars, drops>>
ChunkGone(file) ==
  /\ page = "open" /\ file \in Lazy[build] \ loaded /\ CannotLoad(file)
  /\ IF chunkReload
     THEN /\ page' = "crashed"
          /\ UNCHANGED <<build, loaded, controlled, chunkReload, document, themeInit, hardVars>>
     ELSE OpenDocument /\ chunkReload' = TRUE
  /\ UNCHANGED <<deployed, reaches, onLine, worker, waiting, files, icon, drops>>
Crash ==
  /\ page = "open" /\ page' = "crashed"
  /\ UNCHANGED <<deployed, reaches, onLine, worker, waiting, cacheVars, build, loaded, controlled, chunkReload,
                 hardVars, drops>>

(* A public file is answered from the cache and replaced behind it.        *)
ShowIcon ==
  /\ page = "open" /\ controlled /\ reaches
  /\ files' \in MayPut(files, Icon)
  /\ icon' = IF files' = files /\ ~Contains(files, Icon) THEN None
             ELSE IF Contains(files, Icon) /\ files' = files THEN icon ELSE deployed
  /\ UNCHANGED <<deployed, reaches, onLine, worker, waiting, document, themeInit, pageVars, hardVars, drops>>

----------------------------------------------------------------------------
(* The worker is registered after the page has loaded, again when a deploy *)
(* changed it, and takes over at once.  It deletes the caches that earlier *)
(* versions of it left: all but those it names.                            *)
WithoutAssets == {"shell"}
CurrentCaches == {"shell", "assets"}
KeptIn(cache, content, empty) == IF cache \in CurrentCaches THEN content ELSE empty
Install ==
  /\ page = "open" /\ reaches /\ ~waiting
  /\ waiting' = TRUE /\ document' = deployed /\ themeInit' = deployed
  /\ UNCHANGED <<deployed, reaches, onLine, worker, files, icon, pageVars, hardVars, drops>>
Activate ==
  /\ waiting /\ waiting' = FALSE /\ worker' = "active"
  /\ controlled' = (page \in {"loading", "open", "crashed", "refused"})
  /\ document' = KeptIn("shell", document, None) /\ themeInit' = KeptIn("shell", themeInit, None)
  /\ files' = KeptIn("assets", files, <<>>) /\ icon' = KeptIn("assets", icon, None)
  /\ UNCHANGED <<deployed, reaches, onLine, page, build, loaded, chunkReload, hardVars, drops>>

(* The hard reload: it looks whether there is a connection, sweeps the     *)
(* caches if so, asks for a newer worker, and reloads.                     *)
SweepsOnline == onLine
SweepsAlways == TRUE
Sweeps == SweepsOnline
PressHardReload ==
  /\ page \in {"open", "crashed"} /\ hard = "no"
  /\ hard' = (IF Sweeps THEN "sweeping" ELSE "reloading") /\ pressed' = onLine
  /\ UNCHANGED <<deployed, reaches, onLine, worker, waiting, cacheVars, pageVars, drops>>
(* A sweep may fail half way.                                              *)
Sweep ==
  /\ hard = "sweeping" /\ hard' = "reloading"
  /\ document' \in {document, None} /\ themeInit' = IF document' = None THEN None ELSE themeInit
  /\ \/ files' = <<>> /\ icon' = None
     \/ UNCHANGED <<files, icon>>
  /\ UNCHANGED <<deployed, reaches, onLine, worker, waiting, pageVars, pressed, drops>>
HardReloads == hard = "reloading" /\ Reload

----------------------------------------------------------------------------
Deploy ==
  /\ deployed + 1 \in Build /\ deployed' = deployed + 1
  /\ UNCHANGED <<reaches, onLine, worker, waiting, cacheVars, pageVars, hardVars, drops>>
NetworkChanges ==
  /\ drops < MaxDrops /\ drops' = drops + 1
  /\ reaches' \in BOOLEAN /\ onLine' \in BOOLEAN /\ (reaches' => onLine')
  /\ reaches' # reaches \/ onLine' # onLine
  /\ UNCHANGED <<deployed, worker, waiting, cacheVars, pageVars, hardVars>>

WorkerInit ==
  /\ deployed = 1 /\ reaches = TRUE /\ onLine = TRUE /\ worker = "none" /\ waiting = FALSE
  /\ document = None /\ themeInit = None /\ files = <<>> /\ icon = None
  /\ page = "closed" /\ build = None /\ loaded = {} /\ controlled = FALSE /\ chunkReload = FALSE
  /\ hard = "no" /\ pressed = FALSE /\ drops = 0

WorkerNext ==
  \/ Launch \/ Reload \/ Close \/ Crash \/ ShowIcon \/ Install \/ Activate
  \/ PressHardReload \/ Sweep \/ HardReloads \/ Deploy \/ NetworkChanges
  \/ \E b \in Build : \E file \in Needed[b] \cup Lazy[b] : LaunchLoads(file) \/ PageLoads(file) \/ ChunkGone(file)

WorkerSpec == WorkerInit /\ [][WorkerNext]_workerVars

----------------------------------------------------------------------------
(* A launch without the network shows the application.                     *)
OpensOffline ==
  /\ worker = "active" /\ document # None
  /\ \A f \in Needed[document] : Contains(files, f)

(* service-worker.ts: the shell cache "is the only copy of the application *)
(* on the device at that moment, and there is no network to refill it      *)
(* from".  While the browser reports that there is no connection nothing   *)
(* takes away a copy that opens: no reload, no part that cannot be had, no *)
(* worker that takes over, and no hard reload but one that was pressed     *)
(* while there was a connection.  And no launch from that copy fails.      *)
CopyKept ==
  [][OpensOffline =>
       /\ ~OpensOffline' => onLine \/ (hard = "sweeping" /\ pressed)
       /\ page' = "dead" => page = "dead" \/ ~controlled' \/ build' \notin {None, document}]_workerVars
=============================================================================
