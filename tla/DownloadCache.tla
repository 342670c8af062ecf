---------------------------- MODULE DownloadCache ----------------------------
(***************************************************************************)
(* The cache directory of one remote module: is_cached(), the download     *)
(* that clears and refills the directory, and the loader that verifies.    *)
(* Files are taken out of their archives in place and then renamed.        *)
(***************************************************************************)
EXTENDS CacheUsers

CONSTANTS Artifact,   \* the module's remote artifacts
          Sqlite      \* the one whose hash is_cached() looks at

ASSUME DownloadCacheAssumption == Sqlite \in Artifact /\ None \notin Artifact

VARIABLES
  unpacked,     \* per artifact: the file beside its archive
  files,        \* per artifact: the file under its own name
  sidecar,      \* does it describe the sqlite file: "none", "stale", "valid"
  todo,         \* per process: artifacts it has not fetched
  current,      \* per process: the artifact it is fetching
  handle,       \* per process: what its open file is now called
  goal,         \* per process: "load" or "download"
  crossed       \* history: a download and another call have overlapped

fileVars == <<unpacked, files, sidecar>>
workVars == <<todo, current, handle, goal>>
downloadVars == <<fileVars, workVars, crossed>>

Downloading(p) == at[p] \in {"clear", "fetch", "unpack", "rename", "seal", "undo"}
Loading(p) == at[p] \in {"look", "verify"}

DownloadTypeOK ==
  /\ unpacked \in [Artifact -> {"none", "torn", "whole"}]
  /\ files \in [Artifact -> {"none", "torn", "whole"}]
  /\ sidecar \in {"none", "stale", "valid"} /\ crossed \in BOOLEAN
  /\ todo \in [Process -> SUBSET Artifact] /\ current \in [Process -> Artifact \cup {None}]
  /\ handle \in [Process -> {"none", "unpacked", "renamed", "gone"}]
  /\ goal \in [Process -> {"load", "download"}]

NoFiles == [a \in Artifact |-> "none"]
DownloadInit ==
  /\ unpacked = NoFiles /\ files = NoFiles /\ sidecar = "none" /\ crossed = FALSE
  /\ todo = [p \in Process |-> {}] /\ current = [p \in Process |-> None]
  /\ handle = [p \in Process |-> "none"] /\ goal = [p \in Process |-> "load"]

\* A sidecar that fits the file is believed; otherwise the file is hashed.
Trusted == files[Sqlite] = "whole" \/ (files[Sqlite] = "torn" /\ sidecar = "valid")
\* Mutant: the declared artifacts are not looked for.
IsCached_SqliteOnly == Trusted
IsCached == Trusted /\ \A a \in Artifact : files[a] # "none"
Resealed == IF files[Sqlite] = "whole" THEN "valid" ELSE sidecar
Outdated(a) == IF a = Sqlite /\ sidecar = "valid" THEN "stale" ELSE sidecar

-----------------------------------------------------------------------------
(* ensure_datapack_ready and download(force=True).                         *)
Load(p) ==
  /\ Enter(p, "look") /\ goal' = [goal EXCEPT ![p] = "load"]
  /\ crossed' = (crossed \/ \E q \in Process : Downloading(q))
  /\ UNCHANGED <<fileVars, todo, current, handle>>

MayCross(p) == crossed \/ \E q \in Process \ {p} : Downloading(q) \/ Loading(q)
Download(p) ==
  /\ Enter(p, "clear") /\ goal' = [goal EXCEPT ![p] = "download"]
  /\ crossed' = MayCross(p)
  /\ UNCHANGED <<fileVars, todo, current, handle>>

FindCached(p) ==
  /\ IsCached /\ Go(p, "look", "verify") /\ sidecar' = Resealed
  /\ UNCHANGED <<unpacked, files, workVars, crossed>>

FindMissing(p) ==
  /\ ~IsCached /\ Go(p, "look", "clear") /\ sidecar' = Resealed
  /\ crossed' = MayCross(p)
  /\ UNCHANGED <<unpacked, files, workVars>>

NotAllowed(p) ==
  /\ ~IsCached /\ End(p, "look", "raised") /\ sidecar' = Resealed
  /\ UNCHANGED <<unpacked, files, workVars, crossed>>

-----------------------------------------------------------------------------
(* rmtree removes file after file; who has one open keeps the bytes.       *)
Closed(a, from, to) == [q \in Process |->
  IF current[q] = a /\ handle[q] = from THEN to ELSE handle[q]]
Removing(p) == at[p] \in {"clear", "undo"}
RemoveFile(p, a) ==
  /\ Removing(p) /\ files[a] # "none"
  /\ files' = [files EXCEPT ![a] = "none"] /\ handle' = Closed(a, "renamed", "gone")
  /\ sidecar' = IF a = Sqlite THEN "none" ELSE sidecar
  /\ UNCHANGED <<at, outcome, unpacked, todo, current, goal, crossed>>
RemoveUnpacked(p, a) ==
  /\ Removing(p) /\ unpacked[a] # "none"
  /\ unpacked' = [unpacked EXCEPT ![a] = "none"] /\ handle' = Closed(a, "unpacked", "gone")
  /\ UNCHANGED <<at, outcome, files, sidecar, todo, current, goal, crossed>>

Cleared == files = NoFiles /\ unpacked = NoFiles
BeginFetch(p) ==
  /\ Cleared /\ Go(p, "clear", "fetch") /\ todo' = [todo EXCEPT ![p] = Artifact]
  /\ UNCHANGED <<fileVars, current, handle, goal, crossed>>
Undone(p) ==
  /\ Cleared /\ End(p, "undo", "raised")
  /\ UNCHANGED downloadVars
\* Somebody else's new files make rmtree raise.
ClearRaises(p) ==
  /\ Removing(p) /\ (\E q \in Process \ {p} : Downloading(q)) /\ End(p, at[p], "raised")
  /\ UNCHANGED downloadVars

-----------------------------------------------------------------------------
(* One artifact: fetch and unpack, rename, and a sidecar for the database. *)
Unpack(p, a) ==
  /\ a \in todo[p] /\ Go(p, "fetch", "unpack")
  /\ current' = [current EXCEPT ![p] = a] /\ handle' = [handle EXCEPT ![p] = "unpacked"]
  /\ unpacked' = [unpacked EXCEPT ![a] = "torn"]
  /\ UNCHANGED <<files, sidecar, todo, goal, crossed>>

Leaves(p) == IF \E q \in Process \ {p} : at[q] = "unpack" /\ current[q] = current[p] /\ handle[q] = handle[p]
             THEN {"torn", "whole"} ELSE {"whole"}
EndUnpack(p) ==
  /\ Go(p, "unpack", "rename") /\ handle' = [handle EXCEPT ![p] = "none"]
  /\ \E w \in Leaves(p) :
       \/ /\ handle[p] = "unpacked" /\ unpacked' = [unpacked EXCEPT ![current[p]] = w]
          /\ UNCHANGED <<files, sidecar>>
       \/ /\ handle[p] = "renamed" /\ files' = [files EXCEPT ![current[p]] = w]
          /\ sidecar' = Outdated(current[p]) /\ UNCHANGED unpacked
       \/ handle[p] \notin {"unpacked", "renamed"} /\ UNCHANGED fileVars
  /\ UNCHANGED <<todo, current, goal, crossed>>

Renamed(p) == [q \in Process |->
  IF current[q] # current[p] THEN handle[q]
  ELSE IF handle[q] = "unpacked" THEN "renamed"
  ELSE IF handle[q] = "renamed" THEN "gone" ELSE handle[q]]
Rename(p) ==
  /\ Go(p, "rename", IF current[p] = Sqlite THEN "seal" ELSE "fetch")
  /\ unpacked[current[p]] # "none"
  /\ files' = [files EXCEPT ![current[p]] = unpacked[current[p]]]
  /\ unpacked' = [unpacked EXCEPT ![current[p]] = "none"]
  /\ sidecar' = Outdated(current[p]) /\ handle' = Renamed(p)
  /\ todo' = [todo EXCEPT ![p] = @ \ {current[p]}]
  /\ UNCHANGED <<current, goal, crossed>>
Seal(p) ==
  /\ files[Sqlite] # "none" /\ Go(p, "seal", "fetch") /\ sidecar' = "valid"
  /\ UNCHANGED <<unpacked, files, workVars, crossed>>
FileVanished(p) ==
  /\ \/ Go(p, "rename", "undo") /\ unpacked[current[p]] = "none"
     \/ Go(p, "seal", "undo") /\ files[Sqlite] = "none"
  /\ UNCHANGED downloadVars

\* The network or the disk fails.
FetchRaises(p) ==
  /\ \/ Go(p, "fetch", "undo") /\ UNCHANGED handle
     \/ Go(p, "unpack", "undo") /\ handle' = [handle EXCEPT ![p] = "none"]
  /\ UNCHANGED <<fileVars, todo, current, goal, crossed>>
EndDownload(p) ==
  /\ todo[p] = {}
  /\ \/ goal[p] = "load" /\ Go(p, "fetch", "verify")
     \/ goal[p] = "download" /\ End(p, "fetch", "ok")
  /\ UNCHANGED downloadVars

-----------------------------------------------------------------------------
(* DataPackLoader.load: every declared file is there and has its hash.     *)
Verified == \A a \in Artifact : files[a] = "whole"
Verify(p) ==
  /\ End(p, "verify", IF Verified THEN "ok" ELSE "rejected")
  /\ UNCHANGED downloadVars

DownloadStep(p) ==
  \/ Load(p) \/ Download(p) \/ FindCached(p) \/ FindMissing(p) \/ NotAllowed(p)
  \/ BeginFetch(p) \/ Undone(p) \/ ClearRaises(p)
  \/ EndUnpack(p) \/ Rename(p) \/ Seal(p) \/ FileVanished(p) \/ FetchRaises(p)
  \/ EndDownload(p) \/ Verify(p)
  \/ \E a \in Artifact : RemoveFile(p, a) \/ RemoveUnpacked(p, a) \/ Unpack(p, a)

\* A process is killed: its files stay as they are.
StopDownload(p) == handle' = [handle EXCEPT ![p] = "none"]
                   /\ UNCHANGED <<fileVars, todo, current, goal, crossed>>

(* Whatever is killed or fails, and wherever: a pack that passes for cached *)
(* is complete, and no load is refused for a file, unless two calls have   *)
(* overlapped.                                                             *)
CachedIsComplete == ~crossed =>
  (IsCached => Verified) /\ \A p \in Process : outcome[p] # "rejected"
=============================================================================
