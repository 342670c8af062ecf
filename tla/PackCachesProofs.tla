-------------------------- MODULE PackCachesProofs --------------------------
(***************************************************************************)
(* Proofs about PackCaches for any processes, artifacts and versions, any  *)
(* number of calls, kills and publications.  The three caches share        *)
(* nothing but the processes, so each has an invariant of its own, and a   *)
(* step of one leaves the others' invariants alone.                        *)
(***************************************************************************)
EXTENDS PackCaches, TLAPS

Fetching == {"clear", "fetch", "unpack", "rename", "seal", "undo"}
Building == {"records", "build", "commit", "occupied", "leftover", "sweep", "retry", "accept"}
Composing == {"open", "unlink", "compose", "store", "reopen"}

(* What a process has in its hands at each point of its call. *)
Held == \A p \in Process :
  /\ at[p] \in {"unpack", "rename", "seal"} => current[p] \in Artifact
  /\ at[p] \in Composing => key[p] \in Version

Typed == TypeOK /\ Held

(* A step of a download goes from one of its points, or from idle, to      *)
(* another, and keeps its variables' types.                                *)
LEMMA DownloadMoves ==
  ASSUME Typed, NEW p \in Process, InDownload(p)
  PROVE  /\ at' \in [Process -> Point] /\ outcome' \in [Process -> Ending]
         /\ DownloadTypeOK'
         /\ \A q \in Process \ {p} : at'[q] = at[q] /\ outcome'[q] = outcome[q] /\ current'[q] = current[q]
         /\ at[p] \in {"idle", "look", "verify"} \cup Fetching
         /\ at'[p] \in {"idle", "look", "verify"} \cup Fetching
         /\ at'[p] \in {"unpack", "rename", "seal"} => current'[p] \in Artifact
<1> USE DEF Typed, TypeOK, Held, DownloadTypeOK, Point, Ending, Fetching, Composing, InDownload,
            Move, Enter, Go, End, downloadVars, fileVars, workVars
<1>1. CASE Load(p)
  BY <1>1 DEF Load
<1>2. CASE Download(p)
  BY <1>2 DEF Download, MayCross
<1>3. CASE FindCached(p)
  BY <1>3 DEF FindCached, Resealed
<1>4. CASE FindMissing(p)
  BY <1>4 DEF FindMissing, Resealed, MayCross
<1>5. CASE NotAllowed(p)
  BY <1>5 DEF NotAllowed, Resealed
<1>6. CASE BeginFetch(p)
  BY <1>6 DEF BeginFetch
<1>7. CASE Undone(p)
  BY <1>7 DEF Undone
<1>8. CASE ClearRaises(p)
  BY <1>8 DEF ClearRaises, Removing
<1>9. CASE EndUnpack(p)
  <2>1. PICK w \in Leaves(p) :
          \/ /\ handle[p] = "unpacked" /\ unpacked' = [unpacked EXCEPT ![current[p]] = w]
             /\ UNCHANGED <<files, sidecar>>
          \/ /\ handle[p] = "renamed" /\ files' = [files EXCEPT ![current[p]] = w]
             /\ sidecar' = Outdated(current[p]) /\ UNCHANGED unpacked
          \/ handle[p] \notin {"unpacked", "renamed"} /\ UNCHANGED fileVars
    BY <1>9 DEF EndUnpack
  <2>2. w \in {"torn", "whole"}
    BY DEF Leaves
  <2> QED
    BY <1>9, <2>1, <2>2 DEF EndUnpack, Outdated
<1>10. CASE Rename(p)
  BY <1>10 DEF Rename, Renamed, Outdated
<1>11. CASE Seal(p)
  BY <1>11 DEF Seal
<1>12. CASE FileVanished(p)
  BY <1>12 DEF FileVanished
<1>13. CASE FetchRaises(p)
  BY <1>13 DEF FetchRaises
<1>14. CASE EndDownload(p)
  BY <1>14 DEF EndDownload
<1>15. CASE Verify(p)
  BY <1>15 DEF Verify
<1>16. CASE \E a \in Artifact : RemoveFile(p, a)
  BY <1>16 DEF RemoveFile, Removing, Closed
<1>17. CASE \E a \in Artifact : RemoveUnpacked(p, a)
  BY <1>17 DEF RemoveUnpacked, Removing, Closed
<1>18. CASE \E a \in Artifact : Unpack(p, a)
  BY <1>18 DEF Unpack
<1> QED
  BY <1>1, <1>2, <1>3, <1>4, <1>5, <1>6, <1>7, <1>8, <1>9, <1>10, <1>11, <1>12, <1>13, <1>14, <1>15,
     <1>16, <1>17, <1>18 DEF DownloadStep

(* The same of a step of a build. *)
LEMMA ByodMoves ==
  ASSUME Typed, NEW p \in Process, InByod(p)
  PROVE  /\ at' \in [Process -> Point] /\ outcome' \in [Process -> Ending]
         /\ ByodTypeOK'
         /\ \A q \in Process \ {p} : at'[q] = at[q] /\ outcome'[q] = outcome[q]
         /\ at[p] \in {"idle"} \cup Building
         /\ at'[p] \in {"idle"} \cup Building
<1> USE DEF Typed, TypeOK, ByodTypeOK, Point, Ending, Building, InByod, Move, Enter, Go, End, byodVars
<1>0. None \notin Pack
  BY ByodCacheAssumption DEF Pack
<1>1. CASE FromRecords(p) \/ UseCached(p) \/ BuildPack(p) \/ BuildRaises(p) \/ EndBuild(p)
  BY <1>1 DEF FromRecords, UseCached, BuildPack, BuildRaises, EndBuild
<1>2. CASE Commit(p) \/ Retry(p)
  BY <1>2 DEF Commit, Retry, Install, NothingDoomed
<1>3. CASE CommitFails(p) \/ KeepTheirs(p) \/ NoHit(p) \/ NothingThere(p) \/ Accept(p)
  BY <1>3 DEF CommitFails, KeepTheirs, NoHit, NothingThere, Accept
<1>4. CASE Sweep(p)
  BY <1>4 DEF Sweep
<1>5. CASE EndSweep(p)
  BY <1>5 DEF EndSweep
<1>6. CASE RetryFails(p)
  BY <1>6 DEF RetryFails
<1>7. CASE \E f \in Pack : SweepFile(p, f)
  <2>1. PICK f \in Pack : SweepFile(p, f)
    BY <1>7
  <2>2. slot \ {f} \in {Absent} \cup SUBSET Pack
    BY <1>0 DEF Absent
  <2> QED
    BY <2>1, <2>2 DEF SweepFile
<1> QED
  BY <1>1, <1>2, <1>3, <1>4, <1>5, <1>6, <1>7 DEF ByodStep

(* The same of a composition. *)
LEMMA ComposedMoves ==
  ASSUME Typed, NEW p \in Process, InComposed(p)
  PROVE  /\ at' \in [Process -> Point] /\ outcome' \in [Process -> Ending]
         /\ ComposedTypeOK'
         /\ \A q \in Process \ {p} : at'[q] = at[q] /\ outcome'[q] = outcome[q] /\ key'[q] = key[q]
         /\ at[p] \in {"idle"} \cup Composing
         /\ at'[p] \in {"idle"} \cup Composing
         /\ at'[p] \in Composing => key'[p] \in Version
<1> USE DEF Typed, TypeOK, Held, ComposedTypeOK, Point, Ending, Composing, InComposed,
            Move, Enter, Go, End, composedVars
<1>1. CASE Compose(p)
  BY <1>1 DEF Compose
<1>2. CASE OpenCached(p)
  BY <1>2 DEF OpenCached, Opens, Serve
<1>3. CASE NotCached(p) \/ OpenFails(p) \/ CopyRaises(p)
  BY <1>3 DEF NotCached, OpenFails, CopyRaises
<1>4. CASE Unlink(p)
  BY <1>4 DEF Unlink
<1>5. CASE Copy(p)
  BY <1>5 DEF Copy
<1>6. CASE Store(p)
  BY <1>6 DEF Store
<1>7. CASE StoreFails(p)
  BY <1>7 DEF StoreFails, ServeTemporary, Serve
<1>8. CASE Reopen(p)
  BY <1>8 DEF Reopen, Opens, Serve
<1>9. CASE ReopenFails(p)
  BY <1>9 DEF ReopenFails, ServeTemporary, Serve
<1> QED
  BY <1>1, <1>2, <1>3, <1>4, <1>5, <1>6, <1>7, <1>8, <1>9 DEF ComposedStep

(* Killing a process and publishing packs keep the types.                  *)
LEMMA EventMoves ==
  ASSUME Typed, (\E p \in Process : Kill(p)) \/ PublishPacks
  PROVE  Typed'
<1> USE DEF Typed, TypeOK, Held, Composing, Happens
<1>1. CASE \E p \in Process : Kill(p)
  <2>1. PICK p \in Process : Kill(p)
    BY <1>1
  <2>2. at' \in [Process -> Point] /\ outcome' \in [Process -> Ending]
    BY <2>1 DEF Kill, Point, Ending
  <2>3. DownloadTypeOK'
    BY <2>1 DEF Kill, StopDownload, DownloadTypeOK, fileVars
  <2>4. ByodTypeOK'
    BY <2>1 DEF Kill, StopByod, ByodTypeOK, Sweeping
  <2>5. ComposedTypeOK'
    BY <2>1 DEF Kill, StopComposing, ComposedTypeOK
  <2>6. Held'
    BY <2>1 DEF Kill, StopDownload, StopComposing
  <2> QED
    BY <2>1, <2>2, <2>3, <2>4, <2>5, <2>6, PackCachesAssumption DEF Kill
<1>2. CASE PublishPacks
  <2>1. ComposedTypeOK'
    BY <1>2 DEF PublishPacks, Publish, ComposedTypeOK, Keyed
  <2> QED
    BY <1>2, <2>1, PackCachesAssumption
    DEF PublishPacks, Publish, DownloadTypeOK, ByodTypeOK, downloadVars, byodVars, fileVars, workVars
<1> QED
  BY <1>1, <1>2

(* Every variable keeps its type, and a process has in its hands what its  *)
(* point of the call supposes.                                             *)
LEMMA TypedStep == Typed /\ [Next]_vars => Typed'
<1> SUFFICES ASSUME Typed, [Next]_vars PROVE Typed'
  OBVIOUS
<1>1. CASE \E p \in Process : Act(p)
  <2>1. PICK p \in Process : Act(p)
    BY <1>1
  <2>2. calls' \in 0 .. MaxCalls /\ events' \in 0 .. MaxEvents
    BY <2>1, PackCachesAssumption DEF Act, MayStep, Counted, Typed, TypeOK
  <2>3. CASE InDownload(p)
    <3>1. ByodTypeOK' /\ ComposedTypeOK' /\ key' = key
      BY <2>3 DEF InDownload, byodVars, composedVars, Typed, TypeOK, ByodTypeOK, ComposedTypeOK
    <3>2. Held'
      BY <2>3, <3>1, DownloadMoves DEF Typed, Held, Composing, Fetching
    <3> QED
      BY <2>2, <2>3, <3>1, <3>2, DownloadMoves DEF Typed, TypeOK
  <2>4. CASE InByod(p)
    <3>1. DownloadTypeOK' /\ ComposedTypeOK' /\ key' = key /\ current' = current
      BY <2>4 DEF InByod, downloadVars, fileVars, workVars, composedVars, Typed, TypeOK,
                  DownloadTypeOK, ComposedTypeOK
    <3>2. Held'
      BY <2>4, <3>1, ByodMoves DEF Typed, Held, Composing, Building
    <3> QED
      BY <2>2, <2>4, <3>1, <3>2, ByodMoves DEF Typed, TypeOK
  <2>5. CASE InComposed(p)
    <3>1. DownloadTypeOK' /\ ByodTypeOK' /\ current' = current
      BY <2>5 DEF InComposed, downloadVars, fileVars, workVars, byodVars, Typed, TypeOK,
                  DownloadTypeOK, ByodTypeOK
    <3>2. Held'
      BY <2>5, <3>1, ComposedMoves DEF Typed, Held, Composing
    <3> QED
      BY <2>2, <2>5, <3>1, <3>2, ComposedMoves DEF Typed, TypeOK
  <2> QED
    BY <2>1, <2>3, <2>4, <2>5 DEF Act
<1>2. CASE (\E p \in Process : Kill(p)) \/ PublishPacks
  BY <1>2, EventMoves
<1>3. CASE UNCHANGED vars
  BY <1>3 DEF vars, Typed, TypeOK, Held, DownloadTypeOK, ByodTypeOK, ComposedTypeOK,
              downloadVars, fileVars, workVars, byodVars, composedVars
<1> QED
  BY <1>1, <1>2, <1>3 DEF Next

LEMMA AlwaysTyped == Spec => []Typed
<1>1. ASSUME Init PROVE Typed
  <2> USE <1>1 DEF Init
  <2>1. DownloadTypeOK
    BY DEF DownloadInit, DownloadTypeOK, NoFiles
  <2>2. ByodTypeOK
    BY DEF ByodInit, ByodTypeOK, NothingDoomed, Leftover, Pack
  <2>3. ComposedTypeOK
    <3>1. composed \in [Version -> Version \cup {None, "corrupt"}]
      BY DEF ComposedInit
    <3> QED
      BY <3>1 DEF ComposedInit, ComposedTypeOK, Nothing
  <2>4. /\ at \in [Process -> Point] /\ outcome \in [Process -> Ending]
        /\ calls \in 0 .. MaxCalls /\ events \in 0 .. MaxEvents /\ Held
    BY PackCachesAssumption DEF Point, Ending, Held, Composing
  <2> QED
    BY <2>1, <2>2, <2>3, <2>4 DEF Typed, TypeOK
<1>2. Init => Typed
  BY <1>1
<1> QED
  BY <1>2, TypedStep, PTL DEF Spec

(* Types of the whole state, for any number of processes and packs.        *)
THEOREM Typing == Spec => []TypeOK
<1>1. Typed => TypeOK
  BY DEF Typed
<1> QED
  BY <1>1, AlwaysTyped, PTL

-----------------------------------------------------------------------------
(* Composed databases. *)

(* Unless packs were replaced between a key and the copy: a cached file is *)
(* broken or has the content its key stands for, a key that is still to be *)
(* used is the one of the packs on disk, and what was copied matches it.   *)
Composed == ~replaced =>
  /\ \A v \in Version : composed[v] \in {None, "corrupt", v}
  /\ \A p \in Process :
       /\ Keyed(p) => key[p] = packs
       /\ at[p] \in {"store", "reopen"} => temp[p] = key[p]
       /\ at[p] \in Composing => outcome[p] # "temporary"

LEMMA ComposedStep2 ==
  ASSUME Typed, Typed', Composed, ServedIsCurrent, [Next]_vars
  PROVE  Composed' /\ ServedIsCurrent'
<1> USE DEF Composed, ServedIsCurrent, Keyed
<1>1. CASE \E p \in Process : Act(p)
  <2>1. PICK p \in Process : Act(p)
    BY <1>1
  <2>2. CASE InDownload(p) \/ InByod(p)
    <3>1. UNCHANGED composedVars
      BY <2>2 DEF InDownload, InByod
    <3>2. \A q \in Process :
             /\ at'[q] = at[q] \/ at'[q] \notin Composing
             /\ outcome'[q] = outcome[q] \/ outcome'[q] # "temporary"
      <4>1. CASE InDownload(p)
        <5>1. at'[p] \notin Composing
          BY <4>1, DownloadMoves DEF Fetching, Composing
        <5>2. outcome'[p] = outcome[p] \/ outcome'[p] # "temporary"
          BY <4>1 DEF InDownload, DownloadStep, Load, Download, FindCached, FindMissing, NotAllowed,
            BeginFetch, Undone, ClearRaises, EndUnpack, Rename, Seal, FileVanished, FetchRaises, EndDownload,
            Verify, RemoveFile, RemoveUnpacked, Unpack, Enter, Go, End, Move, Typed, TypeOK
        <5> QED
          BY <4>1, <5>1, <5>2, DownloadMoves
      <4>2. CASE InByod(p)
        <5>1. at'[p] \notin Composing
          BY <4>2, ByodMoves DEF Building, Composing
        <5>2. outcome'[p] = outcome[p] \/ outcome'[p] # "temporary"
          BY <4>2 DEF InByod, ByodStep, FromRecords, UseCached, BuildPack, BuildRaises, EndBuild, Commit,
            CommitFails, KeepTheirs, NoHit, NothingThere, Sweep, EndSweep, Retry, RetryFails, Accept,
            SweepFile, Enter, Go, End, Move, Typed, TypeOK
        <5> QED
          BY <4>2, <5>1, <5>2, ByodMoves
      <4> QED
        BY <2>2, <4>1, <4>2
    <3> QED
      BY <3>1, <3>2 DEF composedVars, Composing
  <2>3. CASE InComposed(p)
    <3> USE <2>3 DEF InComposed, Move, Enter, Go, End, composedVars, Typed, TypeOK, ComposedTypeOK, Held,
                     Composing
    <3>1. CASE Compose(p)
      BY <3>1 DEF Compose
    <3>2. CASE OpenCached(p)
      BY <3>2 DEF OpenCached, Opens, Serve
    <3>3. CASE NotCached(p) \/ OpenFails(p) \/ CopyRaises(p)
      BY <3>3 DEF NotCached, OpenFails, CopyRaises
    <3>4. CASE Unlink(p)
      BY <3>4 DEF Unlink
    <3>5. CASE Copy(p)
      BY <3>5 DEF Copy
    <3>6. CASE Store(p)
      BY <3>6 DEF Store
    <3>7. CASE StoreFails(p)
      BY <3>7 DEF StoreFails, ServeTemporary, Serve
    <3>8. CASE Reopen(p)
      BY <3>8 DEF Reopen, Opens, Serve
    <3>9. CASE ReopenFails(p)
      BY <3>9 DEF ReopenFails, ServeTemporary, Serve
    <3> QED
      BY <3>1, <3>2, <3>3, <3>4, <3>5, <3>6, <3>7, <3>8, <3>9 DEF ComposedStep
  <2> QED
    BY <2>1, <2>2, <2>3 DEF Act
<1>2. CASE \E p \in Process : Kill(p)
  BY <1>2 DEF Kill, StopComposing, Typed, TypeOK, ComposedTypeOK
<1>3. CASE PublishPacks
  BY <1>3 DEF PublishPacks, Publish, Typed, TypeOK, ComposedTypeOK
<1>4. CASE UNCHANGED vars
  BY <1>4 DEF vars, composedVars
<1> QED
  BY <1>1, <1>2, <1>3, <1>4 DEF Next

(* A store that is served is whole and holds what the packs held when it   *)
(* was asked for, whoever races to write and unlink the cached file.       *)
THEOREM ServedCurrent == Spec => []ServedIsCurrent
<1>1. Init => Composed /\ ServedIsCurrent
  BY DEF Init, Composed, ServedIsCurrent, ComposedInit, Nothing, Keyed
<1>2. Typed /\ Typed' /\ Composed /\ ServedIsCurrent /\ [Next]_vars => (Composed /\ ServedIsCurrent)'
  BY ComposedStep2
<1> QED
  BY <1>1, <1>2, AlwaysTyped, PTL DEF Spec

-----------------------------------------------------------------------------
(* Packs of a caller's own records. *)

(* Only who sweeps has files to remove.  Unless a fault has come after a   *)
(* sweep: while somebody sweeps, the entry is gone, is a new pack that no  *)
(* sweep has listed, or will lose every file it has.                       *)
Swept ==
  /\ \A p \in Process : at[p] # "sweep" => doomed[p] = {}
  /\ ~lost /\ (\E p \in Process : Sweeping(p)) =>
       \/ slot = Absent
       \/ slot = Pack /\ \A p \in Process : doomed[p] = {}
       \/ \A f \in slot : \E p \in Process : f \in doomed[p]

LEMMA SweptStep ==
  ASSUME Typed, Typed', Swept, HandedOutIsThere, [Next]_vars
  PROVE  Swept' /\ HandedOutIsThere'
<1> USE DEF Swept, HandedOutIsThere, Sweeping, Hit
<1>0. None \notin Pack /\ Absent # Pack /\ {} # Pack /\ Absent # {} /\ Metadata \notin Absent
  BY ByodCacheAssumption DEF Pack, Absent
<1>1. CASE \E p \in Process : Act(p)
  <2>1. PICK p \in Process : Act(p)
    BY <1>1
  <2>2. CASE InDownload(p) \/ InComposed(p)
    <3>1. UNCHANGED byodVars
      BY <2>2 DEF InDownload, InComposed
    <3>2. \A q \in Process :
             /\ at'[q] = at[q] \/ {at[q], at'[q]} \cap {"sweep", "retry"} = {}
             /\ outcome'[q] = "built" => outcome[q] = "built"
      <4>1. CASE InDownload(p)
        <5>1. {at[p], at'[p]} \cap {"sweep", "retry"} = {}
          BY <4>1, DownloadMoves DEF Fetching
        <5>2. outcome'[p] = "built" => outcome[p] = "built"
          BY <4>1 DEF InDownload, DownloadStep, Load, Download, FindCached, FindMissing, NotAllowed,
            BeginFetch, Undone, ClearRaises, EndUnpack, Rename, Seal, FileVanished, FetchRaises, EndDownload,
            Verify, RemoveFile, RemoveUnpacked, Unpack, Enter, Go, End, Move, Typed, TypeOK
        <5> QED
          BY <4>1, <5>1, <5>2, DownloadMoves
      <4>2. CASE InComposed(p)
        <5>1. {at[p], at'[p]} \cap {"sweep", "retry"} = {}
          BY <4>2, ComposedMoves DEF Composing
        <5>2. outcome'[p] = "built" => outcome[p] = "built"
          BY <4>2 DEF InComposed, ComposedStep, Compose, OpenCached, NotCached, OpenFails, CopyRaises,
            Unlink, Copy, Store, StoreFails, Reopen, ReopenFails, ServeTemporary, Enter, Go, End, Move,
            Typed, TypeOK
        <5> QED
          BY <4>2, <5>1, <5>2, ComposedMoves
      <4> QED
        BY <2>2, <4>1, <4>2
    <3> QED
      BY <3>1, <3>2, <1>0 DEF byodVars
  <2>3. CASE InByod(p)
    <3> USE <1>0, <2>3 DEF InByod, Move, Enter, Go, End, byodVars, Typed, TypeOK, ByodTypeOK
    <3>1. CASE FromRecords(p) \/ UseCached(p) \/ BuildPack(p) \/ BuildRaises(p) \/ EndBuild(p)
      BY <3>1 DEF FromRecords, UseCached, BuildPack, BuildRaises, EndBuild
    <3>2. CASE Commit(p) \/ Retry(p)
      BY <3>2 DEF Commit, Retry, Install, NothingDoomed
    <3>3. CASE CommitFails(p) \/ KeepTheirs(p) \/ NoHit(p) \/ NothingThere(p) \/ Accept(p)
      BY <3>3 DEF CommitFails, KeepTheirs, NoHit, NothingThere, Accept
    <3>4. CASE Sweep(p)
      BY <3>4 DEF Sweep
    <3>5. CASE EndSweep(p)
      BY <3>5 DEF EndSweep
    <3>6. CASE RetryFails(p)
      BY <3>6 DEF RetryFails, Free, NothingDoomed
    <3>7. CASE \E f \in Pack : SweepFile(p, f)
      <4>1. PICK f \in Pack : SweepFile(p, f)
        BY <3>7
      <4>2. slot' = slot \ {f} /\ at' = at /\ lost' = lost
        BY <4>1 DEF SweepFile
      <4>3. /\ \A q \in Process : at'[q] # "sweep" => doomed'[q] = {}
            /\ \A g \in slot \ {f} : \A q \in Process : g \in doomed[q] => g \in doomed'[q]
        BY <4>1 DEF SweepFile
      <4>4. HandedOutIsThere'
        BY <4>1 DEF SweepFile
      <4>5. CASE slot = Absent
        BY <4>2, <4>3, <4>4, <4>5 DEF Absent
      <4>6. CASE slot # Absent /\ ~lost
        <5>1. \A g \in slot : \E q \in Process : g \in doomed[q]
          BY <4>1, <4>6 DEF SweepFile
        <5> QED
          BY <4>2, <4>3, <4>4, <5>1
      <4> QED
        BY <4>2, <4>3, <4>4, <4>5, <4>6
    <3> QED
      BY <3>1, <3>2, <3>3, <3>4, <3>5, <3>6, <3>7 DEF ByodStep
  <2> QED
    BY <2>1, <2>2, <2>3 DEF Act
<1>2. CASE \E p \in Process : Kill(p)
  BY <1>2, <1>0 DEF Kill, StopByod, Typed, TypeOK, ByodTypeOK, NothingDoomed
<1>3. CASE PublishPacks
  BY <1>3, <1>0 DEF PublishPacks, Publish, byodVars
<1>4. CASE UNCHANGED vars
  BY <1>4, <1>0 DEF vars, byodVars
<1> QED
  BY <1>1, <1>2, <1>3, <1>4 DEF Next

(* Of any number of builders that commit, sweep and retry at once: what    *)
(* was handed out is there and whole when the last of them is through.     *)
THEOREM HandedOut == Spec => []HandedOutIsThere
<1>1. Init => Swept /\ HandedOutIsThere
  BY ByodCacheAssumption DEF Init, Swept, HandedOutIsThere, ByodInit, NothingDoomed, Sweeping, Hit, Absent,
    Leftover
<1>2. Typed /\ Typed' /\ Swept /\ HandedOutIsThere /\ [Next]_vars => (Swept /\ HandedOutIsThere)'
  BY SweptStep
<1> QED
  BY <1>1, <1>2, AlwaysTyped, PTL DEF Spec

-----------------------------------------------------------------------------
(* Downloads. *)

(* Unless two calls have overlapped: whoever downloads is alone, so what   *)
(* it unpacks is its own, no file under its own name is torn, and what it  *)
(* has fetched stays; a pack that is about to be verified is complete.     *)
Fetched == ~crossed =>
  /\ \A p, q \in Process : p # q /\ Downloading(p) => ~Downloading(q) /\ ~Loading(q)
  /\ \A a \in Artifact : files[a] # "torn"
  /\ \A p \in Process :
       /\ at[p] = "unpack" => handle[p] = "unpacked"
       /\ at[p] = "rename" => unpacked[current[p]] = "whole"
       /\ at[p] \in {"fetch", "unpack", "rename", "seal"} =>
            \A a \in Artifact \ todo[p] : files[a] = "whole"
       /\ at[p] = "verify" => Verified

LEMMA FetchedImplies == Typed /\ Fetched /\ ~crossed => (IsCached => Verified)
BY DownloadCacheAssumption DEF Typed, TypeOK, DownloadTypeOK, Fetched, IsCached, Verified

(* A step of another cache, of a process that is in no download.           *)
LEMMA FetchedElsewhere ==
  ASSUME Typed, Fetched, CachedIsComplete, UNCHANGED <<fileVars, todo, current, goal, crossed>>,
         \A p \in Process :
           /\ \/ at'[p] = at[p] /\ handle'[p] = handle[p]
              \/ at'[p] \notin Fetching \cup {"look", "verify"}
           /\ outcome'[p] = "rejected" => outcome[p] = "rejected"
  PROVE  Fetched' /\ CachedIsComplete'
<1>1. Verified' = Verified /\ IsCached' = IsCached
  BY DEF Verified, IsCached, Trusted, fileVars
<1>2. \A p \in Process : /\ Downloading(p)' => Downloading(p)
                         /\ Loading(p)' => Loading(p)
  BY DEF Downloading, Loading, Fetching
<1>3. CachedIsComplete'
  BY <1>1 DEF CachedIsComplete
<1>4. Fetched'
  BY <1>1, <1>2 DEF Fetched, Fetching, fileVars
<1> QED
  BY <1>3, <1>4

LEMMA FetchedStep ==
  ASSUME Typed, Typed', Fetched, CachedIsComplete, NEW p \in Process, InDownload(p)
  PROVE  Fetched' /\ \A q \in Process : ~crossed' => outcome'[q] # "rejected"
<1> USE DEF Typed, TypeOK, DownloadTypeOK, Held, InDownload, Move, Enter, Go, End, Downloading, Loading,
            downloadVars, fileVars, workVars, Fetched, CachedIsComplete
<1> HIDE DEF Downloading, Loading
<1>0. /\ Load(p) /\ ~crossed' => ~crossed /\ \A q \in Process : ~Downloading(q)
      /\ (Download(p) \/ FindMissing(p)) /\ ~crossed' =>
           ~crossed /\ \A q \in Process \ {p} : ~Downloading(q) /\ ~Loading(q)
  <2>1. /\ Load(p) => crossed' = (crossed \/ \E q \in Process : Downloading(q))
        /\ Download(p) \/ FindMissing(p) =>
             crossed' = (crossed \/ \E q \in Process \ {p} : Downloading(q) \/ Loading(q))
    BY DEF Load, Download, FindMissing, MayCross
  <2> QED
    BY <2>1, Zenon
<1> USE DEF Downloading, Loading
<1>1. CASE Load(p)
  <2>1. CASE crossed'
    BY <1>1, <2>1 DEF Load
  <2>2. CASE ~crossed'
    BY <1>0, <1>1, <2>2 DEF Load, Verified
  <2> QED
    BY <2>1, <2>2
<1>2. CASE Download(p)
  <2>1. CASE crossed'
    BY <1>2, <2>1 DEF Download
  <2>2. CASE ~crossed'
    BY <1>0, <1>2, <2>2 DEF Download, Verified
  <2> QED
    BY <2>1, <2>2
<1>3. CASE FindCached(p)
  BY <1>3, FetchedImplies DEF FindCached, Verified
<1>4. CASE FindMissing(p)
  <2>1. CASE crossed'
    BY <1>4, <2>1 DEF FindMissing
  <2>2. CASE ~crossed'
    BY <1>0, <1>4, <2>2 DEF FindMissing, Verified
  <2> QED
    BY <2>1, <2>2
<1>5. CASE NotAllowed(p)
  BY <1>5 DEF NotAllowed, Verified
<1>6. CASE BeginFetch(p)
  BY <1>6 DEF BeginFetch, Verified
<1>7. CASE Undone(p)
  BY <1>7 DEF Undone, Verified
<1>8. CASE ClearRaises(p)
  BY <1>8 DEF ClearRaises, Removing, Verified
<1>9. CASE EndUnpack(p)
  BY <1>9 DEF EndUnpack, Leaves, Verified
<1>10. CASE Rename(p)
  BY <1>10 DEF Rename, Renamed, Verified
<1>11. CASE Seal(p)
  BY <1>11 DEF Seal, Verified
<1>12. CASE FileVanished(p)
  BY <1>12 DEF FileVanished, Verified
<1>13. CASE FetchRaises(p)
  BY <1>13 DEF FetchRaises, Verified
<1>14. CASE EndDownload(p)
  BY <1>14 DEF EndDownload, Verified
<1>15. CASE Verify(p)
  BY <1>15 DEF Verify, Verified
<1>16. CASE \E a \in Artifact : RemoveFile(p, a)
  BY <1>16 DEF RemoveFile, Removing, Closed, Verified
<1>17. CASE \E a \in Artifact : RemoveUnpacked(p, a)
  BY <1>17 DEF RemoveUnpacked, Removing, Closed, Verified
<1>18. CASE \E a \in Artifact : Unpack(p, a)
  BY <1>18 DEF Unpack, Verified
<1> QED
  BY <1>1, <1>2, <1>3, <1>4, <1>5, <1>6, <1>7, <1>8, <1>9, <1>10, <1>11, <1>12, <1>13, <1>14, <1>15,
     <1>16, <1>17, <1>18 DEF DownloadStep

(* Whatever is killed or fails, and wherever: a pack that passes for cached *)
(* is complete, and no load is refused for a file, unless two calls have   *)
(* overlapped.                                                             *)
THEOREM CachedComplete == Spec => []CachedIsComplete
<1>1. Init => Fetched /\ CachedIsComplete
  BY DownloadCacheAssumption DEF Init, DownloadInit, NoFiles, Fetched, CachedIsComplete, Downloading, Loading,
     IsCached
<1>2. ASSUME Typed, Typed', Fetched, CachedIsComplete, [Next]_vars PROVE Fetched' /\ CachedIsComplete'
  <2>1. ASSUME NEW p \in Process, InDownload(p) PROVE Fetched' /\ CachedIsComplete'
    <3>1. Typed' /\ Fetched' /\ ~crossed' => (IsCached' => Verified')
      BY FetchedImplies, PTL
    <3> QED
      BY <1>2, <2>1, <3>1, FetchedStep DEF CachedIsComplete
  <2>2. ASSUME NEW p \in Process, InByod(p) \/ InComposed(p) PROVE Fetched' /\ CachedIsComplete'
    <3>1. UNCHANGED downloadVars
      BY <2>2 DEF InByod, InComposed
    <3>2. at'[p] \notin Fetching \cup {"look", "verify"}
      BY <1>2, <2>2, ByodMoves, ComposedMoves DEF Building, Composing, Fetching
    <3>3. outcome'[p] = "rejected" => outcome[p] = "rejected"
      <4>1. CASE InByod(p)
        BY <1>2, <4>1 DEF InByod, ByodStep, FromRecords, UseCached, BuildPack, BuildRaises, EndBuild, Commit,
          CommitFails, KeepTheirs, NoHit, NothingThere, Sweep, EndSweep, Retry, RetryFails, Accept,
          SweepFile, Enter, Go, End, Move, Typed, TypeOK
      <4>2. CASE InComposed(p)
        BY <1>2, <4>2 DEF InComposed, ComposedStep, Compose, OpenCached, NotCached, OpenFails, CopyRaises,
          Unlink, Copy, Store, StoreFails, Reopen, ReopenFails, ServeTemporary, Enter, Go, End, Move,
          Typed, TypeOK
      <4> QED
        BY <2>2, <4>1, <4>2
    <3>4. \A q \in Process \ {p} : at'[q] = at[q] /\ outcome'[q] = outcome[q]
      BY <1>2, <2>2, ByodMoves, ComposedMoves
    <3> QED
      BY <1>2, <3>1, <3>2, <3>3, <3>4, FetchedElsewhere DEF downloadVars, workVars
  <2>3. ASSUME NEW p \in Process, Kill(p) PROVE Fetched' /\ CachedIsComplete'
    BY <1>2, <2>3, FetchedElsewhere
    DEF Kill, StopDownload, Typed, TypeOK, DownloadTypeOK, Fetching
  <2>4. ASSUME PublishPacks \/ UNCHANGED vars PROVE Fetched' /\ CachedIsComplete'
    BY <1>2, <2>4, FetchedElsewhere DEF PublishPacks, Publish, vars, downloadVars, workVars
  <2> QED
    BY <1>2, <2>1, <2>2, <2>3, <2>4 DEF Next, Act
<1>3. Typed /\ Typed' /\ Fetched /\ CachedIsComplete /\ [Next]_vars => (Fetched /\ CachedIsComplete)'
  BY <1>2
<1> QED
  BY <1>1, <1>3, AlwaysTyped, PTL DEF Spec
=============================================================================
