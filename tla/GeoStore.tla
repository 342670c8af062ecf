------------------------------ MODULE GeoStore ------------------------------
(***************************************************************************)
(* The shared geo staging store and the build runs that use it: the        *)
(* coverage manifest (manifest.json), the entities database, the refresh   *)
(* lock, and the geo part of the stages prepare, discover, materialize,    *)
(* canonicalize, reconcile, enrich and package.                            *)
(*                                                                         *)
(* Runs interleave: two processes may build at once, and a stopped run may *)
(* be resumed after other runs have used the store.  A run's state.sqlite  *)
(* (stage, missing, chunks), its staging file and the store survive a      *)
(* stop; pc, queue and the lock do not.                                    *)
(***************************************************************************)
EXTENDS Integers, FiniteSets

CONSTANTS Run, Unit, Source, NoRun, NoSource,
          Instances,  \* the values of options.datacommons_instance, run by run
          Plans,      \* the unit sets a plan's recipes can require
          Yields,     \* the units a run's slice has entities for, run by run
          MaxStarts,  \* bound: how often a run is started or resumed
          MaxLive     \* bound: how many runs are alive at once

ASSUME GeoStoreAssumption ==
  /\ NoRun \notin Run
  /\ NoSource \notin Source
  /\ Instances \subseteq [Run -> Source]
  /\ Plans \subseteq (SUBSET Unit) \ {{}}
  /\ Yields \subseteq [Run -> SUBSET Unit]
  /\ MaxStarts \in Nat /\ MaxLive \in Nat

(* The stages that touch the store, in the order of STAGES; Revise stands  *)
(* for canonicalize, reconcile, enrich and validate.                       *)
Prepare == 1
Discover == 2
Materialize == 3
Revise == 4
Package == 5
Finished == 6

VARIABLES
  instance, required,   \* per run: options.datacommons_instance, the plan's units
  yields,       \* per run: the units its slice has entities for
  exists, source, unitState, unitOwner,   \* manifest.json
  stored,       \* entities.sqlite: the run that last merged a unit
  lock,         \* holder of the refresh lock
  stage, missing, chunks,   \* per run, state.sqlite
  slice,        \* runs whose staging/geo.sqlite exists
  packed,       \* per run: whose rows its geo pack holds, unit by unit
  starts,       \* per run: bounded by MaxStarts
  pc, queue,                \* per run, in memory
  picked,       \* per run, in memory: whose ids its recipe selected, unit by unit
  voided        \* history: runs packaging while the ready coverage was blanked

planVars == <<instance, required, yields>>
manifestVars == <<exists, source, unitState, unitOwner>>
progressVars == <<stage, missing, chunks, slice, packed, starts>>
vars == <<planVars, manifestVars, stored, lock, progressVars, pc, queue, picked, voided>>

NoPack == [u \in Unit |-> NoRun]
Blank == [u \in Unit |-> "invalid"]      \* _default_manifest
Unowned == [u \in Unit |-> NoRun]
Merging == {"merging", "refreshing", "merged"}

(* The lock is held by the run that merges, and by no run otherwise.       *)
TypeOK ==
  /\ instance \in [Run -> Source] /\ required \in [Run -> SUBSET Unit]
  /\ yields \in [Run -> SUBSET Unit]
  /\ exists \in BOOLEAN /\ source \in Source \cup {NoSource}
  /\ unitState \in [Unit -> {"invalid", "refreshing", "ready"}]
  /\ unitOwner \in [Unit -> Run \cup {NoRun}]
  /\ stored \in [Unit -> Run \cup {NoRun}]
  /\ lock \in Run \cup {NoRun}
  /\ stage \in [Run -> Prepare..Finished]
  /\ missing \in [Run -> SUBSET Unit]
  /\ chunks \subseteq Run /\ slice \subseteq Run
  /\ packed \in [Run -> [Unit -> Run \cup {NoRun}]]
  /\ starts \in [Run -> 0..MaxStarts]
  /\ pc \in [Run -> {"stopped", "enter", "initialize", "source", "merge", "record",
                     "select", "copy", "leave"} \cup Merging]
  /\ queue \in [Run -> SUBSET Unit]
  /\ picked \in [Run -> [Unit -> Run \cup {NoRun}]] /\ voided \subseteq Run
  /\ \A r \in Run : pc[r] \in Merging <=> lock = r

Init ==
  /\ instance \in Instances /\ required \in [Run -> Plans] /\ yields \in Yields
  /\ exists = FALSE /\ source = NoSource /\ unitState = Blank /\ unitOwner = Unowned
  /\ stored = Unowned /\ lock = NoRun
  /\ stage = [r \in Run |-> Prepare] /\ missing = [r \in Run |-> {}]
  /\ chunks = {} /\ slice = {}
  /\ packed = [r \in Run |-> NoPack]
  /\ starts = [r \in Run |-> 0]
  /\ pc = [r \in Run |-> "stopped"] /\ queue = [r \in Run |-> {}]
  /\ picked = [r \in Run |-> NoPack] /\ voided = {}

Goto(r, label) == pc' = [pc EXCEPT ![r] = label]
At(r, s) == pc[r] = "enter" /\ stage[r] = s

(* What the manifest says now, whatever the run's meta recorded.           *)
Missing_RefreshingCounts(r) == {u \in required[r] : unitState[u] = "invalid"}
Missing(r) == {u \in required[r] : unitState[u] # "ready"}

-----------------------------------------------------------------------------
(* build() and resume(): the run goes on at the stage not yet done.        *)
Start(r) ==
  /\ pc[r] = "stopped" /\ stage[r] # Finished /\ starts[r] < MaxStarts
  /\ Cardinality({other \in Run : pc[other] # "stopped"}) < MaxLive
  /\ starts' = [starts EXCEPT ![r] = @ + 1]
  /\ Goto(r, "enter")
  /\ UNCHANGED <<planVars, manifestVars, stored, lock, stage, missing, chunks, slice,
                 packed, queue, picked, voided>>

(* An exception or the death of the process: either way the lock is freed. *)
Released(r) == IF lock = r THEN NoRun ELSE lock

Stop(r) ==
  /\ pc[r] # "stopped"
  /\ Goto(r, "stopped") /\ lock' = Released(r)
  /\ queue' = [queue EXCEPT ![r] = {}] /\ picked' = [picked EXCEPT ![r] = NoPack]
  /\ UNCHANGED <<planVars, manifestVars, stored, progressVars, voided>>

(* The stage is marked done; the run ends after the last one.              *)
FinishStage(r) ==
  /\ pc[r] = "leave"
  /\ stage' = [stage EXCEPT ![r] = @ + 1]
  /\ Goto(r, IF stage[r] = Package THEN "stopped" ELSE "enter")
  /\ UNCHANGED <<planVars, manifestVars, stored, lock, missing, chunks, slice, packed,
                 starts, queue, picked, voided>>

-----------------------------------------------------------------------------
(* prepare.  ensure_paths looks for the manifest and writes the default    *)
(* one without the lock: other runs may come in between.                   *)
FindManifest(r) ==
  /\ At(r, Prepare)
  /\ Goto(r, IF exists THEN "source" ELSE "initialize")
  /\ UNCHANGED <<planVars, manifestVars, stored, lock, progressVars, queue, picked,
                 voided>>

PackagingRuns == {p \in Run : pc[p] \in {"select", "copy"}}

InitializeManifest(r) ==
  /\ pc[r] = "initialize"
  /\ voided' = voided \cup PackagingRuns
  /\ exists' = TRUE /\ source' = NoSource /\ unitState' = Blank /\ unitOwner' = Unowned
  /\ Goto(r, "source")
  /\ UNCHANGED <<planVars, stored, lock, progressVars, queue, picked>>

SetSourceInstance(r) ==
  LET changed == source # NoSource /\ source # instance[r] IN
  /\ pc[r] = "source" /\ lock = NoRun
  /\ exists' = TRUE /\ source' = instance[r]
  /\ unitState' = IF changed THEN Blank ELSE unitState
  /\ unitOwner' = IF changed THEN Unowned ELSE unitOwner
  /\ voided' = IF changed THEN voided \cup PackagingRuns ELSE voided
  /\ Goto(r, "leave")
  /\ UNCHANGED <<planVars, stored, lock, progressVars, queue, picked>>

(* discover.  Nothing is fetched when the required coverage is ready; a    *)
(* source without matching entities leaves no chunks either.               *)
DiscoverGeo(r) ==
  /\ At(r, Discover)
  /\ missing' = [missing EXCEPT ![r] = Missing(r)]
  /\ \/ Missing(r) # {} /\ chunks' = chunks \cup {r}
     \/ chunks' = chunks \ {r}
  /\ Goto(r, "leave")
  /\ UNCHANGED <<planVars, manifestVars, stored, lock, stage, slice, packed, starts,
                 queue, picked, voided>>

-----------------------------------------------------------------------------
(* materialize.  The chunks land in the run's own staging file (BuildRun   *)
(* models how); then the missing units are merged into the store.          *)
MaterializeSlice(r) ==
  /\ At(r, Materialize)
  /\ slice' = IF r \in chunks THEN slice \cup {r} ELSE slice
  /\ Goto(r, IF r \in chunks /\ missing[r] # {} THEN "merge" ELSE "leave")
  /\ UNCHANGED <<planVars, manifestVars, stored, lock, stage, missing, chunks, packed,
                 starts, queue, picked, voided>>

BeginMerge(r) ==
  /\ pc[r] = "merge" /\ lock = NoRun
  /\ lock' = r /\ queue' = [queue EXCEPT ![r] = missing[r]]
  /\ Goto(r, "merging")
  /\ UNCHANGED <<planVars, manifestVars, stored, progressVars, picked, voided>>

CanClaimRefresh(u) == unitState[u] # "ready"

(* The loop goes over the units in sorted order: any fixed order.          *)
Current(r) == CHOOSE u \in queue[r] : TRUE

SkipReadyUnit(r) ==
  /\ pc[r] = "merging" /\ queue[r] # {} /\ ~CanClaimRefresh(Current(r))
  /\ queue' = [queue EXCEPT ![r] = @ \ {Current(r)}]
  /\ UNCHANGED <<planVars, manifestVars, stored, lock, progressVars, pc, picked, voided>>

MarkRefreshing(r) ==
  /\ pc[r] = "merging" /\ queue[r] # {} /\ CanClaimRefresh(Current(r))
  /\ exists' = TRUE
  /\ unitState' = [unitState EXCEPT ![Current(r)] = "refreshing"]
  /\ unitOwner' = [unitOwner EXCEPT ![Current(r)] = r]
  /\ Goto(r, "refreshing")
  /\ UNCHANGED <<planVars, source, stored, lock, progressVars, queue, picked, voided>>

(* One transaction replaces the unit's rows by those of the run's slice,   *)
(* which may have none for the unit.                                       *)
MergeTempDb_SkipsStored(r) == IF stored[Current(r)] = NoRun THEN r ELSE stored[Current(r)]
MergeTempDb(r) == r

MergeUnit(r) ==
  /\ pc[r] = "refreshing"
  /\ stored' = [stored EXCEPT ![Current(r)] = MergeTempDb(r)]
  /\ Goto(r, "merged")
  /\ UNCHANGED <<planVars, manifestVars, lock, progressVars, queue, picked, voided>>

(* mark_ready(..., locked=True): the caller holds the lock already.        *)
MayWrite_TakesLock(r) == lock = NoRun
MayWrite(r) == lock = r

MarkReady(r) ==
  /\ pc[r] = "merged" /\ MayWrite(r)
  /\ unitState' = [unitState EXCEPT ![Current(r)] = "ready"]
  /\ unitOwner' = [unitOwner EXCEPT ![Current(r)] = r]
  /\ exists' = TRUE
  /\ queue' = [queue EXCEPT ![r] = @ \ {Current(r)}]
  /\ Goto(r, "merging")
  /\ UNCHANGED <<planVars, source, stored, lock, progressVars, picked, voided>>

EndMerge(r) ==
  /\ pc[r] = "merging" /\ queue[r] = {}
  /\ lock' = NoRun
  /\ Goto(r, "record")
  /\ UNCHANGED <<planVars, manifestVars, stored, progressVars, queue, picked, voided>>

RecordCoverage(r) ==
  /\ pc[r] = "record"
  /\ missing' = [missing EXCEPT ![r] = Missing(r)]
  /\ Goto(r, "leave")
  /\ UNCHANGED <<planVars, manifestVars, stored, lock, stage, chunks, slice, packed,
                 starts, queue, picked, voided>>

-----------------------------------------------------------------------------
(* canonical_staging_db: the store once the coverage is ready, nothing for *)
(* a run without a staging file, an error for a run that has one.          *)
UseStore(r) == Missing(r) = {}
NoStaging(r) == Missing(r) # {} /\ r \notin slice

(* canonicalize and reconcile rewrite the store under the lock, for the    *)
(* domains that have chunks; the rows stay those of the run that stored    *)
(* them.                                                                   *)
ReviseStore(r) ==
  /\ At(r, Revise)
  /\ UseStore(r) /\ (r \in chunks => lock = NoRun)
  /\ Goto(r, "leave")
  /\ UNCHANGED <<planVars, manifestVars, stored, lock, progressVars, queue, picked,
                 voided>>

PassRevise(r) ==
  /\ At(r, Revise) /\ NoStaging(r)
  /\ Goto(r, "leave")
  /\ UNCHANGED <<planVars, manifestVars, stored, lock, progressVars, queue, picked,
                 voided>>

(* package.  The coverage is checked first, then the recipe's ids are      *)
(* selected, and later the rows of those ids are copied, each step on a    *)
(* connection of its own and without the lock.                             *)
HasRows(u) == stored[u] # NoRun /\ u \in yields[stored[u]]

ResolveStore(r) ==
  /\ At(r, Package) /\ UseStore(r)
  /\ Goto(r, "select")
  /\ UNCHANGED <<planVars, manifestVars, stored, lock, progressVars, queue, picked,
                 voided>>

Selection(r) ==
  [u \in Unit |-> IF u \in required[r] /\ HasRows(u) THEN stored[u] ELSE NoRun]

SelectIds(r) ==
  /\ pc[r] = "select" /\ Selection(r) # NoPack
  /\ picked' = [picked EXCEPT ![r] = Selection(r)]
  /\ Goto(r, "copy")
  /\ UNCHANGED <<planVars, manifestVars, stored, lock, progressVars, queue, voided>>

(* "no selected entities after filtering": the recipe is skipped. *)
SkipEmptyRecipe(r) ==
  /\ pc[r] = "select" /\ Selection(r) = NoPack
  /\ Goto(r, "leave")
  /\ UNCHANGED <<planVars, manifestVars, stored, lock, progressVars, queue, picked,
                 voided>>

(* The rows that bear the selected ids now: of a unit that was merged      *)
(* again since, the ids may all have gone.                                 *)
Copied(r, u) ==
  IF picked[r][u] = NoRun THEN {NoRun}
  ELSE IF picked[r][u] = stored[u] THEN {stored[u]}
  ELSE {NoRun} \cup {p \in Run : p = stored[u] /\ HasRows(u)}

CopyToPack(r) ==
  /\ pc[r] = "copy"
  /\ \E pack \in [Unit -> Run \cup {NoRun}] :
       /\ \A u \in Unit : pack[u] \in Copied(r, u)
       /\ packed' = [packed EXCEPT ![r] = pack]
  /\ picked' = [picked EXCEPT ![r] = NoPack]
  /\ Goto(r, "leave")
  /\ UNCHANGED <<planVars, manifestVars, stored, lock, stage, missing, chunks, slice,
                 starts, queue, voided>>

SkipRecipe(r) ==
  /\ At(r, Package) /\ NoStaging(r)
  /\ Goto(r, "leave")
  /\ UNCHANGED <<planVars, manifestVars, stored, lock, progressVars, queue, picked,
                 voided>>

(* BuildExecutionError: "Shared geo coverage is incomplete after refresh". *)
RefusePartialCoverage(r) ==
  /\ At(r, Revise) \/ At(r, Package)
  /\ ~UseStore(r) /\ ~NoStaging(r)
  /\ Goto(r, "stopped")
  /\ UNCHANGED <<planVars, manifestVars, stored, lock, progressVars, queue, picked,
                 voided>>

-----------------------------------------------------------------------------
Step(r) ==
  \/ FinishStage(r)
  \/ FindManifest(r) \/ InitializeManifest(r) \/ SetSourceInstance(r)
  \/ DiscoverGeo(r)
  \/ MaterializeSlice(r) \/ BeginMerge(r) \/ SkipReadyUnit(r) \/ MarkRefreshing(r)
  \/ MergeUnit(r) \/ MarkReady(r) \/ EndMerge(r) \/ RecordCoverage(r)
  \/ ReviseStore(r) \/ PassRevise(r)
  \/ ResolveStore(r) \/ SelectIds(r) \/ SkipEmptyRecipe(r) \/ CopyToPack(r)
  \/ SkipRecipe(r)
  \/ RefusePartialCoverage(r)

(* Every run is finished, or stopped for good: the bound on Start.         *)
AllStopped ==
  /\ \A r \in Run : pc[r] = "stopped" /\ (stage[r] = Finished \/ starts[r] = MaxStarts)
  /\ UNCHANGED vars

Next ==
  \/ \E r \in Run : Start(r) \/ Stop(r) \/ Step(r)
  \/ AllStopped

Spec == Init /\ [][Next]_vars

(* A live process goes on: only Start and Stop are up to the environment.  *)
FairSpec == Spec /\ \A r \in Run : WF_vars(Step(r))

-----------------------------------------------------------------------------
(* A unit that the manifest calls ready holds the rows of the very run     *)
(* that the manifest names, after any mix of merges, crashes between a     *)
(* merge and its mark, stale claims taken over, and source changes.        *)
ReadyIsStored ==
  \A u \in Unit : unitState[u] = "ready" => unitOwner[u] # NoRun /\ stored[u] = unitOwner[u]

(* Ready coverage is never taken back unit by unit: a step that makes a    *)
(* ready unit unready is a wholesale reset of the manifest (source change, *)
(* first use), never a second run's refresh of what is already there.      *)
CoverageIsKept ==
  [][\A u \in Unit : unitState[u] = "ready" =>
       unitState'[u] = "ready" \/ \A v \in Unit : unitState'[v] = "invalid"]_vars

(* A unit for which every run finds entities. *)
Populated(u) == \A r \in Run : u \in yields[r]

(* A geo pack has rows for every populated unit its plan requires, although *)
(* coverage is checked before the ids are selected, the ids before the     *)
(* rows are copied, and nothing of it under the lock: other runs merge in  *)
(* between, but not what is ready.  Excepted is a run that was packaging   *)
(* while the manifest was blanked, by a source change or by a first use    *)
(* that came late: then the units it checked are merged again under it.    *)
PacksHoldRequired ==
  \A r \in Run \ voided : packed[r] # NoPack =>
    \A u \in required[r] : Populated(u) => packed[r][u] # NoRun

(* A run that fetched geo data of its own does not finish without a pack   *)
(* when the plan requires a populated unit: it packages the complete store *)
(* or it fails, with the same exception.                                   *)
FetchedIsPacked ==
  \A r \in slice \ voided :
    stage[r] = Finished /\ (\E u \in required[r] : Populated(u)) => packed[r] # NoPack

(* Every started run ends: no two runs wait for each other's lock, and no  *)
(* run for its own.                                                        *)
RunsReturn == \A r \in Run : pc[r] # "stopped" ~> pc[r] = "stopped"

(* "Source changed - invalidate all coverage": what is ready was fetched   *)
(* from the instance the manifest records.                                 *)
ReadyIsFromSource ==
  \A u \in Unit : unitState[u] = "ready" => instance[stored[u]] = source

(* canonical_staging_db says it is "refusing to build a datapack from a    *)
(* partial geo set".  The set may become another one between its check and *)
(* the copy, and a unit may be ready with no rows at all.                  *)
PacksAreNotPartial ==
  \A r \in Run : packed[r] # NoPack => \A u \in required[r] : packed[r][u] # NoRun
=============================================================================
