--------------------------- MODULE GeoStoreProofs ---------------------------
(***************************************************************************)
(* Proofs about the data on disk: GeoStore, where builds fill the packs,   *)
(* and Library, where resolvers open packs and build their own.            *)
(*                                                                         *)
(* GeoStore is for any number of runs, units, instances, starts and live   *)
(* processes.  The invariant ties what a run does under the lock           *)
(* (Refreshes) to what the manifest says of the unit in its hands, and     *)
(* what a packaging run has checked (Packages) to what the store keeps.    *)
(*                                                                         *)
(* Library is for any modules on disk, callers and records.  The invariant *)
(* (LibraryInv) says that every built pack is what its cache key would     *)
(* build from what the directories hold.  Which modules a resolver has is  *)
(* a matter of the step that opens it.                                     *)
(***************************************************************************)
EXTENDS GeoStore, Library, FiniteSetTheorems, FunctionTheorems, WellFoundedInduction, TLAPS

(* Where a run can be, stage by stage. *)
Placed ==
  \A r \in Run :
    /\ required[r] # {} /\ required[r] \subseteq Unit
    /\ pc[r] \in {"select", "copy"} => stage[r] = Package
    /\ pc[r] = "leave" => stage[r] # Finished
    /\ pc[r] \in {"initialize", "source"} => stage[r] = Prepare
    /\ pc[r] \in {"merge", "record"} \cup Merging => stage[r] = Materialize
    /\ pc[r] \in {"refreshing", "merged"} => queue[r] # {}

(* The unit in hand is not ready, and holds the run's rows once merged. *)
Refreshes ==
  \A r \in Run :
    /\ pc[r] \in {"refreshing", "merged"} => unitState[Current(r)] # "ready"
    /\ pc[r] = "merged" => stored[Current(r)] = r

(* What the coverage check saw stays true, of the manifest and so of the   *)
(* rows, until the manifest is blanked: nobody merges what is ready.       *)
Packages ==
  \A r \in Run \ voided :
    /\ pc[r] \in {"select", "copy"} => \A u \in required[r] : unitState[u] = "ready"
    /\ pc[r] = "copy" => picked[r] = Selection(r)
    /\ pc[r] = "leave" /\ stage[r] = Package /\ r \in slice =>
         \A u \in required[r] : Populated(u) => packed[r] # NoPack

(* Types and places hold together: a run that leaves a stage is not past   *)
(* the last one.                                                           *)
LEMMA Grounded == Spec => [](TypeOK /\ Placed)
<1>1. Init => TypeOK
  <2> SUFFICES ASSUME Init PROVE TypeOK
    OBVIOUS
  <2>1. instance \in [Run -> Source] /\ required \in [Run -> SUBSET Unit]
    BY GeoStoreAssumption DEF Init
  <2>2. starts \in [Run -> 0..MaxStarts] /\ stage \in [Run -> Prepare..Finished]
    BY GeoStoreAssumption DEF Init, Prepare, Finished
  <2>3. /\ packed \in [Run -> [Unit -> Run \cup {NoRun}]]
        /\ picked \in [Run -> [Unit -> Run \cup {NoRun}]]
        /\ yields \in [Run -> SUBSET Unit]
    BY GeoStoreAssumption DEF Init, NoPack
  <2> QED
    BY <2>1, <2>2, <2>3, GeoStoreAssumption DEF Init, TypeOK, Blank, Unowned, Merging
<1>2. Init => Placed
  <2> SUFFICES ASSUME Init PROVE Placed
    OBVIOUS
  <2>1. \A r \in Run : required[r] \in Plans
    BY DEF Init
  <2>2. \A r \in Run : required[r] # {} /\ required[r] \subseteq Unit
    BY <2>1, GeoStoreAssumption
  <2>3. \A r \in Run : pc[r] = "stopped"
    BY DEF Init
  <2> QED
    BY <2>2, <2>3 DEF Placed, Merging
<1>3. TypeOK /\ Placed /\ [Next]_vars => TypeOK'
  <2> SUFFICES ASSUME TypeOK, Placed, [Next]_vars PROVE TypeOK'
    OBVIOUS
  <2> USE GeoStoreAssumption
       DEF TypeOK, Placed, Goto, At, Merging, Blank, Unowned, NoPack,
           planVars, manifestVars, progressVars, Prepare, Discover, Materialize, Revise,
           Package, Finished
  <2>1. ASSUME NEW r \in Run, Start(r) PROVE TypeOK'
    BY <2>1 DEF Start
  <2>2. ASSUME NEW r \in Run, Stop(r) PROVE TypeOK'
    BY <2>2 DEF Stop, Released
  <2>3. ASSUME NEW r \in Run, FinishStage(r) PROVE TypeOK'
    <3> USE DEF FinishStage
    <3>1. stage' \in [Run -> Prepare..Finished]
      <4>1. stage[r] \in Prepare..Package
        BY <2>3
      <4>2. stage' = [stage EXCEPT ![r] = stage[r] + 1]
        BY <2>3
      <4> QED
        BY <4>1, <4>2
    <3>2. pc' \in [Run -> {"stopped", "enter", "initialize", "source", "merge", "record",
                           "select", "copy", "leave"} \cup Merging]
      BY <2>3
    <3>3. \A p \in Run : pc'[p] \in Merging <=> lock' = p
      BY <2>3
    <3> QED
      BY <2>3, <3>1, <3>2, <3>3
  <2>4. ASSUME NEW r \in Run, FindManifest(r) PROVE TypeOK'
    BY <2>4 DEF FindManifest
  <2>5. ASSUME NEW r \in Run, InitializeManifest(r) PROVE TypeOK'
    BY <2>5 DEF InitializeManifest, PackagingRuns
  <2>6. ASSUME NEW r \in Run, SetSourceInstance(r) PROVE TypeOK'
    BY <2>6 DEF SetSourceInstance, PackagingRuns
  <2>7. ASSUME NEW r \in Run, DiscoverGeo(r) PROVE TypeOK'
    BY <2>7 DEF DiscoverGeo, Missing
  <2>8. ASSUME NEW r \in Run, MaterializeSlice(r) PROVE TypeOK'
    BY <2>8 DEF MaterializeSlice
  <2>9. ASSUME NEW r \in Run, BeginMerge(r) PROVE TypeOK'
    BY <2>9 DEF BeginMerge
  <2>10. ASSUME NEW r \in Run, SkipReadyUnit(r) PROVE TypeOK'
    BY <2>10 DEF SkipReadyUnit
  <2>11. ASSUME NEW r \in Run, MarkRefreshing(r) PROVE TypeOK'
    BY <2>11 DEF MarkRefreshing
  <2>12. ASSUME NEW r \in Run, MergeUnit(r) PROVE TypeOK'
    BY <2>12 DEF MergeUnit, MergeTempDb
  <2>13. ASSUME NEW r \in Run, MarkReady(r) PROVE TypeOK'
    BY <2>13 DEF MarkReady, MayWrite
  <2>14. ASSUME NEW r \in Run, EndMerge(r) PROVE TypeOK'
    BY <2>14 DEF EndMerge
  <2>15. ASSUME NEW r \in Run, RecordCoverage(r) PROVE TypeOK'
    BY <2>15 DEF RecordCoverage, Missing
  <2>16. ASSUME NEW r \in Run, ReviseStore(r) PROVE TypeOK'
    BY <2>16 DEF ReviseStore
  <2>17. ASSUME NEW r \in Run, PassRevise(r) PROVE TypeOK'
    BY <2>17 DEF PassRevise
  <2>18. ASSUME NEW r \in Run, ResolveStore(r) PROVE TypeOK'
    BY <2>18 DEF ResolveStore
  <2>19. ASSUME NEW r \in Run, CopyToPack(r) PROVE TypeOK'
    BY <2>19 DEF CopyToPack
  <2>20. ASSUME NEW r \in Run, SkipRecipe(r) PROVE TypeOK'
    BY <2>20 DEF SkipRecipe
  <2>21. ASSUME NEW r \in Run, RefusePartialCoverage(r) PROVE TypeOK'
    BY <2>21 DEF RefusePartialCoverage
  <2>23. ASSUME NEW r \in Run, SelectIds(r) PROVE TypeOK'
    <3>1. Selection(r) \in [Unit -> Run \cup {NoRun}]
      BY DEF Selection, HasRows
    <3>2. picked' \in [Run -> [Unit -> Run \cup {NoRun}]]
      BY <2>23, <3>1 DEF SelectIds
    <3> QED
      BY <2>23, <3>2 DEF SelectIds
  <2>24. ASSUME NEW r \in Run, SkipEmptyRecipe(r) PROVE TypeOK'
    BY <2>24 DEF SkipEmptyRecipe
  <2>22. CASE AllStopped \/ UNCHANGED vars
    BY <2>22 DEF AllStopped, vars, planVars, manifestVars, progressVars
  <2> QED
    BY <2>1, <2>2, <2>3, <2>4, <2>5, <2>6, <2>7, <2>8, <2>9, <2>10, <2>11, <2>12,
       <2>13, <2>14, <2>15, <2>16, <2>17, <2>18, <2>19, <2>20, <2>21, <2>22, <2>23, <2>24
       DEF Next, Step
<1>4. TypeOK /\ Placed /\ [Next]_vars => Placed'
  <2> SUFFICES ASSUME TypeOK, Placed, [Next]_vars PROVE Placed'
    OBVIOUS
  <2> USE DEF TypeOK, Placed, At, Goto, Merging, planVars, manifestVars, progressVars,
              Prepare, Discover, Materialize, Revise, Package, Finished
  <2>1. ASSUME NEW r \in Run, Start(r) PROVE Placed'
    BY <2>1 DEF Start
  <2>2. ASSUME NEW r \in Run, Stop(r) PROVE Placed'
    BY <2>2 DEF Stop, Released
  <2>3. ASSUME NEW r \in Run, FinishStage(r) PROVE Placed'
    BY <2>3 DEF FinishStage
  <2>4. ASSUME NEW r \in Run, FindManifest(r) PROVE Placed'
    BY <2>4 DEF FindManifest
  <2>5. ASSUME NEW r \in Run, InitializeManifest(r) PROVE Placed'
    BY <2>5 DEF InitializeManifest
  <2>6. ASSUME NEW r \in Run, SetSourceInstance(r) PROVE Placed'
    BY <2>6 DEF SetSourceInstance
  <2>7. ASSUME NEW r \in Run, DiscoverGeo(r) PROVE Placed'
    BY <2>7 DEF DiscoverGeo
  <2>8. ASSUME NEW r \in Run, MaterializeSlice(r) PROVE Placed'
    BY <2>8 DEF MaterializeSlice
  <2>9. ASSUME NEW r \in Run, BeginMerge(r) PROVE Placed'
    BY <2>9 DEF BeginMerge
  <2>10. ASSUME NEW r \in Run, SkipReadyUnit(r) PROVE Placed'
    BY <2>10 DEF SkipReadyUnit
  <2>11. ASSUME NEW r \in Run, MarkRefreshing(r) PROVE Placed'
    BY <2>11 DEF MarkRefreshing
  <2>12. ASSUME NEW r \in Run, MergeUnit(r) PROVE Placed'
    BY <2>12 DEF MergeUnit
  <2>13. ASSUME NEW r \in Run, MarkReady(r) PROVE Placed'
    BY <2>13 DEF MarkReady
  <2>14. ASSUME NEW r \in Run, EndMerge(r) PROVE Placed'
    BY <2>14 DEF EndMerge
  <2>15. ASSUME NEW r \in Run, RecordCoverage(r) PROVE Placed'
    BY <2>15 DEF RecordCoverage
  <2>16. ASSUME NEW r \in Run, ReviseStore(r) PROVE Placed'
    BY <2>16 DEF ReviseStore
  <2>17. ASSUME NEW r \in Run, PassRevise(r) PROVE Placed'
    BY <2>17 DEF PassRevise
  <2>18. ASSUME NEW r \in Run, ResolveStore(r) PROVE Placed'
    BY <2>18 DEF ResolveStore
  <2>19. ASSUME NEW r \in Run, CopyToPack(r) PROVE Placed'
    BY <2>19 DEF CopyToPack
  <2>20. ASSUME NEW r \in Run, SkipRecipe(r) PROVE Placed'
    BY <2>20 DEF SkipRecipe
  <2>21. ASSUME NEW r \in Run, RefusePartialCoverage(r) PROVE Placed'
    BY <2>21 DEF RefusePartialCoverage
  <2>23. ASSUME NEW r \in Run, SelectIds(r) PROVE Placed'
    BY <2>23 DEF SelectIds
  <2>24. ASSUME NEW r \in Run, SkipEmptyRecipe(r) PROVE Placed'
    BY <2>24 DEF SkipEmptyRecipe
  <2>22. CASE AllStopped \/ UNCHANGED vars
    BY <2>22 DEF AllStopped, vars, planVars, manifestVars, progressVars
  <2> QED
    BY <2>1, <2>2, <2>3, <2>4, <2>5, <2>6, <2>7, <2>8, <2>9, <2>10, <2>11, <2>12,
       <2>13, <2>14, <2>15, <2>16, <2>17, <2>18, <2>19, <2>20, <2>21, <2>22, <2>23, <2>24
       DEF Next, Step
<1> QED
  BY <1>1, <1>2, <1>3, <1>4, PTL DEF Spec

(* Every variable keeps its type, and the lock belongs to the run that     *)
(* merges: no two runs refresh the store together.                         *)
THEOREM Typing == Spec => []TypeOK
BY Grounded, PTL

LEMMA Refreshing == Spec => []Refreshes
<1>1. Init => Refreshes
  BY GeoStoreAssumption DEF Init, Refreshes, Merging
<1>2. TypeOK /\ Placed /\ Refreshes /\ [Next]_vars => Refreshes'
  <2> SUFFICES ASSUME TypeOK /\ Placed, Refreshes, [Next]_vars PROVE Refreshes'
    OBVIOUS
  <2> USE GeoStoreAssumption DEF TypeOK, Placed, Refreshes, Current, At, Goto,
       Merging, Blank, planVars, manifestVars, progressVars
  <2>1. ASSUME NEW r \in Run, Start(r) PROVE Refreshes'
    BY <2>1 DEF Start
  <2>2. ASSUME NEW r \in Run, Stop(r) PROVE Refreshes'
    BY <2>2 DEF Stop, Released
  <2>3. ASSUME NEW r \in Run, FinishStage(r) PROVE Refreshes'
    BY <2>3 DEF FinishStage
  <2>4. ASSUME NEW r \in Run, FindManifest(r) PROVE Refreshes'
    BY <2>4 DEF FindManifest
  <2>5. ASSUME NEW r \in Run, InitializeManifest(r) PROVE Refreshes'
    BY <2>5 DEF InitializeManifest
  <2>6. ASSUME NEW r \in Run, SetSourceInstance(r) PROVE Refreshes'
    BY <2>6 DEF SetSourceInstance
  <2>7. ASSUME NEW r \in Run, DiscoverGeo(r) PROVE Refreshes'
    BY <2>7 DEF DiscoverGeo
  <2>8. ASSUME NEW r \in Run, MaterializeSlice(r) PROVE Refreshes'
    BY <2>8 DEF MaterializeSlice
  <2>9. ASSUME NEW r \in Run, BeginMerge(r) PROVE Refreshes'
    BY <2>9 DEF BeginMerge
  <2>10. ASSUME NEW r \in Run, SkipReadyUnit(r) PROVE Refreshes'
    BY <2>10 DEF SkipReadyUnit, CanClaimRefresh
  <2>11. ASSUME NEW r \in Run, MarkRefreshing(r) PROVE Refreshes'
    BY <2>11 DEF MarkRefreshing, CanClaimRefresh
  <2>12. ASSUME NEW r \in Run, MergeUnit(r) PROVE Refreshes'
    BY <2>12 DEF MergeUnit, MergeTempDb
  <2>13. ASSUME NEW r \in Run, MarkReady(r) PROVE Refreshes'
    BY <2>13 DEF MarkReady, MayWrite
  <2>14. ASSUME NEW r \in Run, EndMerge(r) PROVE Refreshes'
    BY <2>14 DEF EndMerge
  <2>15. ASSUME NEW r \in Run, RecordCoverage(r) PROVE Refreshes'
    BY <2>15 DEF RecordCoverage
  <2>16. ASSUME NEW r \in Run, ReviseStore(r) PROVE Refreshes'
    BY <2>16 DEF ReviseStore
  <2>17. ASSUME NEW r \in Run, PassRevise(r) PROVE Refreshes'
    BY <2>17 DEF PassRevise
  <2>18. ASSUME NEW r \in Run, ResolveStore(r) PROVE Refreshes'
    BY <2>18 DEF ResolveStore
  <2>19. ASSUME NEW r \in Run, CopyToPack(r) PROVE Refreshes'
    BY <2>19 DEF CopyToPack
  <2>20. ASSUME NEW r \in Run, SkipRecipe(r) PROVE Refreshes'
    BY <2>20 DEF SkipRecipe
  <2>21. ASSUME NEW r \in Run, RefusePartialCoverage(r) PROVE Refreshes'
    BY <2>21 DEF RefusePartialCoverage
  <2>23. ASSUME NEW r \in Run, SelectIds(r) PROVE Refreshes'
    BY <2>23 DEF SelectIds
  <2>24. ASSUME NEW r \in Run, SkipEmptyRecipe(r) PROVE Refreshes'
    BY <2>24 DEF SkipEmptyRecipe
  <2>22. CASE AllStopped \/ UNCHANGED vars
    BY <2>22 DEF AllStopped, vars, planVars, manifestVars, progressVars
  <2> QED
    BY <2>1, <2>2, <2>3, <2>4, <2>5, <2>6, <2>7, <2>8, <2>9, <2>10, <2>11, <2>12,
       <2>13, <2>14, <2>15, <2>16, <2>17, <2>18, <2>19, <2>20, <2>21, <2>22, <2>23, <2>24
       DEF Next, Step
<1> QED
  BY <1>1, <1>2, Grounded, PTL DEF Spec

(* A ready unit holds the rows of the run the manifest names. *)
THEOREM Stored == Spec => []ReadyIsStored
<1>1. Init => ReadyIsStored
  BY GeoStoreAssumption DEF Init, ReadyIsStored, Blank, Unowned
<1>2. TypeOK /\ Refreshes /\ ReadyIsStored /\ [Next]_vars => ReadyIsStored'
  <2> SUFFICES ASSUME TypeOK, Refreshes, ReadyIsStored, [Next]_vars PROVE ReadyIsStored'
    OBVIOUS
  <2> USE GeoStoreAssumption DEF TypeOK, Refreshes, ReadyIsStored, Merging, Blank,
       Unowned, planVars, manifestVars, progressVars
  <2>1. ASSUME NEW r \in Run, Start(r) PROVE ReadyIsStored'
    BY <2>1 DEF Start
  <2>2. ASSUME NEW r \in Run, Stop(r) PROVE ReadyIsStored'
    BY <2>2 DEF Stop
  <2>3. ASSUME NEW r \in Run, FinishStage(r) PROVE ReadyIsStored'
    BY <2>3 DEF FinishStage
  <2>4. ASSUME NEW r \in Run, FindManifest(r) PROVE ReadyIsStored'
    BY <2>4 DEF FindManifest
  <2>5. ASSUME NEW r \in Run, InitializeManifest(r) PROVE ReadyIsStored'
    BY <2>5 DEF InitializeManifest
  <2>6. ASSUME NEW r \in Run, SetSourceInstance(r) PROVE ReadyIsStored'
    BY <2>6 DEF SetSourceInstance
  <2>7. ASSUME NEW r \in Run, DiscoverGeo(r) PROVE ReadyIsStored'
    BY <2>7 DEF DiscoverGeo
  <2>8. ASSUME NEW r \in Run, MaterializeSlice(r) PROVE ReadyIsStored'
    BY <2>8 DEF MaterializeSlice
  <2>9. ASSUME NEW r \in Run, BeginMerge(r) PROVE ReadyIsStored'
    BY <2>9 DEF BeginMerge
  <2>10. ASSUME NEW r \in Run, SkipReadyUnit(r) PROVE ReadyIsStored'
    BY <2>10 DEF SkipReadyUnit
  <2>11. ASSUME NEW r \in Run, MarkRefreshing(r) PROVE ReadyIsStored'
    BY <2>11 DEF MarkRefreshing
  <2>12. ASSUME NEW r \in Run, MergeUnit(r) PROVE ReadyIsStored'
    BY <2>12 DEF MergeUnit, MergeTempDb
  <2>13. ASSUME NEW r \in Run, MarkReady(r) PROVE ReadyIsStored'
    BY <2>13 DEF MarkReady
  <2>14. ASSUME NEW r \in Run, EndMerge(r) PROVE ReadyIsStored'
    BY <2>14 DEF EndMerge
  <2>15. ASSUME NEW r \in Run, RecordCoverage(r) PROVE ReadyIsStored'
    BY <2>15 DEF RecordCoverage
  <2>16. ASSUME NEW r \in Run, ReviseStore(r) PROVE ReadyIsStored'
    BY <2>16 DEF ReviseStore
  <2>17. ASSUME NEW r \in Run, PassRevise(r) PROVE ReadyIsStored'
    BY <2>17 DEF PassRevise
  <2>18. ASSUME NEW r \in Run, ResolveStore(r) PROVE ReadyIsStored'
    BY <2>18 DEF ResolveStore
  <2>19. ASSUME NEW r \in Run, CopyToPack(r) PROVE ReadyIsStored'
    BY <2>19 DEF CopyToPack
  <2>20. ASSUME NEW r \in Run, SkipRecipe(r) PROVE ReadyIsStored'
    BY <2>20 DEF SkipRecipe
  <2>21. ASSUME NEW r \in Run, RefusePartialCoverage(r) PROVE ReadyIsStored'
    BY <2>21 DEF RefusePartialCoverage
  <2>23. ASSUME NEW r \in Run, SelectIds(r) PROVE ReadyIsStored'
    BY <2>23 DEF SelectIds
  <2>24. ASSUME NEW r \in Run, SkipEmptyRecipe(r) PROVE ReadyIsStored'
    BY <2>24 DEF SkipEmptyRecipe
  <2>22. CASE AllStopped \/ UNCHANGED vars
    BY <2>22 DEF AllStopped, vars, planVars, manifestVars, progressVars
  <2> QED
    BY <2>1, <2>2, <2>3, <2>4, <2>5, <2>6, <2>7, <2>8, <2>9, <2>10, <2>11, <2>12,
       <2>13, <2>14, <2>15, <2>16, <2>17, <2>18, <2>19, <2>20, <2>21, <2>22, <2>23, <2>24
       DEF Next, Step
<1> QED
  BY <1>1, <1>2, Typing, Refreshing, PTL DEF Spec

(* What no step does to the store and its manifest: what is ready is not   *)
(* merged, and stops being ready only for all, which voids who packages.   *)
Kindly ==
  /\ required' = required /\ yields' = yields /\ voided \subseteq voided'
  /\ \A u \in Unit : unitState[u] = "ready" =>
       /\ stored'[u] = stored[u]
       /\ unitState'[u] = "ready" \/ PackagingRuns \subseteq voided'

LEMMA StoreSteps ==
  ASSUME TypeOK, Placed, Refreshes, [Next]_vars
  PROVE  Kindly
<1> USE DEF TypeOK, Placed, Refreshes, Kindly, Current, At, Goto, Merging, planVars,
            manifestVars, progressVars
<1>1. ASSUME NEW r \in Run, Start(r) PROVE Kindly
  BY <1>1 DEF Start
<1>2. ASSUME NEW r \in Run, Stop(r) PROVE Kindly
  BY <1>2 DEF Stop, Released
<1>3. ASSUME NEW r \in Run, FinishStage(r) PROVE Kindly
  BY <1>3 DEF FinishStage
<1>4. ASSUME NEW r \in Run, FindManifest(r) PROVE Kindly
  BY <1>4 DEF FindManifest
<1>5. ASSUME NEW r \in Run, InitializeManifest(r) PROVE Kindly
  BY <1>5 DEF InitializeManifest
<1>6. ASSUME NEW r \in Run, SetSourceInstance(r) PROVE Kindly
  BY <1>6 DEF SetSourceInstance
<1>7. ASSUME NEW r \in Run, DiscoverGeo(r) PROVE Kindly
  BY <1>7 DEF DiscoverGeo
<1>8. ASSUME NEW r \in Run, MaterializeSlice(r) PROVE Kindly
  BY <1>8 DEF MaterializeSlice
<1>9. ASSUME NEW r \in Run, BeginMerge(r) PROVE Kindly
  BY <1>9 DEF BeginMerge
<1>10. ASSUME NEW r \in Run, SkipReadyUnit(r) PROVE Kindly
  BY <1>10 DEF SkipReadyUnit, CanClaimRefresh
<1>11. ASSUME NEW r \in Run, MarkRefreshing(r) PROVE Kindly
  BY <1>11 DEF MarkRefreshing, CanClaimRefresh
<1>12. ASSUME NEW r \in Run, MergeUnit(r) PROVE Kindly
  BY <1>12 DEF MergeUnit, MergeTempDb
<1>13. ASSUME NEW r \in Run, MarkReady(r) PROVE Kindly
  BY <1>13 DEF MarkReady, MayWrite
<1>14. ASSUME NEW r \in Run, EndMerge(r) PROVE Kindly
  BY <1>14 DEF EndMerge
<1>15. ASSUME NEW r \in Run, RecordCoverage(r) PROVE Kindly
  BY <1>15 DEF RecordCoverage
<1>16. ASSUME NEW r \in Run, ReviseStore(r) PROVE Kindly
  BY <1>16 DEF ReviseStore
<1>17. ASSUME NEW r \in Run, PassRevise(r) PROVE Kindly
  BY <1>17 DEF PassRevise
<1>18. ASSUME NEW r \in Run, ResolveStore(r) PROVE Kindly
  BY <1>18 DEF ResolveStore
<1>19. ASSUME NEW r \in Run, SelectIds(r) PROVE Kindly
  BY <1>19 DEF SelectIds
<1>20. ASSUME NEW r \in Run, SkipEmptyRecipe(r) PROVE Kindly
  BY <1>20 DEF SkipEmptyRecipe
<1>21. ASSUME NEW r \in Run, CopyToPack(r) PROVE Kindly
  BY <1>21 DEF CopyToPack
<1>22. ASSUME NEW r \in Run, SkipRecipe(r) PROVE Kindly
  BY <1>22 DEF SkipRecipe, NoStaging
<1>23. ASSUME NEW r \in Run, RefusePartialCoverage(r) PROVE Kindly
  BY <1>23 DEF RefusePartialCoverage
<1>24. CASE AllStopped \/ UNCHANGED vars
  BY <1>24 DEF AllStopped, vars
<1> QED
  BY <1>1, <1>2, <1>3, <1>4, <1>5, <1>6, <1>7, <1>8, <1>9, <1>10, <1>11,
     <1>12, <1>13, <1>14, <1>15, <1>16, <1>17, <1>18, <1>19, <1>20, <1>21, <1>22,
     <1>23, <1>24
  DEF Next, Step

(* How a run comes to a place of the package stage, or past it.            *)
Arrives(p) ==
  /\ pc'[p] = "select" => pc[p] = "select" \/ ResolveStore(p)
  /\ pc'[p] = "copy" => (pc[p] = "copy" /\ picked'[p] = picked[p]) \/ SelectIds(p)
  /\ pc'[p] = "leave" /\ stage'[p] = Package =>
       \/ /\ pc[p] = "leave" /\ stage[p] = Package /\ packed'[p] = packed[p]
          /\ p \in slice' => p \in slice
       \/ SkipEmptyRecipe(p) \/ CopyToPack(p) \/ SkipRecipe(p)
  /\ packed'[p] = packed[p] \/ CopyToPack(p)
  /\ stage'[p] = Finished =>
       /\ packed'[p] = packed[p] /\ (p \in slice' => p \in slice)
       /\ stage[p] = Finished \/ (pc[p] = "leave" /\ stage[p] = Package)

LEMMA RunSteps ==
  ASSUME TypeOK, Placed, [Next]_vars, NEW p \in Run
  PROVE  Arrives(p)
<1> USE DEF TypeOK, Placed, Arrives, At, Goto, Merging, planVars, manifestVars,
            progressVars, Prepare, Discover, Materialize, Revise, Package, Finished
<1>1. ASSUME NEW r \in Run, Start(r) PROVE Arrives(p)
  BY <1>1 DEF Start
<1>2. ASSUME NEW r \in Run, Stop(r) PROVE Arrives(p)
  BY <1>2 DEF Stop, Released
<1>3. ASSUME NEW r \in Run, FinishStage(r) PROVE Arrives(p)
  <2>1. stage[r] \in 1..6 /\ stage'[r] = stage[r] + 1 /\ (p # r => stage'[p] = stage[p])
    BY <1>3 DEF FinishStage
  <2>2. stage'[r] = 6 => stage[r] = 5
    BY <2>1
  <2>3. pc'[r] \in {"stopped", "enter"} /\ (p # r => pc'[p] = pc[p])
    BY <1>3 DEF FinishStage
  <2> QED
    BY <1>3, <2>1, <2>2, <2>3 DEF FinishStage
<1>4. ASSUME NEW r \in Run, FindManifest(r) PROVE Arrives(p)
  BY <1>4 DEF FindManifest
<1>5. ASSUME NEW r \in Run, InitializeManifest(r) PROVE Arrives(p)
  BY <1>5 DEF InitializeManifest
<1>6. ASSUME NEW r \in Run, SetSourceInstance(r) PROVE Arrives(p)
  BY <1>6 DEF SetSourceInstance
<1>7. ASSUME NEW r \in Run, DiscoverGeo(r) PROVE Arrives(p)
  BY <1>7 DEF DiscoverGeo
<1>8. ASSUME NEW r \in Run, MaterializeSlice(r) PROVE Arrives(p)
  BY <1>8 DEF MaterializeSlice
<1>9. ASSUME NEW r \in Run, BeginMerge(r) PROVE Arrives(p)
  BY <1>9 DEF BeginMerge
<1>10. ASSUME NEW r \in Run, SkipReadyUnit(r) PROVE Arrives(p)
  BY <1>10 DEF SkipReadyUnit, CanClaimRefresh
<1>11. ASSUME NEW r \in Run, MarkRefreshing(r) PROVE Arrives(p)
  BY <1>11 DEF MarkRefreshing, CanClaimRefresh
<1>12. ASSUME NEW r \in Run, MergeUnit(r) PROVE Arrives(p)
  BY <1>12 DEF MergeUnit, MergeTempDb
<1>13. ASSUME NEW r \in Run, MarkReady(r) PROVE Arrives(p)
  BY <1>13 DEF MarkReady, MayWrite
<1>14. ASSUME NEW r \in Run, EndMerge(r) PROVE Arrives(p)
  BY <1>14 DEF EndMerge
<1>15. ASSUME NEW r \in Run, RecordCoverage(r) PROVE Arrives(p)
  BY <1>15 DEF RecordCoverage
<1>16. ASSUME NEW r \in Run, ReviseStore(r) PROVE Arrives(p)
  BY <1>16 DEF ReviseStore
<1>17. ASSUME NEW r \in Run, PassRevise(r) PROVE Arrives(p)
  BY <1>17 DEF PassRevise
<1>18. ASSUME NEW r \in Run, ResolveStore(r) PROVE Arrives(p)
  BY <1>18 DEF ResolveStore
<1>19. ASSUME NEW r \in Run, SelectIds(r) PROVE Arrives(p)
  BY <1>19 DEF SelectIds
<1>20. ASSUME NEW r \in Run, SkipEmptyRecipe(r) PROVE Arrives(p)
  BY <1>20 DEF SkipEmptyRecipe
<1>21. ASSUME NEW r \in Run, CopyToPack(r) PROVE Arrives(p)
  <2>1. p # r => packed'[p] = packed[p] /\ picked'[p] = picked[p] /\ pc'[p] = pc[p]
    BY <1>21 DEF CopyToPack
  <2>2. pc'[r] = "leave" /\ stage' = stage /\ slice' = slice /\ stage[r] = Package
    BY <1>21 DEF CopyToPack
  <2> HIDE DEF TypeOK, Placed
  <2> QED
    BY <1>21, <2>1, <2>2
<1>22. ASSUME NEW r \in Run, SkipRecipe(r) PROVE Arrives(p)
  BY <1>22 DEF SkipRecipe, NoStaging
<1>23. ASSUME NEW r \in Run, RefusePartialCoverage(r) PROVE Arrives(p)
  BY <1>23 DEF RefusePartialCoverage
<1>24. CASE AllStopped \/ UNCHANGED vars
  BY <1>24 DEF AllStopped, vars
<1> QED
  BY <1>1, <1>2, <1>3, <1>4, <1>5, <1>6, <1>7, <1>8, <1>9, <1>10, <1>11,
     <1>12, <1>13, <1>14, <1>15, <1>16, <1>17, <1>18, <1>19, <1>20, <1>21, <1>22,
     <1>23, <1>24
  DEF Next, Step

(* A populated unit that is ready has rows, and is selected.               *)
LEMMA ReadyIsSelected ==
  ASSUME TypeOK, ReadyIsStored, NEW p \in Run, NEW u \in required[p],
         unitState[u] = "ready", Populated(u)
  PROVE  stored[u] # NoRun /\ Selection(p)[u] = stored[u]
<1>1. u \in Unit /\ stored[u] # NoRun /\ stored[u] \in Run
  BY DEF TypeOK, ReadyIsStored
<1>2. u \in yields[stored[u]]
  BY <1>1 DEF Populated
<1> QED
  BY <1>1, <1>2 DEF Selection, HasRows

(* Then it is copied too, if nothing has been blanked.                     *)
LEMMA SelectedIsCopied ==
  ASSUME TypeOK, ReadyIsStored, Packages, NEW p \in Run \ voided, CopyToPack(p),
         NEW u \in required[p], Populated(u)
  PROVE  packed'[p][u] # NoRun /\ packed'[p] # NoPack
<1>1. u \in Unit /\ unitState[u] = "ready" /\ picked[p] = Selection(p)
  BY DEF TypeOK, Packages, CopyToPack
<1>2. stored[u] # NoRun /\ picked[p][u] = stored[u]
  BY <1>1, ReadyIsSelected
<1>3. Copied(p, u) = {stored[u]}
  BY <1>2 DEF Copied
<1>4. packed'[p][u] \in Copied(p, u)
  <2>1. PICK pack \in [Unit -> Run \cup {NoRun}] :
          /\ \A v \in Unit : pack[v] \in Copied(p, v)
          /\ packed' = [packed EXCEPT ![p] = pack]
    BY DEF CopyToPack
  <2>2. packed'[p] = pack
    BY <2>1 DEF TypeOK
  <2> QED
    BY <1>1, <2>1, <2>2
<1> QED
  BY <1>1, <1>2, <1>3, <1>4 DEF NoPack

LEMMA Packaging == Spec => []Packages
<1>1. Init => Packages
  BY GeoStoreAssumption DEF Init, Packages, Package
<1>2. TypeOK /\ Placed /\ Refreshes /\ ReadyIsStored /\ Packages /\ [Next]_vars => Packages'
  <2> SUFFICES ASSUME TypeOK, Placed, Refreshes, ReadyIsStored, Packages, [Next]_vars,
                      NEW p \in Run, p \notin voided'
               PROVE  /\ pc'[p] \in {"select", "copy"} =>
                           \A u \in required'[p] : unitState'[u] = "ready"
                      /\ pc'[p] = "copy" => picked'[p] = Selection(p)'
                      /\ pc'[p] = "leave" /\ stage'[p] = Package /\ p \in slice' =>
                           \A u \in required'[p] : Populated(u)' => packed'[p] # NoPack
    BY DEF Packages
  <2>1. Kindly /\ Arrives(p)
    BY StoreSteps, RunSteps
  <2>2. p \in Run \ voided /\ required'[p] = required[p] /\ required[p] \subseteq Unit
    BY <2>1 DEF Kindly, Placed
  <2>3. ASSUME \A u \in required[p] : unitState[u] = "ready"
        PROVE  Selection(p)' = Selection(p)
    <3>1. \A u \in required[p] : stored'[u] = stored[u]
      BY <2>1, <2>2, <2>3 DEF Kindly
    <3> QED
      BY <2>1, <2>2, <3>1 DEF Kindly, Selection, HasRows
  <2>4. pc'[p] \in {"select", "copy"} => \A u \in required[p] : unitState'[u] = "ready"
    <3>1. CASE pc[p] \in {"select", "copy"}
      <4>1. \A u \in required[p] : unitState[u] = "ready"
        BY <2>2, <3>1 DEF Packages
      <4>2. p \in PackagingRuns
        BY <3>1 DEF PackagingRuns
      <4> QED
        BY <2>1, <2>2, <4>1, <4>2 DEF Kindly
    <3>2. CASE ResolveStore(p)
      BY <3>2 DEF ResolveStore, UseStore, Missing, manifestVars
    <3>3. CASE pc[p] \notin {"select", "copy"} /\ ~ResolveStore(p)
      BY <2>1, <3>3 DEF Arrives, SelectIds
    <3> QED
      BY <3>1, <3>2, <3>3
  <2>5. pc'[p] = "copy" => picked'[p] = Selection(p)'
    <3>1. CASE pc[p] = "copy" /\ picked'[p] = picked[p]
      BY <2>2, <2>3, <3>1 DEF Packages
    <3>2. CASE SelectIds(p)
      <4>1. picked'[p] = Selection(p)
        BY <3>2 DEF SelectIds, TypeOK
      <4>2. pc[p] = "select"
        BY <3>2 DEF SelectIds
      <4> QED
        BY <2>2, <2>3, <4>1, <4>2 DEF Packages
    <3> QED
      BY <2>1, <3>1, <3>2 DEF Arrives
  <2>6. ASSUME pc'[p] = "leave", stage'[p] = Package, p \in slice',
               NEW u \in required'[p], Populated(u)'
        PROVE  packed'[p] # NoPack
    <3>1. u \in required[p] /\ Populated(u)
      BY <2>1, <2>2, <2>6 DEF Kindly, Populated
    <3>2. CASE pc[p] = "leave" /\ stage[p] = Package /\ packed'[p] = packed[p] /\ p \in slice
      BY <2>2, <3>1, <3>2 DEF Packages
    <3>3. CASE SkipEmptyRecipe(p)
      <4>1. unitState[u] = "ready" /\ Selection(p) = NoPack
        BY <2>2, <3>1, <3>3 DEF Packages, SkipEmptyRecipe
      <4>2. stored[u] # NoRun /\ Selection(p)[u] = stored[u]
        BY <3>1, <4>1, ReadyIsSelected
      <4> QED
        BY <2>2, <3>1, <4>1, <4>2 DEF NoPack
    <3>4. CASE CopyToPack(p)
      BY <2>2, <3>1, <3>4, SelectedIsCopied
    <3>5. CASE SkipRecipe(p)
      BY <2>6, <3>5 DEF SkipRecipe, NoStaging, progressVars
    <3> QED
      BY <2>1, <2>6, <3>2, <3>3, <3>4, <3>5 DEF Arrives
  <2> QED
    BY <2>2, <2>4, <2>5, <2>6
<1> QED
  BY <1>1, <1>2, Grounded, Refreshing, Stored, PTL DEF Spec

(* A pack has rows for every required unit that all runs find entities     *)
(* for, although ids are selected in one step and rows copied in a later   *)
(* one: what the coverage check saw ready nobody merges meanwhile.  Not so *)
(* for a run that packages while the manifest is blanked.                  *)
THEOREM Required == Spec => []PacksHoldRequired
<1>1. Init => PacksHoldRequired
  BY DEF Init, PacksHoldRequired
<1>2. /\ TypeOK /\ Placed /\ Refreshes /\ ReadyIsStored /\ Packages
      /\ PacksHoldRequired /\ [Next]_vars
      => PacksHoldRequired'
  <2> SUFFICES ASSUME TypeOK, Placed, Refreshes, ReadyIsStored, Packages,
                      PacksHoldRequired, [Next]_vars,
                      NEW p \in Run, p \notin voided', packed'[p] # NoPack,
                      NEW u \in required'[p], Populated(u)'
               PROVE  packed'[p][u] # NoRun
    BY DEF PacksHoldRequired
  <2>1. Kindly /\ Arrives(p)
    BY StoreSteps, RunSteps
  <2>2. p \in Run \ voided /\ u \in required[p] /\ Populated(u)
    BY <2>1 DEF Kindly, Populated
  <2>3. CASE packed'[p] = packed[p]
    BY <2>2, <2>3 DEF PacksHoldRequired
  <2>4. CASE CopyToPack(p)
    BY <2>2, <2>4, SelectedIsCopied
  <2> QED
    BY <2>1, <2>3, <2>4 DEF Arrives
<1> QED
  BY <1>1, <1>2, Grounded, Refreshing, Stored, Packaging, PTL DEF Spec

(* A run with geo data of its own and a populated unit to pack finishes    *)
(* with a pack or not at all.                                              *)
THEOREM Packed == Spec => []FetchedIsPacked
<1>1. Init => FetchedIsPacked
  BY DEF Init, FetchedIsPacked
<1>2. /\ TypeOK /\ TypeOK' /\ Placed /\ Refreshes /\ Packages /\ FetchedIsPacked
      /\ [Next]_vars
      => FetchedIsPacked'
  <2> SUFFICES ASSUME TypeOK, TypeOK', Placed, Refreshes, Packages, FetchedIsPacked,
                      [Next]_vars,
                      NEW p \in slice', p \notin voided', stage'[p] = Finished,
                      \E u \in required'[p] : Populated(u)'
               PROVE  packed'[p] # NoPack
    BY DEF FetchedIsPacked
  <2> PICK u \in required'[p] : Populated(u)'
    OBVIOUS
  <2>0. p \in Run
    BY DEF TypeOK
  <2>1. Kindly /\ Arrives(p)
    BY <2>0, StoreSteps, RunSteps
  <2>2. p \in Run \ voided /\ u \in required[p] /\ Populated(u)
    BY <2>0, <2>1 DEF Kindly, Populated
  <2>3. packed'[p] = packed[p] /\ p \in slice
    BY <2>1 DEF Arrives
  <2>4. CASE stage[p] = Finished
    BY <2>2, <2>3, <2>4 DEF FetchedIsPacked
  <2>5. CASE pc[p] = "leave" /\ stage[p] = Package
    BY <2>2, <2>3, <2>5 DEF Packages
  <2> QED
    BY <2>1, <2>4, <2>5 DEF Arrives
<1> QED
  BY <1>1, <1>2, Grounded, Refreshing, Packaging, PTL DEF Spec

(* Ready coverage is lost wholesale or not at all. *)
THEOREM Kept == Spec => CoverageIsKept
<1> DEFINE Step1 == \A u \in Unit : unitState[u] = "ready" =>
                      unitState'[u] = "ready" \/ \A v \in Unit : unitState'[v] = "invalid"
<1>1. TypeOK /\ [Next]_vars => [Step1]_vars
  <2> SUFFICES ASSUME TypeOK, [Next]_vars PROVE [Step1]_vars
    OBVIOUS
  <2> USE DEF TypeOK, Blank, planVars, manifestVars, progressVars
  <2>1. ASSUME NEW r \in Run, Start(r) PROVE Step1
    BY <2>1 DEF Start
  <2>2. ASSUME NEW r \in Run, Stop(r) PROVE Step1
    BY <2>2 DEF Stop
  <2>3. ASSUME NEW r \in Run, FinishStage(r) PROVE Step1
    BY <2>3 DEF FinishStage
  <2>4. ASSUME NEW r \in Run, FindManifest(r) PROVE Step1
    BY <2>4 DEF FindManifest
  <2>5. ASSUME NEW r \in Run, InitializeManifest(r) PROVE Step1
    BY <2>5 DEF InitializeManifest
  <2>6. ASSUME NEW r \in Run, SetSourceInstance(r) PROVE Step1
    BY <2>6 DEF SetSourceInstance
  <2>7. ASSUME NEW r \in Run, DiscoverGeo(r) PROVE Step1
    BY <2>7 DEF DiscoverGeo
  <2>8. ASSUME NEW r \in Run, MaterializeSlice(r) PROVE Step1
    BY <2>8 DEF MaterializeSlice
  <2>9. ASSUME NEW r \in Run, BeginMerge(r) PROVE Step1
    BY <2>9 DEF BeginMerge
  <2>10. ASSUME NEW r \in Run, SkipReadyUnit(r) PROVE Step1
    BY <2>10 DEF SkipReadyUnit
  <2>11. ASSUME NEW r \in Run, MarkRefreshing(r) PROVE Step1
    BY <2>11 DEF MarkRefreshing, CanClaimRefresh
  <2>12. ASSUME NEW r \in Run, MergeUnit(r) PROVE Step1
    BY <2>12 DEF MergeUnit
  <2>13. ASSUME NEW r \in Run, MarkReady(r) PROVE Step1
    BY <2>13 DEF MarkReady
  <2>14. ASSUME NEW r \in Run, EndMerge(r) PROVE Step1
    BY <2>14 DEF EndMerge
  <2>15. ASSUME NEW r \in Run, RecordCoverage(r) PROVE Step1
    BY <2>15 DEF RecordCoverage
  <2>16. ASSUME NEW r \in Run, ReviseStore(r) PROVE Step1
    BY <2>16 DEF ReviseStore
  <2>17. ASSUME NEW r \in Run, PassRevise(r) PROVE Step1
    BY <2>17 DEF PassRevise
  <2>18. ASSUME NEW r \in Run, ResolveStore(r) PROVE Step1
    BY <2>18 DEF ResolveStore
  <2>19. ASSUME NEW r \in Run, CopyToPack(r) PROVE Step1
    BY <2>19 DEF CopyToPack
  <2>20. ASSUME NEW r \in Run, SkipRecipe(r) PROVE Step1
    BY <2>20 DEF SkipRecipe
  <2>21. ASSUME NEW r \in Run, RefusePartialCoverage(r) PROVE Step1
    BY <2>21 DEF RefusePartialCoverage
  <2>23. ASSUME NEW r \in Run, SelectIds(r) PROVE Step1
    BY <2>23 DEF SelectIds
  <2>24. ASSUME NEW r \in Run, SkipEmptyRecipe(r) PROVE Step1
    BY <2>24 DEF SkipEmptyRecipe
  <2>22. CASE AllStopped \/ UNCHANGED vars
    BY <2>22 DEF AllStopped, vars, planVars, manifestVars, progressVars
  <2> QED
    BY <2>1, <2>2, <2>3, <2>4, <2>5, <2>6, <2>7, <2>8, <2>9, <2>10, <2>11, <2>12,
       <2>13, <2>14, <2>15, <2>16, <2>17, <2>18, <2>19, <2>20, <2>21, <2>22, <2>23, <2>24
       DEF Next, Step
<1> QED
  BY <1>1, Typing, PTL DEF Spec, CoverageIsKept

---------------------------------------------------------------------------
(* Library.  First, lists.                                                 *)

(* What the proofs need of a list: it is one, of the things in it.         *)
IsList(s) == s \in Seq(ToSet(s))

(* Of two numbers of a set, the smaller has fewer of the set below it.     *)
LEMMA SmallerIsFewer ==
  ASSUME NEW S \in SUBSET Nat, IsFiniteSet(S), NEW x \in S, NEW y \in S, x < y
  PROVE  Cardinality({j \in S : j < x}) < Cardinality({j \in S : j < y})
<1> DEFINE A == {j \in S : j < x}
           B == {j \in S : j < y}
<1>1. A \in SUBSET S /\ B \in SUBSET S /\ x \notin A /\ A \cup {x} \in SUBSET B
  <2>1. \A j \in S : j \in Int
    OBVIOUS
  <2>2. ~(x < x) /\ \A j \in S : j < x => j < y
    BY <2>1
  <2> QED
    BY <2>2
<1> HIDE DEF A, B
<1>2. IsFiniteSet(A) /\ IsFiniteSet(B)
  BY <1>1, FS_Subset
<1>3. Cardinality(A) \in Nat /\ Cardinality(B) \in Nat
  BY <1>2, FS_CardinalityType
<1>4. Cardinality(A \cup {x}) = Cardinality(A) + 1
  BY <1>1, <1>2, FS_AddElement
<1>5. Cardinality(A \cup {x}) <= Cardinality(B)
  BY <1>1, <1>2, FS_Subset
<1> QED
  BY <1>3, <1>4, <1>5 DEF A, B

(* The sorted positions are as many as the positions, and these.           *)
LEMMA SortedLists ==
  ASSUME NEW S \in SUBSET Nat, IsFiniteSet(S)
  PROVE  /\ Cardinality(S) \in Nat
         /\ DOMAIN Sorted(S) = 1 .. Cardinality(S)
         /\ \A k \in DOMAIN Sorted(S) : Sorted(S)[k] \in S
         /\ \A x \in S : \E k \in DOMAIN Sorted(S) : Sorted(S)[k] = x
<1> DEFINE n == Cardinality(S)
           Below(x) == Cardinality({j \in S : j < x})
           r == [x \in S |-> Below(x)]
           Nth(k) == CHOOSE i \in S : Below(i) = k - 1
<1>1. n \in Nat
  BY FS_CardinalityType
<1>2. \A x \in S : Below(x) \in 0 .. n - 1
  <2> SUFFICES ASSUME NEW x \in S
               PROVE  Below(x) \in 0 .. n - 1
    OBVIOUS
  <2> DEFINE A == {j \in S : j < x}
  <2>1. A \in SUBSET S /\ x \notin A /\ A \cup {x} \in SUBSET S
    OBVIOUS
  <2> HIDE DEF A
  <2>2. IsFiniteSet(A) /\ Cardinality(A) \in Nat
    BY <2>1, FS_Subset, FS_CardinalityType
  <2>3. Cardinality(A \cup {x}) = Cardinality(A) + 1 /\ Cardinality(A \cup {x}) <= n
    BY <2>1, <2>2, FS_AddElement, FS_Subset
  <2>4. Cardinality(A) \in 0 .. n - 1
    BY <1>1, <2>2, <2>3
  <2> QED
    BY <2>4 DEF A
<1>3. \A x, y \in S : x < y => Below(x) < Below(y)
  BY SmallerIsFewer
<1>4. \A x, y \in S : Below(x) = Below(y) => x = y
  <2> SUFFICES ASSUME NEW x \in S, NEW y \in S, Below(x) = Below(y)
               PROVE  x = y
    OBVIOUS
  <2> HIDE DEF Below
  <2>1. Below(x) \in Int /\ ~(x < y) /\ ~(y < x)
    BY <1>1, <1>2, <1>3
  <2> QED
    BY <2>1
<1>5. r \in [S -> 0 .. n - 1] /\ \A x \in S : r[x] = Below(x)
  BY <1>2
<1> HIDE DEF r, Below
<1>6. r \in Injection(S, 0 .. n - 1)
  BY <1>4, <1>5, Fun_IsInj
<1>7. IsFiniteSet(0 .. n - 1) /\ Cardinality(0 .. n - 1) = n
  <2>1. 0 \in Int /\ n - 1 \in Int /\ (IF 0 > n - 1 THEN 0 ELSE (n - 1) - 0 + 1) = n
    BY <1>1
  <2> QED
    BY <2>1, FS_Interval
<1>8. r \in Surjection(S, 0 .. n - 1)
  BY <1>6, <1>7, FS_Injection
<1>9. \A k \in 1 .. n : Nth(k) \in S
  <2> SUFFICES ASSUME NEW k \in 1 .. n
               PROVE  \E i \in S : Below(i) = k - 1
    OBVIOUS
  <2>1. k - 1 \in 0 .. n - 1
    BY <1>1
  <2>2. \E i \in S : r[i] = k - 1
    BY <1>8, <2>1 DEF Surjection
  <2> QED
    BY <1>5, <2>2
<1>10. Sorted(S) = [k \in 1 .. n |-> Nth(k)]
  BY DEF Sorted, Below
<1>11. \A x \in S : Below(x) + 1 \in 1 .. n /\ Nth(Below(x) + 1) = x
  <2> SUFFICES ASSUME NEW x \in S
               PROVE  Below(x) + 1 \in 1 .. n /\ Nth(Below(x) + 1) = x
    OBVIOUS
  <2> DEFINE k == Below(x) + 1
  <2>1. k \in 1 .. n /\ k - 1 = Below(x)
    BY <1>1, <1>2
  <2> HIDE DEF k
  <2>2. Nth(k) \in S /\ Below(Nth(k)) = k - 1
    BY <2>1
  <2> HIDE DEF Nth
  <2>3. Nth(k) = x
    BY <1>4, <2>1, <2>2
  <2> QED
    BY <2>1, <2>3 DEF k
<1> HIDE DEF Nth
<1> QED
  BY <1>1, <1>9, <1>10, <1>11

(* The last of some positions, sorted, is one of them.                     *)
LEMMA LastOf ==
  ASSUME NEW S \in SUBSET Nat, IsFiniteSet(S), S # {}
  PROVE  Last(Sorted(S)) \in S
<1>1. /\ Cardinality(S) \in Nat /\ DOMAIN Sorted(S) = 1 .. Cardinality(S)
      /\ \A j \in DOMAIN Sorted(S) : Sorted(S)[j] \in S
  BY SortedLists
<1>2. Cardinality(S) # 0
  BY FS_EmptySet
<1>3. Len(Sorted(S)) = Cardinality(S)
  BY <1>1 DEF Sorted
<1> QED
  BY <1>1, <1>2, <1>3 DEF Last

(* A function over 1 .. n is a list of length n.                           *)
LEMMA ListIs ==
  ASSUME NEW n \in Nat, NEW s, s = [k \in 1 .. n |-> s[k]]
  PROVE  IsList(s) /\ Len(s) = n /\ DOMAIN s = 1 .. n
<1>1. s \in [1 .. n -> ToSet(s)]
  BY DEF ToSet
<1>2. s \in Seq(ToSet(s))
  BY <1>1
<1> QED
  BY <1>1, <1>2 DEF IsList

(* A list has finitely many positions, from 1 on.                          *)
LEMMA ListHas ==
  ASSUME NEW s, IsList(s)
  PROVE  Len(s) \in Nat /\ DOMAIN s = 1 .. Len(s) /\ s = [k \in 1 .. Len(s) |-> s[k]]
         /\ IsFiniteSet(DOMAIN s) /\ DOMAIN s \in SUBSET Nat
<1>1. Len(s) \in Nat /\ DOMAIN s = 1 .. Len(s) /\ s = [k \in 1 .. Len(s) |-> s[k]]
  BY DEF IsList
<1>2. IsFiniteSet(1 .. Len(s))
  BY <1>1, FS_Interval
<1> QED
  BY <1>1, <1>2

(* What is picked from a list is a list, of what is at the picked positions.*)
LEMMA PickedFrom ==
  ASSUME NEW list, IsList(list), NEW P \in SUBSET DOMAIN list
  PROVE  /\ IsList(Picked(list, P))
         /\ \A k \in DOMAIN Picked(list, P) : \E i \in P : Picked(list, P)[k] = list[i]
         /\ \A i \in P : \E k \in DOMAIN Picked(list, P) : Picked(list, P)[k] = list[i]
<1>1. P \in SUBSET Nat /\ IsFiniteSet(P)
  BY ListHas, FS_Subset
<1>2. /\ Cardinality(P) \in Nat /\ DOMAIN Sorted(P) = 1 .. Cardinality(P)
      /\ \A k \in DOMAIN Sorted(P) : Sorted(P)[k] \in P
      /\ \A i \in P : \E k \in DOMAIN Sorted(P) : Sorted(P)[k] = i
  BY <1>1, SortedLists
<1>3. Picked(list, P) = [k \in 1 .. Cardinality(P) |-> list[Sorted(P)[k]]]
  BY <1>2 DEF Picked
<1>4. IsList(Picked(list, P))
  BY <1>2, <1>3, ListIs
<1> QED
  BY <1>2, <1>3, <1>4

(* Whatever replaces what when packs share an id, each is one of the packs.*)
LEMMA ByIdFrom ==
  ASSUME NEW packs, IsList(packs)
  PROVE  /\ IsList(ById(packs))
         /\ \A k \in DOMAIN ById(packs) : \E i \in DOMAIN packs : ById(packs)[k] = packs[i]
<1> DEFINE first == Picked(packs, Firsts(packs))
           Same(k) == WithId(packs, first[k].pack.id)
<1>1. IsList(first) /\ \A k \in DOMAIN first : \E i \in DOMAIN packs : first[k] = packs[i]
  <2>1. Firsts(packs) \in SUBSET DOMAIN packs
    BY DEF Firsts
  <2> HIDE DEF first
  <2>2. /\ IsList(Picked(packs, Firsts(packs)))
        /\ \A k \in DOMAIN Picked(packs, Firsts(packs)) : \E i \in Firsts(packs) :
             Picked(packs, Firsts(packs))[k] = packs[i]
    BY <2>1, PickedFrom
  <2> QED
    BY <2>1, <2>2 DEF first
<1>2. \A k \in DOMAIN first : Last(Sorted(Same(k))) \in DOMAIN packs
  <2> SUFFICES ASSUME NEW k \in DOMAIN first
               PROVE  Last(Sorted(Same(k))) \in DOMAIN packs
    OBVIOUS
  <2> HIDE DEF first
  <2>1. Same(k) \in SUBSET DOMAIN packs /\ Same(k) # {}
    BY <1>1 DEF WithId
  <2> HIDE DEF Same
  <2>2. Same(k) \in SUBSET Nat /\ IsFiniteSet(Same(k))
    BY <2>1, ListHas, FS_Subset
  <2>3. Last(Sorted(Same(k))) \in Same(k)
    BY <2>1, <2>2, LastOf
  <2> QED
    BY <2>1, <2>3
<1>3. ById(packs) = [k \in DOMAIN first |-> packs[Last(Sorted(Same(k)))]]
  BY DEF ById
<1> HIDE DEF first, Same
<1>4. Len(first) \in Nat /\ DOMAIN first = 1 .. Len(first)
  BY <1>1, ListHas
<1>5. IsList(ById(packs))
  BY <1>3, <1>4, ListIs
<1> QED
  BY <1>2, <1>3, <1>5

---------------------------------------------------------------------------
(* The directories that hold a pack, the cache of built packs included.    *)
Places == DOMAIN Disk \cup {BuiltPaths[k] : k \in DOMAIN shelf}

(* The database a directory holds in one of its editions.                  *)
DbAt(path, e) ==
  IF path \in ToSet(BuiltPaths) THEN shelf[CHOOSE k \in DOMAIN shelf : BuiltPaths[k] = path].pack.db
  ELSE Disk[path][e].db

(* The databases that a base identity names by place and edition.          *)
BaseOf(identity) == [k \in DOMAIN identity |-> DbAt(identity[k][2], identity[k][3])]

(* What a cache key says of a build: its own parts, and the base that its  *)
(* base identity names.                                                    *)
ArgumentsOf(key) ==
  [f \in DOMAIN key \cup {"base"} |-> IF f = "base" THEN BaseOf(key.baseIdentity) ELSE key[f]]

(* The shelf is a list of packs that are there.                            *)
ShelfShape ==
  /\ IsList(shelf) /\ Len(shelf) <= MaxBuilds
  /\ \A k \in DOMAIN shelf : shelf[k].pack.distribution = "bundled"

(* Every directory on disk is in one of its editions.                      *)
EditionShape ==
  /\ registered \subseteq DOMAIN Offers
  /\ edition \in [DOMAIN Disk -> Nat] /\ \A path \in DOMAIN Disk : edition[path] \in DOMAIN Disk[path]

(* A base identity names places only.                                      *)
InPlaces(identity) == \A i \in DOMAIN identity : identity[i][2] \in Places

(* An entry is what a build of the arguments that its key tells makes.     *)
EntryIsBuild(entry) ==
  MadeBy(RunBuild(ArgumentsOf(entry.key)), entry) /\ InPlaces(entry.key.baseIdentity)
EntriesAreBuilds == \A k \in DOMAIN shelf : EntryIsBuild(shelf[k])

(* A base holds the database of its place, in the edition of its place.    *)
InPlace(b) == b.path \in Places /\ b.pack.db = DbAt(b.path, EditionOf(b.path))

(* So does every base of an open resolver: no edition changes under it.    *)
BasesInPlace ==
  lib.open => /\ IsList(lib.bases) /\ IsList(lib.overlays)
              /\ \A k \in DOMAIN lib.bases : InPlace(lib.bases[k])

(* The inductive invariant behind HitIsABuild: the key tells the base only *)
(* through its place and edition, so the places have to keep what they hold.*)
LibraryInv == ShelfShape /\ EditionShape /\ EntriesAreBuilds /\ BasesInPlace

\* A place on a shelf has a directory of its own, that is none of the others.
LEMMA SlotIs ==
  ASSUME NEW s, IsList(s), Len(s) <= MaxBuilds, NEW k \in DOMAIN s
  PROVE  /\ BuiltPaths[k] \in ToSet(BuiltPaths) /\ BuiltPaths[k] \notin DOMAIN Disk
         /\ (CHOOSE j \in DOMAIN s : BuiltPaths[j] = BuiltPaths[k]) = k
<1>1. DOMAIN s = 1 .. Len(s) /\ Len(s) \in Nat
  BY ListHas
<1>2. DOMAIN BuiltPaths = 1 .. Len(BuiltPaths) /\ Len(BuiltPaths) \in Nat
  BY BuiltPathsAssumption
<1>3. DOMAIN s \subseteq DOMAIN BuiltPaths
  BY <1>1, <1>2, BuiltPathsAssumption
<1>4. \A j \in DOMAIN s : BuiltPaths[j] = BuiltPaths[k] => j = k
  BY <1>3, BuiltPathsAssumption DEF IsInjective
<1> QED
  BY <1>3, <1>4, BuiltPathsAssumption DEF ToSet

\* What a directory that is there holds.
LEMMA PlaceHolds ==
  ASSUME ShelfShape, EditionShape, NEW path \in Places
  PROVE  /\ PackAt(path).db = DbAt(path, EditionOf(path))
         /\ \/ path \in DOMAIN Disk /\ PackAt(path) \in ToSet(Disk[path])
            \/ path \notin DOMAIN Disk /\ PackAt(path).distribution = "bundled"
<1>1. CASE path \in DOMAIN Disk
  <2>1. path \notin ToSet(BuiltPaths)
    BY <1>1, BuiltPathsAssumption
  <2> QED
    BY <1>1, <2>1 DEF PackAt, DbAt, EditionOf, EditionShape, ToSet
<1>2. CASE path \notin DOMAIN Disk
  <2>1. PICK k \in DOMAIN shelf : path = BuiltPaths[k]
    BY <1>2 DEF Places
  <2>2. path \in ToSet(BuiltPaths) /\ (CHOOSE j \in DOMAIN shelf : BuiltPaths[j] = path) = k
    BY <2>1, SlotIs DEF ShelfShape
  <2>3. PackAt(path) = shelf[k] .pack /\ DbAt(path, EditionOf(path)) = shelf[k].pack.db
    BY <2>2 DEF PackAt, DbAt
  <2> QED
    BY <1>2, <2>3 DEF ShelfShape
<1> QED
  BY <1>1, <1>2

(* The fields of a pack in its place.                                      *)
LEMMA PlaceAndPack ==
  ASSUME NEW r, NEW p, NEW q, r = [path |-> p, pack |-> q]
  PROVE  r.path = p /\ r.pack = q
OBVIOUS

\* A pack that opens is where the resolver will say it is.
LEMMA LoadedInPlace ==
  ASSUME ShelfShape, EditionShape, NEW path, LoadError(DirAt(path)) = ""
  PROVE  InPlace(Loaded(DirAt(path)))
<1> DEFINE at == DirAt(path)
<1>1. path \in Places
  BY DEF LoadError, DirAt, HasMetadata, Places
<1>2. at.path = path /\ at.pack = PackAt(path)
  BY DEF DirAt
<1> HIDE DEF at
<1>3. CASE LoaderDistribution(at) # "remote"
  BY <1>1, <1>2, <1>3, PlaceHolds DEF Loaded, InPlace, at
<1>4. CASE LoaderDistribution(at) = "remote"
  <2>1. path \in DOMAIN Disk /\ PackAt(path) \in ToSet(Disk[path])
    BY <1>1, <1>2, <1>4, PlaceHolds, DiskAssumption DEF LoaderDistribution, IsManifestDir
  <2>2. \/ PackAt(path).distribution = "remote"
        \/ PackAt(path).id \in DOMAIN Overrides /\ Overrides[PackAt(path).id] = "remote"
    BY <1>2, <1>4 DEF LoaderDistribution, Distribution
  <2>3. PackAt(path).id \in DOMAIN CachePath /\ "db" \in DOMAIN PackAt(path)
    BY <2>1, <2>2, DiskAssumption
  <2> DEFINE download == CachePath[PackAt(path).id]
  <2>4. download \in DOMAIN Disk
    BY <2>3, DiskAssumption
  <2> HIDE DEF download
  <2>5. download \in Places /\ PackAt(download).db = DbAt(download, EditionOf(download))
    BY <2>4, PlaceHolds DEF Places
  <2> DEFINE pack == [PackAt(path) EXCEPT !.db = PackAt(download).db]
  <2>6. pack.db = PackAt(download).db
    BY <2>3
  <2> HIDE DEF pack
  <2>7. Loaded(at) = [path |-> download, pack |-> pack]
    BY <1>2, <1>4 DEF Loaded, download, pack
  <2>9. Loaded(at).path = download /\ Loaded(at).pack = pack
    BY <2>7, PlaceAndPack, Zenon
  <2> QED
    BY <2>5, <2>6, <2>9 DEF InPlace, at
<1> QED
  BY <1>3, <1>4

(* Nothing on the shelf is moved or replaced.                              *)
ShelfGrows ==
  /\ DOMAIN shelf \subseteq DOMAIN shelf'
  /\ \A k \in DOMAIN shelf : shelf'[k] = shelf[k]

(* A place on a shelf that only grows holds what it held.                  *)
LEMMA DbAtStays ==
  ASSUME ShelfShape, ShelfShape', ShelfGrows, NEW path \in Places, NEW e
  PROVE  path \in Places' /\ DbAt(path, e)' = DbAt(path, e)
<1>1. path \in Places'
  BY DEF Places, ShelfGrows
<1>2. CASE path \in DOMAIN Disk
  <2>1. path \notin ToSet(BuiltPaths)
    BY <1>2, BuiltPathsAssumption
  <2> QED
    BY <1>1, <2>1 DEF DbAt
<1>3. CASE path \notin DOMAIN Disk
  <2>1. PICK k \in DOMAIN shelf : path = BuiltPaths[k]
    BY <1>3 DEF Places
  <2>2. path \in ToSet(BuiltPaths) /\ (CHOOSE j \in DOMAIN shelf : BuiltPaths[j] = path) = k
    BY <2>1, SlotIs DEF ShelfShape
  <2>3. k \in DOMAIN shelf' /\ shelf'[k] = shelf[k]
    BY DEF ShelfGrows
  <2>4. (CHOOSE j \in DOMAIN shelf' : BuiltPaths[j] = path) = k
    BY <2>1, <2>3, SlotIs DEF ShelfShape
  <2>5. DbAt(path, e) = shelf[k].pack.db
    BY <2>2 DEF DbAt
  <2>6. DbAt(path, e)' = shelf'[k].pack.db
    BY <2>2, <2>4 DEF DbAt
  <2> QED
    BY <1>1, <2>3, <2>5, <2>6
<1> QED
  BY <1>2, <1>3

(* A base in its place stays in it.                                        *)
LEMMA InPlaceStays ==
  ASSUME ShelfShape, ShelfShape', ShelfGrows, edition' = edition, NEW b, InPlace(b)
  PROVE  InPlace(b)'
<1>1. EditionOf(b.path)' = EditionOf(b.path)
  BY DEF EditionOf
<1>2. b.path \in Places' /\ \A e : DbAt(b.path, e)' = DbAt(b.path, e)
  BY DbAtStays DEF InPlace
<1> QED
  BY <1>1, <1>2 DEF InPlace

(* A base identity goes on naming the same databases.                      *)
LEMMA BaseOfStays ==
  ASSUME ShelfShape, ShelfShape', ShelfGrows, NEW identity, InPlaces(identity)
  PROVE  InPlaces(identity)' /\ BaseOf(identity)' = BaseOf(identity)
<1>1. \A i \in DOMAIN identity : /\ identity[i][2] \in Places'
                                 /\ DbAt(identity[i][2], identity[i][3])' = DbAt(identity[i][2], identity[i][3])
  BY DbAtStays DEF InPlaces
<1> QED
  BY <1>1 DEF InPlaces, BaseOf

(* An entry that is a build stays one.                                     *)
LEMMA EntryStays ==
  ASSUME ShelfShape, ShelfShape', ShelfGrows, NEW entry, EntryIsBuild(entry)
  PROVE  EntryIsBuild(entry)'
<1>1. InPlaces(entry.key.baseIdentity)' /\ BaseOf(entry.key.baseIdentity)' = BaseOf(entry.key.baseIdentity)
  BY BaseOfStays DEF EntryIsBuild
<1>2. ArgumentsOf(entry.key)' = ArgumentsOf(entry.key)
  BY <1>1 DEF ArgumentsOf
<1> QED
  BY <1>1, <1>2 DEF EntryIsBuild

---------------------------------------------------------------------------
(* The arguments of a build and its key.                                   *)

(* The base of the arguments is the one their base identity names.         *)
KeyTells(args) ==
  /\ args = [f \in DOMAIN args |-> args[f]] /\ {"base", "baseIdentity"} \subseteq DOMAIN args
  /\ InPlaces(args.baseIdentity) /\ args.base = BaseOf(args.baseIdentity)

(* Then the key of the arguments tells all of them, although it leaves the *)
(* base itself out.                                                        *)
LEMMA KeyIsEnough ==
  ASSUME NEW args, KeyTells(args)
  PROVE  ArgumentsOf(ByodCacheKey(args)) = args /\ ByodCacheKey(args).baseIdentity = args.baseIdentity
<1>1. "baseIdentity" \in DOMAIN ByodCacheKey(args) /\ ByodCacheKey(args).baseIdentity = args.baseIdentity
  BY DEF ByodCacheKey, KeyTells
<1>2. [f \in DOMAIN ByodCacheKey(args) \cup {"base"} |->
         IF f = "base" THEN args.base ELSE ByodCacheKey(args)[f]] = args
  BY DEF ByodCacheKey, KeyTells
<1> QED
  BY <1>1, <1>2 DEF ArgumentsOf, KeyTells

(* It is so for a build from records alone, which has no base...           *)
LEMMA RecordsKeyTells ==
  ASSUME NEW call
  PROVE  KeyTells(RecordsArguments(call))
<1>1. /\ RecordsArguments(call) = [f \in DOMAIN RecordsArguments(call) |-> RecordsArguments(call)[f]]
      /\ {"base", "baseIdentity"} \subseteq DOMAIN RecordsArguments(call)
      /\ RecordsArguments(call).base = <<>> /\ RecordsArguments(call).baseIdentity = <<>>
  BY DEF RecordsArguments
<1>2. BaseOf(<<>>) = <<>> /\ InPlaces(<<>>)
  BY DEF BaseOf, InPlaces
<1> QED
  BY <1>1, <1>2 DEF KeyTells

(* ...and for one over the bases of an open resolver.                      *)
LEMMA AugmentKeyTells ==
  ASSUME BasesInPlace, lib.open, NEW call
  PROVE  KeyTells(AugmentArguments(call))
<1> DEFINE args == AugmentArguments(call)
<1>1. /\ args = [f \in DOMAIN args |-> args[f]]
      /\ {"base", "baseIdentity"} \subseteq DOMAIN args
      /\ args.base = [k \in DOMAIN lib.bases |-> lib.bases[k].pack.db]
      /\ args.baseIdentity = BaseIdentity(lib.bases)
  BY DEF AugmentArguments
<1>2. /\ DOMAIN BaseIdentity(lib.bases) = DOMAIN lib.bases
      /\ \A k \in DOMAIN lib.bases : /\ BaseIdentity(lib.bases)[k][2] = lib.bases[k].path
                                     /\ BaseIdentity(lib.bases)[k][3] = EditionOf(lib.bases[k].path)
  BY DEF BaseIdentity
<1>3. \A k \in DOMAIN lib.bases : InPlace(lib.bases[k])
  BY DEF BasesInPlace
<1>4. InPlaces(BaseIdentity(lib.bases))
  BY <1>2, <1>3 DEF InPlaces, InPlace
<1>5. BaseOf(BaseIdentity(lib.bases)) = [k \in DOMAIN lib.bases |-> lib.bases[k].pack.db]
  BY <1>2, <1>3 DEF BaseOf, InPlace
<1> QED
  BY <1>1, <1>4, <1>5 DEF KeyTells

(* A hit has the key of the arguments, and is what that key makes.         *)
LEMMA HitsAreBuilds ==
  ASSUME LibraryInv
  PROVE  HitIsABuild
<1>1. ASSUME NEW args, KeyTells(args)
      PROVE  IsABuild(args)
  BY <1>1, KeyIsEnough DEF IsABuild, Hit, LibraryInv, EntriesAreBuilds, EntryIsBuild
<1> QED
  BY <1>1, RecordsKeyTells, AugmentKeyTells DEF HitIsABuild, LibraryInv

---------------------------------------------------------------------------
(* Opening.                                                                *)

(* The packs of a kind are packs of the list.                              *)
LEMMA OfKindFrom ==
  ASSUME NEW packs, IsList(packs), NEW kind
  PROVE  /\ IsList(OfKind(packs, kind))
         /\ \A k \in DOMAIN OfKind(packs, kind) : \E i \in DOMAIN packs : OfKind(packs, kind)[k] = packs[i]
<1> DEFINE P == {k \in DOMAIN packs : packs[k].pack.kind = kind}
<1>1. P \in SUBSET DOMAIN packs
  OBVIOUS
<1> HIDE DEF P
<1>2. /\ IsList(Picked(packs, P))
      /\ \A k \in DOMAIN Picked(packs, P) : \E i \in P : Picked(packs, P)[k] = packs[i]
  BY <1>1, PickedFrom
<1>3. OfKind(packs, kind) = ById(Picked(packs, P))
  BY DEF OfKind, P
<1>4. /\ IsList(ById(Picked(packs, P)))
      /\ \A k \in DOMAIN ById(Picked(packs, P)) : \E i \in DOMAIN Picked(packs, P) :
           ById(Picked(packs, P))[k] = Picked(packs, P)[i]
  BY <1>2, ByIdFrom
<1> QED
  BY <1>1, <1>2, <1>3, <1>4

(* The bases of an assembled resolver are packs it was assembled from.     *)
LEMMA AssembledFrom ==
  ASSUME NEW packs, IsList(packs), NEW asked, NEW report, Assemble(packs, asked, report).open
  PROVE  /\ IsList(Assemble(packs, asked, report).bases)
         /\ IsList(Assemble(packs, asked, report).overlays)
         /\ \A k \in DOMAIN Assemble(packs, asked, report).bases :
              \E i \in DOMAIN packs : Assemble(packs, asked, report).bases[k] = packs[i]
<1> DEFINE bases == OfKind(packs, "base")
           overlays == OfKind(packs, "overlay")
           known == Known(bases)
           P == {k \in DOMAIN bases : bases[k].pack.domain \in ToSet(known)}
           r == Assemble(packs, asked, report)
<1>1. r = Assembled(bases, overlays, known, asked, report)
  BY DEF Assemble
<1>2. /\ IsList(bases) /\ IsList(overlays)
      /\ \A k \in DOMAIN bases : \E i \in DOMAIN packs : bases[k] = packs[i]
  BY OfKindFrom
<1>3. P \in SUBSET DOMAIN bases
  OBVIOUS
<1> HIDE DEF bases, overlays, known, P
<1>4. r = Resolver(bases, overlays, known, asked, report)
  <2>1. r.open /\ Closed.open = FALSE
    BY DEF Closed
  <2> HIDE DEF r
  <2> QED
    BY <1>1, <2>1 DEF Assembled
<1>5. r.bases = Picked(bases, P) /\ r.overlays = overlays
  BY <1>4 DEF Resolver, P
<1>6. /\ IsList(Picked(bases, P))
      /\ \A k \in DOMAIN Picked(bases, P) : \E i \in P : Picked(bases, P)[k] = bases[i]
  BY <1>2, <1>3, PickedFrom
<1> QED
  BY <1>2, <1>3, <1>5, <1>6

(* A resolver whose bases are loaded from directories without an error.    *)
MadeOf(resolver, dirs) ==
  resolver.open =>
    /\ IsList(resolver.bases) /\ IsList(resolver.overlays)
    /\ \A k \in DOMAIN resolver.bases : \E i \in DOMAIN dirs :
         LoadError(dirs[i]) = "" /\ resolver.bases[k] = Loaded(dirs[i])

(* An opened resolver is made of the directories it was opened over.       *)
LEMMA OpenedFrom ==
  ASSUME NEW dirs, IsList(dirs), NEW filter, NEW asked, NEW report
  PROVE  MadeOf(Opened(dirs, filter, asked, report), dirs)
<1> SUFFICES ASSUME Opened(dirs, filter, asked, report).open
             PROVE  /\ IsList(Opened(dirs, filter, asked, report).bases)
                    /\ IsList(Opened(dirs, filter, asked, report).overlays)
                    /\ \A k \in DOMAIN Opened(dirs, filter, asked, report).bases : \E i \in DOMAIN dirs :
                         /\ LoadError(dirs[i]) = ""
                         /\ Opened(dirs, filter, asked, report).bases[k] = Loaded(dirs[i])
  BY DEF MadeOf
<1> DEFINE P == {k \in DOMAIN dirs : dirs[k].there => InFilter(filter, dirs[k].pack.domain)}
           chosen == Picked(dirs, P)
           packs == [k \in DOMAIN chosen |-> Loaded(chosen[k])]
           r == Opened(dirs, filter, asked, report)
<1>1. P \in SUBSET DOMAIN dirs /\ Selected(dirs, filter) = chosen
  BY DEF Selected
<1> HIDE DEF P
<1>2. IsList(chosen) /\ \A k \in DOMAIN chosen : \E i \in P : chosen[k] = dirs[i]
  BY <1>1, PickedFrom
<1> HIDE DEF chosen
<1>3. r = IF Loadable(chosen) THEN Assemble(packs, asked, report) ELSE Closed
  BY <1>1 DEF Opened, Build
<1>4. Loadable(chosen) /\ r = Assemble(packs, asked, report)
  BY <1>3 DEF Closed
<1>5. DOMAIN packs = DOMAIN chosen /\ \A k \in DOMAIN chosen : packs[k] = Loaded(chosen[k])
  OBVIOUS
<1>6. IsList(packs)
  <2>1. Len(chosen) \in Nat /\ DOMAIN chosen = 1 .. Len(chosen)
    BY <1>2, ListHas
  <2>2. packs = [k \in 1 .. Len(chosen) |-> packs[k]]
    BY <2>1
  <2> HIDE DEF packs
  <2> QED
    BY <2>1, <2>2, ListIs
<1> HIDE DEF packs
<1>7. /\ IsList(r.bases) /\ IsList(r.overlays)
      /\ \A k \in DOMAIN r.bases : \E i \in DOMAIN packs : r.bases[k] = packs[i]
  BY <1>4, <1>6, AssembledFrom
<1>8. \A k \in DOMAIN chosen : LoadError(chosen[k]) = ""
  BY <1>4 DEF Loadable
<1> HIDE DEF r
<1>9. \A k \in DOMAIN r.bases : \E i \in DOMAIN dirs : LoadError(dirs[i]) = "" /\ r.bases[k] = Loaded(dirs[i])
  <2> SUFFICES ASSUME NEW k \in DOMAIN r.bases
               PROVE  \E i \in DOMAIN dirs : LoadError(dirs[i]) = "" /\ r.bases[k] = Loaded(dirs[i])
    OBVIOUS
  <2>1. PICK j \in DOMAIN chosen : r.bases[k] = Loaded(chosen[j]) /\ LoadError(chosen[j]) = ""
    BY <1>5, <1>7, <1>8
  <2>2. PICK i \in DOMAIN dirs : chosen[j] = dirs[i]
    BY <1>1, <1>2
  <2> QED
    BY <2>1, <2>2
<1> QED
  BY <1>7, <1>9 DEF r

\* A resolver that opens is over packs in their places, if its directories are.
LEMMA OpensInPlace ==
  ASSUME NEW dirs, IsList(dirs), NEW filter, NEW asked, NEW report,
         lib' = Opened(dirs, filter, asked, report),
         \A b \in {Loaded(dirs[i]) : i \in {j \in DOMAIN dirs : LoadError(dirs[j]) = ""}} : InPlace(b)'
  PROVE  BasesInPlace'
<1> SUFFICES ASSUME lib'.open
             PROVE  /\ IsList(lib'.bases) /\ IsList(lib'.overlays)
                    /\ \A k \in DOMAIN lib'.bases : InPlace(lib.bases[k])'
  BY DEF BasesInPlace
<1>1. /\ IsList(lib'.bases) /\ IsList(lib'.overlays)
      /\ \A k \in DOMAIN lib'.bases : \E i \in DOMAIN dirs :
           LoadError(dirs[i]) = "" /\ lib'.bases[k] = Loaded(dirs[i])
  <2>1. MadeOf(lib', dirs)
    BY OpenedFrom
  <2> QED
    BY <2>1 DEF MadeOf
<1>2. \A b : (\E i \in DOMAIN dirs : LoadError(dirs[i]) = "" /\ b = Loaded(dirs[i])) => InPlace(b)'
  OBVIOUS
<1>3. \A k \in DOMAIN lib'.bases : InPlace(lib.bases[k])'
  BY <1>1, <1>2 DEF InPlace
<1> QED
  BY <1>1, <1>3

---------------------------------------------------------------------------
(* The steps.                                                              *)

(* What it is to be a list of S, unfolded.                                 *)
LEMMA SeqIs ==
  ASSUME NEW S, NEW s \in Seq(S)
  PROVE  Len(s) \in Nat /\ DOMAIN s = 1 .. Len(s) /\ s = [k \in 1 .. Len(s) |-> s[k]]
OBVIOUS

(* A list of the members of two lists.                                     *)
Joins(u, s, t) ==
  /\ IsList(u)
  /\ \A k \in DOMAIN u : (\E i \in DOMAIN s : u[k] = s[i]) \/ (\E i \in DOMAIN t : u[k] = t[i])

(* One list after another joins the two.                                   *)
LEMMA ListsOfLists ==
  ASSUME NEW s, IsList(s), NEW t, IsList(t)
  PROVE  IsList(s \o t) /\ Joins(s \o t, s, t)
<1>1. /\ Len(s) \in Nat /\ DOMAIN s = 1 .. Len(s) /\ Len(t) \in Nat /\ DOMAIN t = 1 .. Len(t)
      /\ s \in Seq(ToSet(s) \cup ToSet(t)) /\ t \in Seq(ToSet(s) \cup ToSet(t))
  BY ListHas DEF IsList
<1>2. /\ DOMAIN (s \o t) = 1 .. Len(s) + Len(t)
      /\ \A k \in 1 .. Len(s) + Len(t) : (s \o t)[k] = IF k <= Len(s) THEN s[k] ELSE t[k - Len(s)]
  BY <1>1
<1>3. s \o t = [k \in 1 .. Len(s) + Len(t) |-> (s \o t)[k]]
  <2>1. s \o t \in Seq(ToSet(s) \cup ToSet(t)) /\ Len(s \o t) = Len(s) + Len(t)
    BY <1>1
  <2>2. s \o t = [k \in 1 .. Len(s \o t) |-> (s \o t)[k]]
    BY <2>1, SeqIs
  <2> QED
    BY <2>1, <2>2
<1>4. IsList(s \o t)
  BY <1>1, <1>3, ListIs
<1> QED
  BY <1>1, <1>2, <1>4 DEF Joins

(* The directories at a list of paths are a list.                          *)
LEMMA DirsAreList ==
  ASSUME NEW paths, IsList(paths)
  PROVE  IsList([k \in DOMAIN paths |-> DirAt(paths[k])])
<1> DEFINE s == [k \in DOMAIN paths |-> DirAt(paths[k])]
<1>1. Len(paths) \in Nat /\ DOMAIN paths = 1 .. Len(paths)
  BY ListHas
<1>2. s = [k \in 1 .. Len(paths) |-> s[k]]
  BY <1>1
<1> HIDE DEF s
<1>3. IsList(s)
  BY <1>1, <1>2, ListIs
<1> QED
  BY <1>3 DEF s

(* The directories of a list of packs are a list.                          *)
LEMMA PacksAreList ==
  ASSUME NEW packs, IsList(packs)
  PROVE  IsList(DirsOf(packs))
<1> DEFINE s == DirsOf(packs)
<1>1. Len(packs) \in Nat /\ DOMAIN packs = 1 .. Len(packs)
  BY ListHas
<1>2. s = [k \in 1 .. Len(packs) |-> s[k]]
  BY <1>1 DEF DirsOf
<1> HIDE DEF s
<1>3. IsList(s)
  BY <1>1, <1>2, ListIs
<1> QED
  BY <1>3 DEF s

\* Opening by paths.
LEMMA OpenPathsStep ==
  ASSUME LibraryInv, NEW paths, IsList(paths), NEW filter, NEW online, NEW asked, ~lib.open,
         OpenPaths(paths, filter, online, asked), UNCHANGED <<edition, registered, shelf>>
  PROVE  BasesInPlace'
<1>1. CASE UNCHANGED lib
  BY <1>1 DEF BasesInPlace
<1>2. CASE lib' = Opened([k \in DOMAIN paths |-> DirAt(paths[k])], filter, asked, NoReport)
  <2> DEFINE dirs == [k \in DOMAIN paths |-> DirAt(paths[k])]
  <2>1. IsList(dirs)
    BY DirsAreList
  <2>2. ShelfShape' /\ ShelfGrows
    BY DEF LibraryInv, ShelfShape, ShelfGrows
  <2>3. ASSUME NEW i \in DOMAIN dirs, LoadError(dirs[i]) = ""
        PROVE  InPlace(Loaded(dirs[i]))
    BY <2>3, LoadedInPlace DEF LibraryInv
  <2>4. \A b \in {Loaded(dirs[i]) : i \in {j \in DOMAIN dirs : LoadError(dirs[j]) = ""}} : InPlace(b)'
    BY <2>2, <2>3, InPlaceStays DEF LibraryInv
  <2> HIDE DEF dirs
  <2>5. lib' = Opened(dirs, filter, asked, NoReport)
    BY <1>2 DEF dirs
  <2> QED
    BY <2>1, <2>4, <2>5, OpensInPlace
<1> QED
  BY <1>1, <1>2 DEF OpenPaths

\* A shelf that stays or gets one entry more.
LEMMA KeptShelf ==
  ASSUME LibraryInv, shelf' = shelf, edition' = edition, registered' = registered
  PROVE  ShelfShape' /\ EditionShape' /\ EntriesAreBuilds' /\ ShelfGrows
<1>1. ShelfShape' /\ EditionShape' /\ ShelfGrows
  BY DEF LibraryInv, ShelfShape, EditionShape, ShelfGrows
<1>2. \A k \in DOMAIN shelf : EntryIsBuild(shelf[k])
  BY DEF LibraryInv, EntriesAreBuilds
<1>3. \A k \in DOMAIN shelf : EntryIsBuild(shelf[k])'
  BY <1>1, <1>2, EntryStays DEF LibraryInv
<1> QED
  BY <1>1, <1>3 DEF EntriesAreBuilds

---------------------------------------------------------------------------
(* The paths a resolver is opened over are a list.                         *)

(* A finite set as a list has members of the set only.                     *)
LEMMA SetsToLists ==
  ASSUME NEW S, IsFiniteSet(S)
  PROVE  IsList(SetToSeq(S)) /\ \A k \in DOMAIN SetToSeq(S) : SetToSeq(S)[k] \in S
<1> DEFINE n == Cardinality(S)
<1>1. n \in Nat /\ ExistsBijection(1 .. n, S)
  BY FS_CardinalityType
<1> HIDE DEF n
<1>2. \E f \in [1 .. n -> S] : IsInjective(f)
  BY <1>1 DEF ExistsBijection, Bijection, Injection, IsInjective
<1>3. SetToSeq(S) \in [1 .. n -> S]
  BY <1>2 DEF SetToSeq, n
<1>4. SetToSeq(S) = [k \in 1 .. n |-> SetToSeq(S)[k]]
  BY <1>3
<1> QED
  BY <1>1, <1>3, <1>4, ListIs

\* What a function makes of finitely many arguments is finite.
LEMMA FiniteImage ==
  ASSUME NEW f, IsFiniteSet(DOMAIN f)
  PROVE  IsFiniteSet({f[x] : x \in DOMAIN f})
<1> DEFINE g == [x \in DOMAIN f |-> f[x]]
           T == {f[x] : x \in DOMAIN f}
<1>1. g \in Surjection(DOMAIN f, T)
  BY DEF Surjection
<1> HIDE DEF g, T
<1>2. IsFiniteSet(T)
  BY <1>1, FS_Surjection
<1> QED
  BY <1>2 DEF T

(* Only finitely many modules are on offer.                                *)
LEMMA AvailableIsFinite ==
  ASSUME registered \subseteq DOMAIN Offers
  PROVE  IsFiniteSet(DOMAIN ListAvailableModules)
<1> DEFINE ids == [k \in DOMAIN Manifest |-> Manifest[k].id]
           shipped == [m \in Range(ids) |-> Manifest[CHOOSE k \in DOMAIN Manifest : Manifest[k].id = m].dir]
           offered == Restrict(Offers, registered)
<1>1. IsFiniteSet(DOMAIN ids)
  BY CatalogAssumption
<1>2. DOMAIN shipped = {ids[k] : k \in DOMAIN ids}
  BY DEF Range
<1> HIDE DEF ids, shipped
<1>3. IsFiniteSet(DOMAIN shipped)
  BY <1>1, <1>2, FiniteImage
<1>4. IsFiniteSet(DOMAIN offered)
  <2>1. DOMAIN offered \in SUBSET DOMAIN Offers
    BY DEF Restrict
  <2> QED
    BY <2>1, CatalogAssumption, FS_Subset
<1> HIDE DEF offered
<1>5. ASSUME NEW dirs, IsFiniteSet(DOMAIN dirs)
      PROVE  IsFiniteSet(DOMAIN Valid(dirs))
  <2>1. DOMAIN Valid(dirs) \in SUBSET DOMAIN dirs
    BY DEF Valid
  <2> QED
    BY <1>5, <2>1, FS_Subset
<1>6. /\ IsFiniteSet(DOMAIN Valid(shipped)) /\ IsFiniteSet(DOMAIN Valid(offered))
      /\ IsFiniteSet(DOMAIN Valid(EntryPoints))
  BY <1>3, <1>4, <1>5, CatalogAssumption
<1>7. ListAvailableModules = Before(Valid(shipped), Before(Valid(offered), Valid(EntryPoints)))
  BY DEF ListAvailableModules, ids, shipped, offered
<1>8. DOMAIN ListAvailableModules
        = DOMAIN Valid(shipped) \cup (DOMAIN Valid(offered) \cup DOMAIN Valid(EntryPoints))
  BY <1>7 DEF Before
<1> QED
  BY <1>6, <1>8, FS_Union

(* The paths found for the modules asked for, or for all of them, are a list.*)
LEMMA RequestedAreList ==
  ASSUME registered \subseteq DOMAIN Offers, NEW auto, NEW ids, IsList(ids)
  PROVE  IsList(ResolveRequestedModulePaths(auto, ids).paths)
<1> DEFINE available == ListAvailableModules
           requested == IF auto THEN SetToSeq(Local(available)) ELSE ids
           all == Closure(available, auto, ToSet(requested))
           list == InOrder(all, requested)
           found == ResolveRequestedModulePaths(auto, ids)
<1>1. IsFiniteSet(DOMAIN available) /\ IsFiniteSet(Local(available))
  <2>1. Local(available) \in SUBSET DOMAIN available
    BY DEF Local
  <2> QED
    BY <2>1, AvailableIsFinite, FS_Subset
<1>2. IsList(requested)
  BY <1>1, SetsToLists
<1> HIDE DEF available, requested
<1>3. \/ found.paths = <<>>
      \/ all \subseteq DOMAIN available /\ found.paths = [k \in DOMAIN list |-> available[list[k]]]
  BY DEF ResolveRequestedModulePaths, available, requested
<1>4. IsList(<<>>)
  BY DEF IsList
<1>5. ASSUME all \subseteq DOMAIN available
      PROVE  IsList(list)
  <2> HIDE DEF all
  <2> DEFINE P == {k \in DOMAIN requested : requested[k] \in all}
             rest == all \ ToSet(requested)
  <2>1. P \in SUBSET DOMAIN requested /\ rest \in SUBSET DOMAIN available
    BY <1>5
  <2>2. list = Picked(requested, P) \o SetToSeq(rest)
    BY DEF InOrder
  <2> HIDE DEF P, rest, list
  <2>3. IsList(Picked(requested, P))
    BY <1>2, <2>1, PickedFrom
  <2>4. IsList(SetToSeq(rest))
    BY <1>1, <2>1, FS_Subset, SetsToLists
  <2> QED
    BY <2>2, <2>3, <2>4, ListsOfLists
<1>6. ASSUME IsList(list)
      PROVE  IsList([k \in DOMAIN list |-> available[list[k]]])
  <2> HIDE DEF list
  <2>1. Len(list) \in Nat /\ DOMAIN list = 1 .. Len(list)
    BY <1>6, ListHas
  <2> DEFINE s == [k \in DOMAIN list |-> available[list[k]]]
  <2>2. s = [k \in 1 .. Len(list) |-> s[k]]
    BY <2>1
  <2> HIDE DEF s
  <2>3. IsList(s)
    BY <2>1, <2>2, ListIs
  <2> QED
    BY <2>3 DEF s
<1> HIDE DEF all, list, found
<1>7. IsList(found.paths)
  BY <1>3, <1>4, <1>5, <1>6
<1> QED
  BY <1>7 DEF found

---------------------------------------------------------------------------
(* Opening over the directories that were found keeps the invariant...     *)
LEMMA OpenFoundStep ==
  ASSUME LibraryInv, NEW found, IsList(found.paths), NEW filter, NEW online, NEW asked,
         OpenFound(found, filter, online, asked)
  PROVE  LibraryInv'
<1>1. ~lib.open /\ UNCHANGED <<edition, registered, shelf>>
  BY DEF OpenFound
<1>2. ShelfShape' /\ EditionShape' /\ EntriesAreBuilds'
  BY <1>1, KeptShelf
<1>3. CASE UNCHANGED lib
  BY <1>1, <1>2, <1>3 DEF BasesInPlace, LibraryInv
<1>4. CASE OpenPaths(found.paths, filter, online, asked)
  <2>1. BasesInPlace'
    BY <1>1, <1>4, OpenPathsStep
  <2> QED
    BY <1>2, <2>1 DEF LibraryInv
<1> QED
  BY <1>3, <1>4 DEF OpenFound

(* ...by the ids of modules...                                             *)
LEMMA OpenModulesStep ==
  ASSUME LibraryInv, NEW ids \in Selections, NEW filter, NEW online, OpenModules(ids, filter, online)
  PROVE  LibraryInv'
<1>1. IsList(ids)
  BY CatalogAssumption DEF IsList
<1>2. IsList(ResolveRequestedModulePaths(FALSE, ids).paths)
  BY <1>1, RequestedAreList DEF LibraryInv, EditionShape
<1> QED
  BY <1>2, OpenFoundStep DEF OpenModules

(* ...over all that is available...                                        *)
LEMMA OpenAutoStep ==
  ASSUME LibraryInv, NEW filter, NEW online, OpenAuto(filter, online)
  PROVE  LibraryInv'
<1> DEFINE available == ListAvailableModules
           chosen == {id \in Local(available) : PackAt(available[id]).domain \in filter}
           known == {PackAt(available[id]).domain : id \in DOMAIN available}
           all == ResolveRequestedModulePaths(TRUE, <<>>)
           list == SetToSeq({available[id] : id \in chosen})
           found == IF filter = {} THEN all
                    ELSE IF ~(filter \subseteq known) THEN [error |-> "UnknownDomain", paths |-> <<>>]
                    ELSE [error |-> "", paths |-> list]
<1>1. OpenFound(found, {}, online, Asked("auto", <<>>, filter))
  BY DEF OpenAuto
<1>2. IsList(<<>>)
  BY DEF IsList
<1>3. IsList(all.paths)
  BY <1>2, RequestedAreList DEF LibraryInv, EditionShape
<1>4. IsList(list)
  <2> DEFINE f == [id \in chosen |-> available[id]]
  <2>1. chosen \in SUBSET DOMAIN available
    BY DEF Local
  <2>2. IsFiniteSet(chosen)
    BY <2>1, AvailableIsFinite, FS_Subset DEF LibraryInv, EditionShape
  <2>3. {available[id] : id \in chosen} = {f[id] : id \in DOMAIN f} /\ DOMAIN f = chosen
    OBVIOUS
  <2> HIDE DEF f
  <2> QED
    BY <2>2, <2>3, FiniteImage, SetsToLists
<1> HIDE DEF all, list, known
<1>5. IsList(found.paths)
  BY <1>2, <1>3, <1>4
<1> HIDE DEF found
<1> QED
  BY <1>1, <1>5, OpenFoundStep

(* ...and by the paths of packs.                                           *)
LEMMA OpenDatapacksStep ==
  ASSUME LibraryInv, NEW paths \in PathLists, NEW filter, NEW online, OpenDatapacks(paths, filter, online)
  PROVE  LibraryInv'
<1> DEFINE found == [error |-> "", paths |-> paths]
<1>1. IsList(found.paths)
  BY CatalogAssumption DEF IsList
<1>2. OpenFound(found, filter, online, Asked("paths", <<>>, {}))
  BY DEF OpenDatapacks
<1> HIDE DEF found
<1> QED
  BY <1>1, <1>2, OpenFoundStep

\* What a build puts on the shelf is a build, under a key that tells which.
EntryOf(args, bases) ==
  [key |-> ByodCacheKey(args), tally |-> Tally(RunBuild(args).wrote), wrote |-> RunBuild(args).wrote,
   pack |-> PackOfBuild(args, RunBuild(args), bases, Len(shelf) + 1)]

(* What a built pack is, of what the build made.                           *)
LEMMA PackFields ==
  ASSUME NEW args, NEW built, NEW bases, NEW slot
  PROVE  /\ PackOfBuild(args, built, bases, slot).db = built.db
         /\ PackOfBuild(args, built, bases, slot).distribution = "bundled"
BY DEF PackOfBuild

(* No error.                                                               *)
Succeeds(built) == built.error = ""

(* The entry of a build that succeeds is a build.                          *)
LEMMA NewEntry ==
  ASSUME NEW args, KeyTells(args), Succeeds(RunBuild(args)), NEW bases
  PROVE  EntryIsBuild(EntryOf(args, bases)) /\ EntryOf(args, bases).pack.distribution = "bundled"
<1> DEFINE entry == EntryOf(args, bases)
<1>1. entry.key = ByodCacheKey(args) /\ entry.tally = Tally(RunBuild(args).wrote)
      /\ entry.pack = PackOfBuild(args, RunBuild(args), bases, Len(shelf) + 1)
  BY DEF EntryOf
<1> HIDE DEF entry
<1>2. entry.pack.db = RunBuild(args).db /\ entry.pack.distribution = "bundled"
  BY <1>1, PackFields
<1>3. ArgumentsOf(entry.key) = args /\ InPlaces(entry.key.baseIdentity)
  BY <1>1, KeyIsEnough DEF KeyTells
<1> QED
  BY <1>1, <1>2, <1>3 DEF EntryIsBuild, MadeBy, Succeeds, entry

(* A list with one member more.                                            *)
LEMMA AppendIs ==
  ASSUME NEW s, IsList(s), NEW e
  PROVE  /\ IsList(Append(s, e)) /\ Len(Append(s, e)) = Len(s) + 1
         /\ DOMAIN Append(s, e) = 1 .. Len(s) + 1
         /\ \A k \in 1 .. Len(s) + 1 : Append(s, e)[k] = IF k = Len(s) + 1 THEN e ELSE s[k]
<1>1. s \in Seq(ToSet(s) \cup {e}) /\ Len(s) \in Nat
  BY ListHas DEF IsList
<1>2. /\ Append(s, e) \in Seq(ToSet(s) \cup {e}) /\ Len(Append(s, e)) = Len(s) + 1
      /\ \A k \in 1 .. Len(s) + 1 : Append(s, e)[k] = IF k = Len(s) + 1 THEN e ELSE s[k]
  BY <1>1
<1>3. Append(s, e) = [k \in 1 .. Len(s) + 1 |-> Append(s, e)[k]]
  BY <1>2, SeqIs
<1> QED
  BY <1>1, <1>2, <1>3, ListIs

(* A new entry, on a directory that is none of the others, moves nothing.  *)
LEMMA ShelfPut ==
  ASSUME LibraryInv, Len(shelf) < MaxBuilds, UNCHANGED <<edition, registered>>,
         NEW entry, EntryIsBuild(entry), entry.pack.distribution = "bundled",
         shelf' = Append(shelf, entry)
  PROVE  /\ ShelfShape' /\ EditionShape' /\ EntriesAreBuilds' /\ ShelfGrows
         /\ Len(shelf) + 1 \in DOMAIN shelf'
<1>1. IsList(shelf) /\ Len(shelf) \in Nat /\ DOMAIN shelf = 1 .. Len(shelf)
  BY ListHas DEF LibraryInv, ShelfShape
<1>2. /\ IsList(shelf') /\ Len(shelf') = Len(shelf) + 1
      /\ DOMAIN shelf' = 1 .. Len(shelf) + 1
      /\ \A k \in 1 .. Len(shelf) + 1 : shelf'[k] = IF k = Len(shelf) + 1 THEN entry ELSE shelf[k]
  BY <1>1, AppendIs
<1>3. \A k \in DOMAIN shelf' : shelf'[k] = entry \/ (k \in DOMAIN shelf /\ shelf'[k] = shelf[k])
  BY <1>1, <1>2
<1>4. ShelfGrows /\ Len(shelf) + 1 \in DOMAIN shelf'
  BY <1>1, <1>2 DEF ShelfGrows
<1>5. ShelfShape'
  BY <1>1, <1>2, <1>3, BuiltPathsAssumption DEF ShelfShape, LibraryInv
<1>6. EntryIsBuild(entry)' /\ \A k \in DOMAIN shelf : EntryIsBuild(shelf[k])
  BY <1>4, <1>5, EntryStays DEF LibraryInv, EntriesAreBuilds
<1>7. ASSUME NEW k \in DOMAIN shelf'
      PROVE  EntryIsBuild(shelf[k])'
  <2>1. PICK e : e = shelf'[k]
    OBVIOUS
  <2>2. EntryIsBuild(e)
    BY <1>3, <1>6, <2>1
  <2>3. EntryIsBuild(e)'
    BY <1>4, <1>5, <2>2, EntryStays DEF LibraryInv
  <2> QED
    BY <2>1, <2>3 DEF EntryIsBuild
<1>8. EditionShape'
  BY DEF LibraryInv, EditionShape
<1> QED
  BY <1>4, <1>5, <1>7, <1>8 DEF EntriesAreBuilds

(* What shelving answers: the error of the build, or its new place.        *)
LEMMA ShelvedIs ==
  ASSUME NEW args, NEW bases, NEW built
  PROVE  IF ~Succeeds(built) THEN Shelved(args, bases, built).error = built.error
         ELSE /\ Shelved(args, bases, built).slot = Len(shelf) + 1
              /\ Shelved(args, bases, built).shelf
                   = Append(shelf, [key |-> ByodCacheKey(args), tally |-> Tally(built.wrote), wrote |-> built.wrote,
                                    pack |-> PackOfBuild(args, built, bases, Len(shelf) + 1)])
BY DEF Shelved, NotBuilt, Succeeds

(* A build that succeeds is a hit that leaves the shelf alone, or a new entry.*)
LEMMA BuiltIs ==
  ASSUME NEW args, NEW bases, Succeeds(BuildByodPack(args, bases))
  PROVE  \/ /\ Hit(args) # {}
            /\ BuildByodPack(args, bases).shelf = shelf
            /\ BuildByodPack(args, bases).slot = Chosen(Hit(args))
         \/ /\ Hit(args) = {} /\ Succeeds(RunBuild(args))
            /\ BuildByodPack(args, bases).shelf = Append(shelf, EntryOf(args, bases))
            /\ BuildByodPack(args, bases).slot = Len(shelf) + 1
<1>1. CASE Hit(args) # {}
  BY <1>1 DEF BuildByodPack
<1>2. CASE Hit(args) = {}
  <2>1. BuildByodPack(args, bases) = Shelved(args, bases, RunBuild(args))
    BY <1>2 DEF BuildByodPack
  <2>2. Succeeds(RunBuild(args))
    <3>1. ASSUME ~Succeeds(RunBuild(args))
          PROVE  BuildByodPack(args, bases).error = RunBuild(args).error
      BY <2>1, <3>1, ShelvedIs
    <3> QED
      BY <3>1 DEF Succeeds
  <2> QED
    BY <1>2, <2>1, <2>2, ShelvedIs DEF EntryOf
<1> QED
  BY <1>1, <1>2

(* What fails leaves the shelf alone...                                    *)
LEMMA NotBuiltKeeps ==
  ASSUME NEW error
  PROVE  NotBuilt(error).shelf = shelf /\ NotBuilt(error).error = error
BY DEF NotBuilt

(* ...wherever in a build it fails.                                        *)
LEMMA FailsKeep ==
  ASSUME NEW args, NEW bases, NEW error
  PROVE  /\ NotBuilt(error).shelf = shelf
         /\ ~Succeeds(BuildByodPack(args, bases)) => BuildByodPack(args, bases).shelf = shelf
<1>1. CASE Hit(args) # {}
  BY <1>1 DEF BuildByodPack, Succeeds, NotBuilt
<1>2. CASE Hit(args) = {}
  <2>1. BuildByodPack(args, bases) = Shelved(args, bases, RunBuild(args))
    BY <1>2 DEF BuildByodPack
  <2>2. CASE Succeeds(RunBuild(args))
    <3>1. Shelved(args, bases, RunBuild(args)).error = ""
      BY <2>2 DEF Shelved, Succeeds
    <3> QED
      BY <2>1, <3>1, NotBuiltKeeps DEF Succeeds
  <2>3. CASE ~Succeeds(RunBuild(args))
    <3>1. Shelved(args, bases, RunBuild(args)) = NotBuilt(RunBuild(args).error)
      BY <2>3 DEF Shelved, Succeeds
    <3> QED
      BY <2>1, <3>1, NotBuiltKeeps
  <2> QED
    BY <2>2, <2>3
<1> QED
  BY <1>1, <1>2

(* The shelf after a build that succeeds, and the place the build is at.   *)
LEMMA ShelvedStep ==
  ASSUME LibraryInv, NEW args, KeyTells(args), HasRoom(args), NEW bases,
         Succeeds(BuildByodPack(args, bases)),
         shelf' = BuildByodPack(args, bases).shelf, UNCHANGED <<edition, registered>>
  PROVE  /\ ShelfShape' /\ EditionShape' /\ EntriesAreBuilds' /\ ShelfGrows
         /\ BuildByodPack(args, bases).slot \in DOMAIN shelf'
<1>1. CASE Hit(args) # {}
  <2>1. shelf' = shelf /\ BuildByodPack(args, bases).slot = Chosen(Hit(args))
    BY <1>1, BuiltIs
  <2>2. Chosen(Hit(args)) \in DOMAIN shelf
    BY <1>1 DEF Chosen, Hit
  <2>3. ShelfShape' /\ EditionShape' /\ EntriesAreBuilds' /\ ShelfGrows
    BY <2>1, KeptShelf
  <2> QED
    BY <2>1, <2>2, <2>3
<1>2. CASE Hit(args) = {}
  <2>1. /\ Succeeds(RunBuild(args)) /\ shelf' = Append(shelf, EntryOf(args, bases))
        /\ BuildByodPack(args, bases).slot = Len(shelf) + 1
    BY <1>2, BuiltIs
  <2>2. Len(shelf) < MaxBuilds
    BY <1>2 DEF HasRoom
  <2>3. EntryIsBuild(EntryOf(args, bases)) /\ EntryOf(args, bases).pack.distribution = "bundled"
    BY <2>1, NewEntry
  <2> QED
    BY <2>1, <2>2, <2>3, ShelfPut
<1> QED
  BY <1>1, <1>2

\* The directory of a built pack, once it is on the shelf.
LEMMA BuiltInPlace ==
  ASSUME ShelfShape', NEW slot \in DOMAIN shelf', NEW at,
         at = [path |-> BuiltPaths[slot], there |-> TRUE, pack |-> shelf'[slot].pack]
  PROVE  \A b : b = Loaded(at) => InPlace(b)'
<1>1. at.path = BuiltPaths[slot] /\ at.pack = shelf'[slot].pack
  OBVIOUS
<1>2. /\ BuiltPaths[slot] \in ToSet(BuiltPaths) /\ BuiltPaths[slot] \notin DOMAIN Disk
      /\ (CHOOSE j \in DOMAIN shelf' : BuiltPaths[j] = BuiltPaths[slot]) = slot
  BY SlotIs DEF ShelfShape
<1>3. ~IsManifestDir(at.pack.id, at.path)
  BY <1>1, <1>2, DiskAssumption DEF IsManifestDir
<1>4. LoaderDistribution(at) = "bundled"
  BY <1>1, <1>3 DEF LoaderDistribution, ShelfShape
<1>5. Loaded(at).path = BuiltPaths[slot] /\ Loaded(at).pack = shelf'[slot].pack
  BY <1>1, <1>4 DEF Loaded
<1>6. BuiltPaths[slot] \in Places'
  BY DEF Places
<1>7. \A e : DbAt(BuiltPaths[slot], e)' = shelf'[slot].pack.db
  BY <1>2 DEF DbAt
<1> SUFFICES ASSUME NEW b, b = Loaded(at)
             PROVE  InPlace(b)'
  OBVIOUS
<1>8. b.path = BuiltPaths[slot] /\ b.pack = shelf'[slot].pack
  BY <1>5
<1> QED
  BY <1>6, <1>7, <1>8 DEF InPlace

(* A list of one.                                                          *)
LEMMA OneIsList ==
  ASSUME NEW e
  PROVE  IsList(<<e>>) /\ DOMAIN <<e>> = {1} /\ <<e>>[1] = e
BY DEF IsList, ToSet

(* Building from records keeps the invariant, whether or not it opens.     *)
LEMMA FromRecordsStep ==
  ASSUME LibraryInv, NEW call, FromRecords(call)
  PROVE  LibraryInv'
<1> DEFINE args == RecordsArguments(call)
           at(built) == BuiltAt(built)
<1>1. ~lib.open /\ HasRoom(args) /\ UNCHANGED <<edition, registered>>
  BY DEF FromRecords
<1>2. PICK built \in {IF RecordsError(call) # "" THEN NotBuilt(RecordsError(call))
                      ELSE BuildByodPack(args, {})} :
        /\ shelf' = built.shelf
        /\ lib' = IF built.error # "" THEN lib
                  ELSE Opened(<<BuiltAt(built)>>, {call.domain}, Asked("records", <<>>, {}), ReportOf(built))
  BY DEF FromRecords
<1>3. CASE ~Succeeds(built)
  <2>1. built.shelf = shelf /\ lib' = lib
    BY <1>2, <1>3, FailsKeep DEF Succeeds
  <2>2. ShelfShape' /\ EditionShape' /\ EntriesAreBuilds'
    BY <1>1, <1>2, <2>1, KeptShelf
  <2> QED
    BY <1>1, <2>1, <2>2 DEF LibraryInv, BasesInPlace
<1>4. CASE Succeeds(built)
  <2>1. built = BuildByodPack(args, {})
    <3>1. RecordsError(call) # "" => ~Succeeds(NotBuilt(RecordsError(call)))
      BY NotBuiltKeeps DEF Succeeds
    <3> QED
      BY <1>2, <1>4, <3>1, Zenon
  <2>2. /\ ShelfShape' /\ EditionShape' /\ EntriesAreBuilds' /\ ShelfGrows
        /\ built.slot \in DOMAIN shelf'
    BY <1>1, <1>2, <1>4, <2>1, RecordsKeyTells, ShelvedStep
  <2> DEFINE dirs == <<BuiltAt(built)>>
  <2>3. lib' = Opened(dirs, {call.domain}, Asked("records", <<>>, {}), ReportOf(built))
    BY <1>2, <1>4 DEF Succeeds
  <2>4. BuiltAt(built) = [path |-> BuiltPaths[built.slot], there |-> TRUE, pack |-> shelf'[built.slot].pack]
    BY <1>2 DEF BuiltAt
  <2>5. \A b : b = Loaded(BuiltAt(built)) => InPlace(b)'
    BY <2>2, <2>4, BuiltInPlace
  <2>6. IsList(dirs) /\ DOMAIN dirs = {1} /\ dirs[1] = BuiltAt(built)
    BY OneIsList
  <2> HIDE DEF dirs
  <2>7. \A b \in {Loaded(dirs[i]) : i \in {j \in DOMAIN dirs : LoadError(dirs[j]) = ""}} : InPlace(b)'
    <3> SUFFICES ASSUME NEW b, NEW i \in DOMAIN dirs, b = Loaded(dirs[i])
                 PROVE  InPlace(b)'
      OBVIOUS
    <3>1. i = 1
      BY <2>6
    <3> QED
      BY <2>5, <2>6, <3>1
  <2>8. BasesInPlace'
    BY <2>3, <2>6, <2>7, OpensInPlace
  <2> QED
    BY <2>2, <2>8 DEF LibraryInv
<1> QED
  BY <1>3, <1>4

(* So does adding records to an open resolver.                             *)
LEMMA AugmentStep ==
  ASSUME LibraryInv, NEW call, Augment(call)
  PROVE  LibraryInv'
<1> DEFINE args == AugmentArguments(call)
           ids == {b.pack.id : b \in ToSet(lib.bases)}
           built == BuildByodPack(args, ids)
           dirs == DirsOf(lib.bases) \o DirsOf(lib.overlays) \o <<BuiltAt(built)>>
           opened == Opened(dirs, {Head(lib.bases).pack.domain}, Asked("augment", <<>>, {}), ReportOf(built))
<1>1. /\ lib.open /\ HasRoom(args) /\ UNCHANGED <<edition, registered>>
      /\ Succeeds(built) /\ shelf' = built.shelf /\ lib' = OrStay(opened)
  BY DEF Augment, Succeeds
<1> HIDE DEF ids
<1>2. KeyTells(args)
  BY <1>1, AugmentKeyTells DEF LibraryInv
<1> HIDE DEF args
<1>3. /\ ShelfShape' /\ EditionShape' /\ EntriesAreBuilds' /\ ShelfGrows
      /\ built.slot \in DOMAIN shelf'
  BY <1>1, <1>2, ShelvedStep
<1> HIDE DEF built
<1>4. CASE lib' = lib
  <2>1. \A b : InPlace(b) => InPlace(b)'
    BY <1>1, <1>3, InPlaceStays DEF LibraryInv
  <2>2. /\ IsList(lib.bases) /\ IsList(lib.overlays)
        /\ \A k \in DOMAIN lib.bases : InPlace(lib.bases[k])
    BY <1>1 DEF LibraryInv, BasesInPlace
  <2>3. \A k \in DOMAIN lib.bases : \A b : b = lib.bases[k] => InPlace(b)'
    BY <2>1, <2>2
  <2>4. BasesInPlace'
    BY <1>4, <2>2, <2>3 DEF BasesInPlace, InPlace
  <2> QED
    BY <1>3, <2>4 DEF LibraryInv
<1>5. CASE lib' = opened
  <2>1. IsList(lib.bases) /\ IsList(lib.overlays)
    BY <1>1 DEF LibraryInv, BasesInPlace
  <2>2. IsList(DirsOf(lib.bases)) /\ IsList(DirsOf(lib.overlays)) /\ IsList(<<BuiltAt(built)>>)
    BY <2>1, PacksAreList, OneIsList
  <2>3. \A i \in DOMAIN dirs : \/ dirs[i] = BuiltAt(built)
                               \/ \E path : dirs[i] = DirAt(path)
    <3> DEFINE under == DirsOf(lib.bases) \o DirsOf(lib.overlays)
    <3>1. IsList(under) /\ Joins(under, DirsOf(lib.bases), DirsOf(lib.overlays))
      BY <2>2, ListsOfLists
    <3>2. Joins(dirs, under, <<BuiltAt(built)>>)
      BY <2>2, <3>1, ListsOfLists
    <3> HIDE DEF under
    <3>3. \A i \in DOMAIN under : \E path : under[i] = DirAt(path)
      BY <3>1 DEF Joins, DirsOf
    <3> HIDE DEF dirs
    <3> QED
      BY <3>2, <3>3, OneIsList DEF Joins
  <2>4. IsList(dirs)
    BY <2>2, ListsOfLists
  <2>5. BuiltAt(built) = [path |-> BuiltPaths[built.slot], there |-> TRUE, pack |-> shelf'[built.slot].pack]
    BY <1>1 DEF BuiltAt
  <2>6. \A b : b = Loaded(BuiltAt(built)) => InPlace(b)'
    BY <1>3, <2>5, BuiltInPlace
  <2>7. \A path, b : LoadError(DirAt(path)) = "" /\ b = Loaded(DirAt(path)) => InPlace(b)'
    BY <1>1, <1>3, LoadedInPlace, InPlaceStays DEF LibraryInv
  <2> HIDE DEF dirs
  <2>8. \A b \in {Loaded(dirs[i]) : i \in {j \in DOMAIN dirs : LoadError(dirs[j]) = ""}} : InPlace(b)'
    BY <2>3, <2>6, <2>7
  <2>9. BasesInPlace'
    BY <1>5, <2>4, <2>8, OpensInPlace
  <2> QED
    BY <1>3, <2>9 DEF LibraryInv
<1> QED
  BY <1>1, <1>4, <1>5 DEF OrStay

(* So does every step...                                                   *)
LEMMA LibraryStep == LibraryInv /\ [LibraryNext]_libraryVars => LibraryInv'
<1> SUFFICES ASSUME LibraryInv, [LibraryNext]_libraryVars
             PROVE  LibraryInv'
  OBVIOUS
<1>1. ASSUME NEW ids \in Selections, NEW filter \in Filters, NEW online \in BOOLEAN,
             OpenModules(ids, filter, online)
      PROVE  LibraryInv'
  BY <1>1, OpenModulesStep
<1>2. ASSUME NEW ids \in Selections, NEW online \in BOOLEAN, Lite(ids, online)
      PROVE  LibraryInv'
  BY <1>2, OpenModulesStep DEF Lite
<1>3. ASSUME NEW filter \in Filters, NEW online \in BOOLEAN, OpenAuto(filter, online)
      PROVE  LibraryInv'
  BY <1>3, OpenAutoStep
<1>4. ASSUME NEW paths \in PathLists, NEW filter \in Filters, NEW online \in BOOLEAN,
             OpenDatapacks(paths, filter, online)
      PROVE  LibraryInv'
  BY <1>4, OpenDatapacksStep
<1>5. ASSUME NEW call \in RecordsCalls, FromRecords(call)
      PROVE  LibraryInv'
  BY <1>5, FromRecordsStep
<1>6. ASSUME NEW call \in AugmentCalls, Augment(call)
      PROVE  LibraryInv'
  BY <1>6, AugmentStep
<1>7. ASSUME UNCHANGED <<edition, registered, shelf>>, lib' = lib \/ ~lib'.open
      PROVE  LibraryInv'
  <2>1. ShelfShape' /\ EditionShape' /\ EntriesAreBuilds'
    BY <1>7, KeptShelf
  <2>2. CASE lib' = lib
    <3>1. BasesInPlace'
      BY <1>7, <2>2 DEF LibraryInv, BasesInPlace, InPlace, Places, DbAt, EditionOf
    <3> QED
      BY <2>1, <3>1 DEF LibraryInv
  <2>3. CASE ~lib'.open
    BY <2>1, <2>3 DEF LibraryInv, BasesInPlace
  <2> QED
    BY <1>7, <2>2, <2>3
<1>8. ASSUME NEW call \in AugmentCalls, AugmentFails(call)
      PROVE  LibraryInv'
  BY <1>7, <1>8 DEF AugmentFails, libraryVars
<1>9. CASE Close
  <2>1. ~lib'.open
    BY <1>9 DEF Close, Closed
  <2> QED
    BY <1>7, <1>9, <2>1 DEF Close
<1>10. ASSUME NEW id \in DOMAIN CachePath, Download(id) \/ Clear(id)
       PROVE  LibraryInv'
  BY <1>7, <1>10 DEF Download, Clear
<1>11. ASSUME ~lib'.open, registered' \subseteq DOMAIN Offers, EditionShape', shelf' = shelf
       PROVE  LibraryInv'
  <2>1. ShelfShape' /\ ShelfGrows
    BY <1>11 DEF LibraryInv, ShelfShape, ShelfGrows
  <2>2. \A k \in DOMAIN shelf : \A e : e = shelf[k] => EntryIsBuild(e)'
    BY <2>1, EntryStays DEF LibraryInv, EntriesAreBuilds
  <2>3. EntriesAreBuilds'
    BY <1>11, <2>2 DEF EntriesAreBuilds, EntryIsBuild
  <2> QED
    BY <1>11, <2>1, <2>3 DEF LibraryInv, BasesInPlace
<1>12. ASSUME NEW id \in DOMAIN Offers, RegisterModule(id) \/ UnregisterModule(id)
       PROVE  LibraryInv'
  <2>1. ~lib'.open /\ registered' \subseteq DOMAIN Offers /\ shelf' = shelf /\ edition' = edition
    BY <1>12 DEF RegisterModule, UnregisterModule, LibraryInv, EditionShape
  <2>2. EditionShape'
    BY <2>1 DEF LibraryInv, EditionShape
  <2> QED
    BY <1>11, <2>1, <2>2
<1>13. ASSUME NEW dir \in DOMAIN Disk, Replace(dir)
       PROVE  LibraryInv'
  <2>1. ~lib'.open /\ registered' = registered /\ shelf' = shelf
    BY <1>13 DEF Replace
  <2>2. EditionShape'
    <3>1. edition' = [edition EXCEPT ![dir] = edition[dir] + 1] /\ edition[dir] < Len(Disk[dir])
      BY <1>13 DEF Replace
    <3>2. DOMAIN Disk[dir] = 1 .. Len(Disk[dir]) /\ Len(Disk[dir]) \in Nat
      BY DiskAssumption
    <3>3. edition[dir] + 1 \in DOMAIN Disk[dir]
      BY <3>1, <3>2 DEF LibraryInv, EditionShape
    <3> QED
      BY <2>1, <3>1, <3>3 DEF LibraryInv, EditionShape
  <2> QED
    BY <1>11, <2>1, <2>2 DEF LibraryInv, EditionShape
<1>14. CASE UNCHANGED libraryVars
  BY <1>7, <1>14 DEF libraryVars
<1> QED
  BY <1>1, <1>2, <1>3, <1>4, <1>5, <1>6, <1>8, <1>9, <1>10, <1>12, <1>13, <1>14 DEF LibraryNext

(* ...and nothing is on the shelf at the start.                            *)
LEMMA LibraryStarts == LibraryInit => LibraryInv
<1> SUFFICES ASSUME LibraryInit
             PROVE  LibraryInv
  OBVIOUS
<1>1. IsList(shelf) /\ Len(shelf) = 0 /\ DOMAIN shelf = {}
  BY DEF LibraryInit, IsList
<1>2. ShelfShape /\ EntriesAreBuilds
  BY <1>1, BuiltPathsAssumption DEF ShelfShape, EntriesAreBuilds
<1>3. EditionShape
  <2>1. \A path \in DOMAIN Disk : 1 \in DOMAIN Disk[path]
    BY DiskAssumption
  <2> QED
    BY <2>1 DEF LibraryInit, EditionShape
<1>4. BasesInPlace
  BY DEF LibraryInit, BasesInPlace, Closed
<1> QED
  BY <1>2, <1>3, <1>4 DEF LibraryInv

(* A hit in the cache of built packs (build_byod_pack, core/byod/build.py) *)
(* is the pack that building now, from the records of the caller over the  *)
(* bases of the open resolver, would make, although the cache key names    *)
(* those bases by their place and edition and never by their content.      *)
THEOREM CachedPacksAreBuilds == LibrarySpec => []HitIsABuild
<1>1. LibraryInv => HitIsABuild
  BY HitsAreBuilds
<1> QED
  BY <1>1, LibraryStarts, LibraryStep, PTL DEF LibrarySpec

---------------------------------------------------------------------------
(* What is opened is what was asked for.  First, which packs are loaded.   *)

(* A nonempty set of numbers has a least one.                              *)
LEMMA LeastOf ==
  ASSUME NEW S \in SUBSET Nat, S # {}
  PROVE  \E x \in S : \A y \in S : x <= y
<1> DEFINE R == {ss \in Nat \X Nat : ss[1] < ss[2]}
<1>1. IsWellFoundedOn(R, Nat)
  BY NatLessThanWellFounded DEF OpToRel
<1>2. PICK x \in S : \A y \in S : <<y, x>> \notin R
  <2> HIDE DEF R
  <2> QED
    BY <1>1, WFMin
<1>3. ASSUME NEW y \in S
      PROVE  x <= y
  <2>1. x \in Nat /\ y \in Nat /\ <<y, x>> \notin R
    BY <1>2
  <2> QED
    BY <2>1
<1> QED
  BY <1>3

(* The ids of the packs of a list.                                         *)
IdsOf(packs) == {packs[k].pack.id : k \in DOMAIN packs}

(* No id is lost when packs replace others of their id.                    *)
LEMMA ByIdHas ==
  ASSUME NEW packs, IsList(packs)
  PROVE  IdsOf(ById(packs)) = IdsOf(packs)
<1> DEFINE first == Picked(packs, Firsts(packs))
           Same(k) == WithId(packs, first[k].pack.id)
           r == ById(packs)
<1>1. Firsts(packs) \in SUBSET DOMAIN packs
  BY DEF Firsts
<1>2. /\ \A k \in DOMAIN first : \E i \in Firsts(packs) : first[k] = packs[i]
      /\ \A i \in Firsts(packs) : \E k \in DOMAIN first : first[k] = packs[i]
  BY <1>1, PickedFrom
<1>3. \A i \in DOMAIN packs : \E k \in DOMAIN first : first[k].pack.id = packs[i].pack.id
  <2> SUFFICES ASSUME NEW i \in DOMAIN packs
               PROVE  \E k \in DOMAIN first : first[k].pack.id = packs[i].pack.id
    OBVIOUS
  <2> HIDE DEF first
  <2>1. WithId(packs, packs[i].pack.id) \in SUBSET Nat /\ WithId(packs, packs[i].pack.id) # {}
    BY ListHas DEF WithId
  <2>2. PICK m \in WithId(packs, packs[i].pack.id) : \A j \in WithId(packs, packs[i].pack.id) : m <= j
    BY <2>1, LeastOf
  <2>3. m \in DOMAIN packs /\ packs[m].pack.id = packs[i].pack.id
    BY <2>2 DEF WithId
  <2>4. m \in Firsts(packs)
    BY <2>2, <2>3 DEF Firsts
  <2> QED
    BY <1>2, <2>3, <2>4
<1>4. \A k \in DOMAIN first : Last(Sorted(Same(k))) \in Same(k)
  <2> SUFFICES ASSUME NEW k \in DOMAIN first
               PROVE  Last(Sorted(Same(k))) \in Same(k)
    OBVIOUS
  <2> HIDE DEF first
  <2>1. Same(k) \in SUBSET DOMAIN packs /\ Same(k) # {}
    BY <1>1, <1>2 DEF WithId
  <2> HIDE DEF Same
  <2>2. Same(k) \in SUBSET Nat /\ IsFiniteSet(Same(k))
    BY <2>1, ListHas, FS_Subset
  <2> QED
    BY <2>1, <2>2, LastOf
<1>5. DOMAIN r = DOMAIN first /\ \A k \in DOMAIN first : r[k] = packs[Last(Sorted(Same(k)))]
  BY DEF ById
<1> HIDE DEF first, r
<1>6. \A k \in DOMAIN first : r[k].pack.id = first[k].pack.id
  BY <1>4, <1>5 DEF WithId
<1> HIDE DEF Same
<1>7. \A k \in DOMAIN first : \E i \in DOMAIN packs : first[k].pack.id = packs[i].pack.id
  BY <1>1, <1>2
<1>8. IdsOf(r) = IdsOf(packs)
  BY <1>3, <1>5, <1>6, <1>7 DEF IdsOf
<1> QED
  BY <1>8 DEF r

(* The packs of a kind, by their ids.                                      *)
LEMMA OfKindHas ==
  ASSUME NEW packs, IsList(packs), NEW kind
  PROVE  IdsOf(OfKind(packs, kind)) = {packs[i].pack.id : i \in {j \in DOMAIN packs : packs[j].pack.kind = kind}}
<1> DEFINE P == {k \in DOMAIN packs : packs[k].pack.kind = kind}
           chosen == Picked(packs, P)
<1>1. P \in SUBSET DOMAIN packs /\ OfKind(packs, kind) = ById(chosen)
  BY DEF OfKind
<1> HIDE DEF P
<1>2. /\ IsList(chosen)
      /\ \A k \in DOMAIN chosen : \E i \in P : chosen[k] = packs[i]
      /\ \A i \in P : \E k \in DOMAIN chosen : chosen[k] = packs[i]
  BY <1>1, PickedFrom
<1> HIDE DEF chosen
<1>3. IdsOf(ById(chosen)) = IdsOf(chosen)
  BY <1>2, ByIdHas
<1>4. IdsOf(chosen) = {packs[i].pack.id : i \in P}
  BY <1>2 DEF IdsOf
<1> QED
  BY <1>1, <1>3, <1>4 DEF P

(* A base whose domain has a factory gets a pack for its domain.           *)
LEMMA KnownHas ==
  ASSUME NEW bases, IsList(bases), NEW b \in DOMAIN bases, bases[b].pack.domain \in DOMAIN Factories
  PROVE  bases[b].pack.domain \in ToSet(Known(bases))
<1> DEFINE d == bases[b].pack.domain
           Same(i) == {j \in DOMAIN bases : bases[j].pack.domain = bases[i].pack.domain}
           P == {i \in DOMAIN bases : \A j \in DOMAIN bases :
                   bases[j].pack.domain = bases[i].pack.domain => i <= j}
           first == Picked(bases, P)
           all == Domains(bases)
           Q == {k \in DOMAIN all : all[k] \in DOMAIN Factories}
<1>1. PICK m \in Same(b) : \A j \in Same(b) : m <= j
  <2>1. Same(b) \in SUBSET Nat /\ Same(b) # {}
    BY ListHas
  <2> HIDE DEF Same
  <2> QED
    BY <2>1, LeastOf
<1>2. m \in P /\ P \in SUBSET DOMAIN bases /\ bases[m].pack.domain = d
  BY <1>1
<1>3. all = [k \in DOMAIN first |-> first[k].pack.domain]
  BY DEF Domains
<1> HIDE DEF P, d, Same
<1>4. /\ IsList(first)
      /\ \E k \in DOMAIN first : first[k] = bases[m]
  BY <1>2, PickedFrom
<1> HIDE DEF first
<1>5. PICK k \in DOMAIN all : all[k] = d
  BY <1>2, <1>3, <1>4
<1>6. IsList(all)
  <2>1. Len(first) \in Nat /\ DOMAIN first = 1 .. Len(first)
    BY <1>4, ListHas
  <2>2. all = [j \in 1 .. Len(first) |-> all[j]]
    BY <1>3, <2>1
  <2> HIDE DEF all
  <2> QED
    BY <2>1, <2>2, ListIs
<1>7. Q \in SUBSET DOMAIN all /\ k \in Q /\ Known(bases) = Picked(all, Q)
  BY <1>5 DEF Known, d
<1> HIDE DEF all, Q
<1>8. \E j \in DOMAIN Picked(all, Q) : Picked(all, Q)[j] = all[k]
  BY <1>6, <1>7, PickedFrom
<1> QED
  BY <1>5, <1>7, <1>8 DEF ToSet, d

(* Two lists, one after the other, have the members of both.               *)
LEMMA BothLists ==
  ASSUME NEW s, IsList(s), NEW t, IsList(t)
  PROVE  ToSet(s \o t) = ToSet(s) \cup ToSet(t)
<1> DEFINE u == s \o t
<1>1. Len(s) \in Nat /\ DOMAIN s = 1 .. Len(s) /\ Len(t) \in Nat /\ DOMAIN t = 1 .. Len(t)
      /\ s \in Seq(ToSet(s) \cup ToSet(t)) /\ t \in Seq(ToSet(s) \cup ToSet(t))
  BY ListHas DEF IsList
<1>2. /\ DOMAIN u = 1 .. Len(s) + Len(t)
      /\ \A k \in 1 .. Len(s) + Len(t) : u[k] = IF k <= Len(s) THEN s[k] ELSE t[k - Len(s)]
  BY <1>1
<1> HIDE DEF u
<1>3. ASSUME NEW k \in DOMAIN u
      PROVE  u[k] \in ToSet(s) \cup ToSet(t)
  <2>1. CASE k <= Len(s)
    BY <1>1, <1>2, <2>1 DEF ToSet
  <2>2. CASE ~(k <= Len(s))
    <3>1. k - Len(s) \in DOMAIN t
      BY <1>1, <1>2, <2>2
    <3> QED
      BY <1>2, <2>2, <3>1 DEF ToSet
  <2> QED
    BY <2>1, <2>2
<1>4. ASSUME NEW k \in DOMAIN s
      PROVE  s[k] \in ToSet(u)
  <2>1. k \in DOMAIN u /\ u[k] = s[k]
    BY <1>1, <1>2
  <2> QED
    BY <2>1 DEF ToSet
<1>5. ASSUME NEW k \in DOMAIN t
      PROVE  t[k] \in ToSet(u)
  <2>1. k + Len(s) \in DOMAIN u /\ u[k + Len(s)] = t[k]
    BY <1>1, <1>2
  <2> QED
    BY <2>1 DEF ToSet
<1>6. ToSet(u) = ToSet(s) \cup ToSet(t)
  BY <1>3, <1>4, <1>5 DEF ToSet
<1> QED
  BY <1>6 DEF u

(* The ids of a resolver's packs are those of its bases and its overlays.  *)
LEMMA LoadedIdsAre ==
  ASSUME NEW r, IsList(r.bases), IsList(r.overlays)
  PROVE  LoadedIds(r) = IdsOf(r.bases) \cup IdsOf(r.overlays)
<1>1. ASSUME NEW x
      PROVE  {l.pack.id : l \in ToSet(x)} = IdsOf(x)
  BY DEF ToSet, IdsOf
<1>2. ToSet(r.bases \o r.overlays) = ToSet(r.bases) \cup ToSet(r.overlays)
  BY BothLists
<1>3. LoadedIds(r) = {l.pack.id : l \in ToSet(r.bases)} \cup {l.pack.id : l \in ToSet(r.overlays)}
  BY <1>2 DEF LoadedIds
<1> QED
  BY <1>1, <1>3

(* A pack that is a base of a domain with a factory, or an overlay.        *)
Fits(pack) ==
  \/ pack.kind = "base" /\ pack.domain \in DOMAIN Factories
  \/ pack.kind = "overlay"

(* A resolver that is assembled leaves out none of the packs it is made of,*)
(* by id, and knows what it was asked for.                                 *)
LEMMA AssembledIds ==
  ASSUME NEW packs, IsList(packs), \A k \in DOMAIN packs : Fits(packs[k].pack),
         NEW asked, NEW report, Assemble(packs, asked, report).open
  PROVE  /\ LoadedIds(Assemble(packs, asked, report)) = IdsOf(packs)
         /\ Assemble(packs, asked, report).asked = asked
<1> DEFINE bases == OfKind(packs, "base")
           overlays == OfKind(packs, "overlay")
           known == Known(bases)
           P == {k \in DOMAIN bases : bases[k].pack.domain \in ToSet(known)}
           r == Assemble(packs, asked, report)
<1>1. r = Assembled(bases, overlays, known, asked, report)
  BY DEF Assemble
<1>2. IsList(bases) /\ IsList(overlays)
  BY OfKindFrom
<1>3. /\ IdsOf(bases) = {packs[i].pack.id : i \in {j \in DOMAIN packs : packs[j].pack.kind = "base"}}
      /\ IdsOf(overlays) = {packs[i].pack.id : i \in {j \in DOMAIN packs : packs[j].pack.kind = "overlay"}}
  BY OfKindHas
<1>4. IdsOf(bases) \cup IdsOf(overlays) = IdsOf(packs)
  <2> HIDE DEF bases, overlays
  <2>1. \A k \in DOMAIN packs : packs[k].pack.kind \in {"base", "overlay"}
    BY DEF Fits
  <2> QED
    BY <1>3, <2>1 DEF IdsOf
<1>5. \A k \in DOMAIN bases : bases[k].pack.domain \in ToSet(known)
  <2> SUFFICES ASSUME NEW k \in DOMAIN bases
               PROVE  bases[k].pack.domain \in ToSet(known)
    OBVIOUS
  <2>1. bases[k].pack.domain \in DOMAIN Factories
    <3> DEFINE Q == {i \in DOMAIN packs : packs[i].pack.kind = "base"}
               chosen == Picked(packs, Q)
    <3>1. Q \in SUBSET DOMAIN packs /\ bases = ById(chosen)
      BY DEF OfKind
    <3> HIDE DEF bases, known
    <3>2. IsList(chosen) /\ \A i \in DOMAIN chosen : \E j \in Q : chosen[i] = packs[j]
      BY <3>1, PickedFrom
    <3> HIDE DEF chosen
    <3>3. \E i \in DOMAIN chosen : bases[k] = chosen[i]
      BY <3>1, <3>2, ByIdFrom
    <3>4. PICK j \in Q : bases[k] = packs[j]
      BY <3>2, <3>3
    <3> QED
      BY <3>4 DEF Fits
  <2> HIDE DEF bases
  <2> QED
    BY <1>2, <2>1, KnownHas
<1>6. P = DOMAIN bases
  BY <1>5
<1> HIDE DEF bases, overlays, known, P
<1>7. r = Resolver(bases, overlays, known, asked, report)
  <2>1. r.open /\ Closed.open = FALSE
    BY DEF Closed
  <2> HIDE DEF r
  <2> QED
    BY <1>1, <2>1 DEF Assembled
<1>8. r.bases = Picked(bases, P) /\ r.overlays = overlays /\ r.asked = asked
  BY <1>7 DEF Resolver, P
<1> HIDE DEF r
<1>9. /\ IsList(Picked(bases, P))
      /\ \A k \in DOMAIN Picked(bases, P) : \E i \in P : Picked(bases, P)[k] = bases[i]
      /\ \A i \in P : \E k \in DOMAIN Picked(bases, P) : Picked(bases, P)[k] = bases[i]
  BY <1>2, <1>6, PickedFrom
<1>10. IdsOf(r.bases) = IdsOf(bases)
  BY <1>6, <1>8, <1>9 DEF IdsOf
<1>11. LoadedIds(r) = IdsOf(r.bases) \cup IdsOf(r.overlays)
  BY <1>2, <1>8, <1>9, LoadedIdsAre
<1> QED
  BY <1>4, <1>8, <1>10, <1>11 DEF r

(* A directory of the modules on disk, as it is.                           *)
IsDir(at) == at.path \in DOMAIN Disk /\ at = DirAt(at.path)

(* What is loaded from a directory is the pack there, by its id, kind and  *)
(* domain, whatever database comes with it.                                *)
LEMMA LoadedFits ==
  ASSUME EditionShape, NEW at, IsDir(at)
  PROVE  Loaded(at).pack.id = at.pack.id /\ Fits(Loaded(at).pack)
<1>1. at.pack \in OnDisk /\ {"id", "kind", "domain", "db"} \subseteq DOMAIN at.pack
  <2>1. at.pack = PackAt(at.path) /\ at.path \in DOMAIN Disk
    BY DEF IsDir, DirAt
  <2>2. PackAt(at.path) \in ToSet(Disk[at.path])
    BY <2>1, BuiltPathsAssumption DEF PackAt, EditionShape, ToSet
  <2> QED
    BY <2>1, <2>2, DiskAssumption DEF OnDisk
<1>2. Fits(at.pack)
  BY <1>1, ModulesAssumption DEF Fits
<1>3. CASE LoaderDistribution(at) # "remote"
  <2>1. Loaded(at).pack = at.pack
    BY <1>3 DEF Loaded
  <2> QED
    BY <1>2, <2>1
<1>4. CASE LoaderDistribution(at) = "remote"
  <2> DEFINE download == CachePath[at.pack.id]
             pack == [at.pack EXCEPT !.db = PackAt(download).db]
  <2>1. pack.id = at.pack.id /\ pack.kind = at.pack.kind /\ pack.domain = at.pack.domain
    BY <1>1
  <2>2. Loaded(at) = [path |-> download, pack |-> pack]
    BY <1>4 DEF Loaded
  <2> HIDE DEF pack, download
  <2>3. Loaded(at).pack = pack
    BY <2>2, PlaceAndPack, Zenon
  <2> QED
    BY <1>2, <2>1, <2>3 DEF Fits
<1> QED
  BY <1>3, <1>4

(* A resolver that opens over directories has what is there of the domains *)
(* it was opened for: a directory that is not there opens none.            *)
LEMMA OpenedIds ==
  ASSUME EditionShape, NEW dirs, IsList(dirs), \A k \in DOMAIN dirs : IsDir(dirs[k]),
         NEW filter, NEW asked, NEW report, Opened(dirs, filter, asked, report).open
  PROVE  /\ LoadedIds(Opened(dirs, filter, asked, report))
              = {dirs[k].pack.id : k \in {j \in DOMAIN dirs : InFilter(filter, dirs[j].pack.domain)}}
         /\ Opened(dirs, filter, asked, report).asked = asked
<1> DEFINE P == {k \in DOMAIN dirs : dirs[k].there => InFilter(filter, dirs[k].pack.domain)}
           Q == {j \in DOMAIN dirs : InFilter(filter, dirs[j].pack.domain)}
           chosen == Picked(dirs, P)
           packs == [k \in DOMAIN chosen |-> Loaded(chosen[k])]
           r == Opened(dirs, filter, asked, report)
<1>1. P \in SUBSET DOMAIN dirs /\ Selected(dirs, filter) = chosen
  BY DEF Selected
<1> HIDE DEF P
<1>2. /\ IsList(chosen)
      /\ \A k \in DOMAIN chosen : \E i \in P : chosen[k] = dirs[i]
      /\ \A i \in P : \E k \in DOMAIN chosen : chosen[k] = dirs[i]
  BY <1>1, PickedFrom
<1> HIDE DEF chosen
<1>3. r = IF Loadable(chosen) THEN Assemble(packs, asked, report) ELSE Closed
  BY <1>1 DEF Opened, Build
<1>4. Loadable(chosen) /\ r = Assemble(packs, asked, report)
  BY <1>3 DEF Closed
<1>5. DOMAIN packs = DOMAIN chosen /\ \A k \in DOMAIN chosen : packs[k] = Loaded(chosen[k])
  OBVIOUS
<1>6. IsList(packs)
  <2>1. Len(chosen) \in Nat /\ DOMAIN chosen = 1 .. Len(chosen)
    BY <1>2, ListHas
  <2>2. packs = [k \in 1 .. Len(chosen) |-> packs[k]]
    BY <2>1
  <2> HIDE DEF packs
  <2> QED
    BY <2>1, <2>2, ListIs
<1> HIDE DEF packs
<1>7. \A k \in DOMAIN chosen : packs[k].pack.id = chosen[k].pack.id /\ Fits(packs[k].pack)
  BY <1>1, <1>2, <1>5, LoadedFits
<1>8. LoadedIds(r) = IdsOf(packs) /\ r.asked = asked
  BY <1>4, <1>5, <1>6, <1>7, AssembledIds
<1>9. P = Q
  <2>1. \A k \in DOMAIN chosen : chosen[k].there
    BY <1>4 DEF Loadable, LoadError
  <2>2. \A i \in P : dirs[i].there
    BY <1>2, <2>1
  <2> QED
    BY <2>2 DEF P
<1>10. IdsOf(packs) = {dirs[k].pack.id : k \in P}
  BY <1>2, <1>5, <1>7 DEF IdsOf
<1> HIDE DEF r
<1> QED
  BY <1>8, <1>9, <1>10 DEF r

(* So it is when its paths are opened, with what they lack downloaded.     *)
LEMMA OpenPathsIds ==
  ASSUME EditionShape, NEW paths, IsList(paths), ToSet(paths) \subseteq DOMAIN Disk,
         NEW filter, NEW online, NEW asked, ~lib.open, lib'.open,
         OpenPaths(paths, filter, online, asked)
  PROVE  /\ LoadedIds(lib') = {PackAt(p).id : p \in {q \in ToSet(paths) : InFilter(filter, PackAt(q).domain)}}
         /\ lib'.asked = asked
         /\ cached' = cached \cup ToDownload(paths, filter)
<1> DEFINE dirs == [k \in DOMAIN paths |-> DirAt(paths[k])]
<1>1. cached' = cached \cup ToDownload(paths, filter) /\ lib' = Opened(dirs, filter, asked, NoReport)
  BY DEF OpenPaths
<1>2. IsList(dirs)
  BY DirsAreList
<1>3. DOMAIN dirs = DOMAIN paths /\ \A k \in DOMAIN paths : IsDir(dirs[k]) /\ dirs[k].pack = PackAt(paths[k])
  BY DEF IsDir, DirAt, ToSet
<1> HIDE DEF dirs
<1>4. /\ LoadedIds(lib') = {dirs[k].pack.id : k \in {j \in DOMAIN dirs : InFilter(filter, dirs[j].pack.domain)}}
      /\ lib'.asked = asked
  BY <1>1, <1>2, <1>3, OpenedIds
<1>5. {dirs[k].pack.id : k \in {j \in DOMAIN dirs : InFilter(filter, dirs[j].pack.domain)}}
        = {PackAt(p).id : p \in {q \in ToSet(paths) : InFilter(filter, PackAt(q).domain)}}
  BY <1>3 DEF ToSet
<1> QED
  BY <1>1, <1>4, <1>5

---------------------------------------------------------------------------
(* What is asked for.                                                      *)

(* Everything on offer is on disk, under its own id.                       *)
LEMMA AvailableIs ==
  ASSUME registered \subseteq DOMAIN Offers, NEW id \in DOMAIN ListAvailableModules
  PROVE  ListAvailableModules[id] \in DOMAIN Disk /\ PackAt(ListAvailableModules[id]).id = id
<1> DEFINE ids == [k \in DOMAIN Manifest |-> Manifest[k].id]
           shipped == [m \in Range(ids) |-> Manifest[CHOOSE k \in DOMAIN Manifest : Manifest[k].id = m].dir]
           offered == Restrict(Offers, registered)
           Good(dirs) == \A i \in DOMAIN Valid(dirs) : Valid(dirs)[i] \in DOMAIN Disk /\ PackAt(Valid(dirs)[i]).id = i
<1>1. ASSUME NEW dirs, \A i \in DOMAIN dirs : dirs[i] \in DOMAIN Disk
      PROVE  Good(dirs)
  BY <1>1 DEF Valid
<1>2. \A m \in DOMAIN shipped : shipped[m] \in DOMAIN Disk
  <2> SUFFICES ASSUME NEW m \in DOMAIN shipped
               PROVE  shipped[m] \in DOMAIN Disk
    OBVIOUS
  <2>1. \E k \in DOMAIN Manifest : Manifest[k].id = m
    BY DEF Range
  <2> QED
    BY <2>1, DiskAssumption
<1>3. \A i \in DOMAIN offered : offered[i] \in DOMAIN Disk
  BY ModulesAssumption DEF Restrict
<1>4. ListAvailableModules = Before(Valid(shipped), Before(Valid(offered), Valid(EntryPoints)))
  BY DEF ListAvailableModules
<1> HIDE DEF ids, shipped, offered, Good
<1>5. Good(shipped) /\ Good(offered) /\ Good(EntryPoints)
  BY <1>1, <1>2, <1>3, ModulesAssumption
<1>6. \/ id \in DOMAIN Valid(shipped) /\ ListAvailableModules[id] = Valid(shipped)[id]
      \/ id \in DOMAIN Valid(offered) /\ ListAvailableModules[id] = Valid(offered)[id]
      \/ id \in DOMAIN Valid(EntryPoints) /\ ListAvailableModules[id] = Valid(EntryPoints)[id]
  BY <1>4 DEF Before
<1> QED
  BY <1>5, <1>6 DEF Good

(* Then its metadata is that of a pack on disk.                            *)
LEMMA AvailableOnDisk ==
  ASSUME EditionShape, NEW id \in DOMAIN ListAvailableModules
  PROVE  PackAt(ListAvailableModules[id]) \in OnDisk
<1>1. ListAvailableModules[id] \in DOMAIN Disk
  BY AvailableIs DEF EditionShape
<1> QED
  BY <1>1, BuiltPathsAssumption DEF PackAt, EditionShape, OnDisk, ToSet

(* The closure has what it starts from and what that follows...            *)
LEMMA ClosureHas ==
  ASSUME NEW available, NEW auto, NEW ids
  PROVE  /\ ids \subseteq Closure(available, auto, ids)
         /\ \A id \in ids \cap DOMAIN available :
              Follows(available, auto, id) \subseteq Closure(available, auto, ids)
<1> DEFINE F(id) == Follows(available, auto, id)
           rest == (UNION {F(id) : id \in DOMAIN available}) \ ids
           complete == {known \in {ids \cup more : more \in SUBSET rest} :
                          \A id \in known \cap DOMAIN available : F(id) \subseteq known}
<1>1. Closure(available, auto, ids) = {id \in ids \cup rest : \A known \in complete : id \in known}
  BY DEF Closure
<1>a. \A x : x \in rest <=> x \notin ids /\ \E id \in DOMAIN available : x \in F(id)
  OBVIOUS
<1> HIDE DEF F
<1>2. \A known \in complete : ids \subseteq known
  OBVIOUS
<1>3. ASSUME NEW id \in ids \cap DOMAIN available
      PROVE  F(id) \subseteq ids \cup rest /\ \A known \in complete : F(id) \subseteq known
  <2>2. F(id) \subseteq ids \cup rest
    <3> HIDE DEF rest
    <3> QED
      BY <1>a
  <2>3. \A known \in complete : F(id) \subseteq known
    BY <1>2
  <2> QED
    BY <2>2, <2>3
<1> HIDE DEF rest, complete
<1> QED
  BY <1>1, <1>2, <1>3 DEF F

(* ...and is within all that has both.                                     *)
LEMMA ClosureWithin ==
  ASSUME NEW available, NEW auto, NEW ids, NEW known, ids \subseteq known,
         known \subseteq ids \cup UNION {Follows(available, auto, id) : id \in DOMAIN available},
         \A id \in known \cap DOMAIN available : Follows(available, auto, id) \subseteq known
  PROVE  Closure(available, auto, ids) \subseteq known
<1> DEFINE F(id) == Follows(available, auto, id)
           rest == (UNION {F(id) : id \in DOMAIN available}) \ ids
           complete == {set \in {ids \cup more : more \in SUBSET rest} :
                          \A id \in set \cap DOMAIN available : F(id) \subseteq set}
<1>1. Closure(available, auto, ids) = {id \in ids \cup rest : \A set \in complete : id \in set}
  BY DEF Closure
<1>a. \A x : x \in rest <=> x \notin ids /\ \E id \in DOMAIN available : x \in F(id)
  OBVIOUS
<1>2. known = ids \cup (known \ ids) /\ known \ ids \in SUBSET rest
  <2>1. \A x \in known : x \in ids \/ \E id \in DOMAIN available : x \in F(id)
    OBVIOUS
  <2> HIDE DEF F, rest
  <2> QED
    BY <1>a, <2>1
<1>3. \A id \in known \cap DOMAIN available : F(id) \subseteq known
  OBVIOUS
<1> HIDE DEF F, rest
<1>4. known \in complete
  BY <1>2, <1>3
<1> HIDE DEF complete
<1> QED
  BY <1>1, <1>4

(* Named modules bring the bases of the overlays among them, and no more.  *)
LEMMA NamedAreNeeded ==
  ASSUME EditionShape, NEW ids,
         Closure(ListAvailableModules, FALSE, ids) \subseteq DOMAIN ListAvailableModules
  PROVE  Closure(ListAvailableModules, FALSE, ids) = Needed(ids)
<1> DEFINE available == ListAvailableModules
           pack(id) == PackAt(available[id])
           all == Closure(available, FALSE, ids)
<1>1. \A id \in DOMAIN available : pack(id) \in OnDisk /\ pack(id).id = id
  BY AvailableIs, AvailableOnDisk DEF EditionShape
<1>2. \A id \in DOMAIN available : Follows(available, FALSE, id) = IF pack(id).kind = "overlay" THEN pack(id).bases ELSE {}
  BY DEF Follows
<1>3. Needed(ids) = ids \cup UNION {pack(id).bases : id \in ids}
  BY DEF Needed
<1>4. ids \subseteq all /\ \A id \in ids \cap DOMAIN available : Follows(available, FALSE, id) \subseteq all
  BY ClosureHas
<1>5. all \subseteq DOMAIN available
  OBVIOUS
<1> HIDE DEF available, pack, all
<1>6. \A id \in DOMAIN available : Follows(available, FALSE, id) = pack(id).bases
  BY <1>1, <1>2, ModulesAssumption
<1>7. Needed(ids) \subseteq all
  BY <1>3, <1>4, <1>5, <1>6
<1>8. ASSUME NEW id \in Needed(ids) \cap DOMAIN available
      PROVE  pack(id).bases \subseteq Needed(ids)
  <2>1. CASE id \in ids
    BY <1>3, <2>1
  <2>2. CASE id \notin ids
    <3>1. PICK j \in ids : id \in pack(j).bases
      BY <1>3, <2>2
    <3>2. pack(j) \in OnDisk /\ pack(id) \in OnDisk /\ pack(id).id = id
      BY <1>1, <1>4, <1>5
    <3>3. pack(id).kind = "base"
      BY <3>1, <3>2, ModulesAssumption
    <3>4. pack(id).bases = {}
      BY <3>2, <3>3, ModulesAssumption
    <3> QED
      BY <3>4
  <2> QED
    BY <2>1, <2>2
<1>9. ids \subseteq Needed(ids)
      /\ Needed(ids) \subseteq ids \cup UNION {Follows(available, FALSE, id) : id \in DOMAIN available}
  BY <1>3, <1>4, <1>5, <1>6
<1>10. all \subseteq Needed(ids)
  <2>1. \A id \in Needed(ids) \cap DOMAIN available : Follows(available, FALSE, id) \subseteq Needed(ids)
    BY <1>6, <1>8
  <2> QED
    BY <1>9, <2>1, ClosureWithin DEF all
<1> QED
  BY <1>7, <1>10 DEF all, available

(* What is local brings nothing that is not.                               *)
LEMMA LocalIsAll ==
  ASSUME NEW available
  PROVE  Closure(available, TRUE, Local(available)) = Local(available)
<1>1. \A id : Follows(available, TRUE, id) \subseteq Local(available)
  BY DEF Follows
<1>2. Closure(available, TRUE, Local(available)) \subseteq Local(available)
  BY <1>1, ClosureWithin
<1> QED
  BY <1>2, ClosureHas

(* A finite set as a list has the members of the set.                      *)
LEMMA SetsInLists ==
  ASSUME NEW S, IsFiniteSet(S)
  PROVE  ToSet(SetToSeq(S)) = S
<1> DEFINE n == Cardinality(S)
           f == SetToSeq(S)
<1>1. n \in Nat /\ ExistsBijection(1 .. n, S)
  BY FS_CardinalityType
<1>2. IsFiniteSet(1 .. n) /\ Cardinality(1 .. n) = n
  <2> HIDE DEF n
  <2>1. 1 \in Int /\ n \in Int /\ (IF 1 > n THEN 0 ELSE n - 1 + 1) = n
    BY <1>1
  <2> QED
    BY <2>1, FS_Interval
<1> HIDE DEF n
<1>3. \E g \in [1 .. n -> S] : IsInjective(g)
  BY <1>1 DEF ExistsBijection, Bijection, Injection, IsInjective
<1>4. f \in [1 .. n -> S] /\ IsInjective(f)
  BY <1>3 DEF SetToSeq, n
<1> HIDE DEF f
<1>5. f \in Injection(1 .. n, S)
  BY <1>4 DEF Injection, IsInjective
<1>6. f \in Surjection(1 .. n, S)
  BY <1>2, <1>5, FS_Injection DEF n
<1>7. ToSet(f) = S
  BY <1>4, <1>6 DEF Surjection, ToSet
<1> QED
  BY <1>7 DEF f

(* Putting what was asked for first leaves nothing out.                    *)
LEMMA InOrderHas ==
  ASSUME NEW ids, IsFiniteSet(ids), NEW first, IsList(first), ToSet(first) \subseteq ids
  PROVE  ToSet(InOrder(ids, first)) = ids
<1> DEFINE P == {k \in DOMAIN first : first[k] \in ids}
           rest == ids \ ToSet(first)
<1>1. P = DOMAIN first
  BY DEF ToSet
<1>2. InOrder(ids, first) = Picked(first, P) \o SetToSeq(rest)
  BY DEF InOrder
<1>3. rest \in SUBSET ids
  OBVIOUS
<1> HIDE DEF P, rest
<1>4. /\ IsList(Picked(first, P))
      /\ \A k \in DOMAIN Picked(first, P) : \E i \in P : Picked(first, P)[k] = first[i]
      /\ \A i \in P : \E k \in DOMAIN Picked(first, P) : Picked(first, P)[k] = first[i]
  BY <1>1, PickedFrom
<1>5. ToSet(Picked(first, P)) = ToSet(first)
  BY <1>1, <1>4 DEF ToSet
<1>6. IsList(SetToSeq(rest)) /\ ToSet(SetToSeq(rest)) = rest
  BY <1>3, FS_Subset, SetsToLists, SetsInLists
<1>7. ToSet(InOrder(ids, first)) = ToSet(first) \cup rest
  BY <1>2, <1>4, <1>5, <1>6, BothLists
<1> QED
  BY <1>7 DEF rest

(* The paths that are found are those of the closure.                      *)
LEMMA RequestedAre ==
  ASSUME EditionShape, NEW auto, NEW ids, IsList(ids),
         Succeeds(ResolveRequestedModulePaths(auto, ids)),
         NEW start, start = IF auto THEN Local(ListAvailableModules) ELSE ToSet(ids)
  PROVE  /\ Closure(ListAvailableModules, auto, start) \subseteq DOMAIN ListAvailableModules
         /\ ToSet(ResolveRequestedModulePaths(auto, ids).paths)
              = {ListAvailableModules[id] : id \in Closure(ListAvailableModules, auto, start)}
<1> DEFINE available == ListAvailableModules
           requested == IF auto THEN SetToSeq(Local(available)) ELSE ids
           all == Closure(available, auto, ToSet(requested))
           list == InOrder(all, requested)
           found == ResolveRequestedModulePaths(auto, ids)
<1>1. IsFiniteSet(DOMAIN available) /\ IsFiniteSet(Local(available))
  <2>1. Local(available) \in SUBSET DOMAIN available
    BY DEF Local
  <2> QED
    BY <2>1, AvailableIsFinite, FS_Subset DEF EditionShape
<1>2. IsList(requested) /\ ToSet(requested) = start
  BY <1>1, SetsToLists, SetsInLists
<1>3. found = IF auto /\ requested = <<>> THEN [error |-> "NoModulesInstalled", paths |-> <<>>]
              ELSE IF ~(all \subseteq DOMAIN available) THEN [error |-> "DataModuleNotFound", paths |-> <<>>]
              ELSE [error |-> "", paths |-> [k \in DOMAIN list |-> available[list[k]]]]
  BY DEF ResolveRequestedModulePaths
<1> HIDE DEF available, requested, all, list, found
<1>4. all \subseteq DOMAIN available /\ found.paths = [k \in DOMAIN list |-> available[list[k]]]
  <2>1. found.error = ""
    BY DEF Succeeds, found
  <2>2. "NoModulesInstalled" # "" /\ "DataModuleNotFound" # ""
    OBVIOUS
  <2> QED
    BY <1>3, <2>1, <2>2
<1>5. IsFiniteSet(all) /\ ToSet(requested) \subseteq all
  BY <1>1, <1>4, FS_Subset, ClosureHas DEF all
<1>6. ToSet(list) = all
  BY <1>2, <1>5, InOrderHas DEF list
<1>7. ToSet(found.paths) = {available[id] : id \in all}
  BY <1>4, <1>6 DEF ToSet
<1>8. all = Closure(available, auto, start)
  BY <1>2 DEF all
<1> QED
  BY <1>4, <1>7, <1>8 DEF available, found

---------------------------------------------------------------------------
(* The steps that open a resolver.                                         *)

(* A resolver knows what it was asked for.                                 *)
LEMMA OpenedAsked ==
  ASSUME NEW dirs, NEW filter, NEW asked, NEW report, Opened(dirs, filter, asked, report).open
  PROVE  Opened(dirs, filter, asked, report).asked = asked
<1> DEFINE r == Opened(dirs, filter, asked, report)
           chosen == Selected(dirs, filter)
           packs == [k \in DOMAIN chosen |-> Loaded(chosen[k])]
<1>1. r = IF Loadable(chosen) THEN Assemble(packs, asked, report) ELSE Closed
  BY DEF Opened, Build
<1> HIDE DEF packs, chosen
<1>2. \E bases, overlays, known : Assemble(packs, asked, report) = Assembled(bases, overlays, known, asked, report)
  BY DEF Assemble
<1>3. r.open /\ Closed.open = FALSE
  BY DEF Closed
<1> HIDE DEF r
<1>4. \E bases, overlays, known : r = Resolver(bases, overlays, known, asked, report)
  BY <1>1, <1>2, <1>3 DEF Assembled
<1>5. r.asked = asked
  BY <1>4 DEF Resolver
<1> QED
  BY <1>5 DEF r

(* The packs at the paths of some modules are those modules.               *)
LEMMA PathsTell ==
  ASSUME EditionShape, NEW ids, ids \subseteq DOMAIN ListAvailableModules, NEW filter
  PROVE  /\ {ListAvailableModules[id] : id \in ids} \subseteq DOMAIN Disk
         /\ {PackAt(p).id : p \in {q \in {ListAvailableModules[id] : id \in ids} : InFilter(filter, PackAt(q).domain)}}
              = InDomains(ids, filter)
<1>1. \A id \in ids : ListAvailableModules[id] \in DOMAIN Disk /\ PackAt(ListAvailableModules[id]).id = id
  BY AvailableIs DEF EditionShape
<1> QED
  BY <1>1 DEF InDomains

(* What is local needs no download.                                        *)
LEMMA NothingToDownload ==
  ASSUME EditionShape, NEW ids, ids \subseteq Local(ListAvailableModules),
         NEW paths, ToSet(paths) = {ListAvailableModules[id] : id \in ids}, NEW filter
  PROVE  ToDownload(paths, filter) = {}
<1>1. ASSUME NEW id \in ids, Distribution(PackAt(ListAvailableModules[id]).id, ListAvailableModules[id]) = "remote"
      PROVE  PackAt(ListAvailableModules[id]).id \in cached
  <2>1. id \in DOMAIN ListAvailableModules /\ LocallyAvailable(id, ListAvailableModules[id])
    BY DEF Local
  <2>2. PackAt(ListAvailableModules[id]).id = id
    BY <2>1, AvailableIs DEF EditionShape
  <2> QED
    BY <1>1, <2>1, <2>2 DEF LocallyAvailable
<1> QED
  BY <1>1 DEF ToDownload

(* Opened by the ids of modules, a resolver has these and what the overlays*)
(* among them lie over.                                                    *)
LEMMA ModulesSelected ==
  ASSUME EditionShape, NEW ids, IsList(ids), NEW filter, NEW online,
         OpenModules(ids, filter, online), lib'.open
  PROVE  /\ LoadedIds(lib') = InDomains(Needed(ToSet(ids)), filter)
         /\ lib'.asked = Asked("modules", ids, filter)
<1> DEFINE found == ResolveRequestedModulePaths(FALSE, ids)
           asked == Asked("modules", ids, filter)
           all == Closure(ListAvailableModules, FALSE, ToSet(ids))
<1>1. IsList(found.paths)
  BY RequestedAreList DEF EditionShape
<1>2. OpenFound(found, filter, online, asked)
  BY DEF OpenModules
<1> HIDE DEF asked
<1>3. ~lib.open /\ Succeeds(found) /\ OpenPaths(found.paths, filter, online, asked)
  BY <1>2 DEF OpenFound, Succeeds
<1>4. all \subseteq DOMAIN ListAvailableModules /\ ToSet(found.paths) = {ListAvailableModules[id] : id \in all}
  BY <1>3, RequestedAre
<1>5. all = Needed(ToSet(ids))
  BY <1>4, NamedAreNeeded
<1> HIDE DEF found, all
<1>6. ToSet(found.paths) \subseteq DOMAIN Disk
  BY <1>4, PathsTell
<1>7. /\ LoadedIds(lib')
            = {PackAt(p).id : p \in {q \in ToSet(found.paths) : InFilter(filter, PackAt(q).domain)}}
      /\ lib'.asked = asked
  BY <1>1, <1>3, <1>6, OpenPathsIds
<1>8. LoadedIds(lib') = InDomains(all, filter)
  BY <1>4, <1>7, PathsTell
<1> QED
  BY <1>5, <1>7, <1>8 DEF asked

(* Opened by none, it has what is local, and nothing is downloaded.        *)
LEMMA AutoSelected ==
  ASSUME EditionShape, NEW filter, NEW online, OpenAuto(filter, online), lib'.open
  PROVE  /\ LoadedIds(lib') = InDomains(Local(ListAvailableModules), filter)
         /\ cached' = cached
         /\ lib'.asked = Asked("auto", <<>>, filter)
<1> DEFINE available == ListAvailableModules
           chosen == {id \in Local(available) : PackAt(available[id]).domain \in filter}
           known == {PackAt(available[id]).domain : id \in DOMAIN available}
           list == SetToSeq({available[id] : id \in chosen})
           all == ResolveRequestedModulePaths(TRUE, <<>>)
           found == IF filter = {} THEN all
                    ELSE IF ~(filter \subseteq known) THEN [error |-> "UnknownDomain", paths |-> <<>>]
                    ELSE [error |-> "", paths |-> list]
           asked == Asked("auto", <<>>, filter)
           ids == IF filter = {} THEN Local(available) ELSE chosen
<1>1. OpenFound(found, {}, online, asked)
  BY DEF OpenAuto
<1>2. chosen \in SUBSET DOMAIN available /\ Local(available) \subseteq DOMAIN available
  BY DEF Local
<1>3. IsList(list) /\ ToSet(list) = {available[id] : id \in chosen}
  <2> DEFINE f == [id \in chosen |-> available[id]]
  <2>1. IsFiniteSet(chosen)
    BY <1>2, AvailableIsFinite, FS_Subset DEF EditionShape
  <2>2. {available[id] : id \in chosen} = {f[id] : id \in DOMAIN f} /\ DOMAIN f = chosen
    OBVIOUS
  <2> HIDE DEF f
  <2>3. IsFiniteSet({available[id] : id \in chosen})
    BY <2>1, <2>2, FiniteImage
  <2> QED
    BY <2>3, SetsToLists, SetsInLists
<1>4. IsList(<<>>)
  BY DEF IsList
<1>5. IsList(all.paths) /\ (Succeeds(all) => ToSet(all.paths) = {available[id] : id \in Local(available)})
  <2>1. IsList(all.paths)
    BY <1>4, RequestedAreList DEF EditionShape
  <2>2. ASSUME Succeeds(all)
        PROVE  ToSet(all.paths) = {available[id] : id \in Local(available)}
    <3>1. ToSet(all.paths) = {available[id] : id \in Closure(available, TRUE, Local(available))}
      BY <1>4, <2>2, RequestedAre
    <3> QED
      BY <3>1, LocalIsAll
  <2> QED
    BY <2>1, <2>2
<1> HIDE DEF all, list, known, asked
<1>6. ~lib.open /\ found.error = "" /\ OpenPaths(found.paths, {}, online, asked)
  <2> HIDE DEF found
  <2> QED
    BY <1>1 DEF OpenFound
<1>7. IsList(found.paths) /\ ToSet(found.paths) = {available[id] : id \in ids}
  <2>1. "UnknownDomain" # ""
    OBVIOUS
  <2>2. CASE filter = {}
    BY <1>5, <1>6, <2>2 DEF Succeeds
  <2>3. CASE filter # {}
    BY <1>3, <1>6, <2>1, <2>3
  <2> QED
    BY <2>2, <2>3
<1>8. ids \subseteq Local(available) /\ ids \subseteq DOMAIN available
  BY <1>2
<1>9. InDomains(ids, {}) = InDomains(Local(available), filter)
  BY DEF InDomains, InFilter
<1> HIDE DEF found, ids, chosen
<1>10. ToSet(found.paths) \subseteq DOMAIN Disk
  BY <1>7, <1>8, PathsTell
<1>11. /\ LoadedIds(lib') = {PackAt(p).id : p \in {q \in ToSet(found.paths) : InFilter({}, PackAt(q).domain)}}
       /\ lib'.asked = asked
       /\ cached' = cached \cup ToDownload(found.paths, {})
  BY <1>6, <1>7, <1>10, OpenPathsIds
<1>12. LoadedIds(lib') = InDomains(ids, {})
  BY <1>7, <1>8, <1>11, PathsTell
<1>13. ToDownload(found.paths, {}) = {}
  BY <1>7, <1>8, NothingToDownload
<1> QED
  BY <1>9, <1>11, <1>12, <1>13 DEF asked

(* The other ways to open a resolver are not by modules.                   *)
LEMMA OthersAskNothing ==
  ASSUME ~lib.open, lib'.open,
         \/ \E paths, filter, online : OpenDatapacks(paths, filter, online)
         \/ \E call : FromRecords(call)
  PROVE  lib'.asked.how \notin {"modules", "auto"}
<1>1. ASSUME NEW how, how \in {"paths", "records"}, NEW dirs, NEW filter, NEW report,
             lib' = Opened(dirs, filter, Asked(how, <<>>, {}), report)
      PROVE  lib'.asked.how \notin {"modules", "auto"}
  <2>1. lib'.asked = Asked(how, <<>>, {})
    BY <1>1, OpenedAsked
  <2> QED
    BY <1>1, <2>1 DEF Asked
<1>2. ASSUME NEW paths, NEW filter, NEW online, OpenDatapacks(paths, filter, online)
      PROVE  lib'.asked.how \notin {"modules", "auto"}
  <2>1. OpenPaths(paths, filter, online, Asked("paths", <<>>, {}))
    <3> DEFINE found == [error |-> "", paths |-> paths]
    <3>1. OpenFound(found, filter, online, Asked("paths", <<>>, {})) /\ found.paths = paths
      BY <1>2 DEF OpenDatapacks
    <3> HIDE DEF found
    <3> QED
      BY <3>1 DEF OpenFound
  <2>2. lib' = Opened([k \in DOMAIN paths |-> DirAt(paths[k])], filter, Asked("paths", <<>>, {}), NoReport)
    BY <2>1 DEF OpenPaths
  <2> QED
    BY <1>1, <2>2
<1>3. ASSUME NEW call, FromRecords(call)
      PROVE  lib'.asked.how \notin {"modules", "auto"}
  <2>1. PICK built : lib' = IF built.error # "" THEN lib
                            ELSE Opened(<<BuiltAt(built)>>, {call.domain}, Asked("records", <<>>, {}), ReportOf(built))
    BY <1>3 DEF FromRecords
  <2>2. lib' = Opened(<<BuiltAt(built)>>, {call.domain}, Asked("records", <<>>, {}), ReportOf(built))
    BY <2>1
  <2> QED
    BY <1>1, <2>2
<1> QED
  BY <1>2, <1>3

(* What a resolver is opened over is what was asked for                    *)
(* (_resolve_requested_module_paths, core/api/loading/module_catalog.py):  *)
(* the modules that were named with the bases that the overlays among them *)
(* lie over, or all that is local if none was named, of the domains that   *)
(* were named; and nothing else that is shipped, registered, provided or   *)
(* downloaded.                                                             *)
THEOREM SelectionHolds == LibrarySpec => SelectionIsAuthoritative
<1> DEFINE AsAsked ==
             ~lib.open /\ lib'.open =>
               LET asked == lib'.asked
               IN /\ asked.how = "modules" => LoadedIds(lib') = InDomains(Needed(ToSet(asked.ids)), asked.filter)
                  /\ asked.how = "auto" =>
                       /\ cached' = cached
                       /\ LoadedIds(lib') = InDomains(Local(ListAvailableModules), asked.filter)
<1>1. LibraryInv /\ [LibraryNext]_libraryVars => [AsAsked]_libraryVars
  <2> SUFFICES ASSUME LibraryInv, LibraryNext, ~lib.open, lib'.open
               PROVE  AsAsked
    OBVIOUS
  <2>1. EditionShape
    BY DEF LibraryInv
  <2> HIDE DEF AsAsked
  <2>2. ASSUME NEW ids \in Selections, NEW filter, NEW online, OpenModules(ids, filter, online)
        PROVE  AsAsked
    <3>1. IsList(ids)
      BY CatalogAssumption DEF IsList
    <3>2. /\ LoadedIds(lib') = InDomains(Needed(ToSet(ids)), filter)
          /\ lib'.asked = Asked("modules", ids, filter)
      BY <2>1, <2>2, <3>1, ModulesSelected
    <3>3. lib'.asked.how = "modules" /\ lib'.asked.ids = ids /\ lib'.asked.filter = filter
      BY <3>2 DEF Asked
    <3> QED
      BY <3>2, <3>3 DEF AsAsked
  <2>3. ASSUME NEW filter, NEW online, OpenAuto(filter, online)
        PROVE  AsAsked
    <3>1. /\ LoadedIds(lib') = InDomains(Local(ListAvailableModules), filter)
          /\ cached' = cached
          /\ lib'.asked = Asked("auto", <<>>, filter)
      BY <2>1, <2>3, AutoSelected
    <3>2. lib'.asked.how = "auto" /\ lib'.asked.filter = filter
      BY <3>1 DEF Asked
    <3> QED
      BY <3>1, <3>2 DEF AsAsked
  <2>4. ASSUME NEW ids \in Selections, NEW online, Lite(ids, online)
        PROVE  AsAsked
    BY <2>2, <2>4 DEF Lite
  <2>5. ASSUME \/ \E paths, filter, online : OpenDatapacks(paths, filter, online)
               \/ \E call : FromRecords(call)
        PROVE  AsAsked
    BY <2>5, OthersAskNothing DEF AsAsked
  <2>6. ASSUME NEW call, Augment(call) \/ AugmentFails(call)
        PROVE  FALSE
    BY <2>6 DEF Augment, AugmentFails
  <2>7. ~Close /\ \A id : ~RegisterModule(id) /\ ~UnregisterModule(id) /\ ~Download(id) /\ ~Clear(id)
    BY DEF Close, RegisterModule, UnregisterModule, Download, Clear
  <2>8. \A dir : ~Replace(dir)
    BY DEF Replace
  <2> QED
    BY <2>2, <2>3, <2>4, <2>5, <2>6, <2>7, <2>8 DEF LibraryNext
<1> QED
  BY <1>1, LibraryStarts, LibraryStep, PTL DEF LibrarySpec, SelectionIsAuthoritative

=============================================================================
