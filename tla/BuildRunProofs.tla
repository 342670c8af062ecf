--------------------------- MODULE BuildRunProofs ---------------------------
(***************************************************************************)
(* Proofs about BuildRun for any set of chunks, any retry limits and any   *)
(* number of workers.  The inductive invariant is built in layers: what a  *)
(* row's columns say together (Rows), what a round's work items may assume *)
(* (Items), what survives a crash (Disk), in which order stages complete   *)
(* (Order), and what a completed stage leaves behind (Settled).            *)
(***************************************************************************)
EXTENDS BuildRun, TLAPS

(* The driver is inside a stage. *)
InStage == pc \in {"body", "upsert", "round", "drain", "leave"}
Live(c) == work[c] \in {"queued", "writing", "written", "raised"}

(* status, failed_stage and the recorded paths tell one story. *)
RowAt(c, s) ==  \* the row of a chunk whose next stage is s
  /\ (c \in rawPath) <=> (s > Extract)
  /\ (c \in normPath) <=> (s > Normalize)
  /\ c \notin materialized
  /\ \A t \in ChunkStage : t > s => attempts[c][t] = 0

Rows ==
  \A c \in Chunk :
    /\ status[c] \in {"absent", "pending"} => RowAt(c, Extract) /\ attempts[c][Extract] = 0
    /\ status[c] = "extracted" => RowAt(c, Normalize) /\ attempts[c][Normalize] = 0
    /\ status[c] = "normalized" => RowAt(c, Materialize) /\ attempts[c][Materialize] = 0
    /\ status[c] = "materialized" => c \in materialized
    /\ status[c] = "failed" => failedStage[c] \in ChunkStage /\ RowAt(c, failedStage[c])

(* Where the driver can be. *)
Placed ==
  /\ pc \notin {"stopped", "enter"} => cur \in Stage
  /\ PoolOpen => cur \in ChunkStage
  /\ pc = "upsert" => cur = Discover

(* A work item that has not ended is still one its stage would load. *)
Items ==
  PoolOpen =>
    /\ \A c \in Chunk : Live(c) => c \in ChunksForStage(cur)
    /\ \A c \in Chunk : work[c] = "written" =>
         /\ cur = Extract => raw[c] = "complete"
         /\ cur = Normalize => norm[c] = "complete"
         /\ cur = Materialize => c \in staging

(* What a work item was loaded with, until it ends; then it has moved. *)
Rounds ==
  pc = "round" =>
    /\ \E c \in Chunk : work[c] # "out"
    /\ \A c \in Chunk :
         /\ Live(c) => previous[c] = SignatureOf(c)
         /\ work[c] = "done" => /\ previous[c] # SignatureOf(c)
                                /\ previous[c].status # "absent"

(* A chunk that used up its attempts in this invocation blocks the round.  *)
Struck ==
  /\ outcome = "SUCCESS" => struck = {}
  /\ pc # "stopped" => outcome = "none"
  /\ pc \in {"enter", "body", "upsert", "leave", "report"} => struck = {}
  /\ pc = "round" => \A c \in struck :
       /\ work[c] = "done"
       /\ status[c] = "failed" /\ failedStage[c] = cur /\ attempts[c][cur] >= limit

Done(s) == stageStatus[s] = "done"

(* The run is in a stage that is not done, behind stages that all are.     *)
Order ==
  /\ pc # "stopped" => \A t \in Stage : t < cur => Done(t)
  /\ InStage => ~Done(cur)
  /\ pc = "report" => Done(cur)
  /\ outcome = "SUCCESS" => \A t \in MovingStage \cup {Package} : Done(t)

(* The inventory is what the rows of a completed discovery say. *)
Inventory ==
  Done(Discover) \/ (pc = "leave" /\ cur = Discover)
    => found = {c \in Chunk : status[c] # "absent"}

(* Unless one of them is redone, the stages that move chunks complete in   *)
(* their order, before anything behind them.                               *)
InOrder ==
  ~redone =>
    /\ \A s \in Stage, t \in MovingStage : t < s /\ Done(s) => Done(t)
    /\ pc = "report" /\ cur \in MovingStage => \A t \in Stage : t > cur => ~Done(t)

(* Nothing is stored before the inventory is known, nor shipped before it  *)
(* is stored.                                                              *)
Stored ==
  ~redone =>
    /\ staging # {} => \A t \in MovingStage : t < Materialize => Done(t)
    /\ shipped # {} => \A t \in MovingStage : Done(t)
    /\ (InStage \/ pc = "report") /\ cur \in MovingStage =>
         /\ cur < Materialize => staging = {}
         /\ shipped = {}
    /\ staging \subseteq found /\ shipped \subseteq found
    /\ Done(Package) \/ (pc = "leave" /\ cur = Package) => shipped = staging

(* What a completed chunk stage s leaves of a chunk: it is past s, or it   *)
(* ran out of attempts in s or before.                                     *)
SettledIn(c, s) ==
  \/ status[c] # "failed" /\ Position(c) >= s
  \/ status[c] = "failed" /\ failedStage[c] > s
  \/ status[c] = "failed" /\ failedStage[c] <= s /\ Exhausted(c)

Settled ==
  ~redone =>
    \A s \in ChunkStage : Done(s) \/ (pc = "leave" /\ cur = s)
       => \A c \in found : SettledIn(c, s)

Typed == TypeOK /\ Placed
IInv == Typed /\ Rows /\ Items /\ Rounds /\ Struck /\ Order /\ Inventory
          /\ InOrder /\ Stored /\ Settled
-----------------------------------------------------------------------------
USE BuildRunAssumption
USE DEF Prepare, Discover, Extract, Normalize, Materialize, Package, StageCount,
        Stage, ChunkStage, MovingStage, NoStage

(* A failed look at a done stage counts as redoing it when it moves chunks. *)
LEMMA Entry ==
  ASSUME TypeOK, EntryRaises
  PROVE  /\ redone' \in BOOLEAN
         /\ ~redone' => ~redone /\ (cur \in MovingStage => ~Done(cur))
<1>1. redone \in BOOLEAN /\ (cur \in MovingStage => cur \in Stage)
  BY DEF TypeOK
<1>2. CASE cur \in Stage /\ StageIsDone(cur)
  <2>1. redone' = IF cur \in MovingStage THEN TRUE ELSE redone
    BY <1>2 DEF EntryRaises
  <2>2. CASE cur \in MovingStage
    BY <2>1, <2>2
  <2>3. CASE cur \notin MovingStage
    BY <1>1, <2>1, <2>3
  <2> QED BY <2>2, <2>3
<1>3. CASE ~(cur \in Stage /\ StageIsDone(cur))
  <2>1. redone' = redone
    BY Zenon, <1>3 DEF EntryRaises
  <2>2. cur \in MovingStage => ~Done(cur)
    BY <1>1, <1>3 DEF StageIsDone, Done
  <2> QED BY <1>1, <2>1, <2>2
<1> QED BY <1>2, <1>3

(* Every variable keeps its type, whatever the chunks, the limits and the  *)
(* number of workers (state.py's schema, the driver's locals).             *)
THEOREM Typing == Spec => []Typed
<1>1. Init => Typed
  <2> SUFFICES ASSUME Init PROVE Typed
    OBVIOUS
  <2>1. reopened \in Nat /\ redone \in BOOLEAN
    <3>1. reopened = 0 /\ redone = FALSE
      BY Zenon DEF Init
    <3> QED BY <3>1
  <2>2. previous \in [Chunk -> Signature]
    BY DEF Init, EmptySignature, Signature, RowStatus, NoAttempts
  <2> QED
    BY <2>1, <2>2 DEF Init, Typed, TypeOK, Placed, NoAttempts, Idle, RowStatus, FileState,
       WorkState, PoolOpen
<1>2. Typed /\ [Next]_vars => Typed'
  <2> SUFFICES ASSUME Typed, [Next]_vars PROVE Typed'
    OBVIOUS
  <2> USE DEF Typed, TypeOK, Placed, PoolOpen, RowStatus, FileState, WorkState,
              rowVars, diskVars, historyVars
  <2>1. CASE Start
    BY <2>1 DEF Start
  <2>2. CASE Crash
    BY <2>2 DEF Crash, Idle, EmptySignature, NoAttempts, Signature
  <2>3. CASE SkipDoneStage
    BY <2>3 DEF SkipDoneStage
  <2>4. CASE BeginStage
    BY <2>4 DEF BeginStage
  <2>5. CASE EndStage
    BY <2>5 DEF EndStage
  <2>6. CASE WriteReport
    BY <2>6 DEF WriteReport
  <2>7. CASE StageRaises
    BY <2>7 DEF StageRaises, FailStage, RoundDone, PoolDrained, PoolOpen, Idle,
       EmptySignature, NoAttempts, Signature
  <2>25. CASE EntryRaises
    <3>1. LoopStage \in Stage
      BY DEF LoopStage
    <3>2. previous' \in [Chunk -> Signature]
      BY <2>25 DEF EntryRaises, FailStage, EmptySignature, NoAttempts, Signature
    <3>3. reopened' \in Nat
      <4>1. reopened' = reopened + 1 \/ reopened' = reopened
        BY <2>25 DEF EntryRaises
      <4> QED BY <4>1
    <3>4. redone' \in BOOLEAN
      BY <2>25, Entry
    <3> QED
      BY <2>25, <3>1, <3>2, <3>3, <3>4 DEF EntryRaises, FailStage, Idle
  <2>8. CASE Succeed
    BY <2>8 DEF Succeed
  <2>9. CASE RunPlainStage
    BY <2>9 DEF RunPlainStage, PlainStage
  <2>10. CASE RunPackage
    BY <2>10 DEF RunPackage
  <2>11. CASE DeleteInventory
    BY <2>11 DEF DeleteInventory, NoAttempts
  <2>12. CASE EndDiscover
    BY <2>12 DEF EndDiscover
  <2>13. ASSUME NEW c \in Chunk, UpsertChunk(c) PROVE Typed'
    BY <2>13 DEF UpsertChunk
  <2>14. CASE LoadRound
    BY <2>14 DEF LoadRound, ChunksForStage, SignatureOf, EmptySignature, NoAttempts, Signature
  <2>15. CASE NoWorkLeft
    BY <2>15 DEF NoWorkLeft
  <2>16. CASE AbortRound
    BY <2>16 DEF AbortRound, FailStage, RoundDone, Idle, EmptySignature, NoAttempts, Signature
  <2>17. CASE EndRound
    BY <2>17 DEF EndRound, RoundDone, Idle, EmptySignature, NoAttempts, Signature
  <2>18. ASSUME NEW c \in Chunk, DrainPool(c) PROVE Typed'
    BY <2>18 DEF DrainPool, Idle
  <2>19. ASSUME NEW c \in Chunk, StartItem(c) PROVE Typed'
    BY <2>19 DEF StartItem
  <2>20. ASSUME NEW c \in Chunk, WriteItem(c) PROVE Typed'
    BY <2>20 DEF WriteItem, Insert
  <2>21. ASSUME NEW c \in Chunk, MarkSuccess(c) PROVE Typed'
    BY <2>21 DEF MarkSuccess, SuccessStatus
  <2>22. ASSUME NEW c \in Chunk, ItemRaises(c) PROVE Typed'
    BY <2>22 DEF ItemRaises
  <2>23. ASSUME NEW c \in Chunk, MarkFailure(c) PROVE Typed'
    BY <2>23 DEF MarkFailure, CountAttempt
  <2>24. CASE UNCHANGED vars
    BY <2>24 DEF vars
  <2> QED
    BY <2>1, <2>2, <2>3, <2>4, <2>5, <2>6, <2>7, <2>8, <2>9, <2>10, <2>11, <2>12, <2>13,
       <2>14, <2>15, <2>16, <2>17, <2>18, <2>19, <2>20, <2>21, <2>22, <2>23, <2>24, <2>25 DEF
       Next,
       Driver, Item
<1> QED BY <1>1, <1>2, PTL DEF Spec

(* Rows and work items stay consistent: an item a pool is still working on *)
(* is one its stage would load again, so that success and failure are only *)
(* ever recorded for a chunk whose next stage is the current one.          *)
LEMMA Consistency == Spec => [](Rows /\ Items)
<1>1. Init => Rows /\ Items
  BY DEF Init, Rows, RowAt, Items, PoolOpen, NoAttempts
<1>2. Typed /\ Rows /\ Items /\ [Next]_vars => Rows' /\ Items'
  <2> SUFFICES ASSUME Typed, Rows, Items, [Next]_vars PROVE Rows' /\ Items'
    OBVIOUS
  <2> USE DEF Typed, TypeOK, Placed, PoolOpen, Rows, RowAt, Items, Live,
              ChunksForStage, Ready, Retryable, rowVars, diskVars, historyVars
  <2>1. CASE Start
    BY <2>1 DEF Start
  <2>2. CASE Crash
    BY <2>2 DEF Crash, Idle
  <2>3. CASE SkipDoneStage
    BY <2>3 DEF SkipDoneStage
  <2>4. CASE BeginStage
    BY <2>4 DEF BeginStage
  <2>5. CASE EndStage
    BY <2>5 DEF EndStage
  <2>6. CASE WriteReport
    BY <2>6 DEF WriteReport
  <2>7. CASE StageRaises
    BY <2>7 DEF StageRaises, FailStage, Idle
  <2>25. CASE EntryRaises
    BY <2>25 DEF EntryRaises, FailStage, Idle
  <2>8. CASE Succeed
    BY <2>8 DEF Succeed
  <2>9. CASE RunPlainStage
    BY <2>9 DEF RunPlainStage
  <2>10. CASE RunPackage
    BY <2>10 DEF RunPackage
  <2>11. CASE DeleteInventory
    BY <2>11 DEF DeleteInventory, NoAttempts
  <2>12. CASE EndDiscover
    BY <2>12 DEF EndDiscover
  <2>13. ASSUME NEW c \in Chunk, UpsertChunk(c) PROVE (Rows /\ Items)'
    BY <2>13 DEF UpsertChunk
  <2>14. CASE LoadRound
    BY <2>14 DEF LoadRound
  <2>15. CASE NoWorkLeft
    BY <2>15 DEF NoWorkLeft
  <2>16. CASE AbortRound
    BY <2>16 DEF AbortRound, FailStage, Idle
  <2>17. CASE EndRound
    BY <2>17 DEF EndRound, Idle
  <2>18. ASSUME NEW c \in Chunk, DrainPool(c) PROVE (Rows /\ Items)'
    BY <2>18 DEF DrainPool, Idle
  <2>19. ASSUME NEW c \in Chunk, StartItem(c) PROVE (Rows /\ Items)'
    BY <2>19 DEF StartItem
  <2>20. ASSUME NEW c \in Chunk, WriteItem(c) PROVE (Rows /\ Items)'
    BY <2>20 DEF WriteItem, Insert
  <2>21. ASSUME NEW c \in Chunk, MarkSuccess(c) PROVE (Rows /\ Items)'
    BY <2>21 DEF MarkSuccess, Recordable, SuccessStatus
  <2>22. ASSUME NEW c \in Chunk, ItemRaises(c) PROVE (Rows /\ Items)'
    BY <2>22 DEF ItemRaises
  <2>23. ASSUME NEW c \in Chunk, MarkFailure(c) PROVE (Rows /\ Items)'
    BY <2>23 DEF MarkFailure, CountAttempt
  <2>24. CASE UNCHANGED vars
    BY <2>24 DEF vars
  <2> QED
    BY <2>1, <2>2, <2>3, <2>4, <2>5, <2>6, <2>7, <2>8, <2>9, <2>10, <2>11, <2>12, <2>13,
       <2>14, <2>15, <2>16, <2>17, <2>18, <2>19, <2>20, <2>21, <2>22, <2>23, <2>24, <2>25 DEF
       Next,
       Driver, Item
<1> QED BY <1>1, <1>2, Typing, PTL DEF Spec

(* A recorded path names a complete file and a materialized row is in the  *)
(* staging database, wherever a run is interrupted.                        *)
THEOREM Durability == Spec => []RecordedWorkIsDurable
<1>1. Init => RecordedWorkIsDurable
  BY DEF Init, RecordedWorkIsDurable
<1>2. Typed /\ Rows /\ Items /\ RecordedWorkIsDurable /\ [Next]_vars => RecordedWorkIsDurable'
  <2> SUFFICES ASSUME Typed, Rows, Items, RecordedWorkIsDurable, [Next]_vars
               PROVE  RecordedWorkIsDurable'
    OBVIOUS
  <2> USE DEF Typed, TypeOK, Placed, PoolOpen, rowVars, diskVars, historyVars,
              RecordedWorkIsDurable, Rows, RowAt, Items, Live, ChunksForStage, Ready,
              Retryable
  <2>1. CASE Start
    BY <2>1 DEF Start
  <2>2. CASE Crash
    BY <2>2 DEF Crash
  <2>3. CASE SkipDoneStage
    BY <2>3 DEF SkipDoneStage
  <2>4. CASE BeginStage
    BY <2>4 DEF BeginStage
  <2>5. CASE EndStage
    BY <2>5 DEF EndStage
  <2>6. CASE WriteReport
    BY <2>6 DEF WriteReport
  <2>7. CASE StageRaises
    BY <2>7 DEF StageRaises
  <2>25. CASE EntryRaises
    BY <2>25 DEF EntryRaises
  <2>8. CASE Succeed
    BY <2>8 DEF Succeed
  <2>9. CASE RunPlainStage
    BY <2>9 DEF RunPlainStage
  <2>10. CASE RunPackage
    BY <2>10 DEF RunPackage
  <2>11. CASE DeleteInventory
    BY <2>11 DEF DeleteInventory
  <2>12. CASE EndDiscover
    BY <2>12 DEF EndDiscover
  <2>13. ASSUME NEW c \in Chunk, UpsertChunk(c) PROVE RecordedWorkIsDurable'
    BY <2>13 DEF UpsertChunk
  <2>14. CASE LoadRound
    BY <2>14 DEF LoadRound
  <2>15. CASE NoWorkLeft
    BY <2>15 DEF NoWorkLeft
  <2>16. CASE AbortRound
    BY <2>16 DEF AbortRound
  <2>17. CASE EndRound
    BY <2>17 DEF EndRound
  <2>18. ASSUME NEW c \in Chunk, DrainPool(c) PROVE RecordedWorkIsDurable'
    BY <2>18 DEF DrainPool
  <2>19. ASSUME NEW c \in Chunk, StartItem(c) PROVE RecordedWorkIsDurable'
    BY <2>19 DEF StartItem
  <2>20. ASSUME NEW c \in Chunk, WriteItem(c) PROVE RecordedWorkIsDurable'
    BY <2>20 DEF WriteItem, Insert
  <2>21. ASSUME NEW c \in Chunk, MarkSuccess(c) PROVE RecordedWorkIsDurable'
    BY <2>21 DEF MarkSuccess, Recordable
  <2>22. ASSUME NEW c \in Chunk, ItemRaises(c) PROVE RecordedWorkIsDurable'
    BY <2>22 DEF ItemRaises
  <2>23. ASSUME NEW c \in Chunk, MarkFailure(c) PROVE RecordedWorkIsDurable'
    BY <2>23 DEF MarkFailure
  <2>24. CASE UNCHANGED vars
    BY <2>24 DEF vars
  <2> QED
    BY <2>1, <2>2, <2>3, <2>4, <2>5, <2>6, <2>7, <2>8, <2>9, <2>10, <2>11, <2>12, <2>13,
       <2>14, <2>15, <2>16, <2>17, <2>18, <2>19, <2>20, <2>21, <2>22, <2>23, <2>24, <2>25 DEF
       Next,
       Driver, Item
<1> QED BY <1>1, <1>2, Typing, Consistency, PTL DEF Spec

(* Attempts stay within the largest retry limit the run was ever given.    *)
THEOREM Budget == Spec => []AttemptsWithinBudget
<1>1. Init => AttemptsWithinBudget
  BY DEF Init, AttemptsWithinBudget, NoAttempts
<1>2. Typed /\ Rows /\ Items /\ AttemptsWithinBudget /\ [Next]_vars => AttemptsWithinBudget'
  <2> SUFFICES ASSUME Typed, Rows, Items, AttemptsWithinBudget, [Next]_vars
               PROVE  AttemptsWithinBudget'
    OBVIOUS
  <2> USE DEF Typed, TypeOK, Placed, PoolOpen, rowVars, diskVars, historyVars,
              AttemptsWithinBudget, Rows, RowAt, Items, Live, ChunksForStage, Ready, Retryable
  <2>1. CASE Start
    BY <2>1 DEF Start
  <2>2. CASE Crash
    BY <2>2 DEF Crash
  <2>3. CASE SkipDoneStage
    BY <2>3 DEF SkipDoneStage
  <2>4. CASE BeginStage
    BY <2>4 DEF BeginStage
  <2>5. CASE EndStage
    BY <2>5 DEF EndStage
  <2>6. CASE WriteReport
    BY <2>6 DEF WriteReport
  <2>7. CASE StageRaises
    BY <2>7 DEF StageRaises
  <2>25. CASE EntryRaises
    BY <2>25 DEF EntryRaises
  <2>8. CASE Succeed
    BY <2>8 DEF Succeed
  <2>9. CASE RunPlainStage
    BY <2>9 DEF RunPlainStage
  <2>10. CASE RunPackage
    BY <2>10 DEF RunPackage
  <2>11. CASE DeleteInventory
    BY <2>11 DEF DeleteInventory, NoAttempts
  <2>12. CASE EndDiscover
    BY <2>12 DEF EndDiscover
  <2>13. ASSUME NEW c \in Chunk, UpsertChunk(c) PROVE AttemptsWithinBudget'
    BY <2>13 DEF UpsertChunk
  <2>14. CASE LoadRound
    BY <2>14 DEF LoadRound
  <2>15. CASE NoWorkLeft
    BY <2>15 DEF NoWorkLeft
  <2>16. CASE AbortRound
    BY <2>16 DEF AbortRound
  <2>17. CASE EndRound
    BY <2>17 DEF EndRound
  <2>18. ASSUME NEW c \in Chunk, DrainPool(c) PROVE AttemptsWithinBudget'
    BY <2>18 DEF DrainPool
  <2>19. ASSUME NEW c \in Chunk, StartItem(c) PROVE AttemptsWithinBudget'
    BY <2>19 DEF StartItem
  <2>20. ASSUME NEW c \in Chunk, WriteItem(c) PROVE AttemptsWithinBudget'
    BY <2>20 DEF WriteItem
  <2>21. ASSUME NEW c \in Chunk, MarkSuccess(c) PROVE AttemptsWithinBudget'
    BY <2>21 DEF MarkSuccess
  <2>22. ASSUME NEW c \in Chunk, ItemRaises(c) PROVE AttemptsWithinBudget'
    BY <2>22 DEF ItemRaises
  <2>23. ASSUME NEW c \in Chunk, MarkFailure(c) PROVE AttemptsWithinBudget'
    BY <2>23 DEF MarkFailure, CountAttempt
  <2>24. CASE UNCHANGED vars
    BY <2>24 DEF vars
  <2> QED
    BY <2>1, <2>2, <2>3, <2>4, <2>5, <2>6, <2>7, <2>8, <2>9, <2>10, <2>11, <2>12, <2>13,
       <2>14, <2>15, <2>16, <2>17, <2>18, <2>19, <2>20, <2>21, <2>22, <2>23, <2>24, <2>25 DEF
       Next,
       Driver, Item
<1> QED BY <1>1, <1>2, Typing, Consistency, PTL DEF Spec

(* In a round every live item is as it was loaded, every ended one moved.  *)
LEMMA RoundProgress == Spec => []Rounds
<1>1. Init => Rounds
  BY DEF Init, Rounds
<1>2. Typed /\ Rows /\ Items /\ Rounds /\ [Next]_vars => Rounds'
  <2> SUFFICES ASSUME Typed, Rows, Items, Rounds, [Next]_vars PROVE Rounds'
    OBVIOUS
  <2> USE DEF Typed, TypeOK, Placed, PoolOpen, rowVars, diskVars, historyVars,
              Rows, RowAt, Items, Live, ChunksForStage, Ready, Retryable, Rounds, SignatureOf
  <2>1. CASE Start
    BY <2>1 DEF Start
  <2>2. CASE Crash
    BY <2>2 DEF Crash
  <2>3. CASE SkipDoneStage
    BY <2>3 DEF SkipDoneStage
  <2>4. CASE BeginStage
    BY <2>4 DEF BeginStage
  <2>5. CASE EndStage
    BY <2>5 DEF EndStage
  <2>6. CASE WriteReport
    BY <2>6 DEF WriteReport
  <2>7. CASE StageRaises
    BY <2>7 DEF StageRaises, FailStage
  <2>25. CASE EntryRaises
    BY <2>25 DEF EntryRaises, FailStage
  <2>8. CASE Succeed
    BY <2>8 DEF Succeed
  <2>9. CASE RunPlainStage
    BY <2>9 DEF RunPlainStage
  <2>10. CASE RunPackage
    BY <2>10 DEF RunPackage
  <2>11. CASE DeleteInventory
    BY <2>11 DEF DeleteInventory
  <2>12. CASE EndDiscover
    BY <2>12 DEF EndDiscover
  <2>13. ASSUME NEW c \in Chunk, UpsertChunk(c) PROVE Rounds'
    BY <2>13 DEF UpsertChunk
  <2>14. CASE LoadRound
    BY <2>14 DEF LoadRound
  <2>15. CASE NoWorkLeft
    BY <2>15 DEF NoWorkLeft
  <2>16. CASE AbortRound
    BY <2>16 DEF AbortRound, FailStage
  <2>17. CASE EndRound
    BY <2>17 DEF EndRound
  <2>18. ASSUME NEW c \in Chunk, DrainPool(c) PROVE Rounds'
    BY <2>18 DEF DrainPool
  <2>19. ASSUME NEW c \in Chunk, StartItem(c) PROVE Rounds'
    BY <2>19 DEF StartItem
  <2>20. ASSUME NEW c \in Chunk, WriteItem(c) PROVE Rounds'
    BY <2>20 DEF WriteItem
  <2>21. ASSUME NEW c \in Chunk, MarkSuccess(c) PROVE Rounds'
    BY <2>21 DEF MarkSuccess, Recordable, SuccessStatus
  <2>22. ASSUME NEW c \in Chunk, ItemRaises(c) PROVE Rounds'
    BY <2>22 DEF ItemRaises
  <2>23. ASSUME NEW c \in Chunk, MarkFailure(c) PROVE Rounds'
    BY <2>23 DEF MarkFailure, CountAttempt
  <2>24. CASE UNCHANGED vars
    BY <2>24 DEF vars
  <2> QED
    BY <2>1, <2>2, <2>3, <2>4, <2>5, <2>6, <2>7, <2>8, <2>9, <2>10, <2>11, <2>12, <2>13,
       <2>14, <2>15, <2>16, <2>17, <2>18, <2>19, <2>20, <2>21, <2>22, <2>23, <2>24, <2>25 DEF
       Next,
       Driver, Item
<1> QED BY <1>1, <1>2, Typing, Consistency, PTL DEF Spec

(* A chunk that used up its attempts in this invocation still blocks it.   *)
LEMMA Blocking == Spec => []Struck
<1>1. Init => Struck
  BY DEF Init, Struck
<1>2. Typed /\ Rows /\ Items /\ Struck /\ [Next]_vars => Struck'
  <2> SUFFICES ASSUME Typed, Rows, Items, Struck, [Next]_vars PROVE Struck'
    OBVIOUS
  <2> USE DEF Typed, TypeOK, Placed, PoolOpen, rowVars, diskVars, historyVars,
              Rows, RowAt, Items, Live, ChunksForStage, Ready, Retryable, Struck
  <2>1. CASE Start
    BY <2>1 DEF Start
  <2>2. CASE Crash
    BY <2>2 DEF Crash
  <2>3. CASE SkipDoneStage
    BY <2>3 DEF SkipDoneStage
  <2>4. CASE BeginStage
    BY <2>4 DEF BeginStage
  <2>5. CASE EndStage
    BY <2>5 DEF EndStage
  <2>6. CASE WriteReport
    BY <2>6 DEF WriteReport
  <2>7. CASE StageRaises
    BY <2>7 DEF StageRaises, FailStage, RoundDone, PoolDrained
  <2>25. CASE EntryRaises
    BY <2>25 DEF EntryRaises, FailStage, RoundDone, PoolDrained
  <2>8. CASE Succeed
    BY <2>8 DEF Succeed
  <2>9. CASE RunPlainStage
    BY <2>9 DEF RunPlainStage
  <2>10. CASE RunPackage
    BY <2>10 DEF RunPackage
  <2>11. CASE DeleteInventory
    BY <2>11 DEF DeleteInventory
  <2>12. CASE EndDiscover
    BY <2>12 DEF EndDiscover
  <2>13. ASSUME NEW c \in Chunk, UpsertChunk(c) PROVE Struck'
    BY <2>13 DEF UpsertChunk
  <2>14. CASE LoadRound
    BY <2>14 DEF LoadRound
  <2>15. CASE NoWorkLeft
    BY <2>15 DEF NoWorkLeft
  <2>16. CASE AbortRound
    BY <2>16 DEF AbortRound, FailStage
  <2>17. CASE EndRound
    BY <2>17 DEF EndRound, RoundDone, HasBlockingFailures
  <2>18. ASSUME NEW c \in Chunk, DrainPool(c) PROVE Struck'
    BY <2>18 DEF DrainPool
  <2>19. ASSUME NEW c \in Chunk, StartItem(c) PROVE Struck'
    BY <2>19 DEF StartItem
  <2>20. ASSUME NEW c \in Chunk, WriteItem(c) PROVE Struck'
    BY <2>20 DEF WriteItem
  <2>21. ASSUME NEW c \in Chunk, MarkSuccess(c) PROVE Struck'
    BY <2>21 DEF MarkSuccess, Recordable
  <2>22. ASSUME NEW c \in Chunk, ItemRaises(c) PROVE Struck'
    BY <2>22 DEF ItemRaises
  <2>23. ASSUME NEW c \in Chunk, MarkFailure(c) PROVE Struck'
    BY <2>23 DEF MarkFailure, CountAttempt
  <2>24. CASE UNCHANGED vars
    BY <2>24 DEF vars
  <2> QED
    BY <2>1, <2>2, <2>3, <2>4, <2>5, <2>6, <2>7, <2>8, <2>9, <2>10, <2>11, <2>12, <2>13,
       <2>14, <2>15, <2>16, <2>17, <2>18, <2>19, <2>20, <2>21, <2>22, <2>23, <2>24, <2>25 DEF
       Next,
       Driver, Item
<1> QED BY <1>1, <1>2, Typing, Consistency, PTL DEF Spec

(* Stages complete in their order, over any number of crashes and resumes. *)
LEMMA Ordered == Spec => [](Order /\ InOrder)
<1>1. Init => Order /\ InOrder
  BY DEF Init, Order, InOrder, InStage, Done
<1>2. Typed /\ Order /\ InOrder /\ [Next]_vars => Order' /\ InOrder'
  <2> SUFFICES ASSUME Typed, Order, InOrder, [Next]_vars PROVE Order' /\ InOrder'
    OBVIOUS
  <2> USE DEF Typed, TypeOK, Placed, PoolOpen, rowVars, diskVars, historyVars,
              Order, InOrder, InStage, Done
  <2>1. CASE Start
    BY <2>1 DEF Start
  <2>2. CASE Crash
    BY <2>2 DEF Crash
  <2>3. CASE SkipDoneStage
    BY <2>3 DEF SkipDoneStage, StageIsDone
  <2>4. CASE BeginStage
    BY <2>4 DEF BeginStage, StageIsDone
  <2>5. CASE EndStage
    BY <2>5 DEF EndStage
  <2>6. CASE WriteReport
    BY <2>6 DEF WriteReport
  <2>7. CASE StageRaises
    BY <2>7 DEF StageRaises, FailStage, LoopStage, RoundDone, PoolDrained
  <2>25. CASE EntryRaises
    <3>1. /\ pc' = "stopped" /\ outcome' = "FAILED" /\ pc = "enter"
          /\ stageStatus' = [stageStatus EXCEPT ![LoopStage] = "failed"]
      BY <2>25 DEF EntryRaises, FailStage
    <3>2. ~redone' => ~redone /\ (cur \in MovingStage => ~Done(cur))
      BY <2>25, Entry
    <3>3. LoopStage \in Stage /\ (LoopStage \in MovingStage => LoopStage = cur)
      BY DEF LoopStage
    <3> QED BY <3>1, <3>2, <3>3
  <2>8. CASE Succeed
    BY <2>8 DEF Succeed
  <2>9. CASE RunPlainStage
    BY <2>9 DEF RunPlainStage
  <2>10. CASE RunPackage
    BY <2>10 DEF RunPackage
  <2>11. CASE DeleteInventory
    BY <2>11 DEF DeleteInventory
  <2>12. CASE EndDiscover
    BY <2>12 DEF EndDiscover
  <2>13. ASSUME NEW c \in Chunk, UpsertChunk(c) PROVE (Order /\ InOrder)'
    BY <2>13 DEF UpsertChunk
  <2>14. CASE LoadRound
    BY <2>14 DEF LoadRound
  <2>15. CASE NoWorkLeft
    BY <2>15 DEF NoWorkLeft
  <2>16. CASE AbortRound
    BY <2>16 DEF AbortRound, FailStage, LoopStage, RoundDone
  <2>17. CASE EndRound
    BY <2>17 DEF EndRound, RoundDone
  <2>18. ASSUME NEW c \in Chunk, DrainPool(c) PROVE (Order /\ InOrder)'
    BY <2>18 DEF DrainPool
  <2>19. ASSUME NEW c \in Chunk, StartItem(c) PROVE (Order /\ InOrder)'
    BY <2>19 DEF StartItem
  <2>20. ASSUME NEW c \in Chunk, WriteItem(c) PROVE (Order /\ InOrder)'
    BY <2>20 DEF WriteItem
  <2>21. ASSUME NEW c \in Chunk, MarkSuccess(c) PROVE (Order /\ InOrder)'
    BY <2>21 DEF MarkSuccess
  <2>22. ASSUME NEW c \in Chunk, ItemRaises(c) PROVE (Order /\ InOrder)'
    BY <2>22 DEF ItemRaises
  <2>23. ASSUME NEW c \in Chunk, MarkFailure(c) PROVE (Order /\ InOrder)'
    BY <2>23 DEF MarkFailure
  <2>24. CASE UNCHANGED vars
    BY <2>24 DEF vars
  <2> QED
    BY <2>1, <2>2, <2>3, <2>4, <2>5, <2>6, <2>7, <2>8, <2>9, <2>10, <2>11, <2>12, <2>13,
       <2>14, <2>15, <2>16, <2>17, <2>18, <2>19, <2>20, <2>21, <2>22, <2>23, <2>24, <2>25 DEF
       Next,
       Driver, Item
<1> QED BY <1>1, <1>2, Typing, PTL DEF Spec

(* What is stored and shipped follows from the stages that are done.       *)
LEMMA Storage == Spec => [](Inventory /\ Stored)
<1>1. Init => Inventory /\ Stored
  BY DEF Init, Inventory, Stored, InStage, Done
<1>2. Typed /\ Rows /\ Items /\ Order /\ InOrder /\ Inventory /\ Stored /\ [Next]_vars
        => Inventory' /\ Stored'
  <2> SUFFICES ASSUME Typed, Rows, Items, Order, InOrder, Inventory, Stored, [Next]_vars
               PROVE  Inventory' /\ Stored'
    OBVIOUS
  <2> USE DEF Typed, TypeOK, Placed, PoolOpen, rowVars, diskVars, historyVars,
              Rows, RowAt, Items, Live, ChunksForStage, Ready, Retryable, Order, InStage,
              Done, InOrder, Inventory, Stored
  <2>1. CASE Start
    BY <2>1 DEF Start
  <2>2. CASE Crash
    BY <2>2 DEF Crash
  <2>3. CASE SkipDoneStage
    BY <2>3 DEF SkipDoneStage, StageIsDone
  <2>4. CASE BeginStage
    BY <2>4 DEF BeginStage, StageIsDone
  <2>5. CASE EndStage
    BY <2>5 DEF EndStage
  <2>6. CASE WriteReport
    BY <2>6 DEF WriteReport
  <2>7. CASE StageRaises
    BY <2>7 DEF StageRaises, FailStage, LoopStage, RoundDone, PoolDrained
  <2>25. CASE EntryRaises
    <3>1. /\ pc' = "stopped" /\ pc = "enter"
          /\ stageStatus' = [stageStatus EXCEPT ![LoopStage] = "failed"]
          /\ UNCHANGED <<found, status, staging, shipped>>
      BY <2>25 DEF EntryRaises, FailStage
    <3>2. ~redone' => ~redone /\ (cur \in MovingStage => ~Done(cur))
      BY <2>25, Entry
    <3>3. LoopStage \in Stage /\ (LoopStage \in MovingStage => LoopStage = cur)
      BY DEF LoopStage
    <3>4. Inventory'
      BY <3>1, <3>3
    <3>5. Stored'
      BY <3>1, <3>2, <3>3
    <3> QED BY <3>4, <3>5
  <2>8. CASE Succeed
    BY <2>8 DEF Succeed
  <2>9. CASE RunPlainStage
    BY <2>9 DEF RunPlainStage, PlainStage
  <2>10. CASE RunPackage
    BY <2>10 DEF RunPackage
  <2>11. CASE DeleteInventory
    BY <2>11 DEF DeleteInventory
  <2>12. CASE EndDiscover
    BY <2>12 DEF EndDiscover
  <2>13. ASSUME NEW c \in Chunk, UpsertChunk(c) PROVE (Inventory /\ Stored)'
    BY <2>13 DEF UpsertChunk
  <2>14. CASE LoadRound
    BY <2>14 DEF LoadRound
  <2>15. CASE NoWorkLeft
    BY <2>15 DEF NoWorkLeft
  <2>16. CASE AbortRound
    BY <2>16 DEF AbortRound, FailStage, LoopStage, RoundDone
  <2>17. CASE EndRound
    BY <2>17 DEF EndRound, RoundDone
  <2>18. ASSUME NEW c \in Chunk, DrainPool(c) PROVE (Inventory /\ Stored)'
    BY <2>18 DEF DrainPool
  <2>19. ASSUME NEW c \in Chunk, StartItem(c) PROVE (Inventory /\ Stored)'
    BY <2>19 DEF StartItem
  <2>20. ASSUME NEW c \in Chunk, WriteItem(c) PROVE (Inventory /\ Stored)'
    BY <2>20 DEF WriteItem, Insert
  <2>21. ASSUME NEW c \in Chunk, MarkSuccess(c) PROVE (Inventory /\ Stored)'
    BY <2>21 DEF MarkSuccess, Recordable, SuccessStatus
  <2>22. ASSUME NEW c \in Chunk, ItemRaises(c) PROVE (Inventory /\ Stored)'
    BY <2>22 DEF ItemRaises
  <2>23. ASSUME NEW c \in Chunk, MarkFailure(c) PROVE (Inventory /\ Stored)'
    BY <2>23 DEF MarkFailure
  <2>24. CASE UNCHANGED vars
    BY <2>24 DEF vars
  <2> QED
    BY <2>1, <2>2, <2>3, <2>4, <2>5, <2>6, <2>7, <2>8, <2>9, <2>10, <2>11, <2>12, <2>13,
       <2>14, <2>15, <2>16, <2>17, <2>18, <2>19, <2>20, <2>21, <2>22, <2>23, <2>24, <2>25 DEF
       Next,
       Driver, Item
<1> QED BY <1>1, <1>2, Typing, Consistency, Ordered, PTL DEF Spec

(* With nothing left to load, a stage has settled every discovered chunk.  *)
LEMMA NothingLeft ==
  ASSUME Typed, Rows, Order, Inventory, Settled, ~redone, InStage, cur \in ChunkStage,
         ChunksForStage(cur) = {}
  PROVE  \A c \in found : SettledIn(c, cur)
<1> USE DEF Typed, TypeOK, RowStatus, ChunksForStage, Ready, Retryable, SettledIn, Position,
            Exhausted
<1>1. Done(Discover) /\ \A t \in ChunkStage : t < cur => Done(t)
  BY DEF Order, InStage
<1>2. \A c \in found : status[c] # "absent"
  BY <1>1 DEF Inventory
<1>3. \A t \in ChunkStage : t < cur => \A c \in found : SettledIn(c, t)
  BY <1>1 DEF Settled
<1>4. CASE cur = Extract
  BY <1>2, <1>4 DEF Rows, RowAt
<1>5. CASE cur = Normalize
  BY <1>2, <1>3, <1>5 DEF Rows, RowAt
<1>6. CASE cur = Materialize
  BY <1>2, <1>3, <1>6 DEF Rows, RowAt
<1> QED BY <1>4, <1>5, <1>6

(* A completed chunk stage leaves no chunk behind but the exhausted ones.  *)
LEMMA Settling == Spec => []Settled
<1>1. Init => Settled
  BY DEF Init, Settled, Done
<1>2. Typed /\ Rows /\ Items /\ Order /\ InOrder /\ Inventory /\ Settled /\ [Next]_vars => Settled'
  <2> SUFFICES ASSUME Typed, Rows, Items, Order, InOrder, Inventory, Settled, [Next]_vars
               PROVE  Settled'
    OBVIOUS
  <2> USE DEF Typed, TypeOK, Placed, PoolOpen, rowVars, diskVars, historyVars,
              Rows, RowAt, Items, Live, ChunksForStage, Ready, Retryable, Order, InStage,
              Done, InOrder, Inventory, Settled, SettledIn, Position, Exhausted
  <2>1. CASE Start
    BY <2>1 DEF Start
  <2>2. CASE Crash
    BY <2>2 DEF Crash
  <2>3. CASE SkipDoneStage
    BY <2>3 DEF SkipDoneStage, StageIsDone
  <2>4. CASE BeginStage
    BY <2>4 DEF BeginStage, StageIsDone
  <2>5. CASE EndStage
    BY <2>5 DEF EndStage
  <2>6. CASE WriteReport
    BY <2>6 DEF WriteReport
  <2>7. CASE StageRaises
    BY <2>7 DEF StageRaises, FailStage, LoopStage, RoundDone, PoolDrained
  <2>25. CASE EntryRaises
    <3>1. /\ pc' = "stopped" /\ pc = "enter"
          /\ stageStatus' = [stageStatus EXCEPT ![LoopStage] = "failed"]
          /\ UNCHANGED <<found, rowVars>>
      BY <2>25 DEF EntryRaises, FailStage
    <3>2. ~redone' => ~redone
      BY <2>25, Entry
    <3>3. LoopStage \in Stage
      BY DEF LoopStage
    <3> QED BY <3>1, <3>2, <3>3
  <2>8. CASE Succeed
    BY <2>8 DEF Succeed
  <2>9. CASE RunPlainStage
    BY <2>9 DEF RunPlainStage, PlainStage
  <2>10. CASE RunPackage
    BY <2>10 DEF RunPackage
  <2>11. CASE DeleteInventory
    BY <2>11 DEF DeleteInventory
  <2>12. CASE EndDiscover
    BY <2>12 DEF EndDiscover
  <2>13. ASSUME NEW c \in Chunk, UpsertChunk(c) PROVE Settled'
    BY <2>13 DEF UpsertChunk
  <2>14. CASE LoadRound
    BY <2>14 DEF LoadRound
  <2>15. CASE NoWorkLeft
    BY <2>15, NothingLeft DEF NoWorkLeft
  <2>16. CASE AbortRound
    BY <2>16 DEF AbortRound, FailStage, LoopStage, RoundDone
  <2>17. CASE EndRound
    BY <2>17, NothingLeft DEF EndRound, RoundDone
  <2>18. ASSUME NEW c \in Chunk, DrainPool(c) PROVE Settled'
    BY <2>18 DEF DrainPool
  <2>19. ASSUME NEW c \in Chunk, StartItem(c) PROVE Settled'
    BY <2>19 DEF StartItem
  <2>20. ASSUME NEW c \in Chunk, WriteItem(c) PROVE Settled'
    BY <2>20 DEF WriteItem
  <2>21. ASSUME NEW c \in Chunk, MarkSuccess(c) PROVE Settled'
    BY <2>21 DEF MarkSuccess, Recordable, SuccessStatus
  <2>22. ASSUME NEW c \in Chunk, ItemRaises(c) PROVE Settled'
    BY <2>22 DEF ItemRaises
  <2>23. ASSUME NEW c \in Chunk, MarkFailure(c) PROVE Settled'
    BY <2>23 DEF MarkFailure, CountAttempt
  <2>24. CASE UNCHANGED vars
    BY <2>24 DEF vars
  <2> QED
    BY <2>1, <2>2, <2>3, <2>4, <2>5, <2>6, <2>7, <2>8, <2>9, <2>10, <2>11, <2>12, <2>13,
       <2>14, <2>15, <2>16, <2>17, <2>18, <2>19, <2>20, <2>21, <2>22, <2>23, <2>24, <2>25 DEF
       Next,
       Driver, Item
<1> QED BY <1>1, <1>2, Typing, Consistency, Ordered, Storage, PTL DEF Spec

-----------------------------------------------------------------------------
(* Every round of a chunk stage moves every chunk it loaded: the           *)
(* no-progress cut-off of retry_stage_batches never fires.                 *)
THEOREM Progress == Spec => []EveryRoundProgresses
<1>1. Typed /\ Rounds => EveryRoundProgresses
  BY DEF Typed, TypeOK, WorkState, Rounds, EveryRoundProgresses, RoundDone, SameSignature,
         EmptySignature
<1> QED BY <1>1, Typing, RoundProgress, PTL

(* No invocation that saw a chunk use up its attempts returns SUCCESS.     *)
THEOREM Exhaustion == Spec => []ExhaustionIsReported
<1>1. Struck => ExhaustionIsReported
  BY DEF Struck, ExhaustionIsReported
<1> QED BY <1>1, Blocking, PTL

(* The packs never hold a chunk that the inventory does not know.          *)
THEOREM Inventoried == Spec => []PacksHoldOnlyInventory
<1>1. Stored => PacksHoldOnlyInventory
  BY DEF Stored, PacksHoldOnlyInventory
<1> QED BY <1>1, Storage, PTL

(* SUCCESS delivers every discovered chunk that did not run out of         *)
(* attempts, in this or an earlier invocation.                             *)
THEOREM OnlyExhausted == Spec => []OnlyExhaustedChunksAreLost
<1>1. Typed /\ Rows /\ Order /\ Stored /\ Settled /\ RecordedWorkIsDurable
        => OnlyExhaustedChunksAreLost
  <2> SUFFICES ASSUME Typed, Rows, Order, Stored, Settled, RecordedWorkIsDurable,
                      outcome = "SUCCESS", ~redone, NEW c \in found, ~Exhausted(c)
               PROVE  c \in shipped
    BY DEF OnlyExhaustedChunksAreLost
  <2>1. Done(Materialize) /\ Done(Package)
    BY DEF Order
  <2>2. SettledIn(c, Materialize)
    BY <2>1 DEF Settled
  <2>3. status[c] = "materialized"
    BY <2>2 DEF SettledIn, Position, Typed, TypeOK, RowStatus
  <2>4. c \in staging
    BY <2>3 DEF Rows, RecordedWorkIsDurable, Typed, TypeOK
  <2> QED BY <2>1, <2>4 DEF Stored
<1> QED BY <1>1, Typing, Consistency, Ordered, Storage, Settling, Durability, PTL

(* After discovery a chunk's row only ever advances through the stages.    *)
THEOREM Monotone == Spec => NoRegression
<1>1. Typed /\ Rows /\ Items /\ [Next]_vars
        => [cur = Discover \/ \A c \in Chunk : Position(c)' >= Position(c)]_vars
  <2> SUFFICES ASSUME Typed, Rows, Items, [Next]_vars, ~(UNCHANGED vars), cur # Discover
               PROVE  \A c \in Chunk : Position(c)' >= Position(c)
    OBVIOUS
  <2> USE DEF Typed, TypeOK, RowStatus, Placed, Position
  <2>1. ASSUME NEW c \in Chunk, MarkSuccess(c)
        PROVE  \A d \in Chunk : Position(d)' >= Position(d)
    BY <2>1 DEF MarkSuccess, Recordable, SuccessStatus, Items, Rows, Live, PoolOpen,
                ChunksForStage, Ready, Retryable
  <2>2. ASSUME NEW c \in Chunk, MarkFailure(c)
        PROVE  \A d \in Chunk : Position(d)' >= Position(d)
    BY <2>2 DEF MarkFailure, Items, Rows, Live, PoolOpen, ChunksForStage, Ready, Retryable
  <2>3. CASE UNCHANGED rowVars
    BY <2>3 DEF rowVars
  <2>4. ASSUME NEW c \in Chunk, UpsertChunk(c)
        PROVE  FALSE
    BY <2>4 DEF UpsertChunk
  <2>5. CASE DeleteInventory
    BY <2>5 DEF DeleteInventory
  <2>6. UNCHANGED rowVars \/ DeleteInventory
          \/ \E c \in Chunk : UpsertChunk(c) \/ MarkSuccess(c) \/ MarkFailure(c)
    BY DEF Next, Driver, Item, Start, Crash, SkipDoneStage, BeginStage, EndStage,
       WriteReport, StageRaises, EntryRaises, Succeed, RunPlainStage, RunPackage, EndDiscover, LoadRound,
       NoWorkLeft, AbortRound, EndRound, DrainPool, StartItem, WriteItem, ItemRaises
  <2> QED BY <2>1, <2>2, <2>3, <2>4, <2>5, <2>6
<1> QED BY <1>1, Typing, Consistency, PTL DEF Spec, NoRegression

(* A run implements the delivery ledger: its staging database is what is   *)
(* kept, its packs are what is delivered, and everything else is a stutter. *)
THEOREM Refinement == Spec => ImplementsLedger
<1> USE DEF Ledger!Next, Ledger!TakeInventory, Ledger!Keep, Ledger!Deliver,
       Ledger!Redo, Ledger!vars, MovingStage
<1>1. Init => Ledger!Init
  BY DEF Init, Ledger!Init
<1>2. Typed /\ Rows /\ Items /\ Order /\ Inventory /\ Stored /\ [Next]_vars
        => [Ledger!Next]_Ledger!vars
  <2> SUFFICES ASSUME Typed, Rows, Items, Order, Inventory, Stored, [Next]_vars
               PROVE  [Ledger!Next]_Ledger!vars
    OBVIOUS
  <2>1. CASE EndDiscover
    <3>1. (staging = {} \/ redone) /\ UNCHANGED <<staging, shipped, redone>>
      BY <2>1 DEF EndDiscover, Typed, Placed, Stored, InStage, diskVars
    <3>2. found' \in SUBSET Chunk
      BY <2>1 DEF EndDiscover
    <3> QED BY <3>1, <3>2
  <2>2. ASSUME NEW c \in Chunk, WriteItem(c)
        PROVE  [Ledger!Next]_Ledger!vars
    <3>1. CASE cur = Materialize
      <4>1. status[c] # "absent"
        BY <2>2 DEF WriteItem, Items, Live, ChunksForStage, Ready, Retryable
      <4>2. Done(Discover)
        BY <2>2, <3>1 DEF WriteItem, PoolOpen, Order
      <4>3. c \in found
        BY <4>1, <4>2 DEF Inventory
      <4> QED BY <2>2, <3>1, <4>3 DEF WriteItem, Insert, historyVars
    <3>2. CASE cur # Materialize
      BY <2>2, <3>2 DEF WriteItem, historyVars
    <3> QED BY <3>1, <3>2
  <2>3. CASE RunPackage
    BY <2>3 DEF RunPackage, historyVars
  <2>4. CASE UNCHANGED <<found, staging, shipped, redone>>
    BY <2>4
  <2>6. CASE EntryRaises
    <3>1. UNCHANGED <<found, staging, shipped>> /\ (redone' = TRUE \/ UNCHANGED redone)
      BY <2>6 DEF EntryRaises, diskVars, Typed, TypeOK
    <3> QED BY <3>1
  <2>5. \/ EndDiscover \/ EntryRaises \/ RunPackage
        \/ UNCHANGED <<found, staging, shipped, redone>>
        \/ \E c \in Chunk : WriteItem(c)
    BY DEF Next, Driver, Item, Start, Crash, SkipDoneStage, BeginStage, EndStage,
       WriteReport, StageRaises, FailStage, Succeed, RunPlainStage, DeleteInventory,
       UpsertChunk, LoadRound, NoWorkLeft, AbortRound, EndRound, DrainPool, StartItem,
       MarkSuccess, ItemRaises, MarkFailure, vars, diskVars, historyVars
  <2> QED BY <2>1, <2>2, <2>3, <2>4, <2>5, <2>6
<1> QED BY <1>1, <1>2, Typing, Consistency, Ordered, Storage, PTL
        DEF Spec, ImplementsLedger, Ledger!Spec
=============================================================================
