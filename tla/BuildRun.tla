------------------------------ MODULE BuildRun ------------------------------
(***************************************************************************)
(* One builder run: the driver of execute_build / run_stage, the resumable *)
(* chunk queue of RunStateStore, the worker pool of retry_parallel_stage,  *)
(* and what resume() does after a failure or a crash.                      *)
(*                                                                         *)
(* The run's directory survives a crash: the stages and chunks tables of   *)
(* state.sqlite, the raw and normalized files, the staging database and    *)
(* the packed output.  The driver and its workers do not.                  *)
(***************************************************************************)
EXTENDS Integers, FiniteSets

CONSTANTS Chunk,        \* the chunk ids discovery can write
          RetryLimits,  \* the values options.max_retries takes: build(), resume()
          MaxWorkers,   \* options.max_workers
          Reopenable,   \* bound: the done stages that may be marked failed at their entry
          MaxReopened   \* bound: and how often that happens in a run

ASSUME BuildRunAssumption ==
  /\ RetryLimits \subseteq Nat \ {0}    \* Field(ge=1)
  /\ RetryLimits # {}
  /\ MaxWorkers \in Nat \ {0}
  /\ MaxReopened \in Nat

(* STAGES, by position. *)
Prepare == 1
Discover == 2
Extract == 3
Normalize == 4
Materialize == 5
Package == 10
StageCount == 11
Stage == 1..StageCount
ChunkStage == {Extract, Normalize, Materialize}
MovingStage == ChunkStage \cup {Discover}
PlainStage == Stage \ (ChunkStage \cup {Discover, Package})

NoStage == 0
RowStatus == {"absent", "pending", "extracted", "normalized", "materialized", "failed"}
FileState == {"none", "torn", "complete"}
WorkState == {"out", "queued", "writing", "written", "raised", "done"}

VARIABLES
  stageStatus,   \* table stages
  status, failedStage, attempts, rawPath, normPath, materialized,  \* table chunks
  raw, norm,     \* raw/<chunk>.json.gz and normalized/<chunk>.json.gz
  staging,       \* chunks whose rows the staging database holds
  shipped,       \* chunks whose entities the published packs hold
  pc, cur,       \* the driver: what it does, in which stage
  limit,         \* context.options.max_retries
  todo,          \* discover: chunks still to be upserted
  work,          \* the round's work items
  previous,      \* previous_signature of retry_stage_batches
  outcome,       \* what the last build()/resume() returned
  found,         \* history: the inventory of the completed discover stage
  struck,        \* history: chunks this invocation has seen use up their attempts
  reopened,      \* history: how often a done stage was marked failed at its entry
  redone         \* history: one of those stages was one that moves chunks

rowVars == <<status, failedStage, attempts, rawPath, normPath, materialized>>
diskVars == <<raw, norm, staging, shipped>>
historyVars == <<found, struck, reopened, redone>>
vars == <<stageStatus, rowVars, diskVars, pc, cur, limit, todo, work, previous,
          outcome, historyVars>>

Signature == [status : RowStatus, failedStage : ChunkStage \cup {NoStage},
              attempts : [ChunkStage -> Nat], materialized : BOOLEAN]

TypeOK ==
  /\ stageStatus \in [Stage -> {"pending", "running", "failed", "done"}]
  /\ status \in [Chunk -> RowStatus]
  /\ failedStage \in [Chunk -> ChunkStage \cup {NoStage}]
  /\ attempts \in [Chunk -> [ChunkStage -> Nat]]
  /\ rawPath \subseteq Chunk /\ normPath \subseteq Chunk /\ materialized \subseteq Chunk
  /\ raw \in [Chunk -> FileState] /\ norm \in [Chunk -> FileState]
  /\ staging \subseteq Chunk /\ shipped \subseteq Chunk
  /\ pc \in {"stopped", "enter", "body", "upsert", "round", "drain", "leave", "report"}
  /\ cur \in 1..(StageCount + 1)
  /\ limit \in RetryLimits
  /\ todo \subseteq Chunk
  /\ work \in [Chunk -> WorkState]
  /\ previous \in [Chunk -> Signature]
  /\ outcome \in {"none", "SUCCESS", "FAILED"}
  /\ found \subseteq Chunk /\ struck \subseteq Chunk
  /\ reopened \in Nat /\ redone \in BOOLEAN

NoAttempts == [s \in ChunkStage |-> 0]
Idle == [c \in Chunk |-> "out"]

(* _chunk_retry_signature: the columns that show progress. *)
SignatureOf(c) == [status |-> status[c], failedStage |-> failedStage[c],
                   attempts |-> attempts[c], materialized |-> c \in materialized]
EmptySignature == [status |-> "absent", failedStage |-> NoStage,
                   attempts |-> NoAttempts, materialized |-> FALSE]

Init ==
  /\ stageStatus = [s \in Stage |-> "pending"]
  /\ status = [c \in Chunk |-> "absent"]
  /\ failedStage = [c \in Chunk |-> NoStage]
  /\ attempts = [c \in Chunk |-> NoAttempts]
  /\ rawPath = {} /\ normPath = {} /\ materialized = {}
  /\ raw = [c \in Chunk |-> "none"] /\ norm = [c \in Chunk |-> "none"]
  /\ staging = {} /\ shipped = {}
  /\ pc = "stopped" /\ cur = 1 /\ limit \in RetryLimits
  /\ todo = {} /\ work = Idle
  /\ previous = [c \in Chunk |-> EmptySignature]
  /\ outcome = "none" /\ found = {} /\ struck = {}
  /\ reopened = 0 /\ redone = FALSE

-----------------------------------------------------------------------------
(* build() and resume(): a new process takes up the run's directory.  Only *)
(* retry and concurrency options may differ from the first invocation.     *)
Start ==
  /\ pc = "stopped"
  /\ pc' = "enter" /\ cur' = 1 /\ outcome' = "none"
  /\ limit' \in RetryLimits
  /\ struck' = {}
  /\ UNCHANGED <<stageStatus, rowVars, diskVars, todo, work, previous, found,
                 reopened, redone>>

(* run_stage: a stage that is read as done is skipped. *)
StageIsDone(s) == stageStatus[s] = "done"

SkipDoneStage ==
  /\ pc = "enter" /\ cur \in Stage /\ StageIsDone(cur)
  /\ cur' = cur + 1
  /\ UNCHANGED <<stageStatus, rowVars, diskVars, pc, limit, todo, work, previous,
                 outcome, historyVars>>

BeginStage ==
  /\ pc = "enter" /\ cur \in Stage /\ ~StageIsDone(cur)
  /\ stageStatus' = [stageStatus EXCEPT ![cur] = "running"]
  /\ pc' = "body"
  /\ UNCHANGED <<rowVars, diskVars, cur, limit, todo, work, previous, outcome, historyVars>>

EndStage ==
  /\ pc = "leave"
  /\ stageStatus' = [stageStatus EXCEPT ![cur] = "done"]
  /\ pc' = "report"
  /\ UNCHANGED <<rowVars, diskVars, cur, limit, todo, work, previous, outcome, historyVars>>

WriteReport ==
  /\ pc = "report"
  /\ pc' = "enter" /\ cur' = cur + 1
  /\ UNCHANGED <<stageStatus, rowVars, diskVars, limit, todo, work, previous, outcome,
                 historyVars>>

(* The except branch of execute_build: the stage the loop was last in is   *)
(* failed, whatever its status was, and the run stops.                     *)
LoopStage == IF cur \in Stage THEN cur ELSE StageCount

FailStage ==
  /\ stageStatus' = [stageStatus EXCEPT ![LoopStage] = "failed"]
  /\ pc' = "stopped" /\ outcome' = "FAILED"
  /\ todo' = {} /\ work' = Idle
  /\ previous' = [c \in Chunk |-> EmptySignature]

(* get_stage_status is asked inside the try (run_stage, first line): when  *)
(* the state database is busy, a stage that is done is marked failed too,  *)
(* and the next resume runs it again, while later stages may stay done.    *)
(* After the loop it is the reading of the release candidates that raises. *)
EntryRaises ==
  /\ pc = "enter"
  /\ FailStage
  /\ \/ /\ cur \in Stage /\ StageIsDone(cur)
        /\ cur \in Reopenable /\ reopened < MaxReopened
        /\ reopened' = reopened + 1
        /\ redone' = IF cur \in MovingStage THEN TRUE ELSE redone
     \/ /\ ~(cur \in Stage /\ StageIsDone(cur))
        /\ UNCHANGED <<reopened, redone>>
  /\ UNCHANGED <<rowVars, diskVars, cur, limit, found, struck>>

Succeed ==
  /\ pc = "enter" /\ cur = StageCount + 1
  /\ pc' = "stopped" /\ outcome' = "SUCCESS"
  /\ UNCHANGED <<stageStatus, rowVars, diskVars, cur, limit, todo, work, previous, historyVars>>

(* The process dies between any two steps. *)
Crash ==
  /\ pc # "stopped"
  /\ pc' = "stopped"
  /\ todo' = {} /\ work' = Idle
  /\ previous' = [c \in Chunk |-> EmptySignature]
  /\ UNCHANGED <<stageStatus, rowVars, diskVars, cur, limit, outcome, historyVars>>

(* Canonicalize, reconcile, enrich, validate, changelog and prepare move no *)
(* chunk: they rewrite what the staging database holds, or refuse it.      *)
RunPlainStage ==
  /\ pc = "body" /\ cur \in PlainStage
  /\ pc' = "leave"
  /\ UNCHANGED <<stageStatus, rowVars, diskVars, cur, limit, todo, work, previous,
                 outcome, historyVars>>

(* stage_package copies the staging database into the packs. *)
RunPackage ==
  /\ pc = "body" /\ cur = Package
  /\ shipped' = staging
  /\ pc' = "leave"
  /\ UNCHANGED <<stageStatus, rowVars, raw, norm, staging, cur, limit, todo, work,
                 previous, outcome, historyVars>>

-----------------------------------------------------------------------------
(* stage_discover: the domain's old inventory is deleted, then the ids the *)
(* source yields are written chunk by chunk, one transaction each.         *)
DeleteInventory ==
  /\ pc = "body" /\ cur = Discover
  /\ status' = [c \in Chunk |-> "absent"]
  /\ failedStage' = [c \in Chunk |-> NoStage]
  /\ attempts' = [c \in Chunk |-> NoAttempts]
  /\ rawPath' = {} /\ normPath' = {} /\ materialized' = {}
  /\ todo' \in SUBSET Chunk
  /\ pc' = "upsert"
  /\ UNCHANGED <<stageStatus, diskVars, cur, limit, work, previous, outcome, historyVars>>

UpsertChunk(c) ==
  /\ pc = "upsert" /\ c \in todo
  /\ todo' = todo \ {c}
  /\ status' = [status EXCEPT ![c] = IF @ = "absent" THEN "pending" ELSE @]
  /\ UNCHANGED <<stageStatus, failedStage, attempts, rawPath, normPath, materialized,
                 diskVars, pc, cur, limit, work, previous, outcome, historyVars>>

EndDiscover ==
  /\ pc = "upsert" /\ todo = {}
  /\ found' = {c \in Chunk : status[c] # "absent"}
  /\ pc' = "leave"
  /\ UNCHANGED <<stageStatus, rowVars, diskVars, cur, limit, todo, work, previous,
                 outcome, struck, reopened, redone>>

-----------------------------------------------------------------------------
(* _CHUNK_STAGE_WHERE: the rows chunks_for_stage(s, limit) returns. *)
Ready(c, s) ==
  \/ s = Extract /\ status[c] = "pending"
  \/ s = Normalize /\ status[c] = "extracted"
  \/ s = Materialize /\ status[c] = "normalized" /\ c \notin materialized

Retryable(c, s) ==
  status[c] = "failed" /\ failedStage[c] = s /\ attempts[c][s] < limit

ChunksForStage_NoRetries(s) == {c \in Chunk : Ready(c, s)}
ChunksForStage(s) == {c \in Chunk : Ready(c, s) \/ Retryable(c, s)}

HasBlockingFailures(s) ==
  \E c \in Chunk : status[c] = "failed" /\ failedStage[c] = s /\ attempts[c][s] >= limit

(* retry_stage_batches, top of the loop. *)
LoadRound ==
  /\ pc = "body" /\ cur \in ChunkStage
  /\ ChunksForStage(cur) # {}
  /\ work' = [c \in Chunk |-> IF c \in ChunksForStage(cur) THEN "queued" ELSE "out"]
  /\ previous' = [c \in Chunk |-> IF c \in ChunksForStage(cur) THEN SignatureOf(c)
                                  ELSE EmptySignature]
  /\ pc' = "round"
  /\ UNCHANGED <<stageStatus, rowVars, diskVars, cur, limit, todo, outcome, historyVars>>

NoWorkLeft ==
  /\ pc = "body" /\ cur \in ChunkStage
  /\ ChunksForStage(cur) = {}
  /\ pc' = "leave"
  /\ UNCHANGED <<stageStatus, rowVars, diskVars, cur, limit, todo, work, previous,
                 outcome, historyVars>>

RoundDone == pc = "round" /\ \A c \in Chunk : work[c] \in {"out", "done"}

SameSignature ==
  \A c \in Chunk :
    previous[c] = IF c \in ChunksForStage(cur) THEN SignatureOf(c) ELSE EmptySignature

(* ... and its bottom: give up when a chunk is out of attempts or when the *)
(* round changed nothing, go round again while there is work.              *)
AbortRound ==
  /\ RoundDone
  /\ \/ HasBlockingFailures(cur)
     \/ ChunksForStage(cur) # {} /\ SameSignature
  /\ FailStage
  /\ UNCHANGED <<rowVars, diskVars, cur, limit, historyVars>>

EndRound ==
  /\ RoundDone
  /\ ~HasBlockingFailures(cur)
  /\ ChunksForStage(cur) = {} \/ ~SameSignature
  /\ pc' = IF ChunksForStage(cur) = {} THEN "leave" ELSE "body"
  /\ work' = Idle
  /\ previous' = [c \in Chunk |-> EmptySignature]
  /\ UNCHANGED <<stageStatus, rowVars, diskVars, cur, limit, todo, outcome, historyVars>>

(* mark_chunk_failure itself raises (a busy database): leaving the with     *)
(* block of the pool waits for every item still queued or running, whose   *)
(* failures nobody records any more; the sequential stage just stops.      *)
DrainPool(c) ==
  /\ pc = "round" /\ work[c] = "raised"
  /\ pc' = "drain"
  /\ work' = IF cur = Materialize THEN Idle ELSE [work EXCEPT ![c] = "done"]
  /\ UNCHANGED <<stageStatus, rowVars, diskVars, cur, limit, todo, previous, outcome,
                 historyVars>>

\* Mutant: the pool is left when every item has succeeded.
PoolDrained_Successes == pc = "drain" /\ \A c \in Chunk : work[c] \in {"out", "done"}
PoolDrained == pc = "drain" /\ \A c \in Chunk : work[c] \in {"out", "done", "raised"}

(* An exception outside the workers: source discovery, a query of the run  *)
(* state, schema set-up, the FTS rebuild, the geo merge, reconcile, enrich, *)
(* validation, a QA gate, or the report of a stage already marked done.    *)
StageRaises ==
  /\ pc \in {"body", "upsert", "leave", "report"} \/ RoundDone \/ PoolDrained
  /\ FailStage
  /\ UNCHANGED <<rowVars, diskVars, cur, limit, historyVars>>

-----------------------------------------------------------------------------
(* One work item: extract_chunk, normalize_chunk or materialize_chunk.     *)
(* The thread pool runs MaxWorkers of them; materialize runs them one by   *)
(* one, each failure recorded before the next item starts.                 *)
PoolOpen == pc \in {"round", "drain"}
Running == {c \in Chunk : work[c] \in {"writing", "written"}}
Unrecorded == {c \in Chunk : work[c] = "raised"}

SlotFree ==
  IF cur = Materialize THEN Running \cup Unrecorded = {}
  ELSE Cardinality(Running) < MaxWorkers

(* The item's input: the recorded path of a complete file. *)
InputReadable(c) ==
  \/ cur = Extract
  \/ cur = Normalize /\ c \in rawPath /\ raw[c] = "complete"
  \/ cur = Materialize /\ c \in normPath /\ norm[c] = "complete"

(* gzip_json_write truncates its target and then fills it. *)
StartItem(c) ==
  /\ PoolOpen /\ work[c] = "queued" /\ SlotFree
  /\ InputReadable(c)
  /\ work' = [work EXCEPT ![c] = "writing"]
  /\ raw' = IF cur = Extract THEN [raw EXCEPT ![c] = "torn"] ELSE raw
  /\ norm' = IF cur = Normalize THEN [norm EXCEPT ![c] = "torn"] ELSE norm
  /\ UNCHANGED <<stageStatus, rowVars, staging, shipped, pc, cur, limit, todo, previous,
                 outcome, historyVars>>

(* insert_normalized_payload: one transaction of INSERT OR REPLACE. *)
Insert_Overwrites(c) == {c}
Insert(c) == staging \cup {c}

WriteItem(c) ==
  /\ PoolOpen /\ work[c] = "writing"
  /\ work' = [work EXCEPT ![c] = "written"]
  /\ raw' = IF cur = Extract THEN [raw EXCEPT ![c] = "complete"] ELSE raw
  /\ norm' = IF cur = Normalize THEN [norm EXCEPT ![c] = "complete"] ELSE norm
  /\ staging' = IF cur = Materialize THEN Insert(c) ELSE staging
  /\ UNCHANGED <<stageStatus, rowVars, shipped, pc, cur, limit, todo, previous,
                 outcome, historyVars>>

SuccessStatus(s) ==
  IF s = Extract THEN "extracted" ELSE IF s = Normalize THEN "normalized" ELSE "materialized"

(* mark_chunk_success, the last call of the item. *)
Recordable(c) == work[c] = "written"

MarkSuccess(c) ==
  /\ PoolOpen /\ Recordable(c)
  /\ work' = [work EXCEPT ![c] = "done"]
  /\ status' = [status EXCEPT ![c] = SuccessStatus(cur)]
  /\ failedStage' = [failedStage EXCEPT ![c] = NoStage]
  /\ rawPath' = IF cur = Extract THEN rawPath \cup {c} ELSE rawPath
  /\ normPath' = IF cur = Normalize THEN normPath \cup {c} ELSE normPath
  /\ materialized' = IF cur = Materialize THEN materialized \cup {c} ELSE materialized
  /\ UNCHANGED <<stageStatus, attempts, diskVars, pc, cur, limit, todo, previous,
                 outcome, historyVars>>

(* The source times out, the disk is full, the database is busy. *)
ItemRaises(c) ==
  /\ PoolOpen
  /\ \/ work[c] = "queued" /\ SlotFree
     \/ work[c] \in {"writing", "written"}
  /\ work' = [work EXCEPT ![c] = "raised"]
  /\ UNCHANGED <<stageStatus, rowVars, diskVars, pc, cur, limit, todo, previous,
                 outcome, historyVars>>

(* mark_chunk_failure, called by the driver when the future has raised. *)
CountAttempt(c) == [attempts EXCEPT ![c][cur] = @ + 1]

MarkFailure(c) ==
  /\ pc = "round" /\ work[c] = "raised"
  /\ work' = [work EXCEPT ![c] = "done"]
  /\ status' = [status EXCEPT ![c] = "failed"]
  /\ failedStage' = [failedStage EXCEPT ![c] = cur]
  /\ attempts' = CountAttempt(c)
  /\ struck' = IF attempts'[c][cur] >= limit THEN struck \cup {c} ELSE struck
  /\ UNCHANGED <<stageStatus, rawPath, normPath, materialized, diskVars, pc, cur, limit,
                 todo, previous, outcome, found, reopened, redone>>

Item(c) ==
  \/ StartItem(c) \/ WriteItem(c) \/ MarkSuccess(c) \/ ItemRaises(c) \/ MarkFailure(c)

Driver ==
  \/ SkipDoneStage \/ BeginStage \/ EndStage \/ WriteReport \/ EntryRaises \/ StageRaises
  \/ Succeed
  \/ RunPlainStage \/ RunPackage
  \/ DeleteInventory \/ EndDiscover \/ \E c \in Chunk : UpsertChunk(c)
  \/ LoadRound \/ NoWorkLeft \/ AbortRound \/ EndRound
  \/ \E c \in Chunk : DrainPool(c)

Next == Start \/ Crash \/ Driver \/ \E c \in Chunk : Item(c)

Spec == Init /\ [][Next]_vars

(* A live process keeps executing: its driver thread and each worker.      *)
(* Nothing forces a crash, a resume, or an exception.                      *)
Fairness == WF_vars(Driver) /\ \A c \in Chunk : WF_vars(Item(c))
FairSpec == Spec /\ Fairness
-----------------------------------------------------------------------------
(* Position of a chunk's row: the chunk stage it has last been through or  *)
(* failed in.                                                              *)
Position(c) ==
  IF status[c] = "failed" THEN failedStage[c]
  ELSE IF status[c] = "materialized" THEN Materialize
  ELSE IF status[c] = "normalized" THEN Normalize
  ELSE IF status[c] = "extracted" THEN Extract
  ELSE Discover

(* A chunk that some retry limit this run was given has written off. *)
Exhausted(c) ==
  /\ status[c] = "failed"
  /\ \E m \in RetryLimits : attempts[c][failedStage[c]] >= m

(* What a row says is on disk is on disk, whole: a recorded raw or         *)
(* normalized path names a complete file and a materialized chunk is in    *)
(* the staging database, whenever the process dies (mark_chunk_success is  *)
(* called after the write it records).                                     *)
RecordedWorkIsDurable ==
  \A c \in Chunk :
    /\ c \in rawPath => raw[c] = "complete"
    /\ c \in normPath => norm[c] = "complete"
    /\ c \in materialized => c \in staging

(* No chunk is tried more often in one stage than a retry limit allows,    *)
(* counted over all rounds and all resumes of the run.                     *)
AttemptsWithinBudget ==
  \A c \in Chunk, s \in ChunkStage : \E m \in RetryLimits : attempts[c][s] <= m

(* Every round of a chunk stage moves every chunk it loaded, so that the   *)
(* "no progress" cut-off of retry_stage_batches is never what ends a run.  *)
EveryRoundProgresses == RoundDone => ChunksForStage(cur) = {} \/ ~SameSignature

(* An invocation in which a chunk used up its attempts does not return     *)
(* SUCCESS: the blocking-failure check of retry_stage_batches reports it.  *)
ExhaustionIsReported == outcome = "SUCCESS" => struck = {}

(* SUCCESS means that every discovered chunk is in the published packs,    *)
(* except those that ran out of attempts in this or an earlier invocation. *)
(* A run that has redone a stage that moves chunks is excepted: the stages *)
(* behind it that stayed done do not run again on what it moved.           *)
OnlyExhaustedChunksAreLost ==
  outcome = "SUCCESS" /\ ~redone => \A c \in found : c \in shipped \/ Exhausted(c)

(* The published packs hold nothing but inventoried chunks, although       *)
(* discovery may be repeated after a crash and yield something else; but   *)
(* not when discovery was done and is repeated behind the packs.           *)
PacksHoldOnlyInventory == ~redone => shipped \subseteq found

(* Once discovered, a chunk never moves back in the pipeline: a late       *)
(* failure, a retry or a resume does not undo a stage it has been through. *)
NoRegression ==
  [][cur = Discover \/ \A c \in Chunk : Position(c)' >= Position(c)]_vars

(* A run refines the delivery ledger, whose inventory is replaced under    *)
(* what is kept only when a stage that moves chunks has been redone.       *)
Ledger == INSTANCE DeliveryLedger
            WITH inventory <- found, kept <- staging, delivered <- shipped,
                 redone <- redone
ImplementsLedger == Ledger!Spec

(* Every invocation returns: retries are bounded, rounds without progress  *)
(* are cut off, and no round waits for an item that nobody runs.           *)
InvocationReturns == (pc # "stopped") ~> (pc = "stopped")

(* What the builder's code says of itself: canonical_staging_db "refus[es] *)
(* to build a datapack from a partial geo set", and a chunk that fails     *)
(* "after max retries" is an error.  A resume of the failed run finds the  *)
(* chunk neither ready nor retryable, checks for blocking failures only    *)
(* after a round, and completes the run without it.                        *)
SuccessIsComplete == outcome = "SUCCESS" => found \subseteq shipped

(* What the comment on STAGES says: a stage already marked done is skipped *)
(* on resume.  A failed read of its status, or a failed build report after *)
(* it, marks it failed, and the next resume runs it again.                 *)
DoneStaysDone ==
  [][\A s \in Stage : stageStatus[s] = "done" => stageStatus'[s] = "done"]_vars
=============================================================================
