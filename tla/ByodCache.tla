------------------------------ MODULE ByodCache ------------------------------
(***************************************************************************)
(* One entry of the cache of packs built from a caller's own records.      *)
(* Every process that misses it builds a pack of its own and moves it into *)
(* place; the first one wins, and a leftover is swept away.                *)
(***************************************************************************)
EXTENDS CacheUsers

CONSTANTS Metadata, Entities    \* the files of a pack

ASSUME ByodCacheAssumption == Metadata # Entities /\ None \notin {Metadata, Entities}

VARIABLES
  slot,       \* the entry's files, or Absent
  doomed,     \* per process: the files its sweep has yet to remove
  lost        \* history: a disk fault or a kill has come after a sweep

byodVars == <<slot, doomed, lost>>

Pack == {Metadata, Entities}
Leftover == {Entities}      \* what a removal that was cut short may leave
Absent == {None}
Hit == Metadata \in slot
Free == slot \in {Absent, {}}

ByodTypeOK ==
  /\ slot \in {Absent} \cup SUBSET Pack /\ lost \in BOOLEAN
  /\ doomed \in [Process -> SUBSET Pack]

NothingDoomed == [p \in Process |-> {}]
ByodInit == slot \in {Absent, Leftover} /\ doomed = NothingDoomed /\ lost = FALSE

FromRecords(p) == Enter(p, "records") /\ UNCHANGED byodVars
UseCached(p) == Hit /\ End(p, "records", "built") /\ UNCHANGED byodVars
BuildPack(p) == ~Hit /\ Go(p, "records", "build") /\ UNCHANGED byodVars
BuildRaises(p) == End(p, "build", "raised") /\ UNCHANGED byodVars
EndBuild(p) == Go(p, "build", "commit") /\ UNCHANGED byodVars

\* Mutant: the pack is copied file by file.
Install_Copies == slot' = {Metadata} /\ doomed' = NothingDoomed /\ UNCHANGED lost
\* A new directory in place of the old one: nobody sweeps the new one yet.
Install == slot' = Pack /\ doomed' = NothingDoomed /\ UNCHANGED lost
Commit(p) == Free /\ End(p, "commit", "built") /\ Install
\* The entry is occupied, or the disk fails.
CommitFails(p) == Go(p, "commit", "occupied") /\ UNCHANGED byodVars
KeepTheirs(p) == Hit /\ End(p, "occupied", "built") /\ UNCHANGED byodVars
NoHit(p) == ~Hit /\ Go(p, "occupied", "leftover") /\ UNCHANGED byodVars
NothingThere(p) == slot = Absent /\ End(p, "leftover", "raised") /\ UNCHANGED byodVars

Sweep(p) ==
  /\ slot # Absent /\ Go(p, "leftover", "sweep")
  /\ doomed' = [doomed EXCEPT ![p] = slot] /\ UNCHANGED <<slot, lost>>
SweepFile(p, f) ==
  /\ at[p] = "sweep" /\ f \in doomed[p]
  /\ slot' = slot \ {f} /\ doomed' = [doomed EXCEPT ![p] = @ \ {f}]
  /\ UNCHANGED <<at, outcome, lost>>
EndSweep(p) ==
  /\ doomed[p] = {} /\ Go(p, "sweep", "retry")
  /\ slot' = (IF slot = {} THEN Absent ELSE slot) /\ UNCHANGED <<doomed, lost>>

Retry(p) == Free /\ End(p, "retry", "built") /\ Install
RetryFails(p) ==
  /\ Go(p, "retry", "accept") /\ lost' = (lost \/ Free) /\ UNCHANGED <<slot, doomed>>
Accept(p) == End(p, "accept", IF Hit THEN "built" ELSE "raised") /\ UNCHANGED byodVars

ByodStep(p) ==
  \/ FromRecords(p) \/ UseCached(p) \/ BuildPack(p) \/ BuildRaises(p) \/ EndBuild(p)
  \/ Commit(p) \/ CommitFails(p) \/ KeepTheirs(p) \/ NoHit(p) \/ NothingThere(p)
  \/ Sweep(p) \/ EndSweep(p) \/ Retry(p) \/ RetryFails(p) \/ Accept(p)
  \/ \E f \in Pack : SweepFile(p, f)

Sweeping(p) == at[p] \in {"sweep", "retry"}
StopByod(p) ==
  /\ doomed' = [doomed EXCEPT ![p] = {}] /\ lost' = (lost \/ Sweeping(p)) /\ UNCHANGED slot

(* Unless a disk fault or a kill has come after a sweep: an entry that     *)
(* passes for a hit is a whole pack, and one that has been handed out is   *)
(* there, for a builder that took another's pack for a leftover and swept  *)
(* it has put its own in its place.                                        *)
HandedOutIsThere == ~lost /\ (\A p \in Process : ~Sweeping(p)) =>
  /\ Hit => slot = Pack
  /\ (\E p \in Process : outcome[p] = "built") => slot = Pack
=============================================================================
