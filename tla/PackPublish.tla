----------------------------- MODULE PackPublish -----------------------------
(***************************************************************************)
(* Packaging and publishing in place: stage_package's loop over recipes,   *)
(* the snapshot of the pack about to be replaced, package_domain's drift   *)
(* gate, and the substeps of _publish_pack, with a crash between any two   *)
(* of them, resumes of the same run and new runs after an abandoned one.   *)
(*                                                                         *)
(* A pack is told apart by its row count alone: the gate compares counts.  *)
(* One build is alive at a time.                                           *)
(***************************************************************************)
EXTENDS Integers

CONSTANTS Module,      \* the plan's recipes
          Gated,       \* those whose policy has fail_on_suspicious_drop
          MaxRows,     \* bound: rows in a pack
          Tolerance,   \* the drop a gated recipe still accepts
          MaxStarts    \* bound: new runs and resumes together

ASSUME PackPublishAssumption ==
  /\ Module # {} /\ Gated \subseteq Module
  /\ MaxRows \in Nat \ {0} /\ Tolerance \in Nat /\ MaxStarts \in Nat

(* What a directory or file can hold: nothing; a directory without a       *)
(* usable database (new, or a 0-byte placeholder); part of a copy; a pack. *)
Pack(n) == [kind |-> "pack", rows |-> n]
Absent == [kind |-> "absent", rows |-> 0]
Empty == [kind |-> "empty", rows |-> 0]
Torn == [kind |-> "torn", rows |-> 0]
Packs == {Pack(n) : n \in 1..MaxRows}
Content == Packs \cup {Absent, Empty, Torn}
IsPack(d) == d.kind = "pack"

VARIABLES
  live, incoming, backup,   \* <pack>, .<pack>.incoming, .<pack>.prev
  snapshot, staged,         \* previous_packs/ and packaging/ in the run's directory
  packaged,                 \* the package stage of the current run is done
  step, todo, cur, baseline,  \* the process
  starts,
  found                     \* history: what the current run first found live

diskVars == <<live, incoming, backup, snapshot, staged>>
publishVars == <<diskVars, packaged, step, todo, cur, baseline, starts, found>>

Unseen == [kind |-> "unseen", rows |-> 0]

(* A process packages only a run whose package stage is not done.          *)
PublishTypeOK ==
  /\ live \in [Module -> Content] /\ incoming \in [Module -> Content]
  /\ backup \in [Module -> Content]
  /\ snapshot \in [Module -> Content] /\ staged \in [Module -> Content]
  /\ found \in [Module -> Content \cup {Unseen}]
  /\ packaged \in BOOLEAN
  /\ step \in {"idle", "next", "snapshot", "copying", "build", "export", "gate", "clear", "move",
             "moving", "unback", "aside", "swap", "clean"}
  /\ todo \subseteq Module /\ cur \in Module
  /\ baseline \in Content
  /\ starts \in 0..MaxStarts
  /\ step # "idle" => ~packaged

PublishInit ==
  /\ live \in [Module -> Packs \cup {Absent, Empty}]
  /\ incoming = [m \in Module |-> Absent] /\ backup = incoming
  /\ snapshot = incoming /\ staged = incoming
  /\ packaged = TRUE
  /\ step = "idle" /\ todo = {} /\ cur = (CHOOSE m \in Module : TRUE) /\ baseline = Absent
  /\ starts = 0
  /\ found = [m \in Module |-> Unseen]

-----------------------------------------------------------------------------
(* build() makes a new run directory; resume() keeps the one there is.     *)
NewRun ==
  /\ step = "idle" /\ starts < MaxStarts
  /\ starts' = starts + 1
  /\ snapshot' = [m \in Module |-> Absent] /\ staged' = [m \in Module |-> Absent]
  /\ found' = [m \in Module |-> Unseen]
  /\ packaged' = FALSE /\ todo' = Module /\ step' = "next"
  /\ UNCHANGED <<live, incoming, backup, cur, baseline>>

StageIsDone == packaged

Resume ==
  /\ step = "idle" /\ ~StageIsDone /\ starts < MaxStarts
  /\ starts' = starts + 1
  /\ todo' = Module /\ step' = "next"
  /\ UNCHANGED <<diskVars, packaged, cur, baseline, found>>

(* The death of the process, or an exception of a step that changes nothing. *)
Crash ==
  /\ step # "idle"
  /\ step' = "idle"
  /\ UNCHANGED <<diskVars, packaged, todo, cur, baseline, starts, found>>

-----------------------------------------------------------------------------
(* stage_package: ensure_dir(output_path). *)
NextRecipe ==
  /\ step = "next" /\ todo # {}
  /\ \E m \in todo :
       /\ cur' = m
       /\ live' = IF live[m] = Absent THEN [live EXCEPT ![m] = Empty] ELSE live
       /\ found' = IF found[m] = Unseen THEN [found EXCEPT ![m] = live[m]] ELSE found
  /\ step' = "snapshot"
  /\ UNCHANGED <<incoming, backup, snapshot, staged, packaged, todo, baseline, starts>>

FinishPackaging ==
  /\ step = "next" /\ todo = {}
  /\ packaged' = TRUE /\ step' = "idle"
  /\ UNCHANGED <<diskVars, todo, cur, baseline, starts, found>>

(* _snapshot_previous_datapack. *)
Captured(m) == snapshot[m] # Absent

NothingToSnapshot ==
  /\ step = "snapshot" /\ ~IsPack(live[cur])
  /\ baseline' = Absent /\ step' = "build"
  /\ UNCHANGED <<diskVars, packaged, todo, cur, starts, found>>

ReuseSnapshot ==
  /\ step = "snapshot" /\ IsPack(live[cur]) /\ Captured(cur)
  /\ baseline' = snapshot[cur] /\ step' = "build"
  /\ UNCHANGED <<diskVars, packaged, todo, cur, starts, found>>

BeginSnapshot ==
  /\ step = "snapshot" /\ IsPack(live[cur]) /\ ~Captured(cur)
  /\ snapshot' = [snapshot EXCEPT ![cur] = Torn]
  /\ step' = "copying"
  /\ UNCHANGED <<live, incoming, backup, staged, packaged, todo, cur, baseline, starts, found>>

EndSnapshot ==
  /\ step = "copying"
  /\ snapshot' = [snapshot EXCEPT ![cur] = live[cur]]
  /\ baseline' = live[cur] /\ step' = "build"
  /\ UNCHANGED <<live, incoming, backup, staged, packaged, todo, cur, starts, found>>

-----------------------------------------------------------------------------
(* package_domain: a fresh work directory, then the export into it.  A     *)
(* resumed run may export other rows: the shared geo store can change.     *)
ClearWork ==
  /\ step = "build"
  /\ staged' = [staged EXCEPT ![cur] = Torn]
  /\ step' = "export"
  /\ UNCHANGED <<live, incoming, backup, snapshot, packaged, todo, cur, baseline, starts, found>>

ExportPack ==
  /\ step = "export"
  /\ \E p \in Packs : staged' = [staged EXCEPT ![cur] = p]
  /\ step' = "gate"
  /\ UNCHANGED <<live, incoming, backup, snapshot, packaged, todo, cur, baseline, starts, found>>

SuspiciousDrop_AgainstLive(previous, current) ==
  IsPack(live[cur]) /\ current.rows < live[cur].rows - Tolerance
SuspiciousDrop(previous, current) ==
  IsPack(previous) /\ current.rows < previous.rows - Tolerance

PassGate ==
  /\ step = "gate" /\ baseline # Torn
  /\ ~(cur \in Gated /\ SuspiciousDrop(baseline, staged[cur]))
  /\ step' = "clear"
  /\ UNCHANGED <<diskVars, packaged, todo, cur, baseline, starts, found>>

(* BuildExecutionError; a torn database cannot be read at all. *)
FailGate ==
  /\ step = "gate"
  /\ baseline = Torn \/ (cur \in Gated /\ SuspiciousDrop(baseline, staged[cur]))
  /\ step' = "idle"
  /\ UNCHANGED <<diskVars, packaged, todo, cur, baseline, starts, found>>

-----------------------------------------------------------------------------
(* _publish_pack, one file-system operation at a time. *)
ClearIncoming ==
  /\ step = "clear"
  /\ incoming' = [incoming EXCEPT ![cur] = Absent]
  /\ step' = "move"
  /\ UNCHANGED <<live, backup, snapshot, staged, packaged, todo, cur, baseline, starts, found>>

(* shutil.move may cross file systems: a copy, then the removal.  Into a   *)
(* directory that exists it would nest and leave what is there.            *)
BeginMove_InPlace == live' = [live EXCEPT ![cur] = Torn] /\ UNCHANGED incoming
BeginMove == incoming' = [incoming EXCEPT ![cur] = Torn] /\ UNCHANGED live

MoveToIncoming ==
  /\ step = "move" /\ BeginMove
  /\ step' = "moving"
  /\ UNCHANGED <<backup, snapshot, staged, packaged, todo, cur, baseline, starts, found>>

EndMove ==
  /\ step = "moving"
  /\ incoming' = [incoming EXCEPT ![cur] = staged[cur]]
  /\ staged' = [staged EXCEPT ![cur] = Absent]
  /\ step' = "unback"
  /\ UNCHANGED <<live, backup, snapshot, packaged, todo, cur, baseline, starts, found>>

ClearBackup ==
  /\ step = "unback"
  /\ backup' = [backup EXCEPT ![cur] = Absent]
  /\ step' = "aside"
  /\ UNCHANGED <<live, incoming, snapshot, staged, packaged, todo, cur, baseline, starts, found>>

MoveAside ==
  /\ step = "aside"
  /\ backup' = [backup EXCEPT ![cur] = live[cur]]
  /\ live' = [live EXCEPT ![cur] = Absent]
  /\ step' = "swap"
  /\ UNCHANGED <<incoming, snapshot, staged, packaged, todo, cur, baseline, starts, found>>

SwapIn ==
  /\ step = "swap"
  /\ live' = [live EXCEPT ![cur] = incoming[cur]]
  /\ incoming' = [incoming EXCEPT ![cur] = Absent]
  /\ step' = "clean"
  /\ UNCHANGED <<backup, snapshot, staged, packaged, todo, cur, baseline, starts, found>>

(* OSError: the backup is restored and the error re-raised. *)
Restored(m) == backup[m]

RollBack ==
  /\ step = "swap"
  /\ live' = [live EXCEPT ![cur] = Restored(cur)]
  /\ backup' = [backup EXCEPT ![cur] = Absent]
  /\ step' = "idle"
  /\ UNCHANGED <<incoming, snapshot, staged, packaged, todo, cur, baseline, starts, found>>

DropBackup ==
  /\ step = "clean"
  /\ backup' = [backup EXCEPT ![cur] = Absent]
  /\ todo' = todo \ {cur} /\ step' = "next"
  /\ UNCHANGED <<live, incoming, snapshot, staged, packaged, cur, baseline, starts, found>>

-----------------------------------------------------------------------------
(* No process, and none to come: the bound on starts. *)
Settled == step = "idle" /\ starts = MaxStarts /\ UNCHANGED publishVars

PublishNext ==
  \/ Settled
  \/ NewRun \/ Resume \/ Crash
  \/ NextRecipe \/ FinishPackaging
  \/ NothingToSnapshot \/ ReuseSnapshot \/ BeginSnapshot \/ EndSnapshot
  \/ ClearWork \/ ExportPack \/ PassGate \/ FailGate
  \/ ClearIncoming \/ MoveToIncoming \/ EndMove \/ ClearBackup \/ MoveAside
  \/ SwapIn \/ RollBack \/ DropBackup

PublishSpec == PublishInit /\ [][PublishNext]_publishVars

-----------------------------------------------------------------------------
(* Readers of the data directory never find half a pack: it is whole or it *)
(* is not there, at every crash point of the publish.                      *)
PublishedIsWhole == \A m \in Module : live[m] # Torn

(* "Giving a rollback target if the swap fails": whenever a pack is missing *)
(* from its place, what was there is beside it as .prev, in the run that    *)
(* moved it and in every resume of it.                                      *)
RollbackTargetExists ==
  \A m \in Module : IsPack(found[m]) /\ live[m] = Absent => backup[m] # Absent

(* The pack a run found stays available to it as the drift and changelog   *)
(* baseline: it is still live, or the run's snapshot is exactly that pack, *)
(* however often the run crashed, published and was resumed.               *)
BaselineIsKept ==
  \A m \in Module : IsPack(found[m]) => live[m] = found[m] \/ snapshot[m] = found[m]

Keeps(previous, current) == current.rows >= previous.rows - Tolerance

(* A gated pack is only ever taken out of service for a successor within   *)
(* the tolerance of what the run first found: a run that is resumed again  *)
(* and again cannot shrink the pack step by step.                          *)
OverwritesAreGated ==
  [][\A m \in Gated :
       IsPack(live[m]) /\ live'[m] = Absent /\ IsPack(found[m])
         => Keeps(found[m], incoming[m])]_publishVars

(* "A failed suspicious-drop check never overwrites the published pack":   *)
(* after a run, a gated pack is within the tolerance of what it found.     *)
DropIsGated ==
  \A m \in Gated : IsPack(found[m]) /\ IsPack(live[m]) => Keeps(found[m], live[m])
=============================================================================
