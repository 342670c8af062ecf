----------------------------- MODULE PackCaches -----------------------------
(***************************************************************************)
(* Processes load a remote module, build a pack of their own records and   *)
(* compose packs, in one cache directory, while packs are published and    *)
(* any of them may be killed.                                              *)
(***************************************************************************)
EXTENDS DownloadCache, ByodCache, ComposedCache, Naturals

CONSTANTS MaxCalls, MaxEvents    \* bounds: calls; kills and publications

ASSUME PackCachesAssumption == MaxCalls \in Nat /\ MaxEvents \in Nat

VARIABLES calls, events

vars == <<at, outcome, downloadVars, byodVars, composedVars, calls, events>>

Point == {"idle", "look", "verify", "clear", "fetch", "unpack", "rename", "seal", "undo",
          "records", "build", "commit", "occupied", "leftover", "sweep", "retry", "accept",
          "open", "unlink", "compose", "store", "reopen"}
Ending == {"none", "ok", "built", "temporary", "raised", "rejected"}

TypeOK ==
  /\ at \in [Process -> Point] /\ outcome \in [Process -> Ending]
  /\ DownloadTypeOK /\ ByodTypeOK /\ ComposedTypeOK
  /\ calls \in 0 .. MaxCalls /\ events \in 0 .. MaxEvents

Init ==
  /\ at = [p \in Process |-> "idle"] /\ outcome = [p \in Process |-> "none"]
  /\ calls = 0 /\ events = 0
  /\ DownloadInit /\ ByodInit /\ ComposedInit

MayStep(p) == at[p] = "idle" => calls < MaxCalls
Counted(p) == calls' = IF at[p] = "idle" THEN calls + 1 ELSE calls

InDownload(p) == DownloadStep(p) /\ UNCHANGED <<byodVars, composedVars>>
InByod(p) == ByodStep(p) /\ UNCHANGED <<downloadVars, composedVars>>
InComposed(p) == ComposedStep(p) /\ UNCHANGED <<downloadVars, byodVars>>

Act(p) ==
  /\ MayStep(p) /\ Counted(p) /\ UNCHANGED events
  /\ InDownload(p) \/ InByod(p) \/ InComposed(p)

Happens == events < MaxEvents /\ events' = events + 1 /\ UNCHANGED calls
Kill(p) ==
  /\ at[p] # "idle" /\ Happens
  /\ at' = [at EXCEPT ![p] = "idle"] /\ outcome' = [outcome EXCEPT ![p] = "none"]
  /\ StopDownload(p) /\ StopByod(p) /\ StopComposing(p)

PublishPacks ==
  /\ \E v \in Version \ {packs} : Publish(v)
  /\ Happens /\ UNCHANGED <<downloadVars, byodVars>>

Next == (\E p \in Process : Act(p) \/ Kill(p)) \/ PublishPacks
Spec == Init /\ [][Next]_vars
=============================================================================
