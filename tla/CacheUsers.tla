----------------------------- MODULE CacheUsers -----------------------------
(***************************************************************************)
(* Processes that share one cache directory.  Each makes one call at a     *)
(* time; "at" says where in the code it is.                                *)
(***************************************************************************)
CONSTANTS Process,
          None

VARIABLES
  at,
  outcome     \* how the last call ended: "none", "ok", "built", "temporary", "raised", "rejected"

Move(p, from, to) == at[p] = from /\ at' = [at EXCEPT ![p] = to]
Enter(p, to) == Move(p, "idle", to) /\ outcome' = [outcome EXCEPT ![p] = "none"]
Go(p, from, to) == Move(p, from, to) /\ UNCHANGED outcome
End(p, from, how) == Move(p, from, "idle") /\ outcome' = [outcome EXCEPT ![p] = how]
=============================================================================
