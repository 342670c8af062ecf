----------------------------- MODULE MCBuildRun -----------------------------
(* Small instances of BuildRun for TLC. *)
EXTENDS BuildRun

CONSTANTS c1, c2

MCChunk == {c1, c2}
=============================================================================
