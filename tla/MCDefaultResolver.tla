-------------------------- MODULE MCDefaultResolver --------------------------
(* Two threads, two settings of two values each, and a forked child.       *)
EXTENDS DefaultResolver, TLC
CONSTANTS main, worker, fork

MCTwoCalls == (main :> 2) @@ (worker :> 1) @@ (fork :> 1)
MCOneCall == [t \in {main, worker, fork} |-> 1]
=============================================================================
