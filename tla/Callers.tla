------------------------------ MODULE Callers ------------------------------
(***************************************************************************)
(* The threads of a process.  os.fork() copies the process and leaves one  *)
(* thread in the copy; the two share nothing, so a behaviour follows the   *)
(* parent, or from a fork on the child.                                    *)
(***************************************************************************)
CONSTANTS Thread,
          None      \* no thread, source, index or connection

ASSUME CallersAssumption == None \notin Thread

VARIABLE survivor   \* the thread left by a fork, if one has been followed

Forked == survivor # None
Running(t) == survivor \in {None, t}
AllOut == [t \in Thread |-> "out"]
=============================================================================
