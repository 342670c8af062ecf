---------------------------- MODULE ComposedCache ----------------------------
(***************************************************************************)
(* Several packs of one domain are composed into one database, which is    *)
(* cached under a key made of the packs' identifiers, sizes and times.     *)
(* What cannot be cached is served from a directory of the process's own.  *)
(***************************************************************************)
EXTENDS CacheUsers

CONSTANT Version    \* what the packs may hold

ASSUME ComposedCacheAssumption == None \notin Version

VARIABLES
  packs,        \* the version on disk
  composed,     \* per key: the content of its file, None, or "corrupt"
  key,          \* per process: the key of its call
  temp,         \* per process: the content of its temporary database, or None
  served,       \* per process: the content of the store it was given
  replaced      \* history: packs were replaced between a key and the copy

composedVars == <<packs, composed, key, temp, served, replaced>>

ComposedTypeOK ==
  /\ packs \in Version /\ replaced \in BOOLEAN
  /\ composed \in [Version -> Version \cup {None, "corrupt"}]
  /\ key \in [Process -> Version \cup {None}]
  /\ temp \in [Process -> Version \cup {None}] /\ served \in [Process -> Version \cup {None}]

Nothing == [p \in Process |-> None]
ComposedInit ==
  /\ packs \in Version /\ replaced = FALSE
  /\ composed \in [Version -> {None, "corrupt"}]
  /\ key = Nothing /\ temp = Nothing /\ served = Nothing

Compose(p) ==
  /\ Enter(p, "open") /\ key' = [key EXCEPT ![p] = packs]
  /\ served' = [served EXCEPT ![p] = None]
  /\ temp' = [temp EXCEPT ![p] = None]      \* the previous store is closed
  /\ UNCHANGED <<packs, composed, replaced>>

Opens(p) == composed[key[p]] \notin {None, "corrupt"}
Serve(p, content) == served' = [served EXCEPT ![p] = content]
OpenCached(p) ==
  /\ End(p, "open", "ok") /\ Opens(p) /\ Serve(p, composed[key[p]])
  /\ UNCHANGED <<packs, composed, key, temp, replaced>>
NotCached(p) ==
  /\ Go(p, "open", "compose") /\ composed[key[p]] = None
  /\ UNCHANGED composedVars
\* Any error counts as corruption.
OpenFails(p) ==
  /\ Go(p, "open", "unlink") /\ composed[key[p]] # None
  /\ UNCHANGED composedVars
Unlink(p) ==
  /\ Go(p, "unlink", "compose") /\ composed' = [composed EXCEPT ![key[p]] = None]
  /\ UNCHANGED <<packs, key, temp, served, replaced>>

\* The packs are attached and copied; overlapping identifiers raise.
Copy(p) ==
  /\ Go(p, "compose", "store") /\ temp' = [temp EXCEPT ![p] = packs]
  /\ UNCHANGED <<packs, composed, key, served, replaced>>
CopyRaises(p) == End(p, "compose", "raised") /\ UNCHANGED composedVars

Store(p) ==
  /\ Go(p, "store", "reopen") /\ composed' = [composed EXCEPT ![key[p]] = temp[p]]
  /\ UNCHANGED <<packs, key, temp, served, replaced>>
\* Mutant: the temporary directory is removed as if the file had been cached.
ServeTemporary_Removed(p, from) ==
  /\ End(p, from, "temporary") /\ Serve(p, temp[p]) /\ temp' = [temp EXCEPT ![p] = None]
  /\ UNCHANGED <<packs, key, replaced>>
ServeTemporary(p, from) ==
  End(p, from, "temporary") /\ Serve(p, temp[p]) /\ UNCHANGED <<packs, key, temp, replaced>>
StoreFails(p) == ServeTemporary(p, "store") /\ UNCHANGED composed
Reopen(p) ==
  /\ End(p, "reopen", "ok") /\ Opens(p) /\ Serve(p, composed[key[p]])
  /\ temp' = [temp EXCEPT ![p] = None] /\ UNCHANGED <<packs, composed, key, replaced>>
ReopenFails(p) ==
  /\ ServeTemporary(p, "reopen") /\ composed' = [composed EXCEPT ![key[p]] = None]

ComposedStep(p) ==
  \/ Compose(p) \/ OpenCached(p) \/ NotCached(p) \/ OpenFails(p) \/ Unlink(p)
  \/ Copy(p) \/ CopyRaises(p) \/ Store(p) \/ StoreFails(p) \/ Reopen(p) \/ ReopenFails(p)

\* A killed process leaves its temporary directory to the system.
StopComposing(p) == temp' = [temp EXCEPT ![p] = None] /\ served' = [served EXCEPT ![p] = None]
                    /\ UNCHANGED <<packs, composed, key, replaced>>

Keyed(p) == at[p] \in {"open", "unlink", "compose"}
Publish(v) ==
  /\ packs' = v /\ replaced' = (replaced \/ \E p \in Process : Keyed(p))
  /\ UNCHANGED <<at, outcome, composed, key, temp, served>>

(* Whoever races to write, unlink and reopen a file: a store that is       *)
(* served is whole and holds what the packs held when it was asked for,    *)
(* unless packs are replaced while their composition is under way.         *)
ServedIsCurrent == ~replaced => \A p \in Process :
  /\ served[p] \in {None, key[p]}
  /\ outcome[p] = "temporary" => temp[p] = served[p]
=============================================================================
