----------------------------- MODULE LazyIndex -----------------------------
(***************************************************************************)
(* SymSpell indexes built on first use: each source has a lock and three   *)
(* fields, a source may borrow the index of another one, the first query   *)
(* and the warm-up thread race to build, a load may raise, and a fork may  *)
(* come in the middle of a build.                                          *)
(***************************************************************************)
EXTENDS Callers

CONSTANTS Source,   \* sources of a pack
          Lender,   \* _symspell_provider of each, or None
          Dict      \* dictionary files of a source that builds its own index

Index == BOOLEAN \X Source           \* an object: made after a fork or not, by which source

ASSUME LazyIndexAssumption ==
  /\ None \notin Source \cup Index /\ Dict # {}
  /\ Lender \in [Source -> Source \cup {None}]
  /\ \A s \in Source : Lender[s] # None => Lender[Lender[s]] = None

VARIABLES
  lock,             \* per source: who holds _build_lock
  attempted,        \* ...: _build_attempted
  built,            \* ...: _built
  index,            \* ...: _sym_spell
  words,            \* per index object: dictionaries loaded
  failed,           \* history, per source: a build has raised
  asked,            \* per thread: the source it consults, or None
  inner,            \* per thread: whether it is in the build of the lender
  inSource          \* per thread: where it is

indexVars == <<lock, attempted, built, index, words, failed, asked, inner, inSource>>

(* The locks that a thread is inside of.                                   *)
Building == {"locked", "build", "load"}
LocksOf(t) ==
  (IF inner[t] \/ inSource[t] \in Building \cup {"borrow"} THEN {asked[t]} ELSE {})
  \cup (IF inner[t] /\ inSource[t] \in Building THEN {Lender[asked[t]]} ELSE {})

IndexTypeOK ==
  /\ lock \in [Source -> Thread \cup {None}]
  /\ attempted \in [Source -> BOOLEAN]
  /\ built \in [Source -> BOOLEAN]
  /\ index \in [Source -> Index \cup {None}]
  /\ words \in [Index -> SUBSET Dict]
  /\ failed \in [Source -> BOOLEAN]
  /\ asked \in [Thread -> Source \cup {None}] /\ inner \in [Thread -> BOOLEAN]
  /\ inSource \in [Thread -> {"out", "check", "wait", "locked", "build", "load",
                              "borrow", "look"}]
  /\ \A t \in Thread : asked[t] = None <=> inSource[t] = "out"
  /\ \A t \in Thread : inner[t] => inSource[t] \in Building \cup {"check", "wait"}
  /\ \A s \in Source, t \in Thread : lock[s] = t <=> s \in LocksOf(t)

NothingAsked == [t \in Thread |-> None]
NotInner == [t \in Thread |-> FALSE]
AtAll(v) == [s \in Source |-> v]

IndexInit ==
  /\ lock = AtAll(None) /\ index = AtAll(None)
  /\ attempted = AtAll(FALSE) /\ built = AtAll(FALSE) /\ failed = AtAll(FALSE)
  /\ words = [i \in Index |-> {}]
  /\ asked = NothingAsked /\ inner = NotInner /\ inSource = AllOut

Here(t) == IF inner[t] THEN Lender[asked[t]] ELSE asked[t]
Becomes(f, t, v) == [f EXCEPT ![Here(t)] = v]
Reach(t, label) == inSource' = [inSource EXCEPT ![t] = label]

(* _ensure_built() returns: to the query, or to the borrower's own build.  *)
Return(t) == Reach(t, IF inner[t] THEN "borrow" ELSE "look") /\ inner' = [inner EXCEPT ![t] = FALSE]
Leave(t) == Reach(t, "out") /\ asked' = [asked EXCEPT ![t] = None]
Unlock(t) == lock' = Becomes(lock, t, None)

Consult(t, s) ==
  /\ inSource[t] = "out" /\ Reach(t, "check")
  /\ asked' = [asked EXCEPT ![t] = s]
  /\ UNCHANGED <<lock, attempted, built, index, words, failed, inner>>

SeeBuilt(t) ==
  /\ inSource[t] = "check" /\ built[Here(t)]
  /\ Return(t)
  /\ UNCHANGED <<lock, attempted, built, index, words, failed, asked>>

SeeUnbuilt(t) ==
  /\ inSource[t] = "check" /\ ~built[Here(t)]
  /\ Reach(t, "wait")
  /\ UNCHANGED <<lock, attempted, built, index, words, failed, asked, inner>>

TakeBuildLock(t) ==
  /\ inSource[t] = "wait" /\ lock[Here(t)] = None
  /\ lock' = Becomes(lock, t, t) /\ Reach(t, "locked")
  /\ UNCHANGED <<attempted, built, index, words, failed, asked, inner>>

(* Built by another thread meanwhile, or tried before and failed.          *)
NothingToDo(t) ==
  /\ inSource[t] = "locked" /\ (built[Here(t)] \/ attempted[Here(t)])
  /\ Unlock(t) /\ Return(t)
  /\ UNCHANGED <<attempted, built, index, words, failed, asked>>

FlagAtStart_Set(t) == built' = Becomes(built, t, TRUE)
FlagAtStart(t) == built' = built
Lends(s) == Lender[s] # None

Attempt(t) ==
  /\ inSource[t] = "locked" /\ ~built[Here(t)] /\ ~attempted[Here(t)]
  /\ attempted' = Becomes(attempted, t, TRUE) /\ FlagAtStart(t)
  /\ IF Lends(Here(t))
     THEN inner' = [inner EXCEPT ![t] = TRUE] /\ Reach(t, "check")
     ELSE UNCHANGED inner /\ Reach(t, "build")
  /\ UNCHANGED <<lock, index, words, failed, asked>>

NewIndex(t) == <<Forked, Here(t)>>
Fill(t, D) == words' = [words EXCEPT ![NewIndex(t)] = D]

(* The compiled index, all of it, or an empty one and then every file.     *)
StartIndex(t) ==
  /\ inSource[t] = "build"
  /\ index' = Becomes(index, t, NewIndex(t)) /\ Reach(t, "load")
  /\ \E D \in {{}, Dict} : Fill(t, D)
  /\ UNCHANGED <<lock, attempted, built, failed, asked, inner>>

LoadDictionary(t) ==
  /\ inSource[t] = "load"
  /\ \E d \in Dict \ words[NewIndex(t)] :
       Fill(t, words[NewIndex(t)] \cup {d})
  /\ UNCHANGED <<lock, attempted, built, index, failed, asked, inner, inSource>>

EndBuild(t) ==
  /\ inSource[t] = "load" /\ words[NewIndex(t)] = Dict
  /\ built' = Becomes(built, t, TRUE) /\ Unlock(t) /\ Return(t)
  /\ UNCHANGED <<attempted, index, words, failed, asked>>

(* The with blocks release the locks on the way out; the index stays.      *)
BuildRaises(t) ==
  /\ inSource[t] \in {"build", "load"}
  /\ failed' = Becomes(failed, t, TRUE)
  /\ lock' = [s \in Source |-> IF s \in {Here(t), asked[t]} THEN None ELSE lock[s]]
  /\ Leave(t) /\ inner' = [inner EXCEPT ![t] = FALSE]
  /\ UNCHANGED <<attempted, built, index, words>>

Borrow(t) ==
  /\ inSource[t] = "borrow"
  /\ index' = Becomes(index, t, index[Lender[asked[t]]])
  /\ built' = Becomes(built, t, TRUE) /\ Unlock(t) /\ Reach(t, "look")
  /\ UNCHANGED <<attempted, words, failed, asked, inner>>

LookUp(t) ==
  /\ inSource[t] = "look" /\ Leave(t)
  /\ UNCHANGED <<lock, attempted, built, index, words, failed, inner>>

EnsureBuilt(t) ==
  \/ SeeBuilt(t) \/ SeeUnbuilt(t) \/ TakeBuildLock(t) \/ NothingToDo(t) \/ Attempt(t)
  \/ StartIndex(t) \/ LoadDictionary(t) \/ EndBuild(t) \/ Borrow(t)

(* _reset_sources_after_fork(), in the child.                              *)
FreshLocks_Inherited == lock
FreshLocks == AtAll(None)
IfBuilt(f, v) == [s \in Source |-> IF built[s] THEN f[s] ELSE v]

ForkIndex ==
  /\ lock' = FreshLocks
  /\ attempted' = IfBuilt(attempted, FALSE) /\ index' = IfBuilt(index, None)
  /\ asked' = NothingAsked /\ inner' = NotInner /\ inSource' = AllOut
  /\ UNCHANGED <<built, words, failed>>

-----------------------------------------------------------------------------
Builder(s) == IF Lender[s] = None THEN s ELSE Lender[s]
Sound(s) == ~failed[Builder(s)]

(* A query that reaches a source finds a complete index, whoever built it  *)
(* and wherever a fork came between, unless the build raised.              *)
LookupsAreWhole ==
  \A t \in Thread :
    inSource[t] = "look" /\ Sound(asked[t]) =>
      index[asked[t]] # None /\ words[index[asked[t]]] = Dict

(* A source that borrows has the very index of its lender, in the child    *)
(* of a fork too, unless the build raised.                                 *)
OneIndex ==
  \A s \in Source :
    built[s] /\ Lender[s] # None /\ Sound(s) =>
      built[Lender[s]] /\ index[s] = index[Lender[s]]
=============================================================================
