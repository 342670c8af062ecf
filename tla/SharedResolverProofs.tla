------------------------ MODULE SharedResolverProofs ------------------------
(***************************************************************************)
(* The invariants of SharedResolver, for any number of threads, sources    *)
(* and connections: first the pool, then the indexes, each by itself, then *)
(* the resolver that uses both.                                            *)
(***************************************************************************)
EXTENDS SharedResolver, TLAPS

(* What the pool needs besides: a queued connection is open, and a store   *)
(* is only drained once it is closed.                                      *)
Afloat == pool \subseteq live /\ \A t \in Thread : inStore[t] = "draining" => closed

PoolInv == PoolTypeOK /\ HeldExclusively /\ NoneIsLost /\ Afloat

(* A freshly opened store keeps its connections in the queue.              *)
LEMMA PoolStarts == PoolInit => PoolInv
BY CallersAssumption, ConnectionPoolAssumption
   DEF PoolInit, PoolInv, PoolTypeOK, HeldExclusively, NoneIsLost, Afloat, NothingHeld, AllOut

(* The thread left by a fork has no connection, and there is no other one. *)
LEMMA PoolForks ==
  ASSUME PoolInv, ForkPool, NEW t \in Thread, survivor' = t PROVE PoolInv'
BY CallersAssumption, ConnectionPoolAssumption
   DEF ForkPool, PoolInv, PoolTypeOK, HeldExclusively, NoneIsLost, Afloat, NothingHeld, AllOut,
       Forked

(* Every step of a thread in the store keeps the pool's invariant.         *)
PoolStep(t) == EnterStore(t) \/ UseStore(t) \/ CloseStore(t)

LEMMA PoolMoves ==
  ASSUME PoolInv, NEW t \in Thread, PoolStep(t), UNCHANGED survivor PROVE PoolInv'
<1> USE ConnectionPoolAssumption
    DEF PoolInv, PoolTypeOK, HeldExclusively, NoneIsLost, Afloat, Move, Forked
<1>1. CASE EnterStore(t) BY <1>1 DEF EnterStore
<1>2. CASE Get(t)
  <2>1. PICK c \in pool : held' = [held EXCEPT ![t] = c] /\ pool' = pool \ {c}
    BY <1>2 DEF Get
  <2>2. UNCHANGED <<live, closed>> /\ inStore' = [inStore EXCEPT ![t] = "using"]
    BY <1>2 DEF Get
  <2>3. PoolTypeOK' /\ Afloat' BY <2>1, <2>2
  <2>4. HeldExclusively' BY <2>1, <2>2
  <2>5. NoneIsLost' BY <1>2, <2>1, <2>2 DEF Get
  <2> QED BY <2>3, <2>4, <2>5
<1>3. CASE TimeOut(t) BY <1>3 DEF TimeOut
<1>4. CASE CheckAgain(t) BY <1>4 DEF CheckAgain, AfterTimeOut
<1>5. CASE DropOrphan(t) BY <1>5 DEF DropOrphan
<1>6. CASE SeeOpen(t) BY <1>6 DEF SeeOpen
<1>7. CASE Put(t) BY <1>7 DEF Put, Returned
<1>8. CASE MarkClosed(t) BY <1>8 DEF MarkClosed
<1>9. CASE Drain(t)
  <2>1. PICK c \in pool : live' = live \ {c} /\ pool' = pool \ {c}
    BY <1>9 DEF Drain, Drainable
  <2> QED BY <1>9, <2>1 DEF Drain
<1>10. CASE EndDrain(t) BY <1>10 DEF EndDrain
<1>11. CASE CloseStore(t) BY <1>11 DEF CloseStore
<1> QED
  BY <1>1, <1>2, <1>3, <1>4, <1>5, <1>6, <1>7, <1>8, <1>9, <1>10, <1>11 DEF PoolStep, UseStore

-----------------------------------------------------------------------------
(* The sources whose attempt a thread has begun and not ended.             *)
Trying(t) ==
  (IF inner[t] \/ inSource[t] \in {"build", "load", "borrow"} THEN {asked[t]} ELSE {})
  \cup (IF inner[t] /\ inSource[t] \in {"build", "load"} THEN {Lender[asked[t]]} ELSE {})

(* Only a borrower is inside a lender's build, and only a source without a *)
(* lender builds, into an index of its own.                                *)
Places ==
  \A t \in Thread :
    /\ inner[t] \/ inSource[t] = "borrow" => Lender[asked[t]] # None
    /\ inSource[t] \in {"build", "load"} => Lender[Here(t)] = None
    /\ inSource[t] = "load" => index[Here(t)] = NewIndex(t)

(* An attempt that has not built is under way, or its build has raised.    *)
Attempts ==
  /\ \A t \in Thread : \A s \in Trying(t) : attempted[s] /\ ~built[s]
  /\ \A s \in Source : attempted[s] /\ ~built[s] /\ Sound(s) =>
       \E t \in Thread : s \in Trying(t)

(* Unless the build raised: a built index is complete, a thread that looks *)
(* finds it built, and one that borrows finds the lender's built.          *)
Finished ==
  /\ \A s \in Source : index[s] # None => index[s][2] = Builder(s)
  /\ \A s \in Source : built[s] /\ Lender[s] = None /\ Sound(s) =>
       index[s] # None /\ words[index[s]] = Dict
  /\ \A t \in Thread : inSource[t] = "look" /\ Sound(asked[t]) => built[asked[t]]
  /\ \A t \in Thread : inSource[t] = "borrow" /\ Sound(asked[t]) => built[Lender[asked[t]]]

IndexInv == IndexTypeOK /\ Places /\ Attempts /\ Finished /\ OneIndex

(* Before the first query nothing is attempted or built.                   *)
LEMMA IndexStarts == IndexInit => IndexInv
<1> USE CallersAssumption, LazyIndexAssumption
    DEF IndexInit, AtAll, NothingAsked, NotInner, AllOut
<1> SUFFICES ASSUME IndexInit PROVE IndexInv OBVIOUS
<1>1. IndexTypeOK BY DEF IndexTypeOK, LocksOf, Building, Index
<1>2. Places /\ Attempts BY DEF Places, Attempts, Trying
<1>3. Finished /\ OneIndex BY DEF Finished, OneIndex
<1> QED BY <1>1, <1>2, <1>3 DEF IndexInv

(* A thread at a source is at one of its own, whose lock it has if it is   *)
(* in the with block; what it tries is under its locks.                    *)
LEMMA AtItsSource ==
  ASSUME IndexInv, NEW t \in Thread, inSource[t] # "out"
  PROVE  /\ asked[t] \in Source /\ Here(t) \in Source
         /\ Builder(Here(t)) = Builder(asked[t])
         /\ inSource[t] \in Building => lock[Here(t)] = t
         /\ Trying(t) \subseteq LocksOf(t) /\ LocksOf(t) \subseteq {asked[t], Here(t)}
BY CallersAssumption, LazyIndexAssumption
   DEF IndexInv, IndexTypeOK, Places, Here, LocksOf, Trying, Building, Builder

(* Two threads never try the same source.                                  *)
LEMMA Apart ==
  ASSUME IndexInv, NEW t \in Thread, NEW u \in Thread, u # t PROVE LocksOf(t) \cap LocksOf(u) = {}
BY CallersAssumption, LazyIndexAssumption
   DEF IndexInv, IndexTypeOK, Places, LocksOf, Building

(* What a thread tries is under its locks.                                 *)
LEMMA TriedUnderLock ==
  ASSUME IndexInv, NEW t \in Thread PROVE Trying(t) \subseteq LocksOf(t)
BY CallersAssumption, LazyIndexAssumption
   DEF IndexInv, IndexTypeOK, LocksOf, Trying, Building

(* What a step of one thread at the sources leaves alone.                  *)
Others(t) ==
  \A u \in Thread \ {t} : /\ inner'[u] = inner[u] /\ inSource'[u] = inSource[u]
                         /\ asked'[u] = asked[u]

(* A thread that finds a lock free and nothing to do finds the source built, *)
(* or its build has raised: whoever tries it would have the lock.          *)
LEMMA IndexNothingToDo ==
  ASSUME IndexInv, NEW t \in Thread, NothingToDo(t), UNCHANGED survivor PROVE IndexInv'
<1> USE CallersAssumption, LazyIndexAssumption
    DEF NothingToDo, Becomes, Unlock, Return, Reach, Leave
<1>0. asked[t] \in Source /\ Here(t) \in Source /\ Builder(Here(t)) = Builder(asked[t])
  BY AtItsSource
<1>6. Others(t) BY <1>0 DEF Others, IndexInv, IndexTypeOK
<1>7. Sound(asked[t]) => built[Here(t)]
  <2> SUFFICES ASSUME Sound(asked[t]), ~built[Here(t)] PROVE FALSE OBVIOUS
  <2>1. attempted[Here(t)] /\ Sound(Here(t)) BY <1>0 DEF Sound
  <2>2. PICK u \in Thread : Here(t) \in Trying(u)
    BY <1>0, <2>1 DEF IndexInv, Attempts
  <2>3. Here(t) \in LocksOf(u) BY <2>2, TriedUnderLock
  <2>4. lock[Here(t)] = u /\ lock[Here(t)] = t
    BY <1>0, <2>3, AtItsSource DEF IndexInv, IndexTypeOK, Building
  <2> QED BY <1>0, <2>2, <2>4 DEF IndexInv, Places, Trying, Here
<1>1. IndexTypeOK'
  BY <1>0 DEF IndexInv, IndexTypeOK, Places, Here, LocksOf, Building, Index, NewIndex, Forked
<1>2. Places'
  <2> SUFFICES ASSUME NEW u \in Thread
               PROVE  /\ (inner[u] \/ inSource[u] = "borrow" => Lender[asked[u]] # None)'
                      /\ (inSource[u] \in {"build", "load"} => Lender[Here(u)] = None)'
                      /\ (inSource[u] = "load" => index[Here(u)] = NewIndex(u))'
    BY DEF Places
  <2>1. CASE u # t
    BY <1>6, <2>1 DEF Others, IndexInv, Places, Here, NewIndex, Forked
  <2>2. CASE u = t
    BY <1>0, <2>2 DEF IndexInv, IndexTypeOK, Places
  <2> QED BY <2>1, <2>2
<1>3. Attempts'
  BY <1>0, AtItsSource, Apart
  DEF IndexInv, IndexTypeOK, Places, Attempts, Here, Trying, Sound, Builder
<1>4. Finished'
  <2>1. \A u \in Thread : inSource'[u] = "look" /\ Sound(asked[u]) => built[asked[u]]
    BY <1>0, <1>7 DEF IndexInv, IndexTypeOK, Finished, Here
  <2>2. \A u \in Thread : inSource'[u] = "borrow" /\ Sound(asked[u]) => built[Lender[asked[u]]]
    BY <1>0, <1>7 DEF IndexInv, IndexTypeOK, Finished, Here
  <2> QED BY <2>1, <2>2 DEF IndexInv, Finished, Sound
<1>5. OneIndex'
  BY <1>0, AtItsSource DEF IndexInv, IndexTypeOK, OneIndex, Places, Here, Sound, Builder
<1> QED BY <1>1, <1>2, <1>3, <1>4, <1>5 DEF IndexInv

(* The first thread in begins the attempt, and has the lock.               *)
LEMMA IndexAttempt ==
  ASSUME IndexInv, NEW t \in Thread, Attempt(t), UNCHANGED survivor PROVE IndexInv'
<1> USE CallersAssumption, LazyIndexAssumption
<1>0. asked[t] \in Source /\ Here(t) \in Source /\ lock[Here(t)] = t
  BY AtItsSource DEF Attempt, Building
<1>1. /\ inSource[t] = "locked" /\ ~built[Here(t)] /\ ~attempted[Here(t)]
      /\ attempted' = [attempted EXCEPT ![Here(t)] = TRUE]
      /\ UNCHANGED <<lock, built, index, words, failed, asked, survivor>>
  BY DEF Attempt, FlagAtStart, Becomes
<1>2. CASE Lender[Here(t)] # None
  <2>1. /\ ~inner[t] /\ Here(t) = asked[t]
        /\ inner' = [inner EXCEPT ![t] = TRUE] /\ inSource' = [inSource EXCEPT ![t] = "check"]
    BY <1>0, <1>2 DEF IndexInv, IndexTypeOK, Places, Here, Attempt, Lends, Reach
  <2>2. IndexTypeOK'
    BY <1>0, <1>1, <2>1 DEF IndexInv, IndexTypeOK, LocksOf, Building
  <2>3. Places'
    BY <1>0, <1>1, <1>2, <2>1 DEF IndexInv, IndexTypeOK, Places, Here, NewIndex, Forked
  <2>4. Attempts'
    <3>1. Trying(t)' = {asked[t]} BY <1>0, <1>1, <2>1 DEF IndexInv, IndexTypeOK, Trying
    <3> QED BY <1>0, <1>1, <2>1, <3>1 DEF IndexInv, IndexTypeOK, Attempts, Trying, Sound
  <2>5. Finished' /\ OneIndex'
    BY <1>0, <1>1, <2>1 DEF IndexInv, IndexTypeOK, Finished, OneIndex, Sound
  <2> QED BY <2>2, <2>3, <2>4, <2>5 DEF IndexInv
<1>3. CASE Lender[Here(t)] = None
  <2>1. UNCHANGED inner /\ inSource' = [inSource EXCEPT ![t] = "build"]
    BY <1>3 DEF Attempt, Lends, Reach
  <2>2. IndexTypeOK'
    BY <1>0, <1>1, <2>1 DEF IndexInv, IndexTypeOK, LocksOf, Building
  <2>3. Places'
    BY <1>0, <1>1, <1>3, <2>1 DEF IndexInv, IndexTypeOK, Places, Here, NewIndex, Forked
  <2>4. Attempts'
    BY <1>0, <1>1, <2>1 DEF IndexInv, IndexTypeOK, Attempts, Trying, Sound, Here
  <2>5. Finished' /\ OneIndex'
    BY <1>0, <1>1, <2>1 DEF IndexInv, IndexTypeOK, Finished, OneIndex, Sound
  <2> QED BY <2>2, <2>3, <2>4, <2>5 DEF IndexInv
<1> QED BY <1>2, <1>3

(* A new index object belongs to nobody yet: no built source refers to it. *)
LEMMA IndexStartIndex ==
  ASSUME IndexInv, NEW t \in Thread, StartIndex(t), UNCHANGED survivor PROVE IndexInv'
<1> USE CallersAssumption, LazyIndexAssumption
<1>0. asked[t] \in Source /\ Here(t) \in Source /\ Lender[Here(t)] = None
  BY AtItsSource DEF StartIndex, IndexInv, Places
<1>1. /\ inSource[t] = "build" /\ inSource' = [inSource EXCEPT ![t] = "load"]
      /\ index' = [index EXCEPT ![Here(t)] = NewIndex(t)]
      /\ UNCHANGED <<lock, attempted, built, failed, asked, inner, survivor>>
  BY DEF StartIndex, Becomes, Reach
<1>2. PICK D \in {{}, Dict} : words' = [words EXCEPT ![NewIndex(t)] = D]
  BY DEF StartIndex, Fill
<1>3. NewIndex(t) \in Index /\ NewIndex(t)[2] = Here(t) BY <1>0 DEF NewIndex, Index, Forked
<1>4. ~built[Here(t)]
  BY <1>0, <1>1 DEF IndexInv, Attempts, Trying, Here
<1>5. IndexTypeOK'
  BY <1>0, <1>1, <1>2, <1>3 DEF IndexInv, IndexTypeOK, LocksOf, Building
<1>6. Places'
  BY <1>0, <1>1, AtItsSource DEF IndexInv, IndexTypeOK, Places, Here, NewIndex, Forked
<1>7. Attempts'
  BY <1>0, <1>1 DEF IndexInv, IndexTypeOK, Attempts, Trying, Sound
<1>8. \A s \in Source : built[s] /\ Sound(s) /\ index[s] # None => index[s] # NewIndex(t)
  BY <1>0, <1>3, <1>4 DEF IndexInv, Finished, OneIndex, Builder
<1>9. OneIndex'
  BY <1>0, <1>1, <1>4 DEF IndexInv, IndexTypeOK, OneIndex, Sound
<1>10. Finished'
  BY <1>0, <1>1, <1>2, <1>3, <1>4, <1>8 DEF IndexInv, IndexTypeOK, Finished, Sound, Builder
<1> QED BY <1>5, <1>6, <1>7, <1>9, <1>10 DEF IndexInv

(* Words are only added to an index that no built source refers to.        *)
LEMMA IndexLoadDictionary ==
  ASSUME IndexInv, NEW t \in Thread, LoadDictionary(t), UNCHANGED survivor PROVE IndexInv'
<1> USE CallersAssumption, LazyIndexAssumption
<1>0. asked[t] \in Source /\ Here(t) \in Source
  BY AtItsSource DEF LoadDictionary
<1>1. inSource[t] = "load"
      /\ UNCHANGED <<lock, attempted, built, index, failed, asked, inner, inSource, survivor>>
  BY DEF LoadDictionary
<1>2. PICK d \in Dict :
        words' = [words EXCEPT ![NewIndex(t)] = words[NewIndex(t)] \cup {d}]
  BY DEF LoadDictionary, Fill
<1>3. NewIndex(t) \in Index /\ NewIndex(t)[2] = Here(t) BY <1>0 DEF NewIndex, Index, Forked
<1>4. ~built[Here(t)] /\ Lender[Here(t)] = None
  BY <1>0, <1>1 DEF IndexInv, Attempts, Places, Trying, Here
<1>5. IndexTypeOK'
  BY <1>1, <1>2, <1>3 DEF IndexInv, IndexTypeOK, LocksOf, Building
<1>6. Places' /\ Attempts' /\ OneIndex'
  BY <1>1 DEF IndexInv, Places, Here, NewIndex, Forked, Attempts, Trying, OneIndex, Sound
<1>7. \A s \in Source : built[s] /\ Sound(s) /\ index[s] # None => index[s] # NewIndex(t)
  BY <1>0, <1>3, <1>4 DEF IndexInv, Finished, OneIndex, Builder
<1>8. Finished'
  BY <1>0, <1>1, <1>2, <1>3, <1>7 DEF IndexInv, IndexTypeOK, Finished, Sound
<1> QED BY <1>5, <1>6, <1>8 DEF IndexInv

(* The index is complete when its source becomes built.                    *)
LEMMA IndexEndBuild ==
  ASSUME IndexInv, NEW t \in Thread, EndBuild(t), UNCHANGED survivor PROVE IndexInv'
<1> USE CallersAssumption, LazyIndexAssumption
<1> DEFINE h == Here(t)
<1>0. asked[t] \in Source /\ h \in Source /\ Lender[h] = None /\ index[h] = NewIndex(t)
  BY AtItsSource DEF EndBuild, IndexInv, Places
<1>1. /\ inSource[t] = "load" /\ words[NewIndex(t)] = Dict
      /\ built' = [built EXCEPT ![h] = TRUE] /\ lock' = [lock EXCEPT ![h] = None]
      /\ inSource' = [inSource EXCEPT ![t] = IF inner[t] THEN "borrow" ELSE "look"]
      /\ inner' = [inner EXCEPT ![t] = FALSE]
      /\ UNCHANGED <<attempted, index, words, failed, asked, survivor>>
  BY DEF EndBuild, Becomes, Unlock, Return, Reach
<1>2. IndexTypeOK'
  BY <1>0, <1>1 DEF IndexInv, IndexTypeOK, Places, Here, LocksOf, Building
<1>3. Places'
  BY <1>0, <1>1 DEF IndexInv, IndexTypeOK, Places, Here, NewIndex, Forked
<1>4. \A u \in Thread : Trying(u)' = Trying(u) \ {h}
  <2>1. Trying(t)' = Trying(t) \ {h}
    BY <1>0, <1>1 DEF IndexInv, IndexTypeOK, Places, Trying, Here
  <2>2. ASSUME NEW u \in Thread, u # t PROVE Trying(u)' = Trying(u) \ {h}
    <3>1. h \in LocksOf(t) BY <1>0, <1>1 DEF LocksOf, Building, Here
    <3>2. h \notin Trying(u) BY <2>2, <3>1, TriedUnderLock, Apart
    <3> QED BY <1>1, <2>2, <3>2 DEF Trying, IndexInv, IndexTypeOK
  <2> QED BY <2>1, <2>2
<1>5. Attempts'
  BY <1>0, <1>1, <1>4 DEF IndexInv, IndexTypeOK, Attempts, Sound
<1>6. NewIndex(t) # None
  <2>1. NewIndex(t) \in Index BY <1>0 DEF Index, NewIndex, Forked
  <2> QED BY <2>1
<1>7. OneIndex'
  BY <1>0, <1>1 DEF IndexInv, IndexTypeOK, OneIndex, Sound
<1>8. Finished'
  BY <1>0, <1>1, <1>6 DEF IndexInv, IndexTypeOK, Finished, Sound, Here
<1> QED BY <1>2, <1>3, <1>5, <1>7, <1>8 DEF IndexInv

(* The lender is built when its index is borrowed, or its build has raised. *)
LEMMA IndexBorrow ==
  ASSUME IndexInv, NEW t \in Thread, Borrow(t), UNCHANGED survivor PROVE IndexInv'
<1> USE CallersAssumption, LazyIndexAssumption
<1> DEFINE a == asked[t]
<1>0. /\ a \in Source /\ ~inner[t] /\ Here(t) = a
      /\ Lender[a] # None /\ Lender[a] \in Source /\ Lender[a] # a
  BY AtItsSource DEF Borrow, IndexInv, IndexTypeOK, Places, Building, Here
<1>1. /\ inSource[t] = "borrow"
      /\ index' = [index EXCEPT ![a] = index[Lender[a]]]
      /\ built' = [built EXCEPT ![a] = TRUE] /\ lock' = [lock EXCEPT ![a] = None]
      /\ inSource' = [inSource EXCEPT ![t] = "look"]
      /\ UNCHANGED <<attempted, words, failed, asked, inner, survivor>>
  BY <1>0 DEF Borrow, Becomes, Unlock, Reach
<1>2. IndexTypeOK'
  BY <1>0, <1>1 DEF IndexInv, IndexTypeOK, LocksOf, Building
<1>3. \A u \in Thread : inSource[u] = "load" => Here(u) # a
  BY <1>0 DEF IndexInv, Places
<1>4. Places'
  BY <1>0, <1>1, <1>3 DEF IndexInv, IndexTypeOK, Places, Here, NewIndex, Forked
<1>5. \A u \in Thread : Trying(u)' = Trying(u) \ {a}
  <2>1. Trying(t)' = Trying(t) \ {a}
    BY <1>0, <1>1 DEF IndexInv, IndexTypeOK, Trying
  <2>2. ASSUME NEW u \in Thread, u # t PROVE Trying(u)' = Trying(u) \ {a}
    <3>1. a \in LocksOf(t) BY <1>0, <1>1 DEF LocksOf
    <3>2. a \notin Trying(u) BY <2>2, <3>1, TriedUnderLock, Apart
    <3> QED BY <1>1, <2>2, <3>2 DEF Trying, IndexInv, IndexTypeOK
  <2> QED BY <2>1, <2>2
<1>6. Attempts'
  BY <1>0, <1>1, <1>5 DEF IndexInv, IndexTypeOK, Attempts, Sound
<1>7. OneIndex'
  BY <1>0, <1>1 DEF IndexInv, IndexTypeOK, OneIndex, Sound, Finished
<1>8. Finished'
  BY <1>0, <1>1 DEF IndexInv, IndexTypeOK, Finished, Sound, Builder
<1> QED BY <1>2, <1>4, <1>6, <1>7, <1>8 DEF IndexInv

(* Not built yet: on to the lock.                                          *)
LEMMA IndexSeeUnbuilt ==
  ASSUME IndexInv, NEW t \in Thread, SeeUnbuilt(t), UNCHANGED survivor PROVE IndexInv'
<1> USE CallersAssumption, LazyIndexAssumption DEF SeeUnbuilt, Becomes, Unlock, Return, Reach, Leave
<1>0. asked[t] \in Source /\ Here(t) \in Source /\ Builder(Here(t)) = Builder(asked[t])
  BY AtItsSource
<1>1. IndexTypeOK'
  BY <1>0 DEF IndexInv, IndexTypeOK, Places, Here, LocksOf, Building, Index, NewIndex, Forked
<1>2. Places' BY <1>0 DEF IndexInv, IndexTypeOK, Places, Here, NewIndex, Forked
<1>3. Attempts'
  BY <1>0, AtItsSource, Apart
  DEF IndexInv, IndexTypeOK, Places, Attempts, Here, Trying, Sound, Builder
<1>4. Finished'
  BY <1>0, AtItsSource, Apart
  DEF IndexInv, IndexTypeOK, Places, Finished, Here, Sound, Builder, Index, NewIndex
<1>5. OneIndex'
  BY <1>0, AtItsSource DEF IndexInv, IndexTypeOK, OneIndex, Places, Here, Sound, Builder
<1> QED BY <1>1, <1>2, <1>3, <1>4, <1>5 DEF IndexInv

(* The lock is taken by one thread.                                        *)
LEMMA IndexTakeBuildLock ==
  ASSUME IndexInv, NEW t \in Thread, TakeBuildLock(t), UNCHANGED survivor PROVE IndexInv'
<1> USE CallersAssumption, LazyIndexAssumption
    DEF TakeBuildLock, Becomes, Unlock, Return, Reach, Leave
<1>0. asked[t] \in Source /\ Here(t) \in Source /\ Builder(Here(t)) = Builder(asked[t])
  BY AtItsSource
<1>1. IndexTypeOK'
  BY <1>0 DEF IndexInv, IndexTypeOK, Places, Here, LocksOf, Building, Index, NewIndex, Forked
<1>2. Places' BY <1>0 DEF IndexInv, IndexTypeOK, Places, Here, NewIndex, Forked
<1>3. Attempts'
  BY <1>0, AtItsSource, Apart
  DEF IndexInv, IndexTypeOK, Places, Attempts, Here, Trying, Sound, Builder
<1>4. Finished'
  BY <1>0, AtItsSource, Apart
  DEF IndexInv, IndexTypeOK, Places, Finished, Here, Sound, Builder, Index, NewIndex
<1>5. OneIndex'
  BY <1>0, AtItsSource DEF IndexInv, IndexTypeOK, OneIndex, Places, Here, Sound, Builder
<1> QED BY <1>1, <1>2, <1>3, <1>4, <1>5 DEF IndexInv

(* The lock-free path is taken only for a built source.                    *)
LEMMA IndexSeeBuilt ==
  ASSUME IndexInv, NEW t \in Thread, SeeBuilt(t), UNCHANGED survivor PROVE IndexInv'
<1> USE CallersAssumption, LazyIndexAssumption DEF SeeBuilt, Becomes, Unlock, Return, Reach, Leave
<1>0. asked[t] \in Source /\ Here(t) \in Source /\ Builder(Here(t)) = Builder(asked[t])
  BY AtItsSource
<1>1. IndexTypeOK'
  BY <1>0 DEF IndexInv, IndexTypeOK, Places, Here, LocksOf, Building, Index, NewIndex, Forked
<1>2. Places' BY <1>0 DEF IndexInv, IndexTypeOK, Places, Here, NewIndex, Forked
<1>3. Attempts'
  BY <1>0, AtItsSource, Apart
  DEF IndexInv, IndexTypeOK, Places, Attempts, Here, Trying, Sound, Builder
<1>4. Finished'
  BY <1>0, AtItsSource, Apart
  DEF IndexInv, IndexTypeOK, Places, Finished, Here, Sound, Builder, Index, NewIndex
<1>5. OneIndex'
  BY <1>0, AtItsSource DEF IndexInv, IndexTypeOK, OneIndex, Places, Here, Sound, Builder
<1> QED BY <1>1, <1>2, <1>3, <1>4, <1>5 DEF IndexInv

(* A build that raises is recorded, and the locks are free again.          *)
LEMMA IndexBuildRaises ==
  ASSUME IndexInv, NEW t \in Thread, BuildRaises(t), UNCHANGED survivor PROVE IndexInv'
<1> USE CallersAssumption, LazyIndexAssumption
    DEF BuildRaises, Becomes, Unlock, Return, Reach, Leave
<1>0. asked[t] \in Source /\ Here(t) \in Source /\ Builder(Here(t)) = Builder(asked[t])
  BY AtItsSource
<1>1. IndexTypeOK'
  BY <1>0 DEF IndexInv, IndexTypeOK, Places, Here, LocksOf, Building, Index, NewIndex, Forked
<1>2. Places' BY <1>0 DEF IndexInv, IndexTypeOK, Places, Here, NewIndex, Forked
<1>3. Attempts'
  BY <1>0, AtItsSource, Apart
  DEF IndexInv, IndexTypeOK, Places, Attempts, Here, Trying, Sound, Builder
<1>4. Finished'
  BY <1>0, AtItsSource, Apart
  DEF IndexInv, IndexTypeOK, Places, Finished, Here, Sound, Builder, Index, NewIndex
<1>5. OneIndex'
  BY <1>0, AtItsSource DEF IndexInv, IndexTypeOK, OneIndex, Places, Here, Sound, Builder
<1> QED BY <1>1, <1>2, <1>3, <1>4, <1>5 DEF IndexInv

(* A lookup changes nothing.                                               *)
LEMMA IndexLookUp ==
  ASSUME IndexInv, NEW t \in Thread, LookUp(t), UNCHANGED survivor PROVE IndexInv'
<1> USE CallersAssumption, LazyIndexAssumption DEF LookUp, Becomes, Unlock, Return, Reach, Leave
<1>0. asked[t] \in Source /\ Here(t) \in Source /\ Builder(Here(t)) = Builder(asked[t])
  BY AtItsSource
<1>1. IndexTypeOK'
  BY <1>0 DEF IndexInv, IndexTypeOK, Places, Here, LocksOf, Building, Index, NewIndex, Forked
<1>2. Places'
  <2>1. ~inner[t] BY DEF IndexInv, IndexTypeOK, Building
  <2> QED BY <1>0, <2>1 DEF IndexInv, IndexTypeOK, Places, Here, NewIndex, Forked
<1>3. Attempts'
  BY <1>0 DEF IndexInv, IndexTypeOK, Attempts, Trying, Sound, Building
<1>4. Finished'
  BY <1>0, AtItsSource, Apart
  DEF IndexInv, IndexTypeOK, Places, Finished, Here, Sound, Builder, Index, NewIndex
<1>5. OneIndex'
  BY <1>0, AtItsSource DEF IndexInv, IndexTypeOK, OneIndex, Places, Here, Sound, Builder
<1> QED BY <1>1, <1>2, <1>3, <1>4, <1>5 DEF IndexInv

(* A query or a warm-up turns to a source.                                 *)
LEMMA IndexConsult ==
  ASSUME IndexInv, NEW t \in Thread, NEW s \in Source, Consult(t, s), UNCHANGED survivor
  PROVE  IndexInv'
<1> USE CallersAssumption, LazyIndexAssumption
<1>1. /\ inSource[t] = "out" /\ ~inner[t]
      /\ inSource' = [inSource EXCEPT ![t] = "check"] /\ asked' = [asked EXCEPT ![t] = s]
      /\ UNCHANGED <<lock, attempted, built, index, words, failed, inner, survivor>>
  BY DEF Consult, Reach, IndexInv, IndexTypeOK, Building
<1>2. IndexTypeOK' BY <1>1 DEF IndexInv, IndexTypeOK, LocksOf, Building
<1>3. Places' BY <1>1 DEF IndexInv, IndexTypeOK, Places, Here, NewIndex, Forked
<1>4. Attempts' BY <1>1 DEF IndexInv, IndexTypeOK, Attempts, Trying, Sound
<1>5. Finished' /\ OneIndex' BY <1>1 DEF IndexInv, IndexTypeOK, Finished, OneIndex, Sound
<1> QED BY <1>2, <1>3, <1>4, <1>5 DEF IndexInv

(* The child keeps what is built, with its index, and forgets the rest.    *)
LEMMA IndexForks ==
  ASSUME IndexInv, ForkIndex PROVE IndexInv'
<1> USE CallersAssumption, LazyIndexAssumption DEF AllOut
<1>1. /\ lock' = [s \in Source |-> None]
      /\ attempted' = [s \in Source |-> IF built[s] THEN attempted[s] ELSE FALSE]
      /\ index' = [s \in Source |-> IF built[s] THEN index[s] ELSE None]
      /\ asked' = [t \in Thread |-> None] /\ inner' = [t \in Thread |-> FALSE]
      /\ inSource' = AllOut /\ UNCHANGED <<built, words, failed>>
  BY DEF ForkIndex, FreshLocks, AtAll, IfBuilt, NothingAsked, NotInner
<1>2. IndexTypeOK'
  <2>1. \A t \in Thread : LocksOf(t)' = {} BY <1>1 DEF LocksOf, Building
  <2>2. \A s \in Source, t \in Thread : lock'[s] # t BY <1>1
  <2>3. /\ lock' \in [Source -> Thread \cup {None}] /\ attempted' \in [Source -> BOOLEAN]
        /\ built' \in [Source -> BOOLEAN] /\ index' \in [Source -> Index \cup {None}]
        /\ words' \in [Index -> SUBSET Dict] /\ failed' \in [Source -> BOOLEAN]
    BY <1>1 DEF IndexInv, IndexTypeOK
  <2> QED BY <1>1, <2>1, <2>2, <2>3 DEF IndexTypeOK
<1>3. Places' BY <1>1 DEF Places
<1>4. Attempts' BY <1>1 DEF IndexInv, IndexTypeOK, Attempts, Trying, Sound
<1>5. Finished' BY <1>1 DEF IndexInv, IndexTypeOK, Finished, Sound
<1>6. OneIndex' BY <1>1 DEF IndexInv, IndexTypeOK, OneIndex, Sound
<1> QED BY <1>2, <1>3, <1>4, <1>5, <1>6 DEF IndexInv

(* Every step of a thread at a source keeps the invariant of the indexes.  *)
LEMMA IndexMoves ==
  ASSUME IndexInv, NEW t \in Thread, UNCHANGED survivor,
         EnsureBuilt(t) \/ BuildRaises(t) \/ LookUp(t)
  PROVE  IndexInv'
BY IndexSeeBuilt, IndexSeeUnbuilt, IndexTakeBuildLock, IndexNothingToDo, IndexAttempt,
   IndexStartIndex, IndexLoadDictionary, IndexEndBuild, IndexBorrow, IndexBuildRaises,
   IndexLookUp
   DEF EnsureBuilt

-----------------------------------------------------------------------------
(* The resolver's own part of the types, and where its threads can be.     *)
CallTypes ==
  /\ survivor \in Thread \cup {None} /\ shut \in BOOLEAN
  /\ gap \in {"usual", "city"} /\ saved \in [Thread -> {"usual", "city"}]
  /\ pc \in [Thread -> {"idle", "query", "warm", "shut", "close", "swap",
                        "compare", "compare cities", "restore", "answer"}]
  /\ unwarmed \in [Thread -> SUBSET Source]

WorkBounded == work \in [Thread -> Nat] /\ \A t \in Thread : work[t] <= MaxWork[t]

Whereabouts ==
  /\ \A t \in Thread : inStore[t] # "out" => pc[t] \in {"query", "answer", "close"}
  /\ \A t \in Thread : inSource[t] # "out" => pc[t] \in {"query", "warm"}
  /\ \A t \in Thread : inStore[t] = "out" \/ inSource[t] = "out"

CallsOK == CallTypes /\ WorkBounded /\ Whereabouts

Inv == PoolInv /\ IndexInv /\ CallsOK

(* The pool does not depend on anything else.                              *)
LEMMA PoolStays == ASSUME PoolInv, UNCHANGED <<poolVars, survivor>> PROVE PoolInv'
BY DEF poolVars, PoolInv, PoolTypeOK, HeldExclusively, NoneIsLost, Afloat, Forked

(* Nor do the indexes.                                                     *)
LEMMA IndexStays == ASSUME IndexInv, UNCHANGED <<indexVars, survivor>> PROVE IndexInv'
BY DEF indexVars, IndexInv, IndexTypeOK, Places, Attempts, Finished, OneIndex, LocksOf, Trying,
       Here, NewIndex, Forked, Sound

(* A step inside the store or a source is one of a thread that is there.   *)
LEMMA StoreSteps ==
  ASSUME PoolTypeOK, NEW t \in Thread, PoolStep(t)
  PROVE  /\ UseStore(t) => inStore[t] # "out"
         /\ \A u \in Thread \ {t} : inStore'[u] = inStore[u]
BY DEF PoolTypeOK, PoolStep, EnterStore, CloseStore, UseStore, Get, TimeOut, CheckAgain,
       DropOrphan, SeeOpen, Put, MarkClosed, Drain, EndDrain, Move

(* The same for the sources; a build that raises leaves them.              *)
LEMMA SourceSteps ==
  ASSUME IndexTypeOK, NEW t \in Thread, EnsureBuilt(t) \/ BuildRaises(t) \/ LookUp(t)
  PROVE  /\ inSource[t] # "out" /\ \A u \in Thread \ {t} : inSource'[u] = inSource[u]
         /\ BuildRaises(t) => inSource'[t] = "out"
<1> USE DEF IndexTypeOK, Return, Reach, Leave
<1>1. CASE BuildRaises(t) BY <1>1 DEF BuildRaises
<1>2. CASE LookUp(t) BY <1>2 DEF LookUp, BuildRaises
<1>3. CASE SeeBuilt(t) \/ SeeUnbuilt(t) \/ TakeBuildLock(t) \/ NothingToDo(t)
  BY <1>3 DEF SeeBuilt, SeeUnbuilt, TakeBuildLock, NothingToDo, BuildRaises
<1>4. CASE Attempt(t) BY <1>4 DEF Attempt, BuildRaises
<1>5. CASE StartIndex(t) \/ LoadDictionary(t) \/ EndBuild(t) \/ Borrow(t)
  BY <1>5, <1>1 DEF StartIndex, LoadDictionary, EndBuild, Borrow
<1> QED BY <1>1, <1>2, <1>3, <1>4, <1>5 DEF EnsureBuilt

(* The invariant holds of a new resolver ...                               *)
LEMMA Starts == Init => Inv
<1> SUFFICES ASSUME Init PROVE Inv OBVIOUS
<1> USE DEF Init, AllIdle, NothingSaved, NothingToWarm
<1>1. PoolInv /\ IndexInv BY PoolStarts, IndexStarts
<1>2. CallTypes BY CallersAssumption DEF CallTypes
<1>3. WorkBounded BY SharedResolverAssumption DEF WorkBounded
<1>4. Whereabouts BY DEF Whereabouts, AllOut, PoolInit, IndexInit
<1> QED BY <1>1, <1>2, <1>3, <1>4 DEF Inv, CallsOK

(* ... every step keeps it ...                                             *)
LEMMA Keeps == Inv /\ [Next]_vars => Inv'
<1> SUFFICES ASSUME Inv, [Next]_vars PROVE Inv' OBVIOUS
<1> USE CallersAssumption, SharedResolverAssumption
<1>1. CASE UNCHANGED vars
  <2>1. UNCHANGED <<poolVars, indexVars, survivor>> BY <1>1 DEF vars
  <2>2. CallsOK' BY <1>1 DEF Inv, CallsOK, CallTypes, WorkBounded, Whereabouts, vars, poolVars,
                           indexVars, policyVars, callVars
  <2> QED BY <2>1, <2>2, PoolStays, IndexStays DEF Inv
<1>2. ASSUME NEW t \in Thread, Fork(t) PROVE Inv'
  <2>1. PoolInv' /\ IndexInv' BY <1>2, PoolForks, IndexForks DEF Fork, Inv
  <2>2. CallsOK'
    <3>1. CallTypes'
      BY <1>2 DEF Fork, Inv, CallsOK, CallTypes, AllIdle, NothingSaved, NothingToWarm
    <3>2. WorkBounded' BY <1>2 DEF Fork, Inv, CallsOK, WorkBounded
    <3>3. Whereabouts' BY <1>2 DEF Fork, ForkPool, ForkIndex, Whereabouts, AllOut
    <3> QED BY <3>1, <3>2, <3>3 DEF CallsOK
  <2> QED BY <2>1, <2>2 DEF Inv
<1>3. ASSUME NEW t \in Thread, Start(t) PROVE Inv'
  <2>1. UNCHANGED <<poolVars, indexVars, survivor>> BY <1>3 DEF Start, Resolve, Warm, Close
  <2>2. CallsOK'
    <3> USE <1>3 DEF Start, Resolve, Warm, Close, Begin, Count, Goto, Inv, CallsOK
    <3>1. CallTypes' BY DEF CallTypes, policyVars
    <3>2. WorkBounded' BY DEF WorkBounded
    <3>3. Whereabouts' BY DEF Whereabouts, poolVars, indexVars, CallTypes
    <3> QED BY <3>1, <3>2, <3>3 DEF CallsOK
  <2> QED BY <2>1, <2>2, PoolStays, IndexStays DEF Inv
<1>4. ASSUME NEW t \in Thread, Continue(t) PROVE Inv'
  <2> USE <1>4 DEF Goto, Doing, Reads, Between, Count
  <2>1. CASE StoreRefuses(t) \/ EndQuery(t) \/ EndWarm(t) \/ EndClose(t) \/ Shut(t)
    <3>1. UNCHANGED <<poolVars, indexVars, policyVars, callVars, survivor>>
      BY <2>1 DEF StoreRefuses, EndQuery, EndWarm, EndClose, Shut
    <3>2. CallsOK'
      BY <2>1 DEF StoreRefuses, EndQuery, EndWarm, EndClose, Shut, Inv, CallsOK, CallTypes,
                  WorkBounded, Whereabouts, poolVars, indexVars, policyVars, callVars
    <3> QED BY <3>1, <3>2, PoolStays, IndexStays DEF Inv
  <2>2. CASE Decide(t) \/ Swap(t) \/ Compare(t) \/ Restore(t)
    <3>1. UNCHANGED <<poolVars, indexVars, survivor>>
      BY <2>2 DEF Decide, Swap, Compare, Restore
    <3>2. CallsOK'
      BY <2>2 DEF Decide, Swap, Compare, Restore, Inv, CallsOK, CallTypes, WorkBounded,
                  Whereabouts, poolVars, indexVars, policyVars, callVars
    <3> QED BY <3>1, <3>2, PoolStays, IndexStays DEF Inv
  <2>3. CASE ReadStore(t) \/ InStore(t) \/ CloseItsStore(t)
    <3>1. /\ PoolStep(t) /\ UNCHANGED <<indexVars, policyVars, shut, pc, unwarmed, survivor>>
          /\ inStore[t] # "out" \/ (inSource[t] = "out" /\ pc[t] \in {"query", "answer", "close"})
      BY <2>3, StoreSteps
         DEF ReadStore, InStore, CloseItsStore, PoolStep, callVars, Inv, PoolInv
    <3>2. PoolInv' /\ IndexInv' BY <3>1, PoolMoves, IndexStays DEF Inv
    <3>3. WorkBounded'
      BY <2>3 DEF ReadStore, InStore, CloseItsStore, callVars, Inv, CallsOK, WorkBounded
    <3>4. \A u \in Thread \ {t} : inStore'[u] = inStore[u]
      BY <3>1, StoreSteps DEF Inv, PoolInv
    <3>5. CallTypes'
      BY <2>3, <3>1
         DEF ReadStore, InStore, CloseItsStore, callVars, Inv, CallsOK, CallTypes, policyVars
    <3>6. Whereabouts' BY <3>1, <3>4 DEF Inv, CallsOK, Whereabouts, indexVars
    <3> QED BY <3>2, <3>3, <3>5, <3>6 DEF Inv, CallsOK
  <2>4. CASE InSource(t) \/ QuerySource(t) \/ SourceRaises(t)
    <3>1. /\ EnsureBuilt(t) \/ BuildRaises(t) \/ LookUp(t)
          /\ UNCHANGED <<poolVars, policyVars, callVars, shut, survivor>>
          /\ UNCHANGED pc \/ (BuildRaises(t) /\ pc' = [pc EXCEPT ![t] = "idle"])
      BY <2>4 DEF InSource, QuerySource, SourceRaises
    <3>2. PoolInv' /\ IndexInv' BY <3>1, PoolStays, IndexMoves DEF Inv
    <3>3. CallTypes' /\ WorkBounded'
      BY <3>1 DEF Inv, CallsOK, CallTypes, WorkBounded, policyVars, callVars
    <3>4. /\ inSource[t] # "out" /\ \A u \in Thread \ {t} : inSource'[u] = inSource[u]
          /\ BuildRaises(t) => inSource'[t] = "out"
      BY <3>1, SourceSteps DEF Inv, IndexInv
    <3>5. Whereabouts' BY <3>1, <3>4 DEF Inv, CallsOK, CallTypes, Whereabouts, poolVars
    <3> QED BY <3>2, <3>3, <3>5 DEF Inv, CallsOK
  <2>5. CASE ConsultSource(t) \/ WarmSource(t)
    <3>1. PICK s \in Source : Consult(t, s)
      BY <2>5 DEF ConsultSource, WarmSource, Inv, CallsOK, CallTypes
    <3>2. UNCHANGED <<poolVars, policyVars, shut, pc, survivor>>
      BY <2>5 DEF ConsultSource, WarmSource
    <3>3. PoolInv' /\ IndexInv' BY <3>1, <3>2, PoolStays, IndexConsult DEF Inv
    <3>4. CallTypes'
      BY <2>5, <3>2 DEF ConsultSource, WarmSource, Inv, CallsOK, CallTypes, policyVars
    <3>8. WorkBounded' BY <2>5 DEF ConsultSource, WarmSource, Inv, CallsOK, WorkBounded
    <3>5. pc[t] \in {"query", "warm"} /\ inStore[t] = "out"
      BY <2>5 DEF ConsultSource, WarmSource
    <3>6. \A u \in Thread \ {t} : inSource'[u] = inSource[u]
      BY <3>1 DEF Consult, Reach, Inv, IndexInv, IndexTypeOK
    <3>7. Whereabouts' BY <3>2, <3>5, <3>6 DEF Inv, CallsOK, Whereabouts, poolVars
    <3> QED BY <3>3, <3>4, <3>7, <3>8 DEF Inv, CallsOK
  <2> QED BY <2>1, <2>2, <2>3, <2>4, <2>5 DEF Continue
<1> QED BY <1>1, <1>2, <1>3, <1>4 DEF Next, Step

(* ... so it always holds.                                                 *)
LEMMA Always == Spec => []Inv
BY Starts, Keeps, PTL DEF Spec

(* Types hold, every build lock is held by exactly the thread inside its   *)
(* with block, and a thread is in the store or at a source only in a call. *)
THEOREM Typing == Spec => []TypeOK
<1>1. Inv => TypeOK
  BY DEF Inv, PoolInv, IndexInv, CallsOK, CallTypes, WorkBounded, Whereabouts, TypeOK
<1> QED BY <1>1, Always, PTL

(* A connection that a thread has taken is open, out of the queue and not  *)
(* shared, also while close() drains the pool.                             *)
THEOREM Connections == Spec => []HeldExclusively
<1>1. Inv => HeldExclusively BY DEF Inv, PoolInv
<1> QED BY <1>1, Always, PTL

(* No connection is lost before close() or a fork.                         *)
THEOREM PoolConserved == Spec => []NoneIsLost
<1>1. Inv => NoneIsLost BY DEF Inv, PoolInv
<1> QED BY <1>1, Always, PTL

(* A source without a failed build is only ever used with all its words.   *)
THEOREM WholeIndexes == Spec => []LookupsAreWhole
<1>1. Inv => LookupsAreWhole
  <2> SUFFICES ASSUME Inv, NEW t \in Thread, inSource[t] = "look", Sound(asked[t])
               PROVE  index[asked[t]] # None /\ words[index[asked[t]]] = Dict
    BY DEF LookupsAreWhole
  <2> DEFINE a == asked[t]
  <2>1. a \in Source /\ built[a] BY DEF Inv, IndexInv, IndexTypeOK, Finished
  <2>2. CASE Lender[a] = None BY <2>1, <2>2 DEF Inv, IndexInv, Finished
  <2>3. CASE Lender[a] # None
    <3>1. built[Lender[a]] /\ index[a] = index[Lender[a]]
      BY <2>1, <2>3 DEF Inv, IndexInv, OneIndex
    <3>2. Lender[a] \in Source /\ Lender[Lender[a]] = None /\ Sound(Lender[a])
      BY <2>1, <2>3, LazyIndexAssumption DEF Sound, Builder
    <3> QED BY <3>1, <3>2 DEF Inv, IndexInv, Finished
  <2> QED BY <2>2, <2>3
<1> QED BY <1>1, Always, PTL

(* A source that borrows has its lender's index, before and after a fork.  *)
THEOREM SharedIndex == Spec => []OneIndex
<1>1. Inv => OneIndex BY DEF Inv, IndexInv
<1> QED BY <1>1, Always, PTL
=============================================================================
