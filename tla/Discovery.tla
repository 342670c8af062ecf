----------------------------- MODULE Discovery ------------------------------
(***************************************************************************)
(* Discovery of places at Data Commons for one build run: the walk from    *)
(* countries down the administrative levels, with a scan for cities under  *)
(* each level, into the run's inventory of ids to fetch; and the fetch of  *)
(* one request, DataCommons.fetch_place_children_for_parents: its parents  *)
(* are fetched in chunks by a pool of workers, a refused chunk is split, a *)
(* fetched one is cached on disk, and with_retries makes the whole call    *)
(* again when it raises.                                                   *)
(***************************************************************************)
EXTENDS Naturals, Sequences, FiniteSets, SequencesExt, FiniteSetsExt

CONSTANTS
  Kind,         \* place types
  Place,
  BatchSize,    \* parents of a chunk
  MaxWorkers,
  Retries,      \* of with_retries
  None

ASSUME PlaceFetchAssumption ==
  /\ BatchSize \in Nat \ {0} /\ MaxWorkers \in Nat \ {0} /\ Retries \in Nat
  /\ None \notin [kind : Kind, parents : Seq(Place)]

VARIABLES
  request,      \* [kind, parents], or None
  work,         \* chunk |-> [is, left]: its state and the pieces it has yet to ask for
  cached,       \* the chunks on disk: <<kind, set of parents>>
  tries         \* calls made by with_retries

fetchVars == <<request, work, cached, tries>>

Split(s, n) == [i \in 1 .. (Len(s) + n - 1) \div n |->
  SubSeq(s, (i - 1) * n + 1, IF i * n < Len(s) THEN i * n ELSE Len(s))]
Sorted(S) == [k \in 1 .. Cardinality(S) |-> CHOOSE i \in S : Cardinality({j \in S : j < i}) = k - 1]
Firsts(s) == {i \in DOMAIN s : \A j \in 1 .. i - 1 : s[j] # s[i]}
Unique(s) == [k \in DOMAIN Sorted(Firsts(s)) |-> s[Sorted(Firsts(s))[k]]]

ParentChunks == Split(Unique(request.parents), BatchSize)
Chunk == DOMAIN work
In(c, state) == work[c].is = state
Workers == IF MaxWorkers < Len(work) THEN MaxWorkers ELSE Len(work)
Pooled == Workers > 1
Over(c) == work[c].is \in {"ready", "failed", "taken"}

FetchTypeOK ==
  /\ request = None \/ (request.kind \in Kind /\ request.parents \in Seq(Place))
  /\ \A c \in Chunk :
       /\ work[c].is \in {"queued", "running", "ready", "failed", "taken"}
       /\ work[c].left \in Seq(Seq(Place))
  /\ cached \subseteq Kind \X SUBSET Place
  /\ tries \in 0 .. Retries + 1

FetchInit == request = None /\ work = <<>> /\ cached = {} /\ tries = 0

Queue(kind, parents) ==
  /\ request' = [kind |-> kind, parents |-> parents]
  /\ work' = [c \in 1 .. Len(Split(Unique(parents), BatchSize)) |-> [is |-> "queued", left |-> <<>>]]
  /\ tries' = 1 /\ UNCHANGED cached
\* Mutant: a call that is not counted.
Requeue_Uncounted ==
  /\ tries <= Retries
  /\ work' = [c \in Chunk |-> [is |-> "queued", left |-> <<>>]] /\ UNCHANGED <<request, cached, tries>>
Requeue ==
  /\ tries <= Retries /\ tries' = tries + 1
  /\ work' = [c \in Chunk |-> [is |-> "queued", left |-> <<>>]] /\ UNCHANGED <<request, cached>>
Idle == request' = None /\ work' = <<>> /\ tries' = 0 /\ UNCHANGED cached

Become(c, state, pieces) ==
  /\ work' = [work EXCEPT ![c] = [is |-> state, left |-> pieces]] /\ UNCHANGED <<request, tries>>
CacheKey(c) == <<request.kind, ToSet(ParentChunks[c])>>

\* Without a pool the caller asks for one chunk after the other.
Begin(c) ==
  /\ In(c, "queued")
  /\ Cardinality({d \in Chunk : In(d, "running")}) < Workers
  /\ Pooled \/ \A d \in Chunk : d < c => In(d, "taken")
  /\ IF CacheKey(c) \in cached THEN Become(c, "ready", <<>>)
     ELSE Become(c, "running", <<ParentChunks[c]>>)
  /\ UNCHANGED cached
Answer(c) ==
  /\ In(c, "running") /\ work[c].left # <<>> /\ Become(c, "running", Tail(work[c].left))
  /\ UNCHANGED cached
Refuse(c) ==
  /\ In(c, "running") /\ work[c].left # <<>>
  /\ LET piece == Head(work[c].left)
         half == Len(piece) \div 2 IN
     IF Len(piece) <= 1 THEN Become(c, "failed", <<>>)
     ELSE Become(c, "running",
       <<SubSeq(piece, 1, half), SubSeq(piece, half + 1, Len(piece))>> \o Tail(work[c].left))
  /\ UNCHANGED cached
Store(c) ==
  /\ In(c, "running") /\ work[c].left = <<>> /\ Become(c, "ready", <<>>)
  /\ cached' = cached \cup {CacheKey(c)}
StoreFails(c) ==
  /\ In(c, "running") /\ work[c].left = <<>> /\ Become(c, "failed", <<>>) /\ UNCHANGED cached

WorkerStep(c) == Begin(c) \/ Answer(c) \/ Refuse(c) \/ Store(c) \/ StoreFails(c)

\* An exception leaves the pool when its workers have finished.
Drained == Pooled => \A c \in Chunk : Over(c)

---------------------------------------------------------------------------
(***************************************************************************)
(* OrderedBatchEmitter and the inventory it feeds: results that arrive in  *)
(* any order are listed in the order of their batches, each id once, and   *)
(* written to the run's inventory in chunks.                               *)
(***************************************************************************)

CONSTANTS
  Below,        \* kind |-> place |-> its children of that kind
  ChunkSize     \* ids of an inventory chunk

ASSUME OrderedEmitterAssumption ==
  /\ ChunkSize \in Nat \ {0} /\ Place \subseteq Nat /\ IsFiniteSet(Place)
  /\ Below \in [Kind -> [Place -> SUBSET Place]]

VARIABLES
  pending,      \* batches recorded and not flushed
  next,         \* _next_batch_index
  ordered,      \* _ordered_ids
  seen,         \* seen_ids of the city and of the area scans
  buffer,       \* chunk_buffer
  inventory,    \* chunks written, in the order of their indexes
  listed        \* seen_ids of the inventory

emitterVars == <<pending, next, ordered, seen>>
inventoryVars == <<buffer, inventory, listed>>

EmitterTypeOK ==
  /\ pending \subseteq Nat \ {0} /\ next \in Nat \ {0} /\ ordered \in Seq(Place)
  /\ seen \in [{"cities", "areas"} -> SUBSET Place]
  /\ buffer \in Seq(Place) /\ inventory \in Seq(Seq(Place)) /\ listed \subseteq Place

EmitterInit ==
  /\ pending = {} /\ next = 1 /\ ordered = <<>> /\ seen = [s \in {"cities", "areas"} |-> {}]
  /\ buffer = <<>> /\ inventory = <<>> /\ listed = {}

ParentBatches == Split(request.parents, BatchSize)
Found(i, parents) ==
  UNION {Below[request.kind][p] : p \in ToSet(ParentBatches[i]) \cap parents}

Reset(scan, own) ==
  /\ pending' = {} /\ next' = 1 /\ ordered' = <<>>
  /\ seen' = IF own THEN [seen EXCEPT ![scan] = {}] ELSE seen

\* emit_entities, up to its flush: what is new of a sorted batch
List(S) ==
  /\ buffer' = buffer \o Sorted(S \ listed)
  /\ listed' = listed \cup S /\ UNCHANGED inventory

\* Mutant: whatever has arrived is flushed.
Flushable_Any(i) == i \in pending
Flushable(i) == i \in pending /\ i = next
FlushBatch(i, scan, parents, emits) ==
  LET new == Found(i, parents) \ seen[scan] IN
  /\ Flushable(i) /\ pending' = pending \ {i}
  /\ seen' = [seen EXCEPT ![scan] = @ \cup new] /\ ordered' = ordered \o Sorted(new)
  /\ UNCHANGED next
  /\ IF emits /\ new # {} THEN List(new) ELSE UNCHANGED inventoryVars
News == Len(buffer') > Len(buffer)
EndBatch == next' = next + 1 /\ UNCHANGED <<pending, ordered, seen>>

Cut == SubSeq(buffer, 1, IF ChunkSize < Len(buffer) THEN ChunkSize ELSE Len(buffer))
Rest == SubSeq(buffer, Len(Cut) + 1, Len(buffer))
Full == Len(buffer) >= ChunkSize
Write == buffer' = Rest /\ inventory' = Append(inventory, Cut) /\ UNCHANGED listed
Drop == buffer' = Rest /\ UNCHANGED <<inventory, listed>>
-----------------------------------------------------------------------------
(* The walk                                                                *)

CONSTANTS
  Countries,    \* as Data Commons lists them
  MaxLevel,
  AnyArea,      \* PLACE_TYPE_ADMINISTRATIVE_AREA
  LevelKind,    \* level |-> its place type, where there is one per level
  City,         \* the type of cities
  Requests      \* sets of units that a build may ask for

\* Data Commons lists a country once.
ASSUME DiscoveryAssumption ==
  /\ \A i, j \in DOMAIN Countries : Countries[i] = Countries[j] => i = j
  /\ Countries \in Seq(Place) /\ Countries # <<>> /\ MaxLevel \in Nat \ {0}
  /\ LevelKind \in [1 .. MaxLevel -> Kind \ {City}] /\ AnyArea \in Kind \ {City} /\ City \in Kind
  /\ Requests \subseteq SUBSET (0 .. MaxLevel + 1) \ {{}}

\* The units of coverage: countries, the administrative levels, cities.
Cities == MaxLevel + 1
Unit == 0 .. Cities

VARIABLES
  typed,        \* the instance has a place type per level
  callback,     \* its API reports each chunk as it is fetched
  wanted,       \* the units asked for
  seeds,        \* level (countries are 0) |-> ids the shared store has
  phase,        \* where the walk is
  level,
  frontier,
  scanned,      \* city_scanned_levels
  pc,           \* the walking thread: in the walk, or in one stream's call
  lost          \* history: a write to the inventory has failed

walkVars == <<phase, level, frontier, scanned>>
optionVars == <<typed, callback, wanted, seeds>>
vars == <<fetchVars, emitterVars, inventoryVars, walkVars, optionVars, pc, lost>>

Phase == {"roots", "country_cities", "seed", "seed_cities", "areas", "area_cities", "end"}
TypeOK ==
  /\ FetchTypeOK /\ EmitterTypeOK
  /\ typed \in BOOLEAN /\ callback \in BOOLEAN /\ wanted \subseteq Unit
  /\ phase \in Phase /\ level \in Nat /\ frontier \in Seq(Place)
  /\ scanned \subseteq Nat /\ lost \in BOOLEAN
  /\ pc \in {"walk", "fetch", "flush", "advance", "write", "list", "drain", "close", "done", "failed"}

-----------------------------------------------------------------------------
(* What there is to find                                                   *)
KindOf(t, n) == IF t THEN LevelKind[n] ELSE AnyArea
AreaKind(n) == KindOf(typed, n)
Children(kind, S) == UNION {Below[kind][p] : p \in S}
\* Level[n]: the areas n levels below the countries; a generic area counts at
\* the first level that reaches it.
Levels(t) ==
  LET L[n \in 0 .. MaxLevel + 1] ==
        IF n = 0 THEN ToSet(Countries)
        ELSE IF t /\ n > MaxLevel THEN {}
        ELSE Children(KindOf(t, n), L[n - 1]) \ (IF t THEN {} ELSE UNION {L[m] : m \in 1 .. n - 1})
  IN [n \in 0 .. MaxLevel + 1 |-> L[n] \cap Place]
Level == Levels(typed)
ThereIs(unit) ==
  IF unit = Cities THEN Children(City, UNION {Level[n] : n \in 0 .. MaxLevel + 1}) ELSE Level[unit]
Expected == UNION {ThereIs(u) : u \in wanted}

-----------------------------------------------------------------------------
(* The units that the shared store has already seed the walk: the levels   *)
(* that are ready from the countries down, those without a place left out. *)
SeedFrontier(ready) ==
  LET prefix == {n \in 0 .. MaxLevel : 0 .. n \subseteq ready} IN
  [n \in {m \in prefix : Level[m] # {}} |-> Sorted(Level[n])]

Init ==
  /\ FetchInit /\ EmitterInit /\ typed \in BOOLEAN /\ callback \in BOOLEAN
  /\ wanted \in Requests
  /\ \E ready \in SUBSET (Unit \ wanted) : seeds = SeedFrontier(ready)
  /\ phase = "roots" /\ level = 1 /\ frontier = <<>> /\ scanned = {}
  /\ pc = "walk" /\ lost = FALSE

WithCities == Cities \in wanted
WantedLevels == wanted \cap (1 .. MaxLevel)
\* max_admin_level: cities are looked for at every level
Deepest == IF WithCities THEN MaxLevel + 1 ELSE Max(WantedLevels \cup {0})
EnsureCountries == IF 0 \in DOMAIN seeds THEN seeds[0] ELSE Countries

At(p) == pc = "walk" /\ phase = p
Walk(p, n, f) == phase' = p /\ level' = n /\ frontier' = f
Keep == UNCHANGED <<optionVars, lost>>

(* stream_parent_children: nothing is asked for without parents.           *)
Stream(kind, parents, scan, own) ==
  /\ Reset(scan, own) /\ UNCHANGED inventoryVars
  /\ IF parents = <<>> THEN pc' = "walk" /\ UNCHANGED fetchVars
     ELSE pc' = "fetch" /\ Queue(kind, parents)

\* Countries are listed first, and nothing retries that.
Roots ==
  /\ At("roots") /\ UNCHANGED <<fetchVars, emitterVars, scanned>> /\ Keep
  /\ Walk(IF WithCities \/ WantedLevels # {} THEN "country_cities" ELSE "end", 1, <<>>)
  /\ IF 0 \in wanted THEN List(ToSet(EnsureCountries)) /\ pc' = "list"
     ELSE pc' = "walk" /\ UNCHANGED inventoryVars
CountryCities ==
  /\ At("country_cities") /\ Keep /\ Walk("seed", 1, <<>>)
  /\ IF WithCities THEN Stream(City, EnsureCountries, "cities", FALSE) /\ scanned' = {1}
     ELSE pc' = "walk" /\ UNCHANGED <<fetchVars, emitterVars, inventoryVars, scanned>>

\* Mutant: the walk starts again at the top.
StartLevel_Top == 1
StartLevel == level
\* The seeded levels that follow on each other are not asked for again.
Seed ==
  /\ At("seed") /\ level \in DOMAIN seeds /\ Walk("seed_cities", level + 1, seeds[level])
  /\ seen' = IF typed THEN seen ELSE [seen EXCEPT !["areas"] = @ \cup ToSet(seeds[level])]
  /\ UNCHANGED <<fetchVars, pending, next, ordered, inventoryVars, scanned, pc>> /\ Keep
SeedCities ==
  /\ At("seed_cities") /\ Keep /\ Walk("seed", level, frontier)
  /\ IF WithCities THEN Stream(City, frontier, "cities", FALSE) /\ scanned' = scanned \cup {level}
     ELSE pc' = "walk" /\ UNCHANGED <<fetchVars, emitterVars, inventoryVars, scanned>>
EndSeeds ==
  /\ At("seed") /\ level \notin DOMAIN seeds
  /\ Walk("areas", StartLevel, IF frontier = <<>> THEN EnsureCountries ELSE frontier)
  /\ UNCHANGED <<fetchVars, emitterVars, inventoryVars, scanned, pc>> /\ Keep

MoreLevels == level <= Deepest /\ (typed => level <= MaxLevel)
Areas ==
  /\ At("areas") /\ MoreLevels /\ Keep /\ UNCHANGED <<frontier, level, scanned>>
  /\ phase' = "area_cities" /\ Stream(AreaKind(level), frontier, "areas", typed)
EndAreas ==
  /\ At("areas") /\ ~MoreLevels /\ Walk("end", level, frontier) /\ Keep
  /\ UNCHANGED <<fetchVars, emitterVars, inventoryVars, scanned, pc>>
NoAreas ==
  /\ At("area_cities") /\ ordered = <<>> /\ Walk("end", level, frontier) /\ Keep
  /\ UNCHANGED <<fetchVars, emitterVars, inventoryVars, scanned, pc>>
AreaCities ==
  /\ At("area_cities") /\ ordered # <<>> /\ Keep /\ Walk("areas", level + 1, ordered)
  /\ UNCHANGED scanned
  /\ IF WithCities /\ level + 1 \notin scanned THEN Stream(City, ordered, "cities", FALSE)
     ELSE pc' = "walk" /\ UNCHANGED <<fetchVars, emitterVars, inventoryVars>>
End ==
  /\ At("end") /\ pc' = "close" /\ Keep
  /\ UNCHANGED <<fetchVars, emitterVars, inventoryVars, walkVars>>

-----------------------------------------------------------------------------
(* One stream's call                                                       *)
Scan == IF request.kind = City THEN "cities" ELSE "areas"
Emits == request.kind = City \/ level \in WantedLevels
AllTaken == \A c \in Chunk : In(c, "taken")
\* The parents whose children a batch's result holds
Reported(i) ==
  IF callback THEN (IF i \in DOMAIN ParentChunks THEN ToSet(ParentChunks[i]) ELSE {})
  ELSE ToSet(request.parents)
StayInWalk == UNCHANGED walkVars /\ Keep

\* Progress is saved before the flush, and saving may fail.
Take(c) ==
  /\ pc = "fetch" /\ In(c, "ready") /\ Become(c, "taken", <<>>) /\ StayInWalk
  /\ UNCHANGED <<cached, next, ordered, seen, inventoryVars>>
  /\ IF callback THEN pending' = pending \cup {c} /\ pc' \in {"flush", "drain"}
     ELSE UNCHANGED <<pending, pc>>
ChunkRaises(c) ==
  /\ pc = "fetch" /\ In(c, "failed") /\ pc' = "drain" /\ StayInWalk
  /\ UNCHANGED <<fetchVars, emitterVars, inventoryVars>>
Again ==
  /\ pc = "drain" /\ Drained /\ Requeue /\ pc' = "fetch" /\ StayInWalk
  /\ UNCHANGED <<emitterVars, inventoryVars>>
GiveUp ==
  /\ pc = "drain" /\ Drained /\ tries > Retries /\ pc' = "failed" /\ StayInWalk
  /\ UNCHANGED <<fetchVars, emitterVars, inventoryVars>>

\* Without the callback the batches are recorded after the call, outside its retries.
Inline == ~callback /\ next <= Len(ParentBatches)
RecordInline ==
  /\ pc = "fetch" /\ AllTaken /\ Inline /\ pending' = pending \cup {next}
  /\ pc' \in {"flush", "failed"} /\ StayInWalk
  /\ UNCHANGED <<fetchVars, next, ordered, seen, inventoryVars>>
StreamReturns ==
  /\ pc = "fetch" /\ AllTaken /\ ~Inline /\ pc' \in {"walk", "failed"} /\ StayInWalk
  /\ Idle /\ UNCHANGED <<emitterVars, inventoryVars>>

Flush(i) ==
  /\ pc = "flush" /\ FlushBatch(i, Scan, Reported(i), Emits) /\ StayInWalk
  /\ pc' = (IF News THEN "write" ELSE "advance") /\ UNCHANGED fetchVars
EndFlush ==
  /\ pc = "flush" /\ ~(\E i \in pending : Flushable(i)) /\ pc' = "fetch" /\ StayInWalk
  /\ UNCHANGED <<fetchVars, emitterVars, inventoryVars>>
Advance ==
  /\ pc = "advance" \/ (pc = "write" /\ ~Full)
  /\ EndBatch /\ pc' = "flush" /\ StayInWalk
  /\ UNCHANGED <<fetchVars, inventoryVars>>

-----------------------------------------------------------------------------
(* Writing the inventory: flush_chunks                                     *)
Writing == (pc \in {"write", "list"} /\ Full) \/ (pc = "close" /\ buffer # <<>>)
\* with_retries takes what raises in a callback for a failed fetch.
Raised == IF pc = "write" /\ callback THEN "drain" ELSE "failed"
WriteChunk ==
  /\ Writing /\ Write /\ pc' \in {pc, Raised} /\ UNCHANGED <<fetchVars, emitterVars>>
  /\ StayInWalk
WriteFails ==
  /\ Writing /\ Drop /\ pc' = Raised /\ lost' = TRUE
  /\ UNCHANGED <<fetchVars, emitterVars, walkVars, optionVars>>
Listed ==
  /\ pc = "list" /\ ~Full /\ pc' = "walk" /\ StayInWalk
  /\ UNCHANGED <<fetchVars, emitterVars, inventoryVars>>
Close ==
  /\ pc = "close" /\ buffer = <<>> /\ pc' = "done" /\ StayInWalk
  /\ UNCHANGED <<fetchVars, emitterVars, inventoryVars>>
ProgressRaises ==
  /\ pc = "walk" /\ pc' = "failed" /\ StayInWalk
  /\ UNCHANGED <<fetchVars, emitterVars, inventoryVars>>

Stopped == pc \in {"done", "failed"} /\ Drained
Ended == Stopped /\ UNCHANGED vars

-----------------------------------------------------------------------------
WalkStep ==
  \/ Roots \/ CountryCities \/ Seed \/ SeedCities \/ EndSeeds \/ Areas \/ EndAreas
  \/ NoAreas \/ AreaCities \/ End \/ Again \/ GiveUp \/ RecordInline \/ StreamReturns
  \/ EndFlush \/ Advance \/ WriteChunk \/ WriteFails \/ Listed \/ Close \/ ProgressRaises
  \/ \E c \in Chunk : Take(c) \/ ChunkRaises(c)
  \/ \E i \in pending : Flush(i)
PoolStep(c) ==
  /\ c \in Chunk /\ (Pooled \/ pc = "fetch") /\ WorkerStep(c)
  /\ UNCHANGED <<emitterVars, inventoryVars, walkVars, optionVars, pc, lost>>

Next == WalkStep \/ (\E c \in Chunk : PoolStep(c)) \/ Ended
Spec == Init /\ [][Next]_vars
FairSpec == Spec /\ WF_vars(Next)

-----------------------------------------------------------------------------
(* A walk that ends well without a failed write has put into the inventory *)
(* every place of the units it was asked for, whatever the pool's order,   *)
(* the splits, the calls made again, the cache and the levels the shared   *)
(* store seeded.                                                           *)
AllListed == UNION {ToSet(inventory[k]) : k \in DOMAIN inventory}
WalkIsComplete == pc = "done" /\ ~lost => AllListed = Expected

(* No place is in the inventory twice, within a chunk or in two chunks: a  *)
(* chunk listed again when its call is made again, or a city that several  *)
(* areas contain, would be fetched twice.                                  *)
ListedOnce == LET all == Append(inventory, buffer) IN
  \A k, l \in DOMAIN all : \A i \in DOMAIN all[k], j \in DOMAIN all[l] :
    all[k][i] = all[l][j] => k = l /\ i = j

(* Places are taken in the order of their parents' batches and sorted      *)
(* within a batch, whatever order the pool answers in.                     *)
FirstBatch(x) == CHOOSE i \in DOMAIN ParentBatches :
  x \in Found(i, Place) /\ \A j \in 1 .. i - 1 : x \notin Found(j, Place)
InBatchOrder == request # None => \A i, j \in DOMAIN ordered : i < j =>
  \/ FirstBatch(ordered[i]) < FirstBatch(ordered[j])
  \/ FirstBatch(ordered[i]) = FirstBatch(ordered[j]) /\ ordered[i] < ordered[j]

(* The walk ends, complete or failed.                                      *)
WalkEnds == <>(pc \in {"done", "failed"})

(* Violated: nothing that was found is left out of a walk that ends well.  *)
NothingIsLost == pc = "done" => AllListed = Expected
=============================================================================
