# resolvekit in TLA+

resolvekit turns messy place and organisation names into identifiers. The repository holds two
programs: a **builder**, which fetches entities from Data Commons and seed files and publishes
*data packs* (SQLite directories), and a **library**, which opens those packs and resolves text
against them. This directory models the parts of both whose correctness depends on the *order* of
things - crashes and resumes, concurrent builds, retries, threads, forks, deadlines, caches - and
the algorithms by which several pieces of evidence, packs, stores or rows become one answer. TLC
checks each model on a small instance; TLAPS proves the safety properties of eight of them for
every value of the constants.

All paths below are relative to `src/src/resolvekit/`.

## 1. Inventory

| component | state it keeps | operations | hard behaviour | where |
|---|---|---|---|---|
| Build run (`builder/api.py`, `state.py`, `pipeline/{core,chunk,discover,stages}.py`) | `state.sqlite` (tables stages, chunks, meta), raw and normalized files, staging databases, packs | `build`, `resume`, eleven stages, chunk retry rounds on a thread pool | crash between a write and its mark, retries with backoff, failing pool items, resume with other options | `BuildRun` |
| Shared geo store (`builder/geo_shared.py`, `pipeline/geo_staging.py`, `sqlite/export.py`) | `entities.sqlite` and `manifest.json`, shared by all runs; a refresh lock file | set source, claim, merge a unit, mark ready, copy a subset to a pack | two builds at once, stale claims, checks made outside the lock | `GeoStore` |
| Publishing (`pipeline/{packaging,qa,stages}.py`) | live, incoming and previous pack directories, the run's snapshots and work directory | snapshot, export, validate and compare, swap, roll back | crash between two renames; resume with another baseline | `PackPublish` |
| Default resolver (`_convenience.py`, `core/config.py`) | `_default`, `_lock`, `_config` per process | module functions, `configure`, `reset`, fork hook | lock-free fast path, unlocked configuration, fork with a held lock | `DefaultResolver` |
| Enrichment, reconcile (`pipeline/{enrich,contribution,reconcile}.py`, `oecd_dac.py`, ...) | names, codes and relations of staging and of the shared store | contribute, close the relations, rebuild the full-text index | writes computed before another run's merge; crash before the rebuild; passes repeated | `Enrichment`, `Enrichers` |
| Sources (`builder/sources/datacommons/**`) | request pools, disk cache, emitted chunks, a run's inventory | the administrative walk, fetch, retry | ordered output of concurrent requests, split and repeated requests | `Discovery` |
| Canonicalize, diff (`sqlite/*`) | rows of one staging database | SQL in one transaction | idempotence on resume | inserts in `BuildRun`, `Enrichers` |
| Release ledger, promotion (`registry.py`, `promote.py`) | `registry.json`, release directories | append, copy | read-modify-write | not modelled |
| SQLite store and pool (`core/store/sqlite.py`) | a queue of connections, `_closed` | borrow, return, close; the queries | close racing a borrow | `ConnectionPool`; queries in `Stores` |
| Store composition (`core/store/{composed_sqlite,composite,merging,store_view}.py`) | compose cache on disk | build once, open, fall back; layered answers | concurrent writers of one key; overlays over overlays | `ComposedCache`, `Stores`, `Library` |
| Packs on disk (`core/{remote,datapack,module_registry,overlay_loader}.py`, `core/api/loading/`) | download cache, registered and installed modules | is-cached test, download, clear; select, load, compose | two downloaders, a kill between files; what a selection opens | `DownloadCache`, `Library` |
| Bring your own data (`core/byod/*`, `core/api/_byod.py`, `core/linking/*`) | build cache | read a schema, link, mint, write, commit, clean up | two builders of one key; keys that leave something out | `ByodCache`, `OwnData`, `Library` |
| Lazy indexes (`shared/sources/symspell_base.py`, ...) | index, `_built`, `_build_attempted`, a lock, a pickle cache | warm, build, borrow, fork hook | half-built index, failed provider, fork | `LazyIndex` |
| Resolver front end (`core/api/*`) | `_closed`, an LRU of results | resolve, entity, within, members_of, suggest, bulk, close | threads on one resolver; which results may be cached; rows of a batch | `SharedResolver`, `Resolution`, `Bulk`, `Lookups`, `Suggestions` |
| Engine (`core/engine/*`) | none between queries, but for thresholds and caches | retrieve by tier, filter, score, decide, route, merge packs | early exits, deadlines, steps that raise | `PackRunner`, `Resolution`; the threshold in `SharedResolver` |
| Domain packs (`packs/{geo,org,custom}/*`, `shared/{sources,constraints}/*`) | a policy's gap | eighteen sources, eight constraints, three scorers, routing scores | evidence of several sources for one entity; filters against early stops | `Retrieval` |
| Parsing (`core/parse/*`) | automaton cache | scan, map offsets, resolve overlaps, link | offset maps through normalization; automata kept between calls | `Parsing` |
| Normalization, output, explanation, model types, integrations, calibration | none | pure functions, numeric fitting | - | the transforms with offsets in `Parsing`; rest not modelled |

How they interact. A *build run* calls the *sources* through discover and extract, writes into its
own staging or merges it into the *shared geo store*, runs reconcile and enrichment on whichever
of the two holds the rows, and *publishes* packs. Runs meet in three places: the shared geo store,
the pack directories and the release ledger. The *library* opens published packs, directly, from a
download, from a cache of a caller's own records, or composed; a resolver owns stores (connection
pools), runners (engine) with the sources and constraints of the domain packs, lazy indexes and a
query cache; `bulk()` and `parse()` call it row by row or span by span; the *default resolver* is
one of them behind module functions that any thread may call.

What makes each component correct is listed with its module below; `PROJECT.json` lists the
hazards line by line.

## 2. The modules

### BuildRun (and DeliveryLedger)

One run, its `state.sqlite` and its files. A row of table `chunks` is `status`, `failedStage`,
`attempts`, and the paths and counters that decide readiness (`rawPath`, `normPath`,
`materialized`). The driver walks the stages (`SkipDoneStage`, `BeginStage`, `EndStage`); a chunk
stage loads a round (`LoadRound`), its items run on `MaxWorkers` threads (`StartItem`,
`WriteItem`, `MarkSuccess`, `ItemRaises`, `MarkFailure`) and the round ends, goes on or aborts
(`DrainPool`, `EndRound`, `AbortRound`, `NoWorkLeft`). Each item writes first and marks later:
these are separate steps, so a crash may fall between them. `Crash` keeps the directory and loses
the driver; `Start` is `resume` with any allowed retry limit. The canonicalize-to-validate stages
are one action that succeeds or raises.

The status of a stage is read inside the `try` that marks a stage failed (`core.py:229`,
`core.py:184-198`), so an exception there, or in the report written after it, marks a stage failed
that was done (`EntryRaises`, `WriteReport`), and the next resume runs it again. If it is one that
moves chunks, the stages behind it, still done, do not see what it moved. The history variable
`redone` says that this has happened; the stages for which the model lets it happen are
`Reopenable`, and how often in a run, `MaxReopened`.

`DeliveryLedger` is the promise without the queue: an inventory, what is kept, what is delivered.
`ImplementsLedger` is the refinement, with the staging rows as *kept* and the packs as *delivered*.
The inventory is taken while nothing is kept, or after such a stage was redone: the ledger has a
variable of its own for that.

Properties: `RecordedWorkIsDurable` (a mark never runs ahead of its file), `AttemptsWithinBudget`,
`EveryRoundProgresses`, `ExhaustionIsReported`, `PacksHoldOnlyInventory`, `NoRegression`,
`OnlyExhaustedChunksAreLost`, `InvocationReturns`. `PacksHoldOnlyInventory` and
`OnlyExhaustedChunksAreLost` except runs with `redone`. Refuted: `SuccessIsComplete`,
`DoneStaysDone`.

### GeoStore

Any number of runs over one manifest and one database. `unitState` and `unitOwner` are the
manifest, `stored` is whose merge a unit has last been through, `lock` the refresh lock. The
unlocked initialization of the manifest is two steps (`FindManifest`, `InitializeManifest`).
Packaging is three: the coverage is checked (`ResolveStore`), the ids of the recipe are selected
(`SelectIds`), and the rows that bear those ids by then are copied (`CopyToPack`), all of it without
the lock. Of a unit that was merged again between the last two, a pack has the new rows or none. A
merge is claim, merge and mark, each a step; it may find no rows for a unit (`yields`), which is marked
ready all the same. `Stop` ends a run anywhere and frees the lock as the operating system does.

Properties: `ReadyIsStored`, `CoverageIsKept`, `PacksHoldRequired` (a pack has rows for each required
unit that every run finds entities for, unless the ready coverage was blanked while the run was
packaging: `voided`), `FetchedIsPacked`, `RunsReturn`. Refuted: `ReadyIsFromSource`,
`PacksAreNotPartial`.

### PackPublish

`stage_package` recipe by recipe: snapshot of the live pack, export to a work directory, the drop
gate, and the file operations of `_publish_pack` one at a time. A directory is absent, empty, torn
or a pack with a row count. `Crash` may fall between any two steps, `Resume` continues the same
run and `NewRun` abandons it; a resumed run may export other rows, because the shared store can
change in between.

Properties: `PublishedIsWhole`, `RollbackTargetExists`, `BaselineIsKept`, `OverwritesAreGated`.

### DefaultResolver

Threads of one process and one forked child. `_get_default` is split at every point where another
thread can come in: lock-free look, lock, second look, one read per setting, publish. `configure`
writes one setting per step without the lock and then resets; `reset` closes first and drops the
reference second; closing idle connections is taken to raise nothing. A build may raise. The lock-free look reads `_default` twice
(`_convenience.py:65-66`); it is one step here, because no other thread runs between two plain
loads in the interpreters the package supports with a global interpreter lock. `disturbed` is a
history variable: a reset has overlapped this call.

Properties: `OneOpenDefault`, `FreshDefault`, `RefusedOnlyByReset`, `CallsReturn`.

### SharedResolver (with Callers, ConnectionPool, LazyIndex)

Threads on one resolver, with the result cache disabled as `docs/reference/resolver.md:104` asks of
anyone who shares one. Three modules are composed by name: `SharedResolver` extends the other two,
and each of its actions is an action of one of them with the rest unchanged, or its own.

`ConnectionPool` is the queue of an `SQLiteEntityStore`. A borrower enters, gets a connection or
times out and looks at the closed flag again; on its way back it looks at the flag (`DropOrphan`,
`SeeOpen`) and only then puts the connection (`Put`), so `close` can come in between. `close` marks
and then drains one connection at a time.

`LazyIndex` is `_ensure_built` with its two looks, its lock, the attempt flag and the borrowing of
another source's index (`Lender`), which takes the lender's lock inside its own. A load fills an
index object dictionary by dictionary, or takes all of it from the compiled cache, and may raise.
`ForkIndex` is the after-fork hook.

`SharedResolver` has the calls: `Resolve` ... `EndQuery` with `Decide`, `Swap`, `Compare` and
`Restore` for the gap that `GeoDecisionPolicy.decide` exchanges in place; `Warm`, the background
thread or a call; `Close`, flag first and store second. A query reads the store and consults sources
in any order and number, which covers every early exit and also the reads that complete an answer.
`Fork` leaves one thread (`Callers`), from where the behaviour is the child's: locks, connections
and half-built indexes of the others are as they were.

Properties: `HeldExclusively`, `NoneIsLost`, `LookupsAreWhole`, `OneIndex`, `CallsReturn`,
`ForkedBuildsEnd`, `AnswersAreConsistent`.

A fork while others hold connections leaves the child's queue short of them; a child whose queue is
empty waits for ever. `CallsReturn` is therefore about processes that have not been forked, and
`ForkedBuildsEnd` about the part of a query for which the code has a fork hook.

### Resolution (with PackRunner and Retrieval)

`PackRunner` is one pack's answer to one query: the plan of sources in order, each with its hits
(`Collect`), skipped by tier or stopped early (`Skip`, `Stops`), rerankers (`Rerank`), constraints
(`Constrain`), the scorer candidate by candidate (`Score`) and the policy (`Decide`: thresholds,
gap, tie-break, early acceptance). The clock may pass the deadline inside any step (`Clock`) and is
looked at between them; any step may `Raise`. `Resolution` is the loop over packs: the routers
(`Route`), the packs asked in turn (`AskPack`), the merge of their answers (`Merged` with the cases
of no, one and several resolved packs), the tie-break by group preference and the query cache
(`Return`, `Evict`). `Retrieval` translates a call and a resolver's stores into the query: what
each of the eighteen sources finds in the tables, what each constraint drops and how each scorer
scores. Scores are hundredths and ten-thousandths, so products are rounded down. What the
characters of a text are is a constant record (`Shape`), as are the suggestions of the SymSpell
dictionary and the similarities of rapidfuzz (external). The promotion of a spelling one edit away
to an exact name is a source of its own, from the same call; full-text hits come in the order of
their ids; sources for large tiers and for a missing dictionary are left out.

A pack lists what it decided on; entities that the text places under another type come last
(`Arranged`, the specificity order), and it is the first of the list as shown that leads it in the
merge. A pack that has no match and nothing to list suggests up to three entities that the text may
have meant (`Unmatched`, from the dictionary by `Meant`).

Properties: `PackAnswersAreWhole` (an answer that is neither an error nor a time-out was decided
from all the evidence that its sources had to give: a late or failing step never makes part of it
an answer), `VerdictIsTheDominant` (the verdict is resolved exactly to an entity that no other
resolved pack contests in its band and by the gap between domains), `OrderIsIrrelevant` (the order
in which packs are asked changes neither the status nor the entity), `CachedAnswerIsComplete`
(nothing partial is left in the cache for a later call without a deadline), `ListsFollowTheAsk`
(what is listed fits the types, the containers and the date that were asked for, unless it is a
suggestion after no match, which the code does not filter; and none of a few entities that bear the
very name and fit is missing). `AmbiguousRivalIsReported` is what a comment
says of a merge, and the code does not do.

### Bulk

`bulk()` from the column to the values and back through a review: uniques by first position
(`Distinct`), a crosswalk (`ApplyCrosswalk`), the code path row by row (`ResolveCode`) or the name
path as one batch (`ResolveName`), the policies for misses, ambiguity and errors
(`Assemble`), the values back on the rows (`Broadcast`), and `Review`, which turns a result into
the crosswalk that the next pass starts from. What a text resolves to is a constant function of
the text and the context, with rows that raise and a store that may be broken. The country of a
context may be one that cannot be told (`Untold`): the contexts of all rows are read before any `try`,
and the call raises (`bulk.py:799`).

Properties: `RowsAreIndependent` (a row has the value that its text would have alone, by the path
the call takes, unless the batch by name has failed), `LenientCallsReturn` (a lenient call raises
for no text of a row; for the context of a row it may), `SettledTextsStay`. `FaultCostsItsRow` and
`ContextCostsItsRow` are documented and refuted.

### PackCaches (with CacheUsers, ComposedCache, DownloadCache, ByodCache)

Processes in one cache directory. `DownloadCache` empties, fills and renames file by file and
checks the names of the files only; `ByodCache` builds beside the entry, moves it into place, first
one wins, and sweeps leftovers; `ComposedCache` keys a composed database by the identifiers, sizes
and times of its layers. `PackCaches` interleaves them with kills and publications.

Properties: `CachedIsComplete` (what passes for cached holds every file of one version, unless two
downloads crossed), `HandedOutIsThere` (a built pack that a caller was given stays until someone
clears it), `ServedIsCurrent` (a composed database is of the layers as they are, unless one was
replaced meanwhile).

### Discovery

The administrative walk: level by level, requests in chunks on a pool of workers (`Begin`, `Answer`,
`Refuse` with its split, `Store` in the disk cache, retries of the whole call), results put back in the order
of the batches by the emitter, progress saved, places written to the run's inventory with their
parents. `FairSpec` is weak fairness of the whole next-state relation: the walk is one loop over a
pool that is joined.

Properties: `WalkIsComplete` (a walk that ends well has listed every place of the units that were
asked for and no other, whatever was split, cached, seeded or repeated), `InBatchOrder`, `WalkEnds`. `NothingIsLost` is
a stronger statement that fails for a failed save; `ListedOnce` is proved, and checked by no run.

### Parsing

A text is a sequence of a few kinds of character: letters, accents that compose, characters that
fold to several, entities to decode, emphasis markers, white space. The eight transforms each map
offsets (`Aligned`); an automaton per pack finds leftmost-longest names, is built for the types of
the call and kept for the next; finds are filtered by word boundaries, linked, and arbitrated
between packs (`PickWinner`).

Properties: `RoundTrip` (the reported slice normalizes to the name that was found),
`MissedOnlyForGluedName` (and an automaton kept from an earlier call hides nothing), `Arbitrated`.
The first two except what touches characters whose offsets NFC has shifted (`Slipped`): where it
splits one character and composes another, the text is as long as before and `_apply_nfc` leaves all
offsets between the two as they were (`offsets.py:235`). Such texts are among those of the run.
Refuted: `RoundTripAsDocumented`, `RoundTripInPlainText`, `EveryMentionIsFound`,
`BelowThresholdIsSilent`, `OnlyResolvedByDefault`.

### Enrichment (with Enrichers)

`Enrichers` has the four tables, the merge of a unit, `apply_contribution`, the reconcile rounds
and what each of the registered enrichers and the OECD pass contribute for a given database.
`Enrichment` interleaves the passes of two runs, each enricher as *read* then *write*, with merges
of a third run, crashes and resumes, and the deferred rebuild of the full-text index. Reconcile is
one step, because it runs under the refresh lock; its entity budget and batches, name kinds,
scripts, attributes and the dotstat codes are left out.

History variables say for which states the properties speak. `behind` has the runs with rows in
hand that were read before the last merge or fetch; `enriched` is set when a pass ends during which
nothing else came in (`closed`), and cleared when rows come from the source or when rows that are
behind are written. An earlier formulation counted a pass as undisturbed unless a merge fell into
that pass itself. The attempt to prove it showed two ways in which it fails, which TLC confirms:
rows of a group that a disturbed run read before the merge are written in the middle of another
run's later pass (three passes are needed); and a reconciliation brings a country that a group lists
while another run has the members of the group in hand. In both, the store has lost members that
the file lists until the next pass; nothing in `stage_enrich` notices it.

Properties: `OrphansNeedAMerge`, `CurationIsEnforced`, `PassIsRepeatable`. Refuted:
`SecondPassIsQuiet`, `IndexIsFresh`, `CodesFollowCrosswalk`.

### Library (with Stores, Lookups, Suggestions, OwnData)

`Stores` says what one database, a merged overlay chain, a composite and a view answer to each
question; `Lookups` what a resolver makes of it (entity, resolve by code, related, members_of,
within); `Suggestions` is `suggest()`: prefix, word and fuzzy hits of each pack, ranked and merged;
`OwnData` is a caller's records: roles of columns, linking, minting, the rows a builder writes, the
tally and the cache key. `Library` has the modules that are shipped, registered, provided and
downloaded, every constructor of a resolver with its errors (`OpenModules`, `OpenAuto`,
`OpenDatapacks`, `OpenPaths`, `Lite`, from records) and `Augment`. Texts are resolved by exact
names here; types are flat and texts their own normal form in `Suggestions`, whose pool sizes are
constants. A directory is replaced and a download cleared only while no resolver is open (the other
cases are those of `PackCaches`); a constructor that fails opens nothing.

Properties: `SelectionIsAuthoritative` (what was asked for is loaded with the bases it lies over,
and nothing else), `AugmentOnlyAdds` (an augmented resolver finds what it found, in the same
places), `AddedIsFound`, `HitIsABuild` (a pack from the cache is the one a build would make now;
columns are checked before the cache is asked, and the data of a remote module is its download's),
`WaysAgree` (one fact asked for by id, name, code, group, container or prefix has one answer;
`within()` is the closure of containment, whatever cycles the data has). Refuted:
`GroupsSurviveAugment`, `MintedIsNew`, `AutoOpens`.

## 3. The runs

| run | instance | distinct states |
|---|---|---|
| `build_run` | 2 chunks, 2 workers, a retry limit of 2, a discovery that may be redone once | 1,151,326 |
| `geo_store` | 2 runs, 2 units, 2 sources, 2 starts each; one run finds no countries | 383,749 |
| `pack_publish` | 2 recipes (1 gated), 3 rows, tolerance 1, 3 starts | 5,009,849 |
| `default_resolver` | 2 threads (2 calls and 1), a child (1), 2 settings of 2 values, 3 builds | 601,826 |
| `shared_resolver` | 2 threads (3 and 2 calls or uses), 1 connection, 2 sources, one lending to the other, 1 dictionary | 197,577 |
| `resolution` | 3 packs, 18 sources, 9 entities; 23 calls over small stores and queries that may find anything (136 initial states); 2 calls each, with or without a deadline | 220,014 |
| `bulk` | columns of up to 4 texts in 2 contexts, of which one may name no country, 2 code systems, 3 entities, all policies, 2 passes with a review between | 297,862 |
| `pack_caches` | 2 processes (symmetric), 2 artifacts, 2 versions, 2 calls, 2 events | 849,840 |
| `discovery` | 11 places, 3 countries, batches of 2, 2 workers, 1 retry, chunks of 2, 3 levels; typed or not, seeded or not | 41,192 |
| `parsing` | texts of 3 of 11 pieces or a column of rows, 2 packs, 2 calls | 111,961 |
| `enrichment` | 2 runs (symmetric), 2 passes, 1 fault, 2 reconcile rounds, a third run's merges | 1,144,645 |
| `library` | 8 directories, 2 editions, 4 selections, 3 filters, 4 path lists, records, 2 augments, 2 builds | 2,659 |

What each shows is in `PROJECT.json` (`about`); its properties are those of section 2 that its cfg
names. Each property has a mutant of the modelled
code that makes it fail.

Why the bounds are enough to be interesting. Two chunks and two workers give every order of
write, mark, failure and crash between two items; a limit of 2 gives a retry within a round's stage
and one over a resume (the theorems hold for any set of limits, of which a resume may take another);
discovery is the stage that may be redone, because what it replaces is what the later ones rely on.
Two runs with two starts each let a run stop while it holds a claim,
another take it over, and the first return; two units let one be claimed while another is ready.
Three rows and a tolerance of one give a drop within, beyond and twice beyond the tolerance; three
starts give crash, resume and crash again. Three builds let a default be built, reset, rebuilt
with new settings and built again in the child. One connection for two threads makes each of them
wait for the other and for `close`; five uses let one thread query a source and the store while
another warms, closes or has been left behind by a fork. Three packs are the fewest with which the
merge can see two resolved and one ambiguous answer; the stores hold homonyms across packs, names
at one and two edits, codes that two entities share and entities out of date; two calls let one
leave a cached answer for the other. Four texts with two contexts give equal texts that are
different rows and different uniques; two passes carry a review over. Two processes and two
versions give a download over a download and a kill in each gap. Batches and chunks of two over
eleven places give a last short batch, a refused chunk that is split and answers out of order; one
of the places is an area below the last level that can be asked for, where the walk looks for cities
but lists no area, and the last typed level has no place, so that a walk also runs out early. Three
pieces are enough for a name glued to a word on either side, and for a marker or a decoded entity
inside a name. Two passes of two runs let a write of the first fall into, before and after the
second, and a merge between any read and its write; with three passes, which takes five minutes,
the run passes too. Two augments put an overlay over an overlay.

Fairness. `BuildRun` assumes that the driver and each started item of the pool go on (weak
fairness): they are threads of a live process, and the pool waits for all of its futures. Nothing
forces a crash, a resume or an exception. `GeoStore` assumes weak fairness of each run's own steps;
the lock is taken in one step when it is free, and a run has finitely many starts, so weak fairness
is enough. `DefaultResolver` assumes weak fairness of each thread inside a module function; calls
are bounded, so a fair lock is not needed. `SharedResolver` assumes weak fairness of each thread
that is inside a call: calls and uses are bounded by `MaxWork`, builds end, and a query that finds
the queue empty waits on, so a wait ends because others stop, not because a lock or a queue is
fair. Nothing forces a raise, a close or a fork, and threads may stop calling. `Discovery` assumes
weak fairness of its next-state relation. The other modules have no liveness property and state no
fairness.

Deadlock is checked where something must always be possible: `Rest` stutters where the bounds on
starts or calls leave nothing to do, and any other stop would be reported. It is not checked for
`bulk`, `pack_caches`, `enrichment` and `shared_resolver`, where bounded calls, passes and events
simply run out.

What docs, comments or messages say and the code does not do is listed in `PROJECT.json`
(`findings`) with the line on either side. Where the statement can be put as a formula, the module
has it as a definition that no run checks, because it is refuted by a behaviour: `DropIsGated`
(PackPublish), `ChildCallsReturn` (DefaultResolver), `AnswersAreConsistent` (SharedResolver),
`NothingIsLost` (Discovery) and those named in section 2. The other findings name a property that
has no formula here; they were met while a definition was translated.

## 4. The proofs

Each `*Proofs` module proves, for all values of the constants that satisfy the named assumptions of
its modules, type correctness and the safety properties of the table. Every invariant is a
conjunction of named parts that is preserved one action at a time.

| module | theorems | inductive invariant |
|---|---|---|
| `BuildRunProofs` | `Typing`, `Durability`, `Budget`, `Progress`, `Exhaustion`, `Inventoried`, `OnlyExhausted`, `Monotone`, `Refinement` | `IInv`: where the driver may be in each stage; what a row's status says of its path, file and attempts; what an item of the round has written and marked; what the round loaded (`Rounds`), from which progress follows; whose attempts are used up (`Struck`); which stages are done when the driver is where (`Order`), and while none is redone in which order (`InOrder`); what the rows of a done discovery say of the inventory (`Inventory`); what the staging database holds (`Stored`, `Settled`) |
| `GeoStoreProofs`, of *GeoStore* | `Typing`, `Stored`, `Required`, `Packed`, `Kept` | `Placed` (where a run is in which stage), `Refreshes` (a run between claim and mark owns what it claimed) and `Packages` (until the manifest is blanked under a run that packages, what it found ready stays ready, and what it selected has rows) |
| `GeoStoreProofs`, of *Library* | `CachedPacksAreBuilds`, `SelectionHolds` | `LibraryInv`: `EntriesAreBuilds` (each pack on the shelf is what a build of the arguments told by its key makes, where the key's base identity stands for the databases that its places hold in the editions it names) and `BasesInPlace` (the bases of an open resolver hold what their places hold), over `ShelfShape` and `EditionShape`; for `SelectionHolds` only the last |
| `StageProofs`, of *Discovery* | `DiscoveryTyping`, `ListedInBatchOrder`, `EachListedOnce`, `EveryPlaceIsListed` | `CallOK` (a stream's call has a request for different parents and one chunk for each of their batches), `WalkOK` (what the walk goes on from are different places), `ListOK` (a scan has seen what it lists, and lists it once), `OrderOK` (every batch before the next one is scanned, so what a flush adds is found there for the first time), `OnceOK` (chunks and buffer share nothing, and the inventory has seen all of it), `TakenOK` (a chunk taken from the pool is flushed or waits for those before it, so a call that returns has passed over none), `MapOK` (where the walk is, what the request asks for, and how much of each level, of its cities and of the units asked for has been seen and listed), `KeptOK` (what is listed is written or buffered unless a write failed) |
| `StageProofs`, of *Enrichment* | `EnrichmentTyping`, `RowsKeepTheirEntities`, `CuratedRowsHold` | `HandsOK` (a run has rows in hand only between a read and the write that follows), `AttachedOK` (while no write was overtaken by a merge, every row of the shared store has its entity, and what a run that no merge fell into has in hand names entities that come with it or that are there and that no filter takes out, whatever other runs have written since); for `CuratedRowsHold` also `GroundOK` (the store has countries, no filtered entity has a code of ISO, relations to one are such as the reconciliation follows, the donor label has an entity to be taken off; whatever is in hand, however old, brings no donor label, nothing filtered and no relation to that), `FreshOK` (what is in hand and not behind has, for each group it owns, the members that would be read now), `PassedOK` (behind each place of a pass: the groups are the files', the filtered entities are gone, the donor label is off; and what is in hand at the groups, the filter and the OECD pass will make it so) and `LedOK` (every relation to a filtered entity leads to one that is there, so that deleting it deletes the relation) |
| `StageProofs`, of *PackPublish* | `PublishTyping`, `WholePacks`, `Baselines`, `Rollbacks`, `Overwrites` | `InHand` (what each directory holds at each step of a publish), `Kept` (the found pack is live or in the snapshot, and which of the two at which step), `Compared` (what passed the gate was compared with the found pack) |
| `DefaultResolverProofs` | `Typing`, `OneDefault`, `UpToDate`, `Refusals` | `Grounded` (a builder has found no default; whose resolver is whose), `Live` (open resolvers and defaults correspond), `Fresh` (what a build has read is current unless a configure is under way) with `Discarding` (that configure outlasts the build, because it waits for its lock), `Marked` |
| `SharedResolverProofs` | `Typing`, `Connections`, `PoolConserved`, `WholeIndexes`, `SharedIndex` | `PoolInv` (with `Afloat`: a queued connection is open, and only a closed store is drained), `IndexInv` (`Places`: who may borrow and who builds, into which object; `Attempts`: an attempt that has not built is under way or has raised; `Finished`: a built index is complete, and a thread that looks or borrows finds it built), each preserved by the steps of its own module, and `CallsOK` (a thread is in the store or in a source only inside a call) |
| `PackCachesProofs` | `Typing`, `CachedComplete`, `HandedOut`, `ServedCurrent` | one invariant per cache, each preserved by the steps of its own module: `Fetched` (which files of which version are there at each step of a download that nobody crosses), `Swept` (what a builder holds, and that a sweep meets leftovers only), `Composed` (a cached database was made of the layers its key names); `Held` ties a process's place to what it holds |
| `ResolutionProofs` | `Typing`, `AnswersAreWhole`, `Dominance`, `OrderIndependence`, `CacheIsComplete` | `PipelineInv`: what has been gathered at each step of a pack is what the steps so far give, if the clock has not passed (`SourcesInv`, `RerankInv`, `FilterInv`); `ResultsInv` (each answer is whole, failed or timed out), `RouteInv` (who has been asked and who is left), `VerdictInv` and `CacheInv` |
| `BulkProofs` | `Typing`, `RowsIndependent`, `LenientReturns`, `SettledStay` | `ResultsInv` (a unique's result is `Due`: what its text gives alone, by the path of the call), `PathInv` (which path that is, and what is left of it), `ValuesInv`, `OutInv` (values are made of results, rows of the value of their unique), `CrosswalkInv` (a settled text is in the crosswalk, decided as it was settled) |

The properties themselves are not inductive. `FreshDefault`, for instance, says nothing of the
half-built resolver that `Publish` installs; `Fresh` does. `RecordedWorkIsDurable` needs to know
that an item which is about to mark has written, and that no second item works on its chunk.
`CurationIsEnforced` speaks of the store when a pass has ended; its invariant says what each
enricher's rows will do when they are written, into a store that others have written to since.
`HitIsABuild` compares a pack with what a build would make now; the cache key, though, leaves the base
out and names its modules, so its invariant has to say that a name still stands for what it stood for
when the pack was built: the shelf only grows (`ShelfGrows`), a built pack's directory is none of the
others (`SlotIs`), and directories are replaced only under an edition of their own (`DbAtStays`). That
the bases *are* where their names say follows a resolver from the paths asked for through downloads,
loading, replacement by id and assembly (`RequestedAreList` to `OpensInPlace`).
`SelectionIsAuthoritative` is about one step, and about everything in it: which modules are on offer and
under which ids (`AvailableIs`), what a selection brings with it (`NamedAreNeeded`, from the closure as
the least set, `ClosureHas` and `ClosureWithin`; `LocalIsAll`), in which paths (`RequestedAre`), and that
filtering, loading, replacement by id and assembly lose none of it (`OpenedIds`, `ByIdHas`, `KnownHas`).
`PackAnswersAreWhole` speaks of a finished answer; its invariant has to say what a pack in the
middle of its plan must have collected, which depends on which sources were due to be asked at
all. `AskedExists` and `AskedIsUnique` show that this set, which the early exits define by what
the earlier sources found, exists and is one. `VerdictIsTheDominant` and `OrderIsIrrelevant` are
facts about `Merged`, lifted to behaviours by `VerdictInv`: the dominant pack is unique because
bands and gaps leave no room for two, and it does not depend on positions except among equals.
`InBatchOrder` rests on sorting: `Sorted` is defined by counting what is smaller, and
`SortedLists` shows that it lists a finite set of numbers, each once and in order (ranks are an
injection of the set into an interval as large, hence onto). A flush that is repeated after a
failure adds nothing, because its batch is scanned by then; that is why `OrderOK` speaks of the
next batch as well. `WalkIsComplete` relates the inventory to the levels of the geography, which
are defined by recursion (`Levels`). Induction is not available as a rule; what takes its place is
that a nonempty set of numbers below a bound has a least element (`FirstFailure`, which follows
from sorting it). With it `LevelsAre` shows that the recursive definition has a solution, level by
level, and `NothingBelow` that below an empty level there is nothing, so that a walk may stop there.
The invariant then speaks of one level at a time: `CitiesBelow` and `AreasMap` for coming to a level,
`FlushMaps` for each batch of it, `ReturnMaps` for leaving it (by `PiecesCover` the batches hold all
of the parents), `EndsMap` for the three ways in which a walk ends.
`RowsAreIndependent` rests on three facts about uniques: the first row of a key is the least,
every row has a unique, and the position of a row among the uniques is that of its own key
(`FirstIsLeast`, `KeysOfRows`, `PositionIs`).

Assumptions. `PackRunnerAssumption` and `ResolutionAssumption` type the constants (a plan is a
sequence of sources, the loaded packs are listed once, hits are entities with scores).
`BulkAssumption` says that looking up a name answers, unless the row is one that raises, and that
calls are well formed. `DiscoveryAssumption` says that Data Commons lists a country once: without it
the client and the emitter batch the parents differently (a finding). Places are finitely many
numbers, which is how ids are sorted; the children of each are given by `Below`. No administrative level
has the type of cities: a scan knows by the type which of its two lists of seen ids is meant.
`CuratedAssumption` and `OecdAssumption` say that curated rows are about entities, and that neither a
region alias nor a target of the crosswalk is one of the placeholders that the region filter takes
out (`undata-geo/G009…`, `undata-geo/G00003070` and the names of `enrich.py:228-232`), as
`builder/data/region_aliases.yaml` and `builder/data/oecd_crosswalk.yaml` have it; the proof attempt showed that otherwise another run's
filter, and not only a merge, could fall between a read and a write and leave a row without its entity.
Nor are groups, subregions, their parents or the recipients' own regions placeholders; the placeholders
are regions ("geo.region aggregate entities", `enrich.py:233`: the clause that names one would delete it
under another type, but runs only if the store has regions); and `groups.yaml` lists no id twice.
`DonorAssumption` says that the European Union is an entity and no country, that the provider mapped to it
(918 in `oecd_dac.yaml`, "EU Institutions") has no iso3, and that no other curated form is that label.
`RelationsAssumption` says that the source relates nothing to a placeholder except by the types that
reconcile follows (`models.py:84`), in rows that come with the entity they are of, and that
the unit of countries is not empty: a store without countries would run no groups.
`RowsAssumption` says that what earlier runs left, what a run canonicalized and what the source serves
has an entity for each row (`sources/datacommons/rows.py:88`), and that no placeholder has a code of ISO.
`BuiltPathsAssumption` says that each built pack has a directory of its own, outside of the modules'
(`cached_pack_dir`, `core/byod/cache.py:114`; an edition stands for the size and time of the file,
all that the key has of it, `core/api/_byod.py:330`). `DiskAssumption` says that a module that is remote has
a directory that its download goes to (`_module_cache_dir`, `core/remote.py:97`, computes one from the id) and that a
directory holds the database of its edition. `CatalogAssumption` says that a selection is a list and
that the modules are finitely many. `ModulesAssumption` says that a base pack declares no bases (`datapack.py:192`),
that overlays lie over base packs (an overlay over another never loads, `overlay_loader.py:87`, but its
bases would be loaded where a filter leaves it out), that the domain of each base has a factory (one without is
passed over, `pack_loader.py:145`), and that the modules on offer are not directories of the cache of built packs.
`PackCachesProofs` and the others need only the types of their bounds.

Some proved properties are in no run: `RecordedWorkIsDurable`, `AttemptsWithinBudget`,
`EveryRoundProgresses`, `ExhaustionIsReported`, `PacksHoldOnlyInventory`, `NoRegression`,
`FetchedIsPacked`, `CoverageIsKept`, `BaselineIsKept`, `RollbackTargetExists`, `RefusedOnlyByReset`,
`NoneIsLost`, `OneIndex`, `ListedOnce` and the type invariants, which the theorems establish for every instance.

Only model-checked:

* Liveness (`InvocationReturns`, `RunsReturn`, `CallsReturn`, `ForkedBuildsEnd`, `WalkEnds`), which
  needs fairness and `ENABLED`.
* `ListsFollowTheAsk`, whose sources fold over rows of stores and so need induction over data; and
  for the same reason `RoundTrip`, `MissedOnlyForGluedName` and `Arbitrated` (transforms and
  automata over sequences), `WaysAgree`, `AddedIsFound` and `AugmentOnlyAdds` (folds over layers,
  rows and columns).
* `PassIsRepeatable`: it compares the store with what a whole pass more would make of it, nine
  enrichers composed by recursion.

## 5. Not modelled, and why

* SQL and string normalization outside of `Stores` and `Parsing`: each is one step with a right
  answer; the models say *when* it happens and what is lost if it does not.
* Canonicalize's rewriting of names and codes in place, the diffs of two finished databases, the
  registry and promotion (a JSON file and a copied directory), the prominence script, which runs
  outside of the stage.
* In `Discovery`: regions of the geo roots, custom child types, the targets of relations, the
  counts of the progress display. In `Parsing`: the output pivot of a column.
* In `Suggestions`: the cache of name lists (`core/engine/runner.py:528`), highlights and display.
* In `SharedResolver`: the result cache (documented as single-threaded, and off), the reason code of
  a decision (`packs/geo/decision.py:166`), the parse automata, packs beyond one. A failed
  build promises nothing: `LookupsAreWhole` and `OneIndex` leave it out, although the docstring of
  `_ensure_built` says that later queries see no index and they see what was loaded so far.
* Two processes resuming the same run: nothing in the code prevents it, and a model would only
  say so.
* Calibration, explanation, output formats and table integrations: no state, numeric or textual.

## 6. Plan

1. Lemmas about the folds of *Stores*, where a fold of the community modules has a property that can
   be stated step by step.
2. The release ledger, if promotion by several processes becomes a use of it.
