------------------------------ MODULE Library -----------------------------
(***************************************************************************)
(* The modules a caller may open and the resolver made of them             *)
(* (core/module_registry.py, core/api/loading/, core/datapack.py,          *)
(* core/overlay_loader.py, the constructors of core/api/resolver.py), the  *)
(* packs made of the caller's own records, with their cache                *)
(* (core/byod/build.py, core/byod/cache.py), and the resolvers that        *)
(* augment() opens above one that is open.                                 *)
(*                                                                         *)
(* A path is a directory of a pack, or of the cache of a module's download *)
(* or of a built pack.  A directory is replaced, and a download cleared,   *)
(* only while no resolver is open; module PackCaches is about the others.  *)
(***************************************************************************)
EXTENDS Suggestions, OwnData

CONSTANTS
  Disk,          \* the packs a directory holds, one edition after the other
  Manifest,      \* the module ids the package ships: their directories, in order
  Overrides,     \* ... and the distribution the manifest gives them
  Offers,        \* directories a caller may register, by module id
  EntryPoints,   \* directories that other packages provide, by module id
  CachePath,     \* where the data of a remote module is downloaded to
  BuiltPaths,    \* the directories of built packs
  BuiltIds,      \* ... and the module ids of those that are overlays
  Factories,     \* domains with a pack factory, and the feature schema of each
  Selections,    \* module_ids of from_modules() and lite()
  Filters,       \* domains; {} is None
  PathLists,     \* datapack_paths of from_datapacks()
  RecordsCalls,  \* arguments of from_records()
  AugmentCalls,  \* arguments of augment()
  MaxBuilds,     \* bound: packs in the cache
  MaxOverlays    \* bound: overlays over one another

\* A directory is in the cache of built packs or is not, and each has its own.
ASSUME BuiltPathsAssumption ==
  /\ MaxBuilds \in Nat /\ MaxBuilds <= Len(BuiltPaths)
  /\ BuiltPaths \in Seq(ToSet(BuiltPaths)) /\ IsInjective(BuiltPaths)
  /\ ToSet(BuiltPaths) \cap DOMAIN Disk = {}

\* A module that is remote, by its own word or the manifest's, has a place for
\* its download; an edition of a directory is a pack.
ASSUME DiskAssumption ==
  /\ \A path \in DOMAIN Disk :
       /\ Disk[path] \in Seq(ToSet(Disk[path])) /\ Disk[path] # <<>>
       /\ \A pack \in ToSet(Disk[path]) :
            /\ {"id", "kind", "domain", "db"} \subseteq DOMAIN pack
            /\ \/ pack.distribution = "remote"
               \/ pack.id \in DOMAIN Overrides /\ Overrides[pack.id] = "remote"
               => pack.id \in DOMAIN CachePath
  /\ \A id \in DOMAIN CachePath : CachePath[id] \in DOMAIN Disk
  /\ \A k \in DOMAIN Manifest : Manifest[k].dir \in DOMAIN Disk

\* Base packs lie over nothing and their domains have a factory; overlays lie
\* over base packs.  What is on offer is one or the other.
OnDisk == UNION {ToSet(Disk[path]) : path \in DOMAIN Disk}
ASSUME ModulesAssumption ==
  /\ \A pack \in OnDisk :
       \/ pack.kind = "base" /\ pack.bases = {} /\ pack.domain \in DOMAIN Factories
       \/ pack.kind = "overlay" /\ \A base \in OnDisk : base.id \in pack.bases => base.kind = "base"
  /\ \A id \in DOMAIN Offers : Offers[id] \in DOMAIN Disk
  /\ \A id \in DOMAIN EntryPoints : EntryPoints[id] \in DOMAIN Disk

\* What a caller asks for is a list, and there are finitely many modules.
ASSUME CatalogAssumption ==
  /\ \A list \in Selections \cup PathLists : list \in Seq(ToSet(list))
  /\ IsFiniteSet(DOMAIN Manifest) /\ IsFiniteSet(DOMAIN Offers) /\ IsFiniteSet(DOMAIN EntryPoints)

VARIABLES
  edition,     \* the edition each directory holds
  registered,  \* _registered: the module ids a caller registered
  cached,      \* the modules whose data is downloaded
  shelf,       \* the cache of built packs
  lib          \* the open resolver, or none

libraryVars == <<edition, registered, cached, shelf, lib>>

Closed == [open |-> FALSE]

(* The members of a list at some positions, in their order.                *)
Picked(list, positions) ==
  LET at == Sorted(positions) IN [k \in DOMAIN at |-> list[at[k]]]

---------------------------------------------------------------------------
(* Which modules there are.                                                *)

PackAt(path) ==
  IF path \in ToSet(BuiltPaths) THEN shelf[CHOOSE k \in DOMAIN shelf : BuiltPaths[k] = path].pack
  ELSE Disk[path][edition[path]]

HasMetadata(path) ==
  /\ path \in DOMAIN Disk => \A id \in DOMAIN CachePath : CachePath[id] = path => id \in cached
  /\ path \in DOMAIN Disk \cup {BuiltPaths[k] : k \in DOMAIN shelf}

(* A directory counts for an id if its metadata has that id.               *)
Valid(dirs) == [id \in {i \in DOMAIN dirs : PackAt(dirs[i]).id = i} |-> dirs[id]]

(* What the package ships, then what was registered, then entry points.    *)
Before(f, g) == [id \in DOMAIN f \cup DOMAIN g |-> IF id \in DOMAIN f THEN f[id] ELSE g[id]]
ListAvailableModules ==
  Before(Valid([m \in Range([k \in DOMAIN Manifest |-> Manifest[k].id]) |->
                  Manifest[CHOOSE k \in DOMAIN Manifest : Manifest[k].id = m].dir]),
         Before(Valid(Restrict(Offers, registered)), Valid(EntryPoints)))

(* load_module_metadata: the manifest's word by id, wherever the directory *)
(* is; DataPackLoader takes it for the manifest's own directory only.      *)
Distribution(id, path) == IF id \in DOMAIN Overrides THEN Overrides[id] ELSE PackAt(path).distribution
IsManifestDir(id, path) == \E k \in DOMAIN Manifest : Manifest[k].id = id /\ Manifest[k].dir = path
LoaderDistribution(at) ==
  IF IsManifestDir(at.pack.id, at.path) THEN Distribution(at.pack.id, at.path) ELSE at.pack.distribution

LocallyAvailable(id, path) ==
  HasMetadata(path) /\ (IF Distribution(id, path) = "bundled" THEN PackAt(path).data ELSE id \in cached)

(* is_module_remote, for a module id that a caller asks about.             *)
IsModuleRemote(id) ==
  IF id \in DOMAIN Overrides THEN Overrides[id] = "remote"
  ELSE id \in DOMAIN ListAvailableModules /\ PackAt(ListAvailableModules[id]).distribution = "remote"

(* The modules requested and, for an overlay, those it lies over.  With no *)
(* request, all that are local, and of the modules they name those local.  *)
Local(available) == {id \in DOMAIN available : LocallyAvailable(id, available[id])}

\* Mutant: the dependencies of a module are loaded with it, selected or not.
FollowsDependencies(available, auto, id) ==
  LET pack == PackAt(available[id])
      bases == IF pack.kind = "overlay" THEN pack.bases ELSE {}
  IN IF auto THEN (bases \cup pack.deps) \cap Local(available)
     ELSE (bases \cup pack.deps) \cap DOMAIN available
Follows(available, auto, id) ==
  LET pack == PackAt(available[id])
      bases == IF pack.kind = "overlay" THEN pack.bases ELSE {}
  IN IF auto THEN (bases \cup pack.deps) \cap Local(available) ELSE bases

\* What every set of modules holds that holds those and what its own follow.
Closure(available, auto, ids) ==
  LET rest == (UNION {Follows(available, auto, id) : id \in DOMAIN available}) \ ids
      complete == {known \in {ids \cup more : more \in SUBSET rest} :
                     \A id \in known \cap DOMAIN available : Follows(available, auto, id) \subseteq known}
  IN {id \in ids \cup rest : \A known \in complete : id \in known}

(* The paths in the order the queue reaches them; here one whose bases     *)
(* come after what was asked for.                                          *)
InOrder(ids, first) ==
  Picked(first, {k \in DOMAIN first : first[k] \in ids}) \o SetToSeq(ids \ ToSet(first))

ResolveRequestedModulePaths(auto, ids) ==
  LET available == ListAvailableModules
      requested == IF auto THEN SetToSeq(Local(available)) ELSE ids
      all == Closure(available, auto, ToSet(requested))
  IN IF auto /\ requested = <<>> THEN [error |-> "NoModulesInstalled", paths |-> <<>>]
     ELSE IF ~(all \subseteq DOMAIN available) THEN [error |-> "DataModuleNotFound", paths |-> <<>>]
     ELSE [error |-> "", paths |-> LET list == InOrder(all, requested)
                                   IN [k \in DOMAIN list |-> available[list[k]]]]

---------------------------------------------------------------------------
(* A resolver over paths.                                                  *)

(* _ensure_remote_data_available.                                          *)
ToDownload(paths, filter) ==
  {PackAt(p).id : p \in {q \in ToSet(paths) : /\ HasMetadata(q)
                                              /\ InFilter(filter, PackAt(q).domain)
                                              /\ Distribution(PackAt(q).id, q) = "remote"
                                              /\ PackAt(q).id \notin cached}}

(* DataPackLoader.load, when every download is there.                      *)
DirAt(path) == [path |-> path, there |-> HasMetadata(path), pack |-> PackAt(path)]

LoadError(at) ==
  IF ~at.there THEN "FileNotFound"
  ELSE IF at.pack.gate # "" THEN at.pack.gate
  ELSE IF LoaderDistribution(at) = "bundled" /\ ~at.pack.data THEN "FileNotFound" ELSE ""

(* The data of a remote module is that of its download.                    *)
Loaded(at) ==
  IF LoaderDistribution(at) = "remote"
  THEN LET download == CachePath[at.pack.id]
       IN [path |-> download, pack |-> [at.pack EXCEPT !.db = PackAt(download).db]]
  ELSE [path |-> at.path, pack |-> at.pack]

(* Packs under one module id: the place of the first, the pack of the last. *)
WithId(packs, id) == {i \in DOMAIN packs : packs[i].pack.id = id}
Firsts(packs) == {i \in DOMAIN packs : \A j \in WithId(packs, packs[i].pack.id) : i <= j}
ById(packs) ==
  LET first == Picked(packs, Firsts(packs))
  IN [k \in DOMAIN first |-> packs[Last(Sorted(WithId(packs, first[k].pack.id)))]]
OfKind(packs, kind) == ById(Picked(packs, {k \in DOMAIN packs : packs[k].pack.kind = kind}))
OfDomain(packs, domain) == Picked(packs, {k \in DOMAIN packs : packs[k].pack.domain = domain})

(* _validate_overlay_relationships and OverlayLoader.load.                 *)
OverlayError(overlay, bases) ==
  LET under == {b \in ToSet(bases) : b.pack.id \in overlay.pack.bases}
  IN IF ~(overlay.pack.bases \subseteq {b.pack.id : b \in ToSet(bases)}) THEN "MissingModuleDependency"
     ELSE IF \E b \in under : b.pack.major # overlay.pack.major THEN "IncompatibleVersion"
     ELSE IF \E b \in under : b.pack.features # overlay.pack.features THEN "IncompatibleFeatureSchema"
     ELSE ""

(* compose_base_module_store: the tables of the base modules in one; an    *)
(* entity in two of them is an error.                                      *)
Conflicts(bases) ==
  \E i, j \in DOMAIN bases : i < j /\ Ids(bases[i].pack.db) \cap Ids(bases[j].pack.db) # {}

Compose(bases) ==
  LET dbs == [k \in DOMAIN bases |-> bases[k].pack.db]
  IN [entities |-> UNION {d.entities : d \in Range(dbs)},
      names |-> UNION {d.names : d \in Range(dbs)},
      codes |-> UNION {{c \in dbs[k].codes : \A j \in DOMAIN dbs : j > k =>
                          \A b \in dbs[j].codes : ~(b.id = c.id /\ b.system = c.system)} : k \in DOMAIN dbs},
      relations |-> UNION {{r \in dbs[k].relations : \A j \in 1..k - 1 : \A b \in dbs[j].relations :
                              ~(b.id = r.id /\ b.type = r.type /\ b.target = r.target)} : k \in DOMAIN dbs}]

(* The store of a domain: its base, and above it its overlays.             *)
StoreOf(bases, overlays) ==
  [dbs |-> <<Compose(bases)>> \o [k \in DOMAIN overlays |-> overlays[k].pack.db],
   open |-> <<TRUE>> \o [k \in DOMAIN overlays |-> overlays[k].pack.allow]]

Domains(bases) ==
  LET first == Picked(bases, {i \in DOMAIN bases : \A j \in DOMAIN bases :
                                bases[j].pack.domain = bases[i].pack.domain => i <= j})
  IN [k \in DOMAIN first |-> first[k].pack.domain]

(* _create_pack_instances: a pack for each domain that has a factory, which *)
(* has to know the features of the domain's first base module.             *)
Known(bases) == Picked(Domains(bases), {k \in DOMAIN Domains(bases) : Domains(bases)[k] \in DOMAIN Factories})
Misfit(bases, d) == Head(OfDomain(bases, d)).pack.features # Factories[d]

FirstError(errors) == FoldLeft(LAMBDA found, e : IF found # "" THEN found ELSE e, "", errors)

AssembleError(bases, overlays, known) ==
  FirstError(<<
    FirstError([k \in DOMAIN overlays |-> OverlayError(overlays[k], bases)]),
    IF \E d \in ToSet(Domains(bases)) : Conflicts(OfDomain(bases, d)) THEN "ModuleConflict" ELSE "",
    IF \E d \in ToSet(known) : Misfit(bases, d) THEN "IncompatibleFeatureSchema" ELSE "",
    IF known = <<>> THEN "ValueError" ELSE "">>)

(* The selection a resolver was opened by, and the report of a build, are  *)
(* kept with it.                                                           *)
Resolver(bases, overlays, known, asked, report) ==
  [open |-> TRUE,
   bases |-> Picked(bases, {k \in DOMAIN bases : bases[k].pack.domain \in ToSet(known)}),
   overlays |-> overlays,
   view |-> [k \in DOMAIN known |->
               [domain |-> known[k],
                store |-> StoreOf(OfDomain(bases, known[k]), OfDomain(overlays, known[k]))]],
   asked |-> asked, report |-> report]

(* _build_resolver_from_paths, once the data is there: a step that raises  *)
(* opens no resolver.                                                      *)
Loadable(dirs) == \A k \in DOMAIN dirs : LoadError(dirs[k]) = ""
Selected(dirs, filter) ==
  Picked(dirs, {k \in DOMAIN dirs : dirs[k].there => InFilter(filter, dirs[k].pack.domain)})
Assembled(bases, overlays, known, asked, report) ==
  IF AssembleError(bases, overlays, known) # "" THEN Closed
  ELSE Resolver(bases, overlays, known, asked, report)
Assemble(packs, asked, report) ==
  Assembled(OfKind(packs, "base"), OfKind(packs, "overlay"), Known(OfKind(packs, "base")), asked, report)
Build(dirs, asked, report) ==
  IF Loadable(dirs) THEN Assemble([k \in DOMAIN dirs |-> Loaded(dirs[k])], asked, report) ELSE Closed

NoReport == <<>>
Asked(how, ids, filter) == [how |-> how, ids |-> ids, filter |-> filter]
Opened(dirs, filter, asked, report) == Build(Selected(dirs, filter), asked, report)

(* The data is downloaded first, and stays if the rest fails.              *)
OpenPaths(paths, filter, online, asked) ==
  LET missing == ToDownload(paths, filter)
  IN IF missing # {} /\ ~online
     THEN UNCHANGED <<cached, lib>>
     ELSE /\ cached' = cached \cup missing
          /\ lib' = Opened([k \in DOMAIN paths |-> DirAt(paths[k])], filter, asked, NoReport)

OpenFound(found, filter, online, asked) ==
  /\ ~lib.open
  /\ IF found.error # "" THEN UNCHANGED <<cached, lib>> ELSE OpenPaths(found.paths, filter, online, asked)
  /\ UNCHANGED <<edition, registered, shelf>>

(* from_modules(module_ids=...), and lite(), which takes no domains.       *)
OpenModules(ids, filter, online) ==
  OpenFound(ResolveRequestedModulePaths(FALSE, ids), filter, online, Asked("modules", ids, filter))
Lite(ids, online) == OpenModules(ids, {}, online)

(* from_modules() and auto(): every local module, or the local modules of  *)
(* the domains, by their paths.                                            *)
OpenAuto(filter, online) ==
  LET available == ListAvailableModules
      chosen == {id \in Local(available) : PackAt(available[id]).domain \in filter}
      found == IF filter = {} THEN ResolveRequestedModulePaths(TRUE, <<>>)
               ELSE IF ~(filter \subseteq {PackAt(available[id]).domain : id \in DOMAIN available})
               THEN [error |-> "UnknownDomain", paths |-> <<>>]
               ELSE [error |-> "", paths |-> SetToSeq({available[id] : id \in chosen})]
  IN OpenFound(found, {}, online, Asked("auto", <<>>, filter))

OpenDatapacks(paths, filter, online) ==
  OpenFound([error |-> "", paths |-> paths], filter, online, Asked("paths", <<>>, {}))

---------------------------------------------------------------------------
(* The caller's own records.                                               *)

RecordsArguments(call) ==
  [rows |-> call.rows, schema |-> Schema(call.rows, call.domain, RecordsSpec(call)),
   domain |-> call.domain, namespace |-> call.namespace, packType |-> "base",
   linkOn |-> <<>>, onMiss |-> "mint", base |-> <<>>, baseIdentity |-> <<>>]
RecordsError(call) == SchemaError(call.rows, <<>>, RecordsArguments(call).schema)

(* prepare_augment_pack: rows are linked to the base modules of the        *)
(* resolver and not to its overlays.  The identity of the base is the ids  *)
(* of its modules, and the size and time of their files, which stand for   *)
(* the file and its edition.                                               *)
EditionOf(path) == IF path \in DOMAIN Disk THEN edition[path] ELSE 1
BaseIdentity(bases) ==
  [k \in DOMAIN bases |-> <<bases[k].pack.id, bases[k].path, EditionOf(bases[k].path)>>]

AugmentArguments(call) ==
  LET domain == Head(lib.bases).pack.domain
  IN [rows |-> call.rows, schema |-> Schema(call.rows, domain, AugmentSpec(call)),
      domain |-> domain, namespace |-> IF call.namespace = NoName THEN domain ELSE call.namespace,
      packType |-> "overlay", linkOn |-> call.linkOn, onMiss |-> call.onMiss,
      base |-> [k \in DOMAIN lib.bases |-> lib.bases[k].pack.db],
      baseIdentity |-> BaseIdentity(lib.bases)]

AugmentError(call) ==
  IF call.linkOn = <<>> THEN "ValueError"
  ELSE IF ~(ToSet(SystemsOf(call.linkOn)) \subseteq ViewSystems(lib.view)) THEN "ValueError"
  ELSE IF Cardinality({b.pack.domain : b \in ToSet(lib.bases)}) # 1 THEN "ValueError"
  ELSE SchemaError(call.rows, call.columns, AugmentArguments(call).schema)

(* build_byod_pack, for columns that are there: a pack under the key is     *)
(* taken as it is, with its tally; otherwise it is built and put there.    *)
Hit(args) == {k \in DOMAIN shelf : shelf[k].key = ByodCacheKey(args)}

PackOfBuild(args, built, bases, slot) ==
  [id |-> IF args.packType = "base" THEN args.namespace ELSE BuiltIds[slot],
   domain |-> args.domain, kind |-> args.packType, deps |-> {}, bases |-> bases,
   allow |-> TRUE, distribution |-> "bundled", gate |-> "", major |-> 1,
   features |-> Factories[args.domain], data |-> TRUE, db |-> built.db]

NotBuilt(error) == [error |-> error, slot |-> 0, shelf |-> shelf]
Shelved(args, bases, built) ==
  IF built.error # "" THEN NotBuilt(built.error)
  ELSE [error |-> "", slot |-> Len(shelf) + 1,
        shelf |-> Append(shelf, [key |-> ByodCacheKey(args), tally |-> Tally(built.wrote),
                                 wrote |-> built.wrote,
                                 pack |-> PackOfBuild(args, built, bases, Len(shelf) + 1)])]
BuildByodPack(args, bases) ==
  IF Hit(args) # {} THEN [error |-> "", slot |-> Chosen(Hit(args)), shelf |-> shelf]
  ELSE Shelved(args, bases, RunBuild(args))

(* The pack's directory is opened as any other; its report is the tally,   *)
(* with the rows it counts as the history the properties are about.        *)
BuiltAt(built) == [path |-> BuiltPaths[built.slot], there |-> TRUE, pack |-> built.shelf[built.slot].pack]
ReportOf(built) == built.shelf[built.slot]

HasRoom(args) == Hit(args) # {} \/ Len(shelf) < MaxBuilds

FromRecords(call) ==
  /\ ~lib.open
  /\ HasRoom(RecordsArguments(call))
  /\ \E built \in {IF RecordsError(call) # "" THEN NotBuilt(RecordsError(call))
                    ELSE BuildByodPack(RecordsArguments(call), {})} :
       /\ shelf' = built.shelf
       /\ lib' = IF built.error # "" THEN lib
                 ELSE Opened(<<BuiltAt(built)>>, {call.domain}, Asked("records", <<>>, {}), ReportOf(built))
  /\ UNCHANGED <<edition, registered, cached>>

(* augment(): a resolver over the directories of the base modules, of the  *)
(* overlays the resolver has, and of the new one.  The caller goes on with *)
(* it, or, where that failed, with the one there was.                      *)
DirsOf(packs) == [k \in DOMAIN packs |-> DirAt(packs[k].path)]

OrStay(opened) == IF opened.open THEN opened ELSE lib

Augment(call) ==
  /\ lib.open
  /\ AugmentError(call) = ""
  /\ Len(lib.overlays) < MaxOverlays
  /\ HasRoom(AugmentArguments(call))
  /\ \E built \in {BuildByodPack(AugmentArguments(call), {b.pack.id : b \in ToSet(lib.bases)})} :
       /\ built.error = ""
       /\ shelf' = built.shelf
       /\ lib' = OrStay(Opened(DirsOf(lib.bases) \o DirsOf(lib.overlays) \o <<BuiltAt(built)>>,
                               {Head(lib.bases).pack.domain}, Asked("augment", <<>>, {}), ReportOf(built)))
  /\ UNCHANGED <<edition, registered, cached>>

AugmentFails(call) ==
  /\ lib.open
  /\ AugmentError(call) # "" \/ BuildByodPack(AugmentArguments(call), {}).error # ""
  /\ UNCHANGED libraryVars

Close == lib.open /\ lib' = Closed /\ UNCHANGED <<edition, registered, cached, shelf>>

---------------------------------------------------------------------------
(* What happens around a resolver.                                         *)

RegisterModule(id) ==
  ~lib.open /\ registered' = registered \cup {id} /\ UNCHANGED <<edition, cached, shelf, lib>>
UnregisterModule(id) ==
  ~lib.open /\ registered' = registered \ {id} /\ UNCHANGED <<edition, cached, shelf, lib>>

(* download_module_data by name, and clear_module_cache.                   *)
Download(id) ==
  /\ ~lib.open /\ id \in DOMAIN CachePath /\ IsModuleRemote(id)
  /\ cached' = cached \cup {id}
  /\ UNCHANGED <<edition, registered, shelf, lib>>
Clear(id) ==
  ~lib.open /\ cached' = cached \ {id} /\ UNCHANGED <<edition, registered, shelf, lib>>

(* A package upgrade, or a module built anew.                              *)
Replace(dir) ==
  /\ ~lib.open
  /\ edition[dir] < Len(Disk[dir])
  /\ edition' = [edition EXCEPT ![dir] = @ + 1]
  /\ UNCHANGED <<registered, cached, shelf, lib>>

LibraryInit ==
  /\ edition = [dir \in DOMAIN Disk |-> 1]
  /\ registered = {}
  /\ cached = {}
  /\ shelf = <<>>
  /\ lib = Closed

LibraryNext ==
  \/ \E ids \in Selections, filter \in Filters, online \in BOOLEAN : OpenModules(ids, filter, online)
  \/ \E ids \in Selections, online \in BOOLEAN : Lite(ids, online)
  \/ \E filter \in Filters, online \in BOOLEAN : OpenAuto(filter, online)
  \/ \E paths \in PathLists, filter \in Filters, online \in BOOLEAN : OpenDatapacks(paths, filter, online)
  \/ \E call \in RecordsCalls : FromRecords(call)
  \/ \E call \in AugmentCalls : Augment(call) \/ AugmentFails(call)
  \/ Close
  \/ \E id \in DOMAIN Offers : RegisterModule(id) \/ UnregisterModule(id)
  \/ \E id \in DOMAIN CachePath : Download(id) \/ Clear(id)
  \/ \E dir \in DOMAIN Disk : Replace(dir)

LibrarySpec == LibraryInit /\ [][LibraryNext]_libraryVars

---------------------------------------------------------------------------
(* Properties.                                                             *)

Values == DOMAIN Tokens
EntityIds(view) == UNION {Ids(d) : d \in UNION {ToSet(v.store.dbs) : v \in ToSet(view)}}

(* The selection is authoritative (core/api/loading/module_catalog.py):    *)
(* modules that were asked for are loaded with those the overlays among    *)
(* them lie over, and nothing else, whatever is installed, registered or   *)
(* downloaded; with no selection, what is local is loaded and nothing is   *)
(* downloaded.                                                             *)
Needed(ids) == ids \cup UNION {PackAt(ListAvailableModules[i]).bases : i \in ids}
InDomains(ids, filter) == {i \in ids : InFilter(filter, PackAt(ListAvailableModules[i]).domain)}

LoadedIds(resolver) == {l.pack.id : l \in ToSet(resolver.bases \o resolver.overlays)}

SelectionIsAuthoritative ==
  [][~lib.open /\ lib'.open =>
       LET asked == lib'.asked
       IN /\ asked.how = "modules" => LoadedIds(lib') = InDomains(Needed(ToSet(asked.ids)), asked.filter)
          /\ asked.how = "auto" =>
               /\ cached' = cached
               /\ LoadedIds(lib') = InDomains(Local(ListAvailableModules), asked.filter)]_libraryVars

(* A resolver that is augmented finds what it found before: no entity, no  *)
(* name, no code and no relation is lost, no text or code loses a match,   *)
(* and a search lists what it listed, in the same places.                  *)
Keeps(old, new) ==
  /\ old.names \subseteq new.names /\ old.codes \subseteq new.codes
  /\ \A r \in old.relations : \E q \in new.relations : q.type = r.type /\ q.target = r.target

Limit == 2

AugmentOnlyAdds ==
  [][lib.open /\ lib'.open /\ lib' # lib =>
       /\ \A i \in EntityIds(lib.view) : \A old \in ViewEntity(lib.view, i) :
            \E new \in ViewEntity(lib'.view, i) : Keeps(old, new)
       /\ \A value \in Values :
            /\ IsPrefix(ViewName(lib.view, value), ViewName(lib'.view, value))
            /\ \A s \in ViewSystems(lib.view) :
                 IsPrefix(ViewCode(lib.view, {}, s, value), ViewCode(lib'.view, {}, s, value))
            /\ \A k \in DOMAIN lib.view :
                 IsPrefix(Search(lib.view[k].store, value, Limit), Search(lib'.view[k].store, value, Limit))]_libraryVars

(* A row that was linked or minted is found again by what it said: by its  *)
(* aliases, by each code that no later row of the entity replaced, and, if *)
(* it is the first of its entity, by its name.  The tally counts each row  *)
(* once.                                                                   *)
Said(wrote, k) ==
  [names |-> ToSet(wrote[k].record.aliases)
               \cup (IF \E j \in 1..k - 1 : wrote[j].id = wrote[k].id THEN {}
                     ELSE {wrote[k].record.name} \ {NoName}),
   codes |-> {s \in DOMAIN wrote[k].record.codes :
                ~\E j \in k + 1..Len(wrote) : wrote[j].id = wrote[k].id /\ s \in DOMAIN wrote[j].record.codes}]

AddedIsFound ==
  lib.open /\ lib.report # NoReport =>
    LET wrote == lib.report.wrote
    IN /\ \A k \in DOMAIN wrote : wrote[k].status \in {"linked", "minted"} =>
            /\ \A n \in Said(wrote, k).names : Contains(ViewName(lib.view, n), wrote[k].id)
            /\ \A s \in Said(wrote, k).codes :
                 Contains(ViewCode(lib.view, {}, s, wrote[k].record.codes[s]), wrote[k].id)
       /\ MapThenSumSet(LAMBDA s : lib.report.tally[s], DOMAIN lib.report.tally) = Len(wrote)

(* A pack taken from the cache is the pack a build would make now, with    *)
(* its tally (core/byod/build.py: "The values are identical to those       *)
(* returned by the original fresh build").                                 *)
MadeBy(built, entry) ==
  built.error = "" /\ entry.pack.db = built.db /\ entry.tally = Tally(built.wrote)
IsABuild(args) == \A k \in Hit(args) : MadeBy(RunBuild(args), shelf[k])

HitIsABuild ==
  /\ \A call \in RecordsCalls : RecordsError(call) = "" => IsABuild(RecordsArguments(call))
  /\ lib.open => \A call \in AugmentCalls : AugmentError(call) = "" => IsABuild(AugmentArguments(call))

(* The ways to one fact agree.  Many entities are the single ones, and a   *)
(* name leads to the entity that its id does.                              *)
Dates == {NoDate, Today - 1}

TextsAgree(view) ==
  /\ ViewEntities(view, Sorted(EntityIds(view))) = UNION {ViewEntity(view, i) : i \in EntityIds(view)}
  /\ \A value \in Values :
       LET one == ResolveId(view, value, "null")
           must == RequireId(view, value)
       IN /\ must = IF one.answer # NoId THEN one
                    ELSE Raised(IF Resolve(view, value) = {} THEN "ResolutionError" ELSE "AmbiguousResolution")
          /\ EntityByName(view, value) =
               IF one.answer # NoId THEN EntityById(view, one.answer)
               ELSE IF must.error = "ResolutionError" THEN Returned({}) ELSE must

(* A code leads to one entity whether it is asked for by entity(code), by  *)
(* resolve(from_system), or, where it is found at all, by resolve(to).     *)
CodesAgree(view) ==
  \A value \in Values :
    LET by(s) == ResolveFrom(view, {}, s, value)
        found == UNION {by(s).answer : s \in ViewSystems(view)}
        any == ResolveOrLookup(view, {}, value)
    IN /\ \A s \in ViewSystems(view) : EntityByCode(view, {}, s, value) = by(s)
       /\ value \in CodeLike /\ found # {} /\ (\A s \in ViewSystems(view) : by(s).error = "") =>
            IF Cardinality(found) = 1 THEN any = Returned(found) ELSE any.error = "AmbiguousResolution"

(* The members of a group are the entities that are members of it, one by  *)
(* one, their codes lead back to them, and every group that is listed is   *)
(* one whose members can be asked for.                                     *)
GroupsAgree(view) ==
  LET texts == {n \in Values : ResolveGroupId(view, n).error = ""}
  IN /\ \A value \in texts, asOf \in Dates :
          LET members == MembersOf(view, value, asOf).answer
          IN /\ \A c \in texts :
                  IsMember(view, c, value, asOf).answer = (ResolveGroupId(view, c).answer \in members)
             /\ \A s \in ViewSystems(view) : \A code \in MemberCodes(view, value, asOf, s).answer :
                  ToSet(ViewCode(view, {}, s, code)) \cap members # {}
     /\ \A name \in KnownGroups(view) : ResolveGroupId(view, name).error # "GroupNotFound"

(* What is related to by contained_in is what it is directly within.       *)
RelationsAgree(view) ==
  (\A v \in ToSet(view) : Single(v.store)) =>
    \A asOf \in Dates :
      LET inside == UNION {{<<e.id, j>> : e \in Within(view, j, {}, FALSE, Unlimited, asOf)} : j \in EntityIds(view)}
          named == {n \in Values : ArgumentName(view, n).error = ""}
      IN \A value \in named :
           LET i == ArgumentName(view, value).answer
           IN {e.id : e \in RelatedTo(view, value, "contained_in", asOf).answer} \ {i}
                = {p[2] : p \in {q \in inside : q[1] = i}} \ {i}

(* within() is the closure of contained_in, whatever cycles the data has:  *)
(* every entity from which the container is reached in at most so many     *)
(* steps, once each, and not the container.                                *)
Contained(view, asOf) ==
  UNION {ViewReverse(view, j, "contained_in", asOf) \X {j} : j \in EntityIds(view)}
WithinAgrees(view) ==
  \A asOf \in {NoDate, Today} :
    LET ids == EntityIds(view)
        R == Contained(view, asOf)
        through(z, pairs) == pairs \cup {<<p[1], q[2]>> : p \in {x \in pairs : x[2] = z},
                                                          q \in {y \in pairs : y[1] = z}}
        reach == FoldSet(through, R, ids)
        inside(i) == {j \in ids \ {i} : <<j, i>> \in reach}
    IN /\ \A i \in ids :
            /\ {e.id : e \in Within(view, i, {}, TRUE, Unlimited, asOf)} = inside(i)
            /\ {e.id : e \in Within(view, i, {}, FALSE, Unlimited, asOf)}
                 = {j \in ids \ {i} : <<j, i>> \in R}
       /\ \A value \in Values :
            LET c == ContainerName(view, value)
            IN c.error = "" =>
                 WithinNamed(view, value, {"country"}, TRUE, Unlimited, asOf).answer
                   = {e \in ViewEntities(view, Sorted(inside(c.answer))) : e.type = "country"}

(* What is listed for a text is the best of all that begins with it, of    *)
(* whatever pack, as long as no pool overflows: entities whose records     *)
(* have a name that the text begins, ranked, and those it is a whole name  *)
(* of are those it resolves to.  Close names come after them, and take no  *)
(* place of theirs; only a store of several databases may raise.           *)
Typed(view, filter, text, types) ==
  LET scope == {v \in ToSet(view) : InFilter(filter, v.domain)}
      begun(e) == \E n \in e.names : HoldsBeginning(n.value, text)
      match == [class |-> ExactPrefix, value |-> text, typos |-> 0]
      found(v) == {e \in UNION {GetEntity(v.store, i) : i \in EntityIds(view)} :
                     begun(e) /\ OfTypes(e.type, types)}
  IN UNION {{Candidate(e, text, match, v.domain) : e \in found(v)} : v \in scope}
Overflows(view, text, k) ==
  \E v \in ToSet(view) : Cardinality({i \in EntityIds(view) : \E d \in ToSet(v.store.dbs) :
     \E n \in d.names : n.id = i /\ HoldsBeginning(n.value, text)}) > Pool(PerPack(Clamped(k)))
Agrees(view, text, k, never, auto, typed, whole) ==
  /\ never.error = "" /\ (auto.error # "" => \E v \in ToSet(view) : ~Single(v.store))
  /\ auto.error = "" => SelectSeq(auto.answer, LAMBDA c : c.class # Fuzzy) = never.answer
  /\ ~Overflows(view, text, k) =>
       /\ never.answer = Take(Ranked(typed), Clamped(k))
       /\ whole => {c.id : c \in {d \in typed : d.exact}} = ToSet(ViewName(view, text))
SuggestionsAgree(view) ==
  \A text \in DOMAIN Typos, k \in {0, 2}, filter \in {{}, {"geo"}}, types \in {{}, {"country"}} :
    \E ask \in {[f \in {"never", "auto"} |-> Suggest(view, filter, text, k, types, f)]} :
      Agrees(view, text, k, ask["never"], ask["auto"], Typed(view, filter, text, types),
             filter = {} /\ types = {})

WaysAgree ==
  lib.open => /\ TextsAgree(lib.view) /\ CodesAgree(lib.view) /\ GroupsAgree(lib.view)
              /\ RelationsAgree(lib.view) /\ WithinAgrees(lib.view) /\ SuggestionsAgree(lib.view)

---------------------------------------------------------------------------
(* What docs and comments say, and the code does not do.                   *)

(* "The original resolver is unchanged" and the new one adds to it         *)
(* (core/api/resolver.py, augment): a group keeps its members.  The merged *)
(* store answers no question about relations as of a date.                 *)
GroupsSurviveAugment ==
  [][lib.open /\ lib'.open /\ lib' # lib =>
       \A value \in Values :
         LET old == MembersOf(lib.view, value, NoDate)
             new == MembersOf(lib'.view, value, NoDate)
         IN old.error = "" /\ new.error = "" => old.answer \subseteq new.answer]_libraryVars

(* on_miss="mint" "creates a new entity" (core/api/resolver.py, augment):  *)
(* no entity of the base has its id, and none of an earlier overlay.  The  *)
(* seeds start at 0 in every build, under a namespace that is the domain.  *)
MintedIsNew ==
  lib.open /\ lib.overlays # <<>> =>
    \A k \in DOMAIN lib.report.wrote : lib.report.wrote[k].status = "minted" =>
      lib.report.wrote[k].id \notin
        UNION {Ids(l.pack.db) : l \in ToSet(lib.bases \o Front(lib.overlays))}

(* auto() loads what is local (core/api/loading/module_catalog.py): with   *)
(* some module local it opens a resolver, unless two of them conflict.  An *)
(* overlay that is local makes it fail when a base of its is not.          *)
OverlaysLie(packs) ==
  \A o \in ToSet(OfKind(packs, "overlay")) :
    OverlayError(o, OfKind(packs, "base")) # "MissingModuleDependency"
LocalPacks(available, ids) == [k \in DOMAIN ids |-> Loaded(DirAt(available[ids[k]]))]
AutoOpens ==
  \A filter \in {{}} \cup {{d} : d \in DOMAIN Factories} :
    OverlaysLie(LocalPacks(ListAvailableModules,
                           SetToSeq(InDomains(Local(ListAvailableModules), filter))))
===========================================================================
