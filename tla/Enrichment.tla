---- MODULE Enrichment ----
(***************************************************************************)
(* stage_enrich (builder/pipeline/enrich.py): runs enrich the shared geo   *)
(* store, and each its own org database, one enricher at a time.  Every    *)
(* enricher reads on a connection of its own and its contribution is       *)
(* written by a later transaction; no lock is held over the two, so that   *)
(* another run's merge or enricher may come between them.                  *)
(***************************************************************************)
EXTENDS Enrichers

CONSTANTS
  Run,
  Slice,       \* what a merge brings: entity type -> set of databases
  Staged,      \* what the units merged so far hold
  Earlier,     \* what builds of earlier versions may have left in the store
  OrgStaged,   \* what a run's own org database holds when it gets here
  MaxPasses, MaxFaults

VARIABLES
  geo,         \* the shared store
  org,         \* each run's org staging database
  has,         \* the domains a run has staging databases of
  at,          \* where a run is
  present,     \* the entity types found when the enrichers began
  draft,       \* the contributions read and not yet written, a sequence
  dirty,       \* dbs_needing_fts
  stale,       \* databases whose index lags behind their names: geo, or a run
  closed,      \* runs whose pass found every relation target there; nothing but
               \* rows read since the last merge or fetch has come into it
  enriched,    \* such a pass has ended, and nothing else has come since
  behind,      \* runs with rows in hand read before the last merge or fetch
  disturbed,   \* runs whose pass a merge fell into
  crossed,     \* whether a contribution has been written that a merge had overtaken
  passes, faults

dbVars == <<geo, org, stale>>
passVars == <<at, present, draft, dirty, closed>>
historyVars == <<enriched, behind, disturbed, crossed>>
enrichVars == <<dbVars, has, passVars, historyVars, passes, faults>>

(* Where a run is: at an enricher, or at one of these.                     *)
NotBegun == 0
Steps == 1 .. Len(Enricher)
Oecd == Len(Enricher) + 1
OecdGeo == Oecd + 1
OecdOrg == Oecd + 2
Index == Oecd + 3
Reconciling == Oecd + 4
Starting == Oecd + 5
Done == Oecd + 6
Interrupted == Oecd + 7

Running(r) == at[r] \notin {NotBegun, Done, Interrupted}

\* Rows in hand for the shared store.
ToGeo(r) == draft[r] # << >> /\ at[r] # OecdOrg

Orphans(db) == {row \in db.names \cup db.codes : row.of \notin db.ents}

\* Rows come with the entities they are of, and only countries and their
\* like have codes of ISO.
Sound(db) ==
  /\ DOMAIN db = Tables /\ db.ents \subseteq Entity /\ Orphans(db) = {}
  /\ \A k \in db.codes : k.system \in {"iso2", "iso3"} => k.of \notin Filtered

ASSUME RowsAssumption ==
  /\ \A earlier \in Earlier : Sound(Apply(Staged, earlier))
  /\ \A type \in DOMAIN Slice : \A slice \in Slice[type] : Sound(slice)
  /\ \A id \in DOMAIN Fetchable : Sound(Fetchable[id])

\* A relation to what the filter takes out is one that the reconciliation
\* follows, and comes with its entity; the unit of countries is not empty.
Related(db) ==
  \A e \in db.edges : e.target \in Filtered => e.type \in ReconcileTypes /\ e.of \in db.ents
HasCountries(db) == Present(db, "country") # {}

ASSUME RelationsAssumption ==
  /\ \A earlier \in Earlier : Related(Apply(Staged, earlier)) /\ HasCountries(Apply(Staged, earlier))
  /\ \A type \in DOMAIN Slice : \A slice \in Slice[type] :
       Related(slice) /\ (type = "country" => HasCountries(slice))
  /\ \A id \in DOMAIN Fetchable : Related(Fetchable[id])

EnrichInit ==
  /\ \E earlier \in Earlier : geo = Apply(Staged, earlier)
  /\ org = [r \in Run |-> OrgStaged]
  /\ \E domains \in {{"geo"}, {"geo", "org"}} : has = [r \in Run |-> domains]
  /\ at = [r \in Run |-> NotBegun]
  /\ present = [r \in Run |-> {}]
  /\ draft = [r \in Run |-> << >>]
  /\ dirty = [r \in Run |-> {}]
  /\ stale = {} /\ closed = {}
  /\ enriched = FALSE /\ behind = {} /\ disturbed = {} /\ crossed = FALSE
  /\ passes = 0 /\ faults = 0

Goto(r, step) == at' = [at EXCEPT ![r] = step]

(* A new build, whose org database is its own, or a resumed one.           *)
BeginPass(r) ==
  /\ \/ at[r] = Interrupted /\ UNCHANGED org
     \/ at[r] \in {NotBegun, Done} /\ org' = [org EXCEPT ![r] = OrgStaged]
  /\ passes < MaxPasses
  /\ passes' = passes + 1
  /\ Goto(r, Reconciling)
  /\ closed' = closed \ {r}
  /\ disturbed' = disturbed \ {r}
  /\ UNCHANGED <<geo, stale, has, present, draft, dirty, enriched, behind, crossed, faults>>

(* Rows come from the source: what other runs have read is behind now, and *)
(* the passes so far do not count.                                         *)
Refreshed(closing) ==
  /\ behind' = {q \in Run : ToGeo(q)}
  /\ closed' = closing
  /\ enriched' = FALSE

(* Under the refresh lock, in a run that has discovered geo chunks; a run  *)
(* that found the coverage complete has none and goes on.                  *)
ReconcileGeo(r) ==
  LET closing == IF Closed(geo') THEN {r} ELSE {} IN
  /\ at[r] = Reconciling
  /\ geo' = Hydrated(geo)
  /\ Goto(r, IF Closed(geo') THEN Starting ELSE Interrupted)
  /\ stale' = IF geo'.ents # geo.ents THEN stale \ {"geo"} ELSE stale
  /\ IF geo' = geo THEN closed' = closed \cup closing /\ UNCHANGED <<enriched, behind>>
     ELSE Refreshed(closing)
  /\ UNCHANGED <<org, has, present, draft, dirty, disturbed, crossed, passes, faults>>

SkipReconcile(r) ==
  /\ at[r] = Reconciling
  /\ Goto(r, Starting)
  /\ UNCHANGED <<dbVars, has, present, draft, dirty, closed, historyVars, passes, faults>>

(* The next enricher whose entity type the database had, or the OECD pass. *)
Following_SkipsOne(i, types) ==
  LET left == {j \in Steps : j > i + 1 /\ TargetType(j) \in types}
  IN IF left = {} THEN Oecd ELSE CHOOSE j \in left : \A k \in left : j <= k
Following(i, types) ==
  LET left == {j \in Steps : j > i /\ TargetType(j) \in types}
  IN IF left = {} THEN Oecd ELSE CHOOSE j \in left : \A k \in left : j <= k

Start(r) ==
  /\ at[r] = Starting
  /\ LET types == {TypeOf[e] : e \in geo.ents} IN
       present' = [present EXCEPT ![r] = types] /\ Goto(r, Following(0, types))
  /\ dirty' = [dirty EXCEPT ![r] = {}]
  /\ UNCHANGED <<dbVars, has, draft, closed, historyVars, passes, faults>>

ReadEnricher(r) ==
  /\ at[r] \in Steps
  /\ draft[r] = << >>
  /\ \E reachable \in BOOLEAN :
       draft' = [draft EXCEPT ![r] = <<Contributed(at[r], geo, reachable)>>]
  /\ UNCHANGED <<dbVars, has, at, present, dirty, closed, historyVars, passes, faults>>

(* A transaction on the shared store; what it changes is to be indexed.    *)
WriteGeo(r, c) ==
  /\ geo' = Apply(geo, c)
  /\ stale' = IF geo'.names # geo.names THEN stale \cup {"geo"} ELSE stale
  /\ dirty' = [dirty EXCEPT ![r] = IF NamesMoved(geo, c) THEN @ \cup {"geo"} ELSE @]
  /\ crossed' = (crossed \/ r \in disturbed)
  /\ behind' = behind \ {r}
  /\ IF r \in behind THEN closed' = {} /\ enriched' = FALSE ELSE UNCHANGED <<closed, enriched>>

WriteEnricher(r) ==
  /\ at[r] \in Steps
  /\ draft[r] # << >>
  /\ WriteGeo(r, Head(draft[r]))
  /\ draft' = [draft EXCEPT ![r] = << >>]
  /\ Goto(r, Following(at[r], present[r]))
  /\ UNCHANGED <<org, has, present, disturbed, passes, faults>>

(* build_oecd_contributions reads both databases before either is written. *)
ReadOecd(r) ==
  /\ at[r] = Oecd
  /\ draft' = [draft EXCEPT ![r] = <<OecdGeoRows(has[r], geo, org[r]),
                                     OecdOrgRows(has[r], geo, org[r])>>]
  /\ Goto(r, OecdGeo)
  /\ UNCHANGED <<dbVars, has, present, dirty, closed, historyVars, passes, faults>>

WriteOecdGeo(r) ==
  /\ at[r] = OecdGeo
  /\ WriteGeo(r, draft[r][1])
  /\ Goto(r, OecdOrg)
  /\ UNCHANGED <<org, has, present, draft, disturbed, passes, faults>>

WriteOecdOrg(r) ==
  LET c == draft[r][2] IN
  /\ at[r] = OecdOrg
  /\ IF "org" \in has[r]
     THEN /\ org' = [org EXCEPT ![r] = Apply(@, c)]
          /\ stale' = IF org'[r].names # org[r].names THEN stale \cup {r} ELSE stale
          /\ dirty' = [dirty EXCEPT ![r] = IF NamesMoved(org[r], c) THEN @ \cup {"org"} ELSE @]
     ELSE UNCHANGED <<org, stale, dirty>>
  /\ draft' = [draft EXCEPT ![r] = << >>]
  /\ Goto(r, Index)
  /\ UNCHANGED <<geo, has, present, closed, historyVars, passes, faults>>

(* The deferred rebuild, in the order of a set.                            *)
RebuildFts(r) ==
  /\ at[r] = Index
  /\ \E db \in dirty[r] :
       /\ dirty' = [dirty EXCEPT ![r] = @ \ {db}]
       /\ stale' = stale \ {IF db = "geo" THEN "geo" ELSE r}
  /\ UNCHANGED <<geo, org, has, at, present, draft, closed, historyVars, passes, faults>>

Finish(r) ==
  /\ at[r] = Index
  /\ dirty[r] = {}
  /\ Goto(r, Done)
  /\ enriched' = (enriched \/ r \in closed)
  /\ UNCHANGED <<dbVars, has, present, draft, dirty, closed, behind, disturbed, crossed, passes,
                 faults>>

(* A crash, or a write that finds the database locked and rolls back.      *)
Stop(r) ==
  /\ Running(r)
  /\ faults < MaxFaults
  /\ faults' = faults + 1
  /\ Goto(r, Interrupted)
  /\ draft' = [draft EXCEPT ![r] = << >>]
  /\ behind' = behind \ {r}
  /\ UNCHANGED <<dbVars, has, present, dirty, closed, enriched, disturbed, crossed, passes>>

(* Another run, which holds the refresh lock, replaces a unit, and indexes *)
(* the names when it has merged its units.                                 *)
MergeUnit(type, slice) ==
  /\ faults < MaxFaults
  /\ faults' = faults + 1
  /\ geo' = Merged(geo, type, slice)
  /\ disturbed' = disturbed \cup {r \in Run : Running(r)}
  /\ Refreshed({})
  /\ UNCHANGED <<org, stale, has, at, present, draft, dirty, crossed, passes>>

EnrichNext ==
  \/ \E r \in Run :
       \/ BeginPass(r) \/ ReconcileGeo(r) \/ SkipReconcile(r) \/ Start(r)
       \/ ReadEnricher(r) \/ WriteEnricher(r)
       \/ ReadOecd(r) \/ WriteOecdGeo(r) \/ WriteOecdOrg(r)
       \/ RebuildFts(r) \/ Finish(r) \/ Stop(r)
  \/ \E type \in DOMAIN Slice : \E slice \in Slice[type] : MergeUnit(type, slice)

EnrichSpec == EnrichInit /\ [][EnrichNext]_enrichVars

(***************************************************************************)
(* Properties.                                                             *)
(***************************************************************************)
EnrichTypeOK ==
  /\ DOMAIN geo = Tables /\ DOMAIN draft = Run /\ DOMAIN present = Run
  /\ at \in [Run -> NotBegun .. Interrupted]
  /\ has \in [Run -> {{"geo"}, {"geo", "org"}}]
  /\ dirty \in [Run -> SUBSET {"geo", "org"}]
  /\ \A r \in Run : dirty[r] \subseteq has[r] /\ Len(draft[r]) \in 0 .. 2
  /\ stale \subseteq {"geo"} \cup Run /\ disturbed \subseteq Run /\ behind \subseteq Run

(* A name or a code of an entity the shared store does not hold makes      *)
(* every later validation of it fail, and no merge clears it away          *)
(* (validate.py, geo_shared.py:417).  Only a write computed before a merge *)
(* took the entity out leaves one.                                         *)
OrphansNeedAMerge == ~crossed => Orphans(geo) = {}

(* The donor label of the European Union: "Delete it so the name resolves  *)
(* to the dedicated DAC entity on every build, not just a from-scratch     *)
(* one" (oecd_dac.py:385).                                                 *)
DonorLabels == UNION {p.forms : p \in {q \in Providers : Known("provider", q.code) = EuropeanUnion}}

\* What else the curated files call the European Union, by its id or by a
\* code it may hold, is no donor label; the Union is no country.
OtherForms ==
  UNION {x.forms : x \in {y \in Groups \cup M49Regions \cup RegionForms : y.id = EuropeanUnion}
                     \cup Cldr \cup Recipients \cup {p \in Providers : p.iso3 # Null}
                     \cup {c \in Channels : Known("channel", c.code) = EuropeanUnion}}

ASSUME DonorAssumption ==
  /\ EuropeanUnion \in Entity \ {Null} /\ TypeOf[EuropeanUnion] # "country"
  /\ \A p \in Providers : Known("provider", p.code) = EuropeanUnion => p.iso3 = Null
  /\ NamesOf(EuropeanUnion, OtherForms) \cap NamesOf(EuropeanUnion, DonorLabels) = {}

MembersIn(db, g) == {e \in db.edges : e.type = "member_of" /\ e.target = g.id}

DonorLabelIsOff(db) == NamesOf(EuropeanUnion, DonorLabels) \cap db.names = {}
GroupsAreTheFiles(db) == \A g \in {h \in Groups : h.listed} : MembersIn(db, g) = Members(db, g)
FilteredAreGone(db) == db.ents \cap Filtered = {} /\ \A e \in db.edges : e.target \notin Filtered

(* What the curated files rule holds after a pass, whatever earlier builds *)
(* left, whatever merges brought before it and whatever the other runs are *)
(* writing: the donor label is off the European Union; the members of a    *)
(* group are the file's, with its dates, and nobody else; the filtered     *)
(* entities are gone, and no edge points at one.  It holds until rows come *)
(* from the source, or are written that were read before such came.        *)
CurationIsEnforced ==
  enriched => DonorLabelIsOff(geo) /\ GroupsAreTheFiles(geo) /\ FilteredAreGone(geo)

(* One pass over a database, with nobody else about.                       *)
Pass(db) ==
  LET types == {TypeOf[e] : e \in db.ents}
      after[i \in 0 .. Len(Enricher)] ==
        IF i = 0 THEN db
        ELSE LET before == after[i - 1]
             IN IF TargetType(i) \in types THEN Apply(before, Contributed(i, before, TRUE))
                ELSE before
      last == after[Len(Enricher)]
  IN Apply(last, OecdGeoRows({"geo"}, last, Blank))

(* Names that only the enrichers behind the short forms bring.             *)
Late(db) == GeoNamesAliases([db EXCEPT !.names = {}], TRUE).names
              \cup OecdGeoRows({"geo"}, db, Blank).names
ShortOf(names) == UNION {StForms(n) : n \in {m \in names : m.text \in DOMAIN Abbreviated}}

(* Crashed, resumed and overlapping passes leave what one pass alone does: *)
(* running the stage again takes nothing away and adds only names, those   *)
(* of a GeoNames that could not be reached and the short forms of a Saint  *)
(* X that came late.  Every other Saint X has its own already: the short   *)
(* forms are read "AFTER the multilingual enricher commits"                *)
(* (enrich.py:113).                                                        *)
PassIsRepeatable ==
  enriched /\ (\A r \in Run : ~Running(r)) =>
    LET again == Pass(geo)
    IN /\ \A t \in Tables \ {"names"} : again[t] = geo[t]
       /\ geo.names \subseteq again.names
       /\ again.names \subseteq geo.names \cup Late(geo) \cup ShortOf(Late(geo))

(* "re-running a build yields zero net changes the second time"            *)
(* (enrich.py:5).  Not so for a Saint X name that GeoNames or the OECD     *)
(* brings after the short forms were made: they are made the next time.    *)
SecondPassIsQuiet ==
  enriched /\ (\A r \in Run : ~Running(r)) => Pass(geo) = geo

(* "FTS rebuilds are deferred until every enricher has applied its         *)
(* contribution" (enrich.py:333).  A rebuild is decided by net counts, and *)
(* a resumed stage finds the rows already there: the index may lag.        *)
IndexIsFresh == (\A r \in Run : at[r] \in {NotBegun, Done}) => "geo" \notin stale

(* "We skip gracefully and don't attach the OECD code to that entity"      *)
(* (oecd_dac.py:113), of a crosswalk target that no database holds.  Not   *)
(* so for channels and agencies: with one mapped to such a target this     *)
(* fails.  Both maps are empty in the data.                                *)
CodesFollowCrosswalk == \A r \in Run : Orphans(org[r]) = {}
====
