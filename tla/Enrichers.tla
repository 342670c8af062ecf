----------------------------- MODULE Enrichers ------------------------------
(***************************************************************************)
(* The four tables of a staging database, the two writers that change them *)
(* once a build has staged its rows, and the enrichers of one database.    *)
(* The writers are apply_contribution (builder/pipeline/contribution.py),  *)
(* the only sink of the enrichers, and the merge of one refreshed unit     *)
(* (builder/geo_shared.py).  An enricher reads the database and says what  *)
(* to add or to delete (builder/pipeline/enrich.py and the modules it      *)
(* registers).  The curated files, the CLDR names and the GeoNames dump    *)
(* are constants.  A name stands for its normalized text, which is what    *)
(* its primary key holds; kind and script are left out, and attributes,    *)
(* which no enricher of the stage contributes.                             *)
(***************************************************************************)
EXTENDS Naturals, FiniteSets, Sequences

CONSTANTS
  Entity,   \* entity ids
  TypeOf    \* the entity type an id has wherever it is stored

ASSUME ContributionAssumption == DOMAIN TypeOf = Entity

Tables == {"ents", "names", "codes", "edges", "dated"}
Fields == Tables \cup {"scopes", "gone", "unnamed"}

Blank == [t \in Tables |-> {}]
Nothing == [f \in Fields |-> {}]

(* Several contributions written as one.                                   *)
Joined(contributions) == [f \in Fields |-> UNION {c[f] : c \in contributions}]

Present(db, type) == {e \in db.ents : TypeOf[e] = type}

(* The entities a code resolves to.                                        *)
ByCode(db, system, value) ==
  {k.of : k \in {c \in db.codes : c.system = system /\ c.value = value}}

NamesOf(id, forms) == {[of |-> id, text |-> n.text, lang |-> n.lang] : n \in forms}
CodeOf(id, system, value) == {[of |-> id, system |-> system, value |-> value]}
EdgeOf(id, type, target) == {[of |-> id, type |-> type, target |-> target, dates |-> "always"]}

(* INSERT OR IGNORE: an entity holds one code of a system, and one edge of *)
(* a type to a target, whatever the dates; the row stored first stays.     *)
SameSlot(k, c) == k.of = c.of /\ k.system = c.system
AddCodes(codes, new) ==
  codes \cup {c \in new : /\ \A k \in codes : ~SameSlot(k, c)
                          /\ c = CHOOSE d \in new : SameSlot(d, c)}

SameEdge(e, f) == e.of = f.of /\ e.type = f.type /\ e.target = f.target
AddEdges(edges, new) == edges \cup {f \in new : \A e \in edges : ~SameEdge(e, f)}

(* The edges a contribution leaves in place: those of no scope it owns.    *)
KeptEdges(db, c) == {e \in db.edges : [type |-> e.type, target |-> e.target] \notin c.scopes}

(* Deleting an entity deletes the edges from it and the edges to it.       *)
EdgeStays(e, c) == e.of \notin c.gone /\ e.target \notin c.gone

(* Names are deleted after the inserts, so that a deletion wins.           *)
NameStays(n, c) == n.of \notin c.gone /\ [of |-> n.of, text |-> n.text] \notin c.unnamed

(* apply_contribution, in one transaction.                                 *)
Apply(db, c) ==
  LET ents == (db.ents \cup c.ents) \ c.gone
  IN [ents |-> ents,
      names |-> {n \in db.names \cup c.names : NameStays(n, c)},
      codes |-> {k \in AddCodes(db.codes, c.codes) : k.of \notin c.gone},
      edges |-> {e \in AddEdges(KeptEdges(db, c), c.edges) : EdgeStays(e, c)},
      dated |-> (db.dated \cup c.dated) \cap ents]

(* What the stage asks of the deltas: did the count of the names move?     *)
NamesMoved(db, c) == Cardinality(Apply(db, c).names) # Cardinality(db.names)

(* insert_normalized_payload: entities and codes are replaced, names and   *)
(* relations ignored where they are there.                                 *)
Inserted(db, rows) ==
  [ents |-> db.ents \cup rows.ents,
   names |-> db.names \cup rows.names,
   codes |-> rows.codes \cup {k \in db.codes : \A c \in rows.codes : ~SameSlot(k, c)},
   edges |-> AddEdges(db.edges, rows.edges),
   dated |-> db.dated \ rows.ents]

(* Another run replaces the rows of one entity type by the slice it has    *)
(* fetched, and drops the edges to entities of the type that left.         *)
Merged(db, type, slice) ==
  LET old == Present(db, type)
      ents == (db.ents \ old) \cup slice.ents
      left == old \ ents
      rest == [ents |-> db.ents \ old,
               names |-> {n \in db.names : n.of \notin old},
               codes |-> {k \in db.codes : k.of \notin old},
               edges |-> {e \in db.edges : e.of \notin old},
               dated |-> db.dated \ old]
  IN [Inserted(rest, slice) EXCEPT !.edges = {e \in @ : e.target \notin left}]

---------------------------------------------------------------------------
(***************************************************************************)
(* The relation closure of a staging database (stage_reconcile and         *)
(* builder/pipeline/reconcile.py): bounded rounds fetch the entities that  *)
(* relations point at and the database lacks; a target that cannot be      *)
(* fetched, or that the rounds do not reach, fails the stage.              *)
(***************************************************************************)

CONSTANTS
  Fetchable,      \* what the source has of an entity: id -> rows
  ReconcileTypes, \* reconcile_relation_types
  MaxRounds       \* reconcile_max_rounds

ASSUME ReconcileAssumption == MaxRounds \in Nat \ {0}

(* Relations from an entity the database holds to one that it lacks.       *)
Missing(db) ==
  {e.target : e \in {f \in db.edges : /\ f.of \in db.ents
                                      /\ f.target \notin db.ents
                                      /\ f.type \in ReconcileTypes}}

(* Only rows of the entities asked for are kept; the source may lack one.  *)
FetchedRows(ids) ==
  LET found == {Fetchable[id] : id \in ids \cap DOMAIN Fetchable}
      rows == [t \in Tables |-> UNION {f[t] : f \in found}]
  IN [rows EXCEPT !.ents = @ \cap ids,
                  !.names = {n \in @ : n.of \in ids},
                  !.codes = {k \in @ : k.of \in ids},
                  !.edges = {e \in @ : e.of \in ids}]

Round(db) == Inserted(db, FetchedRows(Missing(db)))

(* Rounds stop early when nothing is missing or nothing new was fetched,   *)
(* and a round more would change nothing then.                             *)
Hydrated(db) ==
  LET after[n \in 0 .. MaxRounds] == IF n = 0 THEN db ELSE Round(after[n - 1])
  IN after[MaxRounds]

Closed(db) == Missing(db) = {}
-----------------------------------------------------------------------------
(* The enrichers                                                           *)

CONSTANTS
  Formal,       \* formal_names.yaml and pycountry: [id, forms], "the X" included
  Cldr,         \* CLDR territory names: [iso2, forms]
  Iso3Fallback, \* iso2 codes the store lacks: iso2 -> iso3
  Abbreviated,  \* a text "Saint X" -> the texts "St. X" and "St X"
  Groups,       \* groups.yaml: [id, forms, listed, members]
  M49Regions,   \* seed/m49.py: [id, forms, code, parent]
  M49Countries, \* seed/m49.py: [iso3, leaf]
  GeoNames,     \* alternate names of countries: [iso2, forms]
  Validity,     \* entity_validity.yaml: entity ids
  RegionForms,  \* region_aliases.yaml: [id, forms]
  NoiseRegion,  \* regions the id and name patterns of the filter match
  NoiseExplicit \* entities the filter names one by one

\* What the filter takes out is statistics' placeholders and doubles among
\* the regions, and nothing that the curated files name or lead to.  A group
\* is listed once.
Filtered == NoiseRegion \cup NoiseExplicit

ASSUME CuratedAssumption ==
  /\ Filtered \subseteq Entity /\ \A e \in Filtered : TypeOf[e] = "region"
  /\ \A r \in RegionForms : r.id \notin Filtered
  /\ \A r \in Groups \cup M49Regions : r.id \in Entity \ Filtered
  /\ \A r \in M49Regions : r.parent \notin Filtered
  /\ \A a \in M49Countries : a.leaf \notin Filtered
  /\ \A g, h \in Groups : g.id = h.id => g = h

(* A map from a code to an entity keeps one of those that hold the code.   *)
OneOf(ids) == {e \in ids : e = CHOOSE d \in ids : TRUE}
ByIso3(db, iso3) == OneOf(ByCode(db, "iso3", iso3))

FormalNames(db) ==
  [Nothing EXCEPT !.names = UNION {NamesOf(f.id, f.forms) :
                                     f \in {g \in Formal : g.id \in Present(db, "country")}}]

(* The iso2 code finds the entity, or else the iso3 code it falls back to. *)
Territory(db, iso2) ==
  LET found == OneOf(ByCode(db, "iso2", iso2))
  IN IF found = {} /\ iso2 \in DOMAIN Iso3Fallback THEN ByIso3(db, Iso3Fallback[iso2]) ELSE found

MultilingualNames(db) ==
  [Nothing EXCEPT !.names =
     UNION {UNION {NamesOf(e, t.forms) : e \in Territory(db, t.iso2)} : t \in Cldr}]

Saints(db) == {n \in db.names : /\ n.of \in Present(db, "country")
                                /\ n.lang = "en"
                                /\ n.text \in DOMAIN Abbreviated}
StForms(n) == {[of |-> n.of, text |-> t, lang |-> n.lang] : t \in Abbreviated[n.text]}
StAliases(db) == [Nothing EXCEPT !.names = UNION {StForms(n) : n \in Saints(db)}]

(* Listed members own every edge of the group, those of earlier files too; *)
(* a member the database does not hold is left out.                        *)
Members(db, g) ==
  UNION {{[of |-> e, type |-> "member_of", target |-> g.id, dates |-> m.dates] :
            e \in ByIso3(db, m.iso3)} : m \in g.members}
Group(db, g) ==
  [Nothing EXCEPT !.ents = {g.id},
                  !.names = NamesOf(g.id, g.forms),
                  !.edges = Members(db, g),
                  !.scopes = IF g.listed THEN {[type |-> "member_of", target |-> g.id]} ELSE {}]
GroupRows(db) == Joined({Group(db, g) : g \in Groups})

ContainmentRows(db) ==
  [Nothing EXCEPT
     !.ents = {r.id : r \in M49Regions},
     !.names = UNION {NamesOf(r.id, r.forms) : r \in M49Regions},
     !.codes = UNION {CodeOf(r.id, "m49", r.code) : r \in M49Regions},
     !.edges = UNION ({EdgeOf(r.id, "contained_in", r.parent) : r \in M49Regions} \cup
                      {UNION {EdgeOf(e, "contained_in", a.leaf) : e \in ByIso3(db, a.iso3)} :
                         a \in M49Countries})]

(* Nothing at all when either download fails.                              *)
GeoNamesAliases(db, reachable) ==
  LET rows == UNION {UNION {NamesOf(e, g.forms) :
                              e \in OneOf(ByCode(db, "iso2", g.iso2) \cap Present(db, "country"))} :
                       g \in GeoNames}
  IN [Nothing EXCEPT !.names = IF reachable THEN rows \ db.names ELSE {}]

ValidityUpdates(db) == [Nothing EXCEPT !.dated = Validity \cap db.ents]

RegionAliases(db) ==
  [Nothing EXCEPT !.names = UNION {NamesOf(r.id, r.forms) :
                                     r \in {q \in RegionForms : q.id \in Present(db, "region")}}]

RegionFilter(db) ==
  [Nothing EXCEPT !.gone = (NoiseRegion \cap Present(db, "region")) \cup
                           (NoiseExplicit \cap db.ents)]

(* _ENRICHERS: which run, for which entity type, in which order.           *)
Enricher ==
  <<"formal", "multilingual", "st", "groups", "containment", "geonames", "validity",
    "aliases", "filter">>
TargetType(i) == IF Enricher[i] \in {"aliases", "filter"} THEN "region" ELSE "country"

Contributed(i, db, reachable) ==
  LET name == Enricher[i]
  IN CASE name = "formal" -> FormalNames(db)
       [] name = "multilingual" -> MultilingualNames(db)
       [] name = "st" -> StAliases(db)
       [] name = "groups" -> GroupRows(db)
       [] name = "containment" -> ContainmentRows(db)
       [] name = "geonames" -> GeoNamesAliases(db, reachable)
       [] name = "validity" -> ValidityUpdates(db)
       [] name = "aliases" -> RegionAliases(db)
       [] name = "filter" -> RegionFilter(db)

---------------------------------------------------------------------------
(***************************************************************************)
(* The OECD pass, which spans the geo and the org database of a run        *)
(* (builder/oecd_dac.py): it reads both once and contributes to each.  An  *)
(* item of oecd_dac.yaml has a code, the forms of its names, the id it     *)
(* gets when an entity has to be made for it, and an iso3 or Null.         *)
(***************************************************************************)

CONSTANTS
  Null,
  Recipients,    \* [code, id, iso3, forms]
  Providers,     \* [code, id, iso3, forms]
  Channels,      \* [code, id, parent, forms], parent a channel
  Agencies,      \* [code, id, donor, forms], donor a provider's code
  Crosswalk,     \* "provider" | "channel" | "agency" -> code -> an entity or Null
  CountryId,     \* iso3 -> the id country/<iso3>
  EuropeanUnion  \* the one target whose donor label is not its name

\* Nor does the crosswalk map a code to what the filter takes out.
ASSUME OecdAssumption ==
  /\ Null \notin {"geo", "org"}
  /\ DOMAIN Crosswalk = {"provider", "channel", "agency"}
  /\ \A section \in DOMAIN Crosswalk : \A code \in DOMAIN Crosswalk[section] :
       Crosswalk[section][code] \notin Filtered
  /\ \A r \in Recipients : r.id \in Entity \ Filtered

Known(section, code) ==
  IF code \in DOMAIN Crosswalk[section] THEN Crosswalk[section][code] ELSE Null

(* _validate_crosswalk: the database that holds a target, or Null.         *)
Located(target, has, geo, org) ==
  IF "geo" \in has /\ target \in geo.ents THEN "geo"
  ELSE IF "org" \in has /\ target \in org.ents THEN "org"
  ELSE Null

Attached(id, system, item) ==
  [Nothing EXCEPT !.names = NamesOf(id, item.forms), !.codes = CodeOf(id, system, item.code)]
Minted(id, system, item) == [Attached(id, system, item) EXCEPT !.ents = {id}]

(* A recipient that no entity has the iso3 of becomes a region.            *)
RecipientRows(geo) ==
  Joined({LET found == ByIso3(geo, r.iso3)
          IN IF found = {} THEN Minted(r.id, "oecd:recipient", r)
             ELSE Attached(CHOOSE e \in found : TRUE, "oecd:recipient", r) : r \in Recipients})

CountryProviderRows(geo) ==
  Joined({Attached(CHOOSE e \in ByIso3(geo, p.iso3) : TRUE, "oecd:provider", p) :
            p \in {q \in Providers : q.iso3 # Null /\ ByIso3(geo, q.iso3) # {}}})

Multilateral == {p \in Providers : p.iso3 = Null}

(* The donor label is not a name of the European Union: the code is kept,  *)
(* the names are left out, and deleted where an earlier build put them.    *)
Suppressed_InsertOnly(p) ==
  [Nothing EXCEPT !.codes = CodeOf(EuropeanUnion, "oecd:provider", p.code)]
Suppressed(p) ==
  [Nothing EXCEPT !.codes = CodeOf(EuropeanUnion, "oecd:provider", p.code),
                  !.unnamed = {[of |-> EuropeanUnion, text |-> n.text] : n \in p.forms}]

(* Providers the crosswalk maps to an entity no database holds are left    *)
(* out.                                                                    *)
MappedTo_Blindly(db, has, geo, org) ==
  {p \in Multilateral : LET target == Known("provider", p.code) IN
     /\ target # Null
     /\ Located(target, has, geo, org) \in {db} \cup (IF db = "geo" THEN {Null} ELSE {})}
MappedTo(db, has, geo, org) ==
  {p \in Multilateral : LET target == Known("provider", p.code) IN
     target # Null /\ Located(target, has, geo, org) = db}

GeoProviderRows(has, geo, org) ==
  Joined({LET target == Known("provider", p.code)
          IN IF target = EuropeanUnion THEN Suppressed(p) ELSE Attached(target, "oecd:provider", p) :
            p \in MappedTo("geo", has, geo, org)})
OrgProviderRows(has, geo, org) ==
  Joined({Attached(Known("provider", p.code), "oecd:provider", p) :
            p \in MappedTo("org", has, geo, org)} \cup
         {Minted(p.id, "oecd:provider", p) :
            p \in {q \in Multilateral : Known("provider", q.code) = Null}})

(* A mapped channel goes where its target is, and to the org database when *)
(* its target is nowhere.                                                  *)
ChannelSide(c, has, geo, org) ==
  IF Known("channel", c.code) # Null /\ Located(Known("channel", c.code), has, geo, org) = "geo"
  THEN "geo" ELSE "org"
ChannelId(c) == IF Known("channel", c.code) = Null THEN c.id ELSE Known("channel", c.code)
ChannelRows(side, has, geo, org) ==
  Joined({IF Known("channel", c.code) = Null THEN Minted(c.id, "oecd:channel", c)
          ELSE Attached(ChannelId(c), "oecd:channel", c) :
            c \in {d \in Channels : ChannelSide(d, has, geo, org) = side}})
ChannelEdges(has, geo, org) ==
  [Nothing EXCEPT !.edges =
     UNION {UNION {EdgeOf(ChannelId(c), "part_of", ChannelId(p)) :
                     p \in {q \in Channels : /\ q.code = c.parent /\ q # c
                                             /\ ChannelSide(q, has, geo, org) = "org"}} :
              c \in {d \in Channels : ChannelSide(d, has, geo, org) = "org"}}]

(* An agency is a subsidiary of its donor's country, whether or not a      *)
(* database holds it, or of the entity a multilateral donor is mapped to   *)
(* or made as.  One whose donor is not listed is left out.                 *)
Donor(a) == CHOOSE p \in Providers : p.code = a.donor
DonorEntity(p) ==
  IF p.iso3 # Null THEN CountryId[p.iso3]
  ELSE IF Known("provider", p.code) # Null THEN Known("provider", p.code)
  ELSE p.id
AgencyRow(a) ==
  LET target == IF Donor(a).iso3 = Null THEN Null ELSE Known("agency", a.code)
      id == IF target = Null THEN a.id ELSE target
      row == IF target = Null THEN Minted(id, "oecd:agency", a)
             ELSE Attached(id, "oecd:agency", a)
  IN [row EXCEPT !.edges = EdgeOf(id, "subsidiary_of", DonorEntity(Donor(a)))]
AgencyRows ==
  Joined({AgencyRow(a) : a \in {b \in Agencies : \E p \in Providers : p.code = b.donor}})

(* build_oecd_contributions: a database the run lacks is given nothing.    *)
OecdGeoRows(has, geo, org) ==
  IF "geo" \notin has THEN Nothing
  ELSE Joined({RecipientRows(geo), CountryProviderRows(geo), GeoProviderRows(has, geo, org),
               ChannelRows("geo", has, geo, org)})
OecdOrgRows(has, geo, org) ==
  IF "org" \notin has THEN Nothing
  ELSE Joined({OrgProviderRows(has, geo, org), ChannelRows("org", has, geo, org),
               ChannelEdges(has, geo, org), AgencyRows})
=============================================================================
