------------------------------ MODULE Stores ------------------------------
(***************************************************************************)
(* What a resolver reads: the SQLite database of a pack                    *)
(* (core/store/sqlite.py), the databases of a base and its overlays merged *)
(* into one store (core/store/merging.py, core/merge.py), the stores of a  *)
(* builder's base modules (core/store/composite.py), and the stores of all *)
(* domains behind one view (core/store/store_view.py).                     *)
(*                                                                         *)
(* A database is a record of four tables.  An id is a number, in the order *)
(* of the entity ids; a value stands for its normalized form; the score of *)
(* a match is left out, and matches come in the order of their ids.        *)
(* No entity, or one, is a set of records of one id.                       *)
(***************************************************************************)
EXTENDS Integers, SequencesExt, FiniteSetsExt

CONSTANTS
  NoDate,     \* valid_from or valid_until IS NULL
  ChunkSize,  \* _BULK_CHUNK_SIZE
  Tokens      \* the words of a normalized name

ASSUME StoresAssumption == NoDate \notin Nat /\ ChunkSize \in Nat \ {0}

NoRows == [entities |-> {}, names |-> {}, codes |-> {}, relations |-> {}]

(* ORDER BY entity_id.                                                     *)
Sorted(S) == [k \in 1..Cardinality(S) |-> CHOOSE i \in S : Cardinality({j \in S : j < i}) = k - 1]
Take(s, n) == SubSeq(s, 1, IF Len(s) < n THEN Len(s) ELSE n)

---------------------------------------------------------------------------
(* One database.                                                           *)

Ids(d) == {e.id : e \in d.entities}

NameRows(d, i) == {[kind |-> n.kind, value |-> n.value] : n \in {m \in d.names : m.id = i}}
CodeRows(d, i) == {[system |-> c.system, value |-> c.value] : c \in {b \in d.codes : b.id = i}}
RelationRows(d, i) ==
  {[type |-> r.type, target |-> r.target, from |-> r.from, until |-> r.until] :
     r \in {s \in d.relations : s.id = i}}

(* The record of an entity row and the rows of its other tables.           *)
EntityRecord(d, e) ==
  [id |-> e.id, type |-> e.type, name |-> e.name, attrs |-> e.attrs,
   names |-> NameRows(d, e.id), codes |-> CodeRows(d, e.id), relations |-> RelationRows(d, e.id)]

StoredEntity(d, i) == {EntityRecord(d, e) : e \in {f \in d.entities : f.id = i}}

(* The same for many ids: IN (...) over chunks of the list.                *)
Chunked(list) ==
  {ToSet(SubSeq(list, k, IF k + ChunkSize - 1 < Len(list) THEN k + ChunkSize - 1 ELSE Len(list))) :
     k \in {j \in DOMAIN list : (j - 1) % ChunkSize = 0}}
StoredEntities(d, list) ==
  UNION {{EntityRecord(d, e) : e \in {f \in d.entities : f.id \in chunk}} : chunk \in Chunked(list)}

StoredCode(d, system, value) == Sorted({c.id : c \in {b \in d.codes : b.system = system /\ b.value = value}})
StoredName(d, value) == Sorted({n.id : n \in {m \in d.names : m.value = value}})
StoredSystems(d) == {c.system : c \in d.codes}
StoredRelationTypes(d) == {r.type : r \in d.relations}

(* The half-open interval a relation holds in, and the two readings of it: *)
(* without a date, every relation.                                         *)
HoldsAt(r, asOf) == (r.from = NoDate \/ r.from <= asOf) /\ (r.until = NoDate \/ r.until > asOf)

StoredTargets(d, i, type, asOf) ==
  {r.target : r \in {s \in d.relations : s.id = i /\ s.type = type /\ HoldsAt(s, asOf)}}
StoredReverse(d, target, type, asOf) ==
  Sorted({r.id : r \in {s \in d.relations : /\ s.target = target
                                            /\ s.type = type
                                            /\ asOf = NoDate \/ HoldsAt(s, asOf)}})

StoredOfType(d, type) == StoredEntities(d, Sorted({e.id : e \in {f \in d.entities : f.type = type}}))

(* The full-text index: names that hold the query as a phrase; if there is *)
(* none and the query has several words, names that hold all of them.      *)
HoldsPhrase(name, query) ==
  \E k \in 0..Len(Tokens[name]) - Len(Tokens[query]) :
    SubSeq(Tokens[name], k + 1, k + Len(Tokens[query])) = Tokens[query]
HoldsWords(name, query) == ToSet(Tokens[query]) \subseteq ToSet(Tokens[name])

StoredSearch(d, query, limit) ==
  LET phrase == {n.id : n \in {m \in d.names : HoldsPhrase(m.value, query)}}
      words == {n.id : n \in {m \in d.names : HoldsWords(m.value, query)}}
  IN Take(Sorted(IF phrase # {} THEN phrase
                 ELSE IF Len(Tokens[query]) >= 2 THEN words ELSE {}), limit)

---------------------------------------------------------------------------
(* Two records of one entity merged: scalars of the overlay win unless     *)
(* they are empty, lists are joined with the overlay's first, and of two   *)
(* items under one key the overlay's is kept.                              *)

NoName == ""

MergeWithKey(base, overlay, Key(_)) ==
  overlay \cup {b \in base : \A o \in overlay : Key(o) # Key(b)}

Merge(base, overlay) ==
  [id |-> base.id,
   type |-> base.type,
   name |-> IF overlay.name # NoName THEN overlay.name ELSE base.name,
   names |-> MergeWithKey(base.names, overlay.names, LAMBDA n : <<n.value, n.kind>>),
   codes |-> MergeWithKey(base.codes, overlay.codes, LAMBDA c : <<c.system, c.value>>),
   relations |-> MergeWithKey(base.relations, overlay.relations, LAMBDA r : <<r.type, r.target>>),
   attrs |-> overlay.attrs @@ base.attrs]

(* A store: the database of the base first, then those of the overlays in  *)
(* their order; open[k] says whether store k may bring entities of its own *)
(* (the base always).  A base alone is a store of one database.            *)
BaseIds(st) == Ids(st.dbs[1])
Blocked(st, k, i) == ~st.open[k] /\ i \notin BaseIds(st)

\* Mutant: the topmost record is the record.
TopLayer(found) ==
  FoldLeft(LAMBDA below, above : IF above = {} THEN below ELSE above, {}, found)
Layered(found) ==
  FoldLeft(LAMBDA below, above : IF below = {} THEN above
                                 ELSE IF above = {} THEN below
                                 ELSE {Merge(b, o) : b \in below, o \in above},
           {}, found)

GetEntity(st, i) ==
  Layered([k \in DOMAIN st.dbs |-> IF Blocked(st, k, i) THEN {} ELSE StoredEntity(st.dbs[k], i)])

BulkGet(st, list) ==
  LET found == [k \in DOMAIN st.dbs |-> StoredEntities(st.dbs[k], list)]
      all == {e.id : e \in UNION Range(found)}
  IN UNION {Layered([k \in DOMAIN found |->
                       IF Blocked(st, k, i) THEN {} ELSE {e \in found[k] : e.id = i}]) : i \in all}

(* Lists of ids, one of each store: the first store that has an id gives   *)
(* it its place.                                                           *)
Accept(st, ids, k, i) == IF Contains(ids, i) \/ Blocked(st, k, i) THEN ids ELSE Append(ids, i)
AcceptAll(st, ids, k, list) == FoldLeft(LAMBDA acc, i : Accept(st, acc, k, i), ids, list)
MergeIds(st, lists) ==
  FoldLeft(LAMBDA acc, k : AcceptAll(st, acc, k, lists[k]), <<>>, [k \in DOMAIN lists |-> k])

LookupCode(st, system, value) ==
  MergeIds(st, [k \in DOMAIN st.dbs |-> StoredCode(st.dbs[k], system, value)])
LookupName(st, value) == MergeIds(st, [k \in DOMAIN st.dbs |-> StoredName(st.dbs[k], value)])

(* A search asks each store for what is missing from the limit.            *)
Search(st, query, limit) ==
  FoldLeft(LAMBDA acc, k :
             IF Len(acc) >= limit THEN acc
             ELSE AcceptAll(st, acc, k, StoredSearch(st.dbs[k], query, limit - Len(acc))),
           <<>>, [k \in DOMAIN st.dbs |-> k])

CodeSystems(st) == UNION {StoredSystems(d) : d \in ToSet(st.dbs)}

(* Relations against their direction, relations as of a date, the entities *)
(* of a type and the types of relations are not merged: a store of several *)
(* databases answers with the defaults of EntityStore, nothing, and None   *)
(* for the types, which stands for "do not skip me".                       *)
Single(st) == Len(st.dbs) = 1
ReverseRelations(st, target, type, asOf) ==
  IF Single(st) THEN StoredReverse(st.dbs[1], target, type, asOf) ELSE <<>>
RelationsAsOf(st, i, type, asOf) ==
  IF Single(st) THEN StoredTargets(st.dbs[1], i, type, asOf) ELSE {}
EntitiesOfType(st, type) == IF Single(st) THEN StoredOfType(st.dbs[1], type) ELSE {}
MayHold(st, type) == Single(st) => type \in StoredRelationTypes(st.dbs[1])

---------------------------------------------------------------------------
(* The databases of base modules one after the other, as a builder reads   *)
(* them: lists are joined, the first record of an id is the record.        *)
NoPolicy(dbs) == [dbs |-> dbs, open |-> [k \in DOMAIN dbs |-> TRUE]]
CompositeCode(dbs, system, value) == LookupCode(NoPolicy(dbs), system, value)
CompositeName(dbs, value) == LookupName(NoPolicy(dbs), value)
CompositeSystems(dbs) == CodeSystems(NoPolicy(dbs))
FirstOf(found) == FoldLeft(LAMBDA acc, more : IF acc = {} THEN more ELSE acc, {}, found)
CompositeEntity(dbs, i) == FirstOf([k \in DOMAIN dbs |-> StoredEntity(dbs[k], i)])

(* A view: the stores of the domains, in their order.                      *)
ViewEntity(view, i) == FirstOf([k \in DOMAIN view |-> GetEntity(view[k].store, i)])

(* Each store is asked for the ids no store before it had.                 *)
ViewEntities(view, list) ==
  FoldLeft(LAMBDA acc, v :
             LET remaining == SelectSeq(list, LAMBDA i : i \notin {e.id : e \in acc})
             IN acc \cup BulkGet(v.store, remaining),
           {}, view)

InFilter(filter, domain) == filter = {} \/ domain \in filter

Fresh(acc, list) == acc \o SelectSeq(list, LAMBDA i : ~Contains(acc, i))
ViewCode(view, filter, system, value) ==
  FoldLeft(LAMBDA acc, v : IF InFilter(filter, v.domain)
                           THEN Fresh(acc, LookupCode(v.store, system, value)) ELSE acc, <<>>, view)
ViewName(view, value) == FoldLeft(LAMBDA acc, v : Fresh(acc, LookupName(v.store, value)), <<>>, view)

(* A store that holds no relation of the type is not asked.                *)
ViewReverse(view, i, type, asOf) ==
  UNION {ToSet(ReverseRelations(v.store, i, type, asOf)) :
           v \in {w \in ToSet(view) : MayHold(w.store, type)}}
ViewTargets(view, i, type, asOf) ==
  UNION {RelationsAsOf(v.store, i, type, asOf) : v \in {w \in ToSet(view) : MayHold(w.store, type)}}

ViewOfType(view, type) ==
  FoldLeft(LAMBDA acc, v : acc \cup {e \in EntitiesOfType(v.store, type) :
                                       e.id \notin {f.id : f \in acc}}, {}, view)
ViewSystems(view) == UNION {CodeSystems(v.store) : v \in ToSet(view)}
===========================================================================
