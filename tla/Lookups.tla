------------------------------ MODULE Lookups -----------------------------
(***************************************************************************)
(* The questions of a resolver that are answered from its stores: entities *)
(* by code, id or name (core/api/code_lookup.py, entity_lookup.py,         *)
(* resolver.py), the relations of an entity (resolver.py), membership in   *)
(* groups (group_api.py) and containment (containment_api.py).             *)
(*                                                                         *)
(* A text is resolved by its exact names here; the engine that also        *)
(* matches it by other means is module Resolution.  An answer is a record  *)
(* with the error that was raised, or "", and what was returned.           *)
(***************************************************************************)
EXTENDS Stores

CONSTANTS
  Today,       \* date.today()
  GroupTypes,  \* group_entity_types of a domain's pack
  CodeLike,    \* the texts that match one of _CODE_PATTERNS
  Hierarchy    \* _GEO_HIERARCHY_TYPES

Returned(value) == [error |-> "", answer |-> value]
Raised(error) == [error |-> error, answer |-> {}]

---------------------------------------------------------------------------
(* Resolving a text.                                                       *)

(* The domain whose store found a candidate.                               *)
PackOf(view, i) ==
  (CHOOSE k \in DOMAIN view : /\ GetEntity(view[k].store, i) # {}
                              /\ \A j \in 1..k - 1 : GetEntity(view[j].store, i) = {})

IsGroup(view, i) ==
  \E e \in ViewEntity(view, i) : e.type \in GroupTypes[view[PackOf(view, i)].domain]

(* Of the two best candidates, if exactly one is a group, it is the answer. *)
GroupPreference(view, candidates) ==
  LET groups == {i \in ToSet(Take(candidates, 2)) : IsGroup(view, i)}
  IN IF Len(candidates) >= 2 /\ Cardinality(groups) = 1 THEN groups ELSE ToSet(candidates)

(* The candidates that remain: none is no match, several are ambiguous.    *)
Resolve(view, text) == GroupPreference(view, ViewName(view, text))

Chosen(ids) == CHOOSE i \in ids : TRUE
OneOf(ids, missing) ==
  IF ids = {} THEN Raised(missing)
  ELSE IF Cardinality(ids) > 1 THEN Raised("AmbiguousResolution")
  ELSE Returned(Chosen(ids))

(* resolve_id with its policies, require_id, and the id of a group or of a *)
(* member: one text, four ways to say that there is no one answer.         *)
NoId == 0
ResolveId(view, text, onAmbiguous) ==
  LET ids == Resolve(view, text)
  IN IF ids = {} THEN Returned(NoId)
     ELSE IF Cardinality(ids) = 1 THEN Returned(Chosen(ids))
     ELSE IF onAmbiguous = "raise" THEN Raised("AmbiguousResolution")
     ELSE IF onAmbiguous = "best" THEN Returned(ViewName(view, text)[1])
     ELSE Returned(NoId)

RequireId(view, text) == OneOf(Resolve(view, text), "ResolutionError")
ResolveGroupId(view, text) == OneOf(Resolve(view, text), "GroupNotFound")

---------------------------------------------------------------------------
(* Codes.                                                                  *)

(* resolve(from_system=...): one system, and several holders are an error. *)
ResolveFrom(view, filter, system, value) ==
  IF system \notin ViewSystems(view) THEN Raised("UnknownCodeSystem")
  ELSE LET ids == ViewCode(view, filter, system, value)
       IN IF Len(ids) > 1 THEN Raised("AmbiguousResolution")
          ELSE Returned(IF ids = <<>> THEN {} ELSE ViewEntity(view, ids[1]))

(* resolve(to=...): a text that looks like a code is looked up in every    *)
(* system, of which the first holder counts; otherwise, or if none has it, *)
(* it is resolved.  Several entities are an error either way.              *)
Hits(view, filter, value) ==
  {ViewCode(view, filter, s, value)[1] :
     s \in {t \in ViewSystems(view) : ViewCode(view, filter, t, value) # <<>>}}

ResolveOrLookup(view, filter, value) ==
  LET hits == IF value \in CodeLike THEN Hits(view, filter, value) ELSE {}
      ids == IF hits = {} THEN Resolve(view, value) ELSE hits
  IN IF Cardinality(ids) > 1 THEN Raised("AmbiguousResolution")
     ELSE Returned(UNION {ViewEntity(view, i) : i \in ids})

(* entity(iso3=...), entity(id) and entity(name).                          *)
EntityByCode(view, filter, system, value) ==
  LET ids == ViewCode(view, filter, system, value)
  IN IF Len(ids) > 1 THEN Raised("AmbiguousResolution")
     ELSE Returned(IF ids = <<>> THEN {} ELSE ViewEntity(view, ids[1]))
EntityById(view, i) == Returned(ViewEntity(view, i))
EntityByName(view, text) ==
  LET ids == Resolve(view, text)
  IN IF Cardinality(ids) > 1 THEN Raised("AmbiguousResolution")
     ELSE Returned(UNION {ViewEntity(view, i) : i \in ids})

---------------------------------------------------------------------------
(* Relations of one entity.                                                *)

(* The entity an argument of related() names: an id or an exact name.      *)
ArgumentId(view, i) == IF ViewEntity(view, i) = {} THEN Raised("EntityNotFound") ELSE Returned(i)
ArgumentName(view, text) ==
  LET ids == ViewName(view, text)
  IN IF Len(ids) = 0 THEN Raised("EntityNotFound")
     ELSE IF Len(ids) > 1 THEN Raised("AmbiguousResolution")
     ELSE ArgumentId(view, ids[1])

(* within() takes the one entity of the geographic hierarchy, if several   *)
(* have the name.                                                          *)
ContainerName(view, text) ==
  LET ids == ToSet(ViewName(view, text))
      canonical == {i \in ids : \E e \in ViewEntity(view, i) : e.type \in Hierarchy}
  IN IF Cardinality(ids) <= 1 THEN ArgumentName(view, text)
     ELSE OneOf(IF Cardinality(canonical) = 1 THEN canonical ELSE ids, "EntityNotFound")

(* The targets of the record's relations that are entities themselves.     *)
Related(view, i, type, asOf) ==
  LET held == {r \in UNION {e.relations : e \in ViewEntity(view, i)} :
                 r.type = type /\ (asOf = NoDate \/ HoldsAt(r, asOf))}
  IN UNION {ViewEntity(view, r.target) : r \in held}

RelatedTo(view, text, type, asOf) ==
  LET i == ArgumentName(view, text)
  IN IF i.error # "" THEN i ELSE Returned(Related(view, i.answer, type, asOf))

---------------------------------------------------------------------------
(* Groups.                                                                 *)

On(asOf) == IF asOf = NoDate THEN Today ELSE asOf

\* Mutant: without a date, every membership there ever was.
MembersEver(view, group, asOf) ==
  LET g == ResolveGroupId(view, group)
  IN IF g.error # "" THEN g ELSE Returned(ViewReverse(view, g.answer, "member_of", asOf))
MembersOf(view, group, asOf) ==
  LET g == ResolveGroupId(view, group)
  IN IF g.error # "" THEN g ELSE Returned(ViewReverse(view, g.answer, "member_of", On(asOf)))

IsMember(view, country, group, asOf) ==
  LET g == ResolveGroupId(view, group)
      c == ResolveGroupId(view, country)
  IN IF g.error # "" THEN g
     ELSE IF c.error # "" THEN c
     ELSE Returned(g.answer \in ViewTargets(view, c.answer, "member_of", On(asOf)))

(* The members' codes of one system.                                       *)
MemberCodes(view, group, asOf, system) ==
  LET members == MembersOf(view, group, asOf)
  IN IF system \notin ViewSystems(view) THEN Raised("UnknownCodeSystem")
     ELSE IF members.error # "" THEN members
     ELSE Returned({c.value : c \in {d \in UNION {e.codes : e \in
                      UNION {ViewEntity(view, i) : i \in members.answer}} : d.system = system}})

KnownGroups(view) ==
  {e.name : e \in UNION {ViewOfType(view, t) :
                           t \in UNION {GroupTypes[v.domain] : v \in ToSet(view)}}} \ {NoName}

---------------------------------------------------------------------------
(* Containment: breadth first against the direction of contained_in, every *)
(* id visited once, at most so many steps deep.                            *)

Unlimited == -1
Depth(view, recursive, maxDepth) ==
  IF maxDepth = 0 THEN 0
  ELSE IF ~recursive THEN 1
  ELSE IF maxDepth # Unlimited THEN maxDepth
  ELSE 1 + Cardinality(UNION {Ids(d) : d \in UNION {ToSet(v.store.dbs) : v \in ToSet(view)}})

Expand(view, asOf, walk) ==
  LET children == UNION {ViewReverse(view, i, "contained_in", asOf) : i \in walk.frontier}
  IN [visited |-> walk.visited \cup children, frontier |-> children \ walk.visited]

Within(view, container, types, recursive, maxDepth, asOf) ==
  LET walk == FoldLeft(LAMBDA w, step : Expand(view, asOf, w),
                       [visited |-> {container}, frontier |-> {container}],
                       [k \in 1..Depth(view, recursive, maxDepth) |-> k])
      found == ViewEntities(view, Sorted(walk.visited \ {container}))
  IN {e \in found : types = {} \/ e.type \in types}

WithinNamed(view, text, types, recursive, maxDepth, asOf) ==
  LET c == ContainerName(view, text)
  IN IF c.error # "" THEN c ELSE Returned(Within(view, c.answer, types, recursive, maxDepth, asOf))
===========================================================================
