----------------------------- MODULE Retrieval -----------------------------
(***************************************************************************)
(* What the geo, org and custom packs find and how they judge it: the      *)
(* sources, constraints and scorers of packs/ and shared/, which turn a    *)
(* call - a text and its context - and the stores of a resolver into the   *)
(* query that the runners of module Resolution work through.               *)
(*                                                                         *)
(* A text is known by its shape: everything the patterns of the sources    *)
(* ask of its characters.  Raw scores, similarities, ranks and prominence  *)
(* are in hundredths, calibrated scores in ten-thousandths.                *)
(***************************************************************************)
EXTENDS Resolution

CONSTANTS
  NoDate, ChunkSize, Tokens,    \* those of Stores
  Held,       \* per resolver and pack: its store
  Shape,      \* per text: [value, plain: as geo and custom, and as org normalize it;
              \*  length; codes: systems and values it may be a code of, in order;
              \*  alpha, upper, capitals: only letters, no small one, half of them capitals;
              \*  vowels, dot, dotted, release: many vowels, a point, initials, a release's name;
              \*  missing, noise, codeLike, spaces, ending, word]
  Spelling,   \* per pack and value: SymSpell's [whole, compound, phrase, ratio]
  Near,       \* per value: the names rapidfuzz finds near it, best first: [value, score, typos]
  Alike,      \* per value and name: rapidfuzz's [edit, token] similarities
  Domain,     \* per pack: the entity types under its prefix
  MaxNames    \* FUZZY_AUTO_MAX_NAMES

Db == INSTANCE Stores

-----------------------------------------------------------------------------
(* The packs                                                               *)
PackPlan ==
  "geo" :> <<"geo_exact_code", "geo_exact_name", "geo_fts", "geo_symspell",
             "geo_symspell_exact_name", "geo_fuzzy_retrieval", "geo_fuzzy">> @@
  "org" :> <<"org_exact_code", "org_exact_name", "org_acronym", "org_symspell", "org_fts", "org_fuzzy">> @@
  "custom" :> <<"custom_exact_code", "custom_exact_name", "custom_fts", "custom_fuzzy_retrieval", "custom_fuzzy">>
Sources == UNION {Range(PackPlan[p]) : p \in DOMAIN PackPlan}
PackFilters ==
  "geo" :> <<"geo_type", "geo_containment", "geo_temporal", "geo_membership">> @@
  "org" :> <<"org_type", "org_parent", "org_temporal", "org_country">> @@ "custom" :> <<>>
Constraints == UNION {Range(PackFilters[p]) : p \in DOMAIN PackFilters}

Codes == {"geo_exact_code", "org_exact_code", "custom_exact_code"}
Names == {"geo_exact_name", "geo_symspell_exact_name", "org_exact_name", "custom_exact_name"}
Texts == {"geo_fts", "geo_symspell", "org_fts", "custom_fts"}
Rerankers == {"geo_fuzzy", "org_fuzzy", "custom_fuzzy"}
Retrievers == {"geo_fuzzy_retrieval", "custom_fuzzy_retrieval"}
\* The tier of the evidence; only the fuzzy retrievers declare one to be skipped by.
Emits(s) == CASE s \in Codes -> ExactCode [] s \in Names -> ExactName [] s \in Texts -> Fts
              [] s = "org_acronym" -> Acronym [] s = "org_symspell" -> Fallback [] OTHER -> Fuzzy
PackTrait == [s \in Sources |->
  [emits |-> Emits(s), tier |-> IF s \in Retrievers THEN Fuzzy ELSE Fallback, rerank |-> s \in Rerankers,
   stops |-> CASE s = "geo_exact_code" -> {[least |-> 0, most |-> Budget, raw |-> 9500]}
               [] s = "geo_exact_name" -> {[least |-> 1, most |-> 1, raw |-> 9000]}
               [] OTHER -> {}]]
PackPolicy ==
  "geo" :> [threshold |-> 7000, gap |-> 700, narrow |-> 300, wide |-> 700, accept |-> 9000, breaks |-> "rank"] @@
  "org" :> [threshold |-> 7000, gap |-> 1000, narrow |-> 1000, wide |-> 1500, accept |-> 10001, breaks |-> "parent"] @@
  "custom" :> [threshold |-> 7000, gap |-> 1000, narrow |-> 1000, wide |-> 1000, accept |-> 10001, breaks |-> "none"]
PackBand == [p \in {"geo", "org", "custom"} |->
  [low |-> 4000, medium |-> 6500, high |-> IF p = "org" THEN 8500 ELSE 8800]]

GeoRank == [t \in Domain["geo"] |->
  CASE t = "geo.continent" -> 100 [] t = "geo.continental_union" -> 90 [] t = "geo.country" -> 85
    [] t = "geo.organization" -> 80 [] t = "geo.subregion" -> 78 [] t = "geo.region" -> 75
    [] t = "geo.city" -> 70 [] t = "geo.admin1" -> 65 [] t = "geo.admin2" -> 55 [] t = "geo.admin3" -> 40
    [] t = "geo.admin4" -> 35 [] t = "geo.admin5" -> 25 [] OTHER -> 0]
GeoPlace(t) ==
  CASE t = "geo.country" -> 0 [] t = "geo.admin1" -> 1 [] t \in {"geo.region", "geo.subregion"} -> 2
    [] t = "geo.continental_union" -> 3 [] t = "geo.organization" -> 4 [] OTHER -> 99
GroupTypes == {"geo.organization", "geo.continental_union"}

-----------------------------------------------------------------------------
(* What a store answers                                                    *)
StoreOf(ask, p) == Held[ask.by][p]
OfKinds(st, kinds) == [st EXCEPT !.dbs =
  [k \in DOMAIN @ |-> [@[k] EXCEPT !.names = {n \in @ : n.kind \in kinds}]]]
Named(st, value, kinds) == Db!LookupName(OfKinds(st, kinds), value)
AllIds(st) == UNION {Db!Ids(d) : d \in Range(st.dbs)}
TypeOf(st, i) == LET known == Db!GetEntity(st, i) IN
  IF known = {} THEN "none" ELSE (CHOOSE e \in known : TRUE).type
Attribute(st, i, key, default) ==
  LET known == {e.attrs[key] : e \in {f \in Db!GetEntity(st, i) : key \in DOMAIN f.attrs}} IN
  IF known = {} THEN default ELSE CHOOSE x \in known : TRUE
NamesOf(st, i) == UNION {{e.name} \cup {n.value : n \in e.names} : e \in Db!GetEntity(st, i)}
\* In a merged store it is the target, not the entity, that an overlay may not bring.
Related(st, i, type) == Range(Db!MergeIds(st, [k \in DOMAIN st.dbs |->
  Db!Sorted({r.target : r \in {s \in st.dbs[k].relations : s.id = i /\ s.type = type}})]))

\* lookup_code_any: entities and systems; an entity with the code in two systems is there twice.
AnyCode(st, value, systems) ==
  LET Pairs(k) == SetToSortSeq({<<c.id, c.system>> : c \in {b \in st.dbs[k].codes :
                                  b.value = value /\ b.system \in systems}},
                               LAMBDA x, y : x[1] < y[1])
      Fresh(seen, k) == SelectSeq(Pairs(k), LAMBDA x : ~Contains(seen, x) /\ ~Db!Blocked(st, k, x[1]))
      all == FoldLeft(LAMBDA seen, k : seen \o Fresh(seen, k), <<>>, [k \in DOMAIN st.dbs |-> k])
  IN [k \in DOMAIN all |-> all[k][1]]

\* A full-text search, with the rank a hit has in the database that found it.
Searched(st, value) ==
  FoldLeft(LAMBDA acc, k :
    LET list == IF Len(acc) < Budget THEN Db!StoredSearch(st.dbs[k], value, Budget - Len(acc)) ELSE <<>>
        ranked == [r \in DOMAIN list |-> [id |-> list[r], rank |-> r]]
    IN acc \o SelectSeq(ranked, LAMBDA h : ~Db!Blocked(st, k, h.id) /\ \A j \in DOMAIN acc : acc[j].id # h.id),
    <<>>, [k \in DOMAIN st.dbs |-> k])

-----------------------------------------------------------------------------
(* Hits: entities with raw scores, in the order of the evidence            *)
HitsAt(ids, raw) == [k \in DOMAIN ids |-> [id |-> ids[k], raw |-> raw]]
Few(s) == Db!Take(s, Budget)
IdsOf(hits) == {h.id : h \in Range(hits)}
OnePer(hits) == FoldLeft(LAMBDA acc, h : IF h.id \in IdsOf(acc) THEN acc ELSE Append(acc, h), <<>>, hits)
Less(a, b) == \E k \in DOMAIN a : a[k] < b[k] /\ \A j \in 1 .. k - 1 : a[j] = b[j]

(* short_input_blocked: a short text asks for capitals or a type that has  *)
(* codes, and a placeholder is never a query.                              *)
CodeTypes == {"geo." \o t : t \in {"country", "dependency", "region", "subregion", "subdivision",
                                   "continent", "continental_union"}}
Gated(ask) == LET t == Shape[ask.text] IN
  \/ t.missing
  \/ t.alpha /\ t.length = 1 /\ ~t.upper
  \/ /\ ask.types \cap CodeTypes = {}
     /\ \/ t.alpha /\ t.length <= 3 /\ ~t.upper
        \/ t.alpha /\ t.length = 1
        \/ t.noise /\ ~t.dotted

\* The first code system that the text may be of and that knows it, or any system that does.
CodeHits(st, tried, value, systems) ==
  LET Ids(k) == Db!LookupCode(st, tried[k].system, tried[k].value)
      known == {k \in DOMAIN tried : Ids(k) # <<>>}
  IN OnePer(HitsAt(Few(IF known # {} THEN Ids(Min(known)) ELSE AnyCode(st, value, systems)), 100))
Matchable == {"dcid", "wikidata", "iso2", "iso3", "iso_numeric", "iso3166_2", "geonames", "undata",
  "fips104", "ioccountrycode", "itulettercode", "gs1countrycode", "uicnumericalcountrycode",
  "uicalphabeticalcountrycode", "wipost3id"}
GeoCodes(ask) == IF Gated(ask) THEN <<>>
  ELSE CodeHits(StoreOf(ask, "geo"), Shape[ask.text].codes, Shape[ask.text].value, Matchable)
OrgCodes(ask) == LET t == Shape[ask.text] IN
  CodeHits(StoreOf(ask, "org"), SelectSeq(t.codes, LAMBDA c : c = [system |-> "wikidata", value |-> t.plain]),
           t.plain, Db!CodeSystems(StoreOf(ask, "org")))
CustomCodes(ask) == LET st == StoreOf(ask, "custom") IN
  CodeHits(st, <<>>, Shape[ask.text].value, Db!CodeSystems(st))

\* Canonical names and other ones, ordered by type, kind of name, prominence and id.
NameHits(st, value, class, fame) ==
  LET best == Range(Named(st, value, {"canonical"}))
      other == Range(Named(st, value, {"alias", "endonym", "exonym"}))
      Key(i) == <<class[i], IF i \in best THEN 0 ELSE 1, -fame[i], i>>
      ids == SetToSortSeq(best \cup other, LAMBDA i, j : Less(Key(i), Key(j)))
  IN Few([k \in DOMAIN ids |-> [id |-> ids[k], raw |-> IF ids[k] \in best THEN 100 ELSE 95]])
GeoNames(ask) == LET st == StoreOf(ask, "geo") IN
  IF Gated(ask) THEN <<>>
  ELSE NameHits(st, Shape[ask.text].value, [i \in AllIds(st) |-> GeoPlace(TypeOf(st, i))],
                [i \in AllIds(st) |-> Attribute(st, i, "prominence", 50)])
CustomNames(ask) == LET st == StoreOf(ask, "custom") IN
  NameHits(st, Shape[ask.text].value, [i \in AllIds(st) |-> 0], [i \in AllIds(st) |-> 0])
\* The strongest kind of name alone.
OrgNames(ask) ==
  LET Of(kind, raw) == HitsAt(Few(Named(StoreOf(ask, "org"), Shape[ask.text].plain, {kind})), raw)
      kinds == <<Of("canonical", 100), Of("legal", 98), Of("short", 95)>>
      some == {k \in DOMAIN kinds : kinds[k] # <<>>}
  IN IF some = {} THEN <<>> ELSE kinds[Min(some)]

AcronymLike(t) == t.length \in 2 .. 10 /\ t.capitals /\ (~t.vowels \/ t.length <= 5)
OrgAcronyms(ask) == LET t == Shape[ask.text] IN
  IF AcronymLike(t)
  THEN HitsAt(Few(Named(StoreOf(ask, "org"), t.plain, {"acronym"})), IF t.upper THEN 100 ELSE 95)
  ELSE <<>>

RankScore(rank) == CASE rank = 1 -> 85 [] rank \in 2 .. 3 -> 75 [] rank \in 4 .. 10 -> 65 [] OTHER -> 55
TextHits(st, value, cut) == LET all == Searched(st, value) IN
  [k \in DOMAIN all |-> [id |-> all[k].id, raw |-> RankScore(all[k].rank) - cut]]
GeoTexts(ask) == LET t == Shape[ask.text] IN
  IF t.codeLike \/ Gated(ask) \/ t.length < 2 THEN <<>> ELSE TextHits(StoreOf(ask, "geo"), t.value, 0)
OrgTexts(ask) == LET t == Shape[ask.text] IN
  IF t.length < 3 THEN <<>> ELSE TextHits(StoreOf(ask, "org"), t.plain, 5)
CustomTexts(ask) == LET t == Shape[ask.text] IN
  IF t.length < 2 THEN <<>> ELSE TextHits(StoreOf(ask, "custom"), t.value, 0)

(* The names that the dictionary's suggestions are; a short text is not    *)
(* corrected twice.                                                        *)
Corrections(st, t, value, list) ==
  LET used == SelectSeq(Few(list), LAMBDA s : s.value # value /\ (t.length <= 6 => s.distance <= 1))
      Hits1(s) == LET ids == Db!LookupName(st, s.value) IN
        [k \in DOMAIN ids |-> [id |-> ids[k], raw |-> Max({50, 90 - 15 * s.distance}), distance |-> s.distance]]
  IN Few(FoldLeft(LAMBDA acc, s : acc \o Hits1(s), <<>>, used))
SpellingHits(st, p, t, value) ==
  LET known == Spelling[p][value]
      whole == Corrections(st, t, value, known.whole)
  IN IF whole = <<>> /\ t.spaces THEN Corrections(st, t, value, known.compound) ELSE whole
Bare(hits) == OnePer([k \in DOMAIN hits |-> [id |-> hits[k].id, raw |-> hits[k].raw]])
GeoSpelled(ask) == LET t == Shape[ask.text] IN
  IF t.codeLike \/ Gated(ask) \/ t.length < 3 THEN <<>> ELSE SpellingHits(StoreOf(ask, "geo"), "geo", t, t.value)
GeoSpellings(ask) == Bare(GeoSpelled(ask))
\* A typo away from a name is as good as the name.
GeoPromoted(ask) == IF Shape[ask.text].length < 5 THEN <<>>
  ELSE Bare(SelectSeq(GeoSpelled(ask), LAMBDA h : h.distance <= 1))
OrgSpellings(ask) == LET t == Shape[ask.text] IN
  IF t.length < 3 THEN <<>> ELSE Bare(SpellingHits(StoreOf(ask, "org"), "org", t, t.plain))

\* The text corrected word by word.
GeoRetrieved(ask) ==
  LET t == Shape[ask.text]
      st == StoreOf(ask, "geo")
      known == Spelling["geo"][t.value]
      named == Named(st, known.phrase, {"canonical", "alias", "endonym", "exonym"})
      held == Searched(st, known.phrase)
      ids == IF named # <<>> THEN named ELSE [k \in DOMAIN held |-> held[k].id]
  IN IF Gated(ask) \/ t.length < 3 \/ known.phrase = t.value THEN <<>> ELSE HitsAt(Few(ids), known.ratio)

\* Every name compared with the text; merged stores do not list their names.
CustomRetrieved(ask) ==
  LET t == Shape[ask.text]
      st == StoreOf(ask, "custom")
      names == st.dbs[1].names
      rows == FoldLeft(LAMBDA acc, n : acc \o [k \in DOMAIN Db!StoredName(st.dbs[1], n.value) |->
                         [id |-> Db!StoredName(st.dbs[1], n.value)[k], raw |-> n.score, typos |-> n.typos]],
                       <<>>, Near[t.value])
      Surest(i) == CHOOSE r \in {x \in Range(rows) : x.id = i} : \A s \in {x \in Range(rows) : x.id = i} :
                   ~Less(<<s.typos, -s.raw>>, <<r.typos, -r.raw>>)
      first == Bare(rows)
  IN IF t.length < 3 \/ t.missing \/ t.noise \/ ~Db!Single(st) \/ Cardinality(names) > MaxNames THEN <<>>
     ELSE [k \in DOMAIN first |-> [id |-> first[k].id, raw |-> Surest(first[k].id).raw]]

(* The name most like the text, by similarities of which the first has the *)
(* given weight, in tenths.                                                *)
Weighed(a, w) == w * a.edit + (10 - w) * a.token
Closest(st, value, i, w) == CHOOSE a \in {Alike[value][n] : n \in NamesOf(st, i)} :
  \A n \in NamesOf(st, i) : Weighed(a, w) >= Weighed(Alike[value][n], w)
FuzzyHits(st, value, w) == LET ids == Db!Sorted({i \in AllIds(st) : Db!GetEntity(st, i) # {}}) IN
  [k \in DOMAIN ids |-> [id |-> ids[k], raw |-> Weighed(Closest(st, value, ids[k], w), w) \div 10]]
GeoFuzzy(ask) == IF Gated(ask) THEN <<>> ELSE FuzzyHits(StoreOf(ask, "geo"), Shape[ask.text].value, 6)
OrgFuzzy(ask) == FuzzyHits(StoreOf(ask, "org"), Shape[ask.text].plain, 4)
CustomFuzzy(ask) == FuzzyHits(StoreOf(ask, "custom"), Shape[ask.text].value, 5)

AllHits(ask) ==
  "geo_exact_code" :> GeoCodes(ask) @@ "geo_exact_name" :> GeoNames(ask) @@ "geo_fts" :> GeoTexts(ask) @@
  "geo_symspell" :> GeoSpellings(ask) @@ "geo_symspell_exact_name" :> GeoPromoted(ask) @@
  "geo_fuzzy_retrieval" :> GeoRetrieved(ask) @@ "geo_fuzzy" :> GeoFuzzy(ask) @@
  "org_exact_code" :> OrgCodes(ask) @@ "org_exact_name" :> OrgNames(ask) @@ "org_acronym" :> OrgAcronyms(ask) @@
  "org_symspell" :> OrgSpellings(ask) @@ "org_fts" :> OrgTexts(ask) @@ "org_fuzzy" :> OrgFuzzy(ask) @@
  "custom_exact_code" :> CustomCodes(ask) @@ "custom_exact_name" :> CustomNames(ask) @@
  "custom_fts" :> CustomTexts(ask) @@ "custom_fuzzy_retrieval" :> CustomRetrieved(ask) @@
  "custom_fuzzy" :> CustomFuzzy(ask)

\* The names that the dictionary of a pack takes a text for, of which the first three are
\* suggested when there is no candidate (_spelling_suggestions).
MostMeant == 3
Meant(ask, p) ==
  LET value == IF p = "geo" THEN Shape[ask.text].value ELSE Shape[ask.text].plain
      others == SelectSeq(Spelling[p][value].whole, LAMBDA s : s.value # value)
      Add(acc, i) == IF Len(acc) >= MostMeant \/ Contains(acc, i) THEN acc ELSE Append(acc, i)
  IN IF p \notin DOMAIN Spelling THEN <<>>
     ELSE FoldLeft(LAMBDA acc, s : FoldLeft(Add, acc, Db!LookupName(StoreOf(ask, p), s.value)), <<>>, others)

-----------------------------------------------------------------------------
(* Constraints: the entities that each of them drops.  Membership, the     *)
(* parent of an organization and its country only leave a mark.            *)
Compatible(type) ==
  CASE type = "geo.city" -> {"geo.city"} \cup {"geo.admin" \o n : n \in {"1", "2", "3", "4", "5"}}
    [] type \in {"geo.continental_union", "geo.region"} -> {type, "geo.organization"}
    [] OTHER -> {type}
WrongType(ask, p, accepted) == LET st == StoreOf(ask, p) IN
  IF ask.types = {} THEN {} ELSE {i \in AllIds(st) : TypeOf(st, i) \notin accepted \cup {"none"}}

Steps == 3    \* max_depth
Parents(ask) == ask.parents \cup
  (IF ask.country = "" THEN {}
   ELSE Range(Db!LookupCode(StoreOf(ask, "geo"), IF Shape[ask.country].length = 3 THEN "iso3" ELSE "iso2",
                            Shape[ask.country].value)))
Reach(st, i) ==
  LET upTo[n \in 0 .. Steps - 1] == IF n = 0 THEN {i} ELSE
        upTo[n - 1] \cup UNION {Related(st, j, "contained_in") : j \in upTo[n - 1]}
  IN UNION {Related(st, j, "contained_in") : j \in upTo[Steps - 1]}
Outside(ask) == LET st == StoreOf(ask, "geo") IN
  IF Parents(ask) = {} THEN {} ELSE {i \in AllIds(st) : Reach(st, i) \cap Parents(ask) = {}}

\* Mutant: the last day still counts.
OutOfDate_Closed(ask, p) == LET st == StoreOf(ask, p) IN
  IF ask.asOf = NoDate THEN {}
  ELSE {i \in AllIds(st) : \/ Attribute(st, i, "from", ask.asOf) > ask.asOf
                           \/ Attribute(st, i, "until", ask.asOf + 1) < ask.asOf}
OutOfDate(ask, p) == LET st == StoreOf(ask, p) IN
  IF ask.asOf = NoDate THEN {}
  ELSE {i \in AllIds(st) : \/ Attribute(st, i, "from", ask.asOf) > ask.asOf
                           \/ Attribute(st, i, "until", ask.asOf + 1) <= ask.asOf}

Dropped(ask) ==
  "geo_type" :> WrongType(ask, "geo", UNION {Compatible(t) : t \in ask.types}) @@
  "geo_containment" :> Outside(ask) @@ "geo_temporal" :> OutOfDate(ask, "geo") @@
  "org_type" :> WrongType(ask, "org", ask.types) @@ "org_temporal" :> OutOfDate(ask, "org") @@
  [c \in {"geo_membership", "org_parent", "org_country"} |-> {}]
\* The organizations that ParentOrgConstraint marks, by which their policy breaks ties.
Affiliated(ask) == LET st == StoreOf(ask, "org") IN
  {i \in AllIds(st) : (Related(st, i, "subsidiary_of") \cup Related(st, i, "member_of")) \cap ask.parents # {}}

-----------------------------------------------------------------------------
(* Scores: of a candidate by its strongest evidence, with what a reranker  *)
(* adds if it looked at the candidate.                                     *)
RawIn(hits, i) == Max({h.raw : h \in {g \in Range(hits) : g.id = i}})

\* In capitals and short, as an acronym is, but for a city or a district, or a region by likeness.
Mismatch(t, rank, exact) == /\ t.upper /\ ~t.dot /\ t.length \in 4 .. 10
                            /\ rank \in 1 .. 79 /\ (rank < 75 \/ ~exact)
LengthFactor(t, edit) ==
  CASE edit >= 85 \/ t.length >= 6 -> 100 [] edit < 85 /\ t.length = 5 -> 91
    [] edit < 85 /\ t.length = 4 -> 82 [] OTHER -> (t.length * 100) \div 6
\* A candidate two typos away counts as less like the text.
SpellingQuality(spelled, i) ==
  IF i \notin IdsOf(spelled) \/ RawIn(spelled, i) >= 70 THEN 100 ELSE (RawIn(spelled, i) * 100) \div 75
GeoLikeness(t, a, quality) ==
  5000 + (35 * a.edit * LengthFactor(t, a.edit) * quality) \div 10000 + (10 * a.token * quality) \div 100
GeoBase(ask, hits, i, rank, reranked) ==
  LET t == Shape[ask.text]
      Has(s) == i \in IdsOf(hits[s])
      exact == Has("geo_exact_name") \/ Has("geo_symspell_exact_name")
  IN CASE Has("geo_exact_code") -> 9500
       [] ~Has("geo_exact_code") /\ (exact \/ reranked) /\ Mismatch(t, rank, exact) -> 3000
       [] ~Has("geo_exact_code") /\ exact /\ ~Mismatch(t, rank, exact) -> 9000
       [] ~Has("geo_exact_code") /\ ~exact /\ reranked /\ ~Mismatch(t, rank, exact) ->
            Min({8900, GeoLikeness(t, Closest(StoreOf(ask, "geo"), t.value, i, 6),
                                   SpellingQuality(hits["geo_symspell"], i))})
       [] ~Has("geo_exact_code") /\ ~exact /\ ~reranked /\ Has("geo_fts") -> 4000 + 40 * RawIn(hits["geo_fts"], i)
       [] OTHER -> 3000
RankOf(ask, i) == LET type == TypeOf(StoreOf(ask, "geo"), i) IN IF type \in DOMAIN GeoRank THEN GeoRank[type] ELSE 0
GeoScore(ask, hits, i, reranked) ==
  GeoBase(ask, hits, i, RankOf(ask, i), reranked)
  + (RankOf(ask, i) * 9) \div 10 + (Attribute(StoreOf(ask, "geo"), i, "prominence", 50) - 50) * 12
\* The sources of a pack that have found a candidate.
Signals(hits, p, i) == {s \in Range(PackPlan[p]) : i \in IdsOf(hits[s])}
OrgScore(ask, hits, i, reranked) ==
  LET t == Shape[ask.text]
      Has(s) == s \in Signals(hits, "org", i)
  IN IF Has("org_exact_code") THEN 9500
     ELSE IF Has("org_exact_name") THEN 9200
     ELSE IF Has("org_acronym") THEN IF t.upper THEN 8800 ELSE 8200
     ELSE IF reranked THEN 5000 + 35 * Closest(StoreOf(ask, "org"), t.plain, i, 4).token
     ELSE IF Has("org_fts") THEN 4000 + 35 * RawIn(hits["org_fts"], i)
     ELSE 3000
CustomScore(ask, hits, i, reranked) ==
  LET a == Closest(StoreOf(ask, "custom"), Shape[ask.text].value, i, 5)
      Has(s) == s \in Signals(hits, "custom", i)
  IN IF Has("custom_exact_code") THEN 9500
     ELSE IF Has("custom_exact_name") THEN 9000
     ELSE IF reranked THEN Min({8900, 5000 + 35 * a.edit + 10 * a.token})
     ELSE IF Has("custom_fts") THEN 4000 + 40 * RawIn(hits["custom_fts"], i)
     ELSE 3000
Score1(ask, hits, i, reranked) ==
  CASE i \in AllIds(StoreOf(ask, "geo")) -> GeoScore(ask, hits, i, reranked)
    [] i \in AllIds(StoreOf(ask, "org")) -> OrgScore(ask, hits, i, reranked)
    [] i \in AllIds(StoreOf(ask, "custom")) -> CustomScore(ask, hits, i, reranked)
    [] OTHER -> 0

-----------------------------------------------------------------------------
(* How much a text looks like one for the pack, in hundredths.             *)
OrgAppeal(t) == Min({100, 40 + (IF AcronymLike(t) THEN 35 ELSE 0) + (IF t.word THEN 20 ELSE 0)})
Appeal(t) ==
  "geo" :> Min({100, 50
      + (CASE t.alpha /\ t.length = 2 -> 30 [] t.alpha /\ t.length = 3 -> 20
           [] t.release \/ t.dotted \/ (t.alpha /\ t.length \in 4 .. 10 /\ t.capitals) -> 15 [] OTHER -> 0)
      + (IF t.ending THEN 25 ELSE 0) + (IF t.spaces /\ ~t.upper THEN 10 ELSE 0)}) @@
  "org" :> OrgAppeal(t) @@
  "custom" :> 5

(* The query of a call: [text, types, parents, country, asOf, domains,     *)
(* router] of a resolver, by.                                              *)
QueryWith(ask, hits) ==
  [asked |-> {ask}, hits |-> hits, breaks |-> Dropped(ask),
   score |-> [i \in Entity |-> Score1(ask, hits, i, FALSE)],
   close |-> [i \in Entity |-> Score1(ask, hits, i, TRUE)],
   rank |-> [i \in Entity |-> RankOf(ask, i)], place |-> [i \in Entity |-> GeoPlace(TypeOf(StoreOf(ask, "geo"), i))],
   meant |-> [p \in Pack |-> Meant(ask, p)],
   parent |-> IF ask.parents = {} THEN {} ELSE Affiliated(ask),
   acronym |-> AcronymLike(Shape[ask.text]),
   groups |-> {i \in Entity : TypeOf(StoreOf(ask, "geo"), i) \in GroupTypes},
   blank |-> IF Shape[ask.text].plain = "" THEN {"org"} ELSE {},
   domains |-> ask.domains, router |-> ask.router,
   types |-> {p \in Pack : ask.types \cap Domain[p] # {}}, appeal |-> Appeal(Shape[ask.text])]
QueryOf(ask) == QueryWith(ask, AllHits(ask))

-----------------------------------------------------------------------------
(* Which entities the context of a call allows.                            *)
TypeFits(ask, t) ==
  \/ ask.types = {} \/ t \in ask.types
  \/ "geo.city" \in ask.types /\ t \in {"geo.admin1", "geo.admin2", "geo.admin3", "geo.admin4", "geo.admin5"}
  \/ t = "geo.organization" /\ ask.types \cap {"geo.region", "geo.continental_union"} # {}
Above(ask, i) == Related(StoreOf(ask, "geo"), i, "contained_in")
Lies(ask, i) ==
  LET near == Parents(ask) IN
  near = {} \/ \E j \in Above(ask, i) : \/ j \in near
                                       \/ \E k \in Above(ask, j) : k \in near \/ Above(ask, k) \cap near # {}
InForce(ask, p, i) == \A key \in {"from", "until"} :
  LET day == Attribute(StoreOf(ask, p), i, key, NoDate) IN
  ask.asOf # NoDate /\ day # NoDate => (key = "from") = (day <= ask.asOf)
Fits(ask, p, i) == /\ TypeFits(ask, TypeOf(StoreOf(ask, p), i)) /\ InForce(ask, p, i)
                   /\ p = "geo" => Lies(ask, i)

(* A whole answer of the geo or the org pack lists entities that fit the   *)
(* context, and none of a few that bear the very name, in a canonical name *)
(* or its nearest kind, and fit the context is missing from it; whatever   *)
(* fuzzier evidence there is, and wherever the sources stop.  What the     *)
(* dictionary suggests when there is no candidate may not fit: then there  *)
(* is none that bears the name and fits.                                   *)
Bearers(ask, p) == LET st == StoreOf(ask, p) IN
  IF p = "geo"
  THEN IF Gated(ask) \/ GeoCodes(ask) # <<>> THEN {}
       ELSE Range(Named(st, Shape[ask.text].value, {"canonical", "alias", "endonym", "exonym"}))
  ELSE Range(Named(st, Shape[ask.text].plain, {"canonical"}))
Suggested(r) == r.status = "no match" /\ r.reason \in {"no candidates", "filtered"}
ListsFollowTheAsk == Idle => \A ask \in query.asked : \A p \in {"geo", "org"} \cap Answered(results) :
  LET fit == {i \in AllIds(StoreOf(ask, p)) : Fits(ask, p, i)}
      due == Bearers(ask, p) \cap fit
  IN IF Suggested(results[p]) THEN due = {}
     ELSE /\ Range(results[p].list) \subseteq fit
          /\ Cardinality(Bearers(ask, p)) <= MaxListed => due \subseteq Range(results[p].list)
=============================================================================
