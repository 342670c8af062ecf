---------------------------- MODULE Suggestions ---------------------------
(***************************************************************************)
(* suggest(): what is listed for a text while it is typed                  *)
(* (core/api/suggest_flow.py, suggest_prefix of core/engine/runner.py and  *)
(* multi_runner.py, core/engine/suggest_rank.py).  Each pack collects what *)
(* begins with the text, what holds it as a word and what is close to it,  *)
(* ranks that and hands over more than is asked for.                       *)
(*                                                                         *)
(* Types are flat, a text normalizes to itself, and of two equal names of  *)
(* an entity the better kind counts.  The length of a fuzzy match and the  *)
(* deadline, which skips packs and fuzzy matches, are left out.            *)
(***************************************************************************)
EXTENDS Lookups

CONSTANTS
  Begins,         \* the words that begin with a word, typed so far
  Typos,          \* the names that are close to a text, with the edits between
  RankedTypes,    \* PROMINENCE_LIVE_TYPE_PREFIXES
  DeniedTypes,    \* FUZZY_DENYLIST_PREFIXES
  MinProminence,  \* EXACT_MATCH_MIN_PROMINENCE
  MaxFuzzyNames,  \* FUZZY_AUTO_MAX_NAMES
  Headroom,       \* what each pack hands over, for each that is asked for
  PoolFactor, PoolFloor, PoolCeiling

Pool(k) == Min({Max({k * PoolFactor, PoolFloor}), PoolCeiling})
PerPack(k) == Headroom * k
OfTypes(type, types) == types = {} \/ type \in types

---------------------------------------------------------------------------
(* What the stores find.                                                   *)

(* The full-text index: the query as a phrase whose last word may go on,   *)
(* anywhere in the name.                                                   *)
HoldsBeginning(name, text) ==
  LET n == Len(Tokens[text])
  IN \E k \in 0..Len(Tokens[name]) - n : \A j \in 1..n :
       IF j = n THEN Tokens[name][k + j] \in Begins[Tokens[text][j]]
       ELSE Tokens[name][k + j] = Tokens[text][j]

StoredPrefix(d, text, limit) ==
  Take(Sorted({n.id : n \in {m \in d.names : HoldsBeginning(m.value, text)}}), limit)
SearchPrefix(st, text, limit) ==
  FoldLeft(LAMBDA acc, k :
             IF Len(acc) >= limit THEN acc
             ELSE AcceptAll(st, acc, k, StoredPrefix(st.dbs[k], text, limit - Len(acc))),
           <<>>, [k \in DOMAIN st.dbs |-> k])

(* A store of several databases has the defaults of EntityStore: no words, *)
(* and an enumeration of names that is not implemented.                    *)
TypeIn(d, i) == (CHOOSE e \in d.entities : e.id = i).type
SearchTokenInfix(st, text, types, limit) ==
  IF ~Single(st) THEN <<>>
  ELSE Take(Sorted({n.id : n \in {m \in st.dbs[1].names :
              HoldsPhrase(m.value, text) /\ OfTypes(TypeIn(st.dbs[1], m.id), types)}}), limit)
IterSuggestNames(st, types, excluded) ==
  {n \in st.dbs[1].names : /\ OfTypes(TypeIn(st.dbs[1], n.id), types)
                           /\ TypeIn(st.dbs[1], n.id) \notin excluded}

---------------------------------------------------------------------------
(* One pack: PipelineRunner.suggest_prefix.                                *)

ExactPrefix == 0
Infix == 2
Fuzzy == 3

AsMatches(ids, class, text) == [i \in ids |-> [class |-> class, value |-> text, typos |-> 0]]
Literal(st, text, types, k) ==
  AsMatches(ToSet(SearchPrefix(st, text, Pool(k))), ExactPrefix, text)
    @@ AsMatches(ToSet(SearchTokenInfix(st, text, types, Pool(k))), Infix, text)

(* Fuzzy matching is tried unless it is off or, by itself, not worth it.   *)
TriesFuzzy(found, types, fuzzy, k) ==
  \/ fuzzy = "always"
  \/ fuzzy = "auto" /\ found < k /\ types \cap DeniedTypes = {}
NamesRaise(st, types, fuzzy) == ~Single(st) /\ fuzzy = "auto" /\ types = {}
FuzzyNames(st, types, fuzzy) ==
  LET rows == IF ~Single(st) THEN {}
              ELSE IterSuggestNames(st, types, IF fuzzy = "auto" /\ types = {} THEN DeniedTypes ELSE {})
  IN IF fuzzy = "always" \/ Cardinality(rows) <= MaxFuzzyNames THEN rows ELSE {}
FuzzyMatches(rows, text, taken) ==
  LET near == {r \in rows : r.value \in DOMAIN Typos[text] /\ r.id \notin taken}
      best(i) == CHOOSE r \in near :
                   r.id = i /\ \A q \in near : q.id = i => Typos[text][r.value] <= Typos[text][q.value]
  IN [i \in {r.id : r \in near} |-> [class |-> Fuzzy, value |-> best(i).value,
                                     typos |-> Typos[text][best(i).value]]]

NameKindRank(kind) == IF kind = "canonical" THEN 0 ELSE IF kind = "alias" THEN 2 ELSE 3
Candidate(e, text, match, domain) ==
  LET ranks == {NameKindRank(n.kind) : n \in {m \in e.names : m.value = match.value}}
  IN [id |-> e.id, type |-> e.type, pack |-> domain, class |-> match.class, typos |-> match.typos,
      exact |-> ranks # {} /\ match.value = text,
      prominence |-> IF "prominence" \in DOMAIN e.attrs THEN e.attrs["prominence"] ELSE 0,
      kind |-> IF ranks = {} THEN 3 ELSE Min(ranks)]

(* sort_key: lower is better.  A whole name goes first, unless it is that  *)
(* of an obscure place.                                                    *)
SortKey(c) ==
  LET lift == c.exact /\ (c.type \notin RankedTypes \/ c.prominence >= MinProminence)
  IN <<c.class, IF lift THEN 0 ELSE 1, c.typos, -c.prominence, c.kind, c.id>>
Precedes(s, t) == \E n \in 1..6 : s[n] < t[n] /\ \A m \in 1..n - 1 : s[m] = t[m]
Ranked(candidates) ==
  LET key == [c \in candidates |-> SortKey(c)]
  IN [n \in 1..Cardinality(candidates) |->
        CHOOSE c \in candidates : Cardinality({d \in candidates : Precedes(key[d], key[c])}) = n - 1]

WithFuzzy(st, text, types, fuzzy, k, literal) ==
  IF TriesFuzzy(Cardinality(DOMAIN literal), types, fuzzy, k)
  THEN literal @@ FuzzyMatches(FuzzyNames(st, types, fuzzy), text, DOMAIN literal)
  ELSE literal
Candidates(v, text, types, found) ==
  {Candidate(e, text, found[e.id], v.domain) :
     e \in {f \in UNION {GetEntity(v.store, i) : i \in DOMAIN found} : OfTypes(f.type, types)}}
Matches(st, text, types, fuzzy, k) ==
  WithFuzzy(st, text, types, fuzzy, k, Literal(st, text, types, k))

PackSuggestions(v, text, k, types, fuzzy) ==
  Take(Ranked(Candidates(v, text, types, Matches(v.store, text, types, fuzzy, k))), k)

PackRaises(v, text, k, types, fuzzy) ==
  /\ TriesFuzzy(Cardinality(DOMAIN Literal(v.store, text, types, k)), types, fuzzy, k)
  /\ NamesRaise(v.store, types, fuzzy)

---------------------------------------------------------------------------
(* All packs: an entity belongs to the first pack that hands it over.      *)
SuggestPrefix(view, filter, text, k, types, fuzzy) ==
  LET scope == SelectSeq(view, LAMBDA v : InFilter(filter, v.domain))
      listed(v) == PackSuggestions(v, text, PerPack(k), types, fuzzy)
      all == FoldLeft(LAMBDA acc, v : acc \cup {c \in ToSet(listed(v)) : c.id \notin {b.id : b \in acc}},
                      {}, scope)
  IN IF \E v \in ToSet(scope) : PackRaises(v, text, PerPack(k), types, fuzzy)
     THEN Raised("NotImplemented")
     ELSE Returned(Take(Ranked(all), k))

(* SuggestFlow.suggest                                                     *)
Clamped(k) == Max({1, Min({k, 100})})
Suggest(view, filter, text, k, types, fuzzy) ==
  IF Tokens[text] = <<>> THEN Returned(<<>>)
  ELSE SuggestPrefix(view, filter, text, Clamped(k), types, fuzzy)
===========================================================================
