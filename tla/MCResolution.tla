---------------------------- MODULE MCResolution ----------------------------
(***************************************************************************)
(* The geo, org and custom packs asked about Niger, ECOWAS and West Africa *)
(* in small stores, and about queries that may find anything: codes, names *)
(* and fuzzy matches of two geo entities, two organizations and one of the *)
(* caller's.                                                               *)
(***************************************************************************)
EXTENDS Retrieval

MCPack == {"geo", "org", "custom"}
MCLoaded == <<"custom", "geo", "org">>
MCEntity == 1 .. 9

\* 1 Niger, 2 Nigeria, 3 a state of 2, 4 a town in it, 5 ECOWAS, 6 West Africa; 7 and 8, bodies of
\* ECOWAS; 9 an entity of the caller's.
Row(i, type, name, attrs) == [id |-> i, type |-> type, name |-> name, attrs |-> attrs]
Name(i, kind, value) == [id |-> i, kind |-> kind, value |-> value]
Code(i, system, value) == [id |-> i, system |-> system, value |-> value]
Link(i, type, target) == [id |-> i, type |-> type, target |-> target, from |-> NoDate, until |-> NoDate]
NoAttrs == [a \in {} |-> 0]
Geo == [
  entities |-> {Row(1, "geo.country", "niger", "prominence" :> 60), Row(2, "geo.country", "nigeria", NoAttrs),
    Row(3, "geo.admin1", "niger state", "until" :> 3), Row(4, "geo.city", "niger", "from" :> 2),
    Row(5, "geo.organization", "economic community", NoAttrs), Row(6, "geo.region", "west africa", NoAttrs)},
  names |-> {Name(1, "canonical", "niger"), Name(2, "canonical", "nigeria"), Name(3, "canonical", "niger state"),
    Name(3, "alias", "niger"), Name(4, "canonical", "niger"), Name(5, "canonical", "economic community"),
    Name(5, "alias", "ecowas"), Name(6, "canonical", "west africa")},
  codes |-> {Code(1, "iso3", "ner"), Code(1, "iso2", "ne"), Code(1, "wikidata", "q1032"), Code(2, "iso3", "nga"),
    Code(2, "dac", "ner")},
  relations |-> {Link(4, "contained_in", 3), Link(3, "contained_in", 2), Link(2, "contained_in", 6)}]
Org == [
  entities |-> {Row(7, "org.igo", "ecowas bank", NoAttrs), Row(8, "org.igo", "ecowas commission", NoAttrs)},
  names |-> {Name(7, "canonical", "ecowas bank"), Name(7, "acronym", "ecowas"),
    Name(8, "canonical", "ecowas commission"), Name(8, "acronym", "ecowas")},
  codes |-> {}, relations |-> {Link(8, "subsidiary_of", 5)}]
Mine == [entities |-> {Row(9, "custom.site", "niger site", NoAttrs)},
         names |-> {Name(9, "canonical", "niger site"), Name(9, "alias", "niger")},
         codes |-> {Code(9, "custom", "ner"), Code(9, "erp", "ner")}, relations |-> {}]
Overlay == [entities |-> {Row(9, "custom.site", "", NoAttrs)}, names |-> {Name(9, "alias", "ecowas")},
            codes |-> {}, relations |-> {}]
Alone(d) == [dbs |-> <<d>>, open |-> <<TRUE>>]
MCHeld ==
  LET bundled == "geo" :> Alone(Geo) @@ "org" :> Alone(Org) @@ "custom" :> Alone(Mine) IN
  "bundled" :> bundled @@
  "augmented" :> [bundled EXCEPT !["custom"] = [dbs |-> <<Mine, Overlay>>, open |-> <<TRUE, TRUE>>]]

\* Texts.
Word(value, length) ==
  [value |-> value, plain |-> value, length |-> length, codes |-> <<>>, alpha |-> TRUE, upper |-> FALSE,
   capitals |-> FALSE, vowels |-> FALSE, dot |-> FALSE, dotted |-> FALSE, release |-> FALSE, missing |-> FALSE,
   noise |-> FALSE, codeLike |-> FALSE, spaces |-> FALSE, ending |-> FALSE, word |-> FALSE]
Capital(shape) == [shape EXCEPT !.upper = TRUE, !.capitals = TRUE]
CodeOf(shape, tried) == [shape EXCEPT !.codes = tried, !.codeLike = TRUE]
Of(system, value) == [system |-> system, value |-> value]
MCShape ==
  "NER" :> CodeOf(Capital(Word("ner", 3)), <<Of("iso3", "ner")>>) @@
  "NGA" :> CodeOf(Capital(Word("nga", 3)), <<Of("iso3", "nga")>>) @@
  "ne" :> CodeOf(Word("ne", 2), <<Of("iso2", "ne")>>) @@
  "Q1032" :> CodeOf([Word("q1032", 5) EXCEPT !.alpha = FALSE], <<Of("wikidata", "q1032"), Of("wikidata", "1032")>>) @@
  "Niger" :> Word("niger", 5) @@ "Nigr" :> Word("nigr", 4) @@ "Nigeira" :> Word("nigeira", 7) @@
  "ECOWAS" :> Capital(Word("ecowas", 6)) @@ "na" :> [Word("na", 2) EXCEPT !.missing = TRUE] @@
  "West Afrika" :> [Word("west afrika", 11) EXCEPT !.alpha = FALSE, !.spaces = TRUE] @@
  "&&" :> [Word("&&", 2) EXCEPT !.plain = "", !.alpha = FALSE]
Values == {MCShape[t].value : t \in DOMAIN MCShape} \cup {MCShape[t].plain : t \in DOMAIN MCShape}
Spelled == UNION {{n.value : n \in d.names} \cup {e.name : e \in d.entities} : d \in {Geo, Org, Mine, Overlay}}
MCTokens == [v \in Values \cup Spelled |->
  CASE v = "niger state" -> <<"niger", "state">> [] v = "niger site" -> <<"niger", "site">>
    [] v = "west africa" -> <<"west", "africa">> [] v = "west afrika" -> <<"west", "afrika">>
    [] v = "ecowas bank" -> <<"ecowas", "bank">> [] v = "ecowas commission" -> <<"ecowas", "commission">>
    [] v = "economic community" -> <<"economic", "community">> [] OTHER -> <<v>>]
Suggest(value, distance) == <<[value |-> value, distance |-> distance]>>
Right(v) == [whole |-> Suggest(v, 0), compound |-> Suggest(v, 0), phrase |-> v, ratio |-> 100]
Wrong(v, distance, ratio) == [Right(v) EXCEPT !.whole = Suggest(v, distance), !.ratio = ratio]
MCSpelling ==
  LET geo == [v \in Values |->
        CASE v = "nigr" -> Wrong("niger", 1, 89) [] v = "nigeira" -> Wrong("nigeria", 1, 86)
          [] v = "west afrika" -> [Wrong("west africa", 1, 91) EXCEPT !.whole = <<>>, !.compound = Suggest("west africa", 1)]
          [] OTHER -> Right(v)]
  IN "geo" :> geo @@ "org" :> [v \in Values |-> Right(v)]
MCNear == [v \in Values |->
  CASE v \in {"niger", "nigr"} -> <<[value |-> "niger site", score |-> 100, typos |-> 5],
                                    [value |-> "niger", score |-> 86, typos |-> 1]>>
    [] OTHER -> <<>>]
MCAlike == [v \in Values |-> [n \in Spelled \cup {""} |->
  CASE v = n -> [edit |-> 100, token |-> 100]
    [] <<v, n>> = <<"nigr", "niger">> -> [edit |-> 89, token |-> 89]
    [] <<v, n>> = <<"nigeira", "nigeria">> -> [edit |-> 86, token |-> 86]
    [] <<v, n>> = <<"niger", "nigeria">> -> [edit |-> 83, token |-> 83]
    [] <<v, n>> = <<"west afrika", "west africa">> -> [edit |-> 91, token |-> 91]
    [] v = "ecowas" /\ n \in {"ecowas bank", "ecowas commission"} -> [edit |-> 60, token |-> 100]
    [] OTHER -> [edit |-> 30, token |-> 30]]]
MCDomain == "geo" :> {Row1.type : Row1 \in Geo.entities} @@ "org" :> {"org.igo"} @@ "custom" :> {"custom.site"}

\* Calls.
Plain(text) == [text |-> text, types |-> {}, parents |-> {}, country |-> "", asOf |-> NoDate, domains |-> {},
                router |-> "hybrid", by |-> "bundled"]
Asks == {Plain(text) : text \in DOMAIN MCShape} \cup
  {[Plain("Niger") EXCEPT !.types = {"geo.city"}], [Plain("Niger") EXCEPT !.parents = {6}],
   [Plain("Niger") EXCEPT !.country = "NGA"], [Plain("Niger") EXCEPT !.asOf = 1], [Plain("Niger") EXCEPT !.asOf = 3],
   [Plain("ECOWAS") EXCEPT !.parents = {5}], [Plain("ECOWAS") EXCEPT !.router = "auto"],
   [Plain("ECOWAS") EXCEPT !.types = {"geo.region"}, !.router = "auto"], [Plain("ne") EXCEPT !.types = {"geo.country"}],
   [Plain("Nigr") EXCEPT !.by = "augmented"], [Plain("Nigr") EXCEPT !.types = {"geo.region"}], [Plain("ECOWAS") EXCEPT !.by = "augmented", !.domains = {"custom", "geo"}]}

\* Queries that may find anything.
Hit(i, raw) == [id |-> i, raw |-> raw]
AllHit(S, raw) == [k \in 1 .. Cardinality(S) |-> Hit(Db!Sorted(S)[k], raw)]
Found(c, n, f, o, m) == [s \in Sources |->
  CASE s = "geo_exact_code" -> AllHit(c, 100) [] s = "geo_exact_name" -> AllHit(n, 95)
    [] s = "geo_fuzzy_retrieval" -> AllHit(f, 80) [] s = "geo_fuzzy" -> AllHit({1}, 70)
    [] s = "org_exact_name" -> AllHit(o, 95) [] s = "custom_exact_name" -> AllHit(m, 95) [] OTHER -> <<>>]
Fact(H, B, S, R, P, G) ==
  {[asked |-> {}, hits |-> h, breaks |-> [c \in Constraints |-> b],
    score |-> [i \in Entity |-> IF i <= 5 THEN s[i] ELSE 0],
    close |-> [i \in Entity |-> IF i <= 5 THEN s[i] + 300 ELSE 0],
    rank |-> [i \in Entity |-> IF i <= 5 THEN r[i] ELSE 0], parent |-> p, groups |-> g,
    place |-> [i \in Entity |-> IF i = 1 THEN 2 ELSE IF i = 2 THEN 0 ELSE 99], meant |-> [q \in Pack |-> <<>>],
    acronym |-> FALSE, blank |-> {}, router |-> "hybrid", domains |-> {}, types |-> {},
    appeal |-> [q \in Pack |-> 50]] :
   h \in H, b \in B, s \in S, r \in R, p \in P, g \in G}
NoRank == <<0, 0, 0, 0, 0>>
\* One pack's pipeline: evidence, filters, scores and ranks vary.
GeoFacts == Fact({Found(c, n, f, {}, {}) : c \in {{}, {1}}, n \in {{}, {1, 2}}, f \in {{}, {2}}} \cup {Found({}, {1}, {2}, {}, {})},
                 {{}, {1}}, {<<6500, 8800, 0, 0, 0>>, <<9100, 9400, 0, 0, 0>>}, {NoRank, <<85, 70, 0, 0, 0>>}, {{}}, {{}})
\* Several packs answer: tiers, scores and ambiguities vary.
PackFacts == Fact({Found({}, n, {2}, o, m) : n \in {{}, {1, 2}}, o \in {{}, {3, 4}}, m \in {{}, {5}}},
                  {{}}, {<<9800, 9000, 8800, 8600, 7200>>, <<9800, 9000, 8800, 7000, 9200>>, <<6500, 9000, 8800, 8600, 9200>>},
                  {NoRank}, {{4}}, {{3}}) \cup
             Fact({Found({}, {1, 2}, {}, {3, 4}, m) : m \in {{}, {5}}},
                  {{}}, {<<8600, 9000, 8800, 8600, e>> : e \in {7200, 9200}} \cup {<<8704, 9001, 8800, 8600, 9003>>},
                  {NoRank}, {{}}, {{}, {3}})
\* The routers, and a pack that cannot normalize the text.
RouterFacts ==
  LET plain == Fact({Found({}, {1}, {}, {3}, {5})}, {{}}, {<<9500, 9000, 8800, 8600, 9200>>}, {NoRank}, {{}}, {{}}) IN
  {[f EXCEPT !.router = "auto", !.types = t, !.appeal = "geo" :> g @@ "org" :> 50 @@ "custom" :> 40] :
     f \in plain, t \in {{}, {"org"}}, g \in {40, 90}}
  \cup {[f EXCEPT !.domains = {"org", "geo"}, !.blank = {"geo"}] : f \in plain}
Facts == GeoFacts \cup PackFacts \cup RouterFacts \cup {QueryOf(ask) : ask \in Asks}
=============================================================================
