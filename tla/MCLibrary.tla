---------------------------- MODULE MCLibrary -----------------------------
(***************************************************************************)
(* A library of a bundled and a remote module of one domain, a module of   *)
(* another domain, an overlay over the two, a local copy of the remote     *)
(* module, and directories that cannot be opened together or at all.       *)
(***************************************************************************)
EXTENDS Library

MCTokens ==
  [v \in {"benin", "niger", "dahomey", "togo", "ecowas", "west africa", "africa", "BN", "NER", "N1",
           "ni", "nigr"} |->
     IF v = "west africa" THEN <<"west", "africa">> ELSE <<v>>]

MCBegins ==
  [w \in {"benin", "niger", "dahomey", "togo", "ecowas", "west", "africa", "BN", "NER", "N1", "ni", "nigr"} |->
     IF w = "ni" THEN {"niger"} ELSE IF w = "nigr" THEN {} ELSE {w}]
MCTypos ==
  [t \in {"ni", "nigr", "niger", "africa", "benin"} |->
     IF t = "nigr" THEN [n \in {"niger", "benin"} |-> IF n = "niger" THEN 1 ELSE 4]
     ELSE IF t = "benin" THEN [n \in {"niger"} |-> 3] ELSE [n \in {} |-> 0]]

E(id, type, name) ==
  [id |-> id, type |-> type, name |-> name,
   attrs |-> IF id = 2 THEN [a \in {"prominence"} |-> 2] ELSE <<>>]
N(id, kind, value) == [id |-> id, kind |-> kind, value |-> value]
C(id, system, value) == [id |-> id, system |-> system, value |-> value]
R(id, type, target, from, until) ==
  [id |-> id, type |-> type, target |-> target, from |-> from, until |-> until]

Canonical(entities) == {N(e.id, "canonical", e.name) : e \in entities}

CountryEntities == {E(1, "country", "benin"), E(2, "country", "niger"), E(3, "group", "ecowas"),
                    E(4, "region", "west africa"), E(6, "region", "africa")}
Countries ==
  [entities |-> CountryEntities,
   names |-> Canonical(CountryEntities) \cup {N(6, "alias", "ecowas")},
   codes |-> {C(1, "iso", "BN"), C(2, "iso", "NER"), C(2, "fips", "BN")},
   relations |-> {R(1, "member_of", 3, NoDate, 2), R(2, "member_of", 3, 1, NoDate),
                  R(1, "contained_in", 4, NoDate, NoDate), R(2, "contained_in", 4, NoDate, NoDate),
                  R(4, "contained_in", 6, NoDate, NoDate)}]
NewCountries ==
  [Countries EXCEPT !.names = @ \cup {N(1, "alias", "dahomey")},
                    !.codes = @ \cup {C(6, "iso", "BN")},
                    !.relations = @ \cup {R(6, "contained_in", 1, 1, NoDate)}]

Admin(name) ==
  [entities |-> {E(5, "admin1", name)}, names |-> {N(5, "canonical", name)},
   codes |-> {C(5, "iso", "N1")}, relations |-> {R(5, "contained_in", 2, NoDate, NoDate)}]
Extra ==
  [entities |-> {E(1, "country", "dahomey"), E(7, "country", "togo")},
   names |-> {N(1, "canonical", "dahomey"), N(7, "canonical", "togo"), N(1, "alias", "benin")},
   codes |-> {C(1, "own", "N1"), C(7, "own", "NER")}, relations |-> {}]
Donors ==
  [entities |-> {E(8, "lender", "niger")}, names |-> {N(8, "canonical", "niger")},
   codes |-> {C(8, "own", "NER")}, relations |-> {}]
Clash ==
  [entities |-> {E(2, "country", "niger")}, names |-> {N(2, "canonical", "niger")},
   codes |-> {}, relations |-> {}]

Pack(id, domain, kind, deps, bases, distribution, gate, data, db) ==
  [id |-> id, domain |-> domain, kind |-> kind, deps |-> deps, bases |-> bases, allow |-> FALSE,
   distribution |-> distribution, gate |-> gate, major |-> 1, features |-> domain, data |-> data, db |-> db]

Base(id, domain, deps, db) == Pack(id, domain, "base", deps, {}, "bundled", "", TRUE, db)
CountryPack(db) == Base("geo.countries", "geo", {"geo.admin1"}, db)
AdminPack == Pack("geo.admin1", "geo", "base", {}, {}, "remote", "", FALSE, Admin("niger"))

MCDisk ==
  [countries |-> <<CountryPack(Countries), CountryPack(NewCountries)>>,
   admin |-> <<AdminPack>>, cache |-> <<AdminPack>>,
   copy |-> <<Base("geo.admin1", "geo", {}, Admin("dahomey"))>>,
   extra |-> <<Pack("geo.extra", "geo", "overlay", {}, {"geo.countries", "geo.admin1"},
                    "bundled", "", TRUE, Extra)>>,
   donors |-> <<Base("org.donors", "org", {"geo.countries"}, Donors)>>,
   clash |-> <<Base("geo.clash", "geo", {}, Clash)>>,
   old |-> <<Pack("geo.old", "geo", "base", {}, {}, "bundled", "NormalizerVersion", TRUE, Clash)>>]

MCManifest == <<[id |-> "geo.countries", dir |-> "countries"], [id |-> "geo.admin1", dir |-> "admin"]>>
MCOverrides == [m \in {"geo.countries", "geo.admin1"} |-> IF m = "geo.admin1" THEN "remote" ELSE "bundled"]
MCOffers == [m \in {"geo.extra"} |-> "extra"]
MCEntryPoints ==
  [m \in {"org.donors", "org.gone", "geo.admin1"} |-> IF m = "geo.admin1" THEN "copy" ELSE "donors"]
MCCachePath == [m \in {"geo.admin1"} |-> "cache"]
MCBuiltPaths == <<"built1", "built2", "built3">>
MCBuiltIds == <<"byod-1", "byod-2", "byod-3">>
MCFactories == [d \in {"geo", "org", "custom"} |-> d]

MCSelections == {<<"geo.countries">>, <<"geo.extra">>, <<"org.donors", "geo.countries">>, <<"geo.gone">>}
MCFilters == {{}, {"org"}, {"gone"}}
MCPathLists == {<<"copy", "countries">>, <<"copy", "admin">>, <<"countries", "clash">>, <<"old">>}

Row(iso, alias) == [iso |-> iso, alias |-> alias]
Records(rows, id, codes) ==
  [rows |-> rows, namespace |-> "custom", domain |-> "custom", names |-> <<"title", "alias">>, id |-> id,
   aliases |-> <<"alias">>, type |-> "", codes |-> codes, detect |-> FALSE, rest |-> TRUE]
MCRecordsCalls ==
  {Records(<<[key |-> "0", title |-> "togo", alias |-> "benin", iso |-> "BN"],
             [key |-> "", title |-> "", alias |-> "niger", iso |-> "NER"],
             [key |-> "1", title |-> "ecowas", alias |-> "", iso |-> ""]>>,
           {"key"}, [s \in {"iso"} |-> "iso"])}

Augments(rows, linkOn, codes, onMiss) ==
  [rows |-> rows, namespace |-> "", linkOn |-> linkOn, addCodes |-> codes, addAliases |-> <<"alias">>,
   addAttrs |-> {}, columns |-> <<>>, onMiss |-> onMiss]
TwoRows == <<Row("BN", "dahomey"), Row("", "togo")>>
MCAugmentCalls ==
  {Augments(TwoRows, <<"iso">>, <<>>, "mint"),
   Augments(<<[mine |-> "N1", alias |-> "niger"]>>, <<"mine", "name">>, <<"mine">>, "skip"),
   Augments(<<[mine |-> "", alias |-> "niger"]>>, <<"mine">>, <<>>, "error")}

MCKnownSystems == [d \in {"geo", "org", "custom"} |-> IF d = "geo" THEN {"iso"} ELSE {}]
MCCounter == <<"0", "1">>
MCMintId == [p \in {"geo", "org", "custom"} \X {"0", "1"} |->
               (IF p[1] = "custom" THEN 20 ELSE IF p[1] = "geo" THEN 10 ELSE 30) + (IF p[2] = "0" THEN 0 ELSE 1)]

MCGroupTypes == [d \in {"geo", "org", "custom"} |-> IF d = "geo" THEN {"group"} ELSE {}]
MCCodeLike == {"BN", "NER", "N1"}
MCHierarchy == {"country", "region", "admin1"}
===========================================================================
