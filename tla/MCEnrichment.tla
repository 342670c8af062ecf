---- MODULE MCEnrichment ----
(* One run enriching twice, or two at once; a country that a merge may     *)
(* drop, one that a city lies in and the store lacks, a Saint,             *)
(* a noise region and the European Union.                                  *)
EXTENDS Enrichment, TLC

CONSTANTS Lucia, Mali, EU, Noise, Caribbean, Africa, Sahel, OrgBank, OrgFund, OrgChannel, OrgAgency,
          OecdRegion, Ghost, Niger, Niamey

MCEntity == {Lucia, Mali, EU, Noise, Caribbean, Africa, Sahel, OrgBank, OrgFund, OrgChannel,
             OrgAgency, OecdRegion, Niger, Niamey}
MCTypeOf == [e \in MCEntity |->
  IF e \in {Lucia, Mali, Niger} THEN "country"
  ELSE IF e = Niamey THEN "city"
  ELSE IF e \in {Noise, Africa, OecdRegion} THEN "region"
  ELSE IF e = EU THEN "union"
  ELSE IF e \in {Caribbean} THEN "subregion"
  ELSE IF e = Sahel THEN "organization" ELSE "org"]

Form(text) == [text |-> text, lang |-> "en"]
Row(id, text) == [of |-> id, text |-> text, lang |-> "en"]

MCFormal == {[id |-> Mali, forms |-> {Form("Republic of Mali")}]}
MCCldr == {[iso2 |-> "lc", forms |-> {Form("Saint Lucia")}],
           [iso2 |-> "ml", forms |-> {[text |-> "Mali", lang |-> "fr"]}]}
MCIso3Fallback == [c \in {"ml"} |-> "MLI"]
MCAbbreviated == [t \in {"Saint Lucia", "Saint Lucy"} |->
                    IF t = "Saint Lucia" THEN {"St. Lucia", "St Lucia"} ELSE {"St. Lucy", "St Lucy"}]
MCGroups == {[id |-> Sahel, forms |-> {Form("G5")}, listed |-> TRUE,
              members |-> {[iso3 |-> "MLI", dates |-> "until 2022"],
                            [iso3 |-> "NER", dates |-> "always"]}],
             [id |-> EU, forms |-> {Form("EU")}, listed |-> FALSE, members |-> {}]}
MCM49Regions == {[id |-> Caribbean, forms |-> {Form("Caribbean")}, code |-> "029", parent |-> Africa]}
MCM49Countries == {[iso3 |-> "LCA", leaf |-> Caribbean]}
MCGeoNames == {[iso2 |-> "lc", forms |-> {Form("Saint Lucy")}]}
MCValidity == {Mali, EU}
MCRegionForms == {[id |-> Africa, forms |-> {Form("SSA")}]}
MCNoiseRegion == {Noise}
MCNoiseExplicit == {Noise}

MCRecipients == {[code |-> "r1", id |-> OecdRegion, iso3 |-> "MLI", forms |-> {Form("Mali")}]}
MCProviders == {[code |-> "p1", id |-> OrgBank, iso3 |-> Null, forms |-> {Form("EU Institutions")}],
                [code |-> "p2", id |-> OrgFund, iso3 |-> Null, forms |-> {Form("Fund")}],
                [code |-> "p3", id |-> OrgBank, iso3 |-> Null, forms |-> {Form("Bank")}],
                [code |-> "p4", id |-> OrgBank, iso3 |-> "LCA", forms |-> {Form("Saint Lucy")}]}
MCChannels == {[code |-> "c1", id |-> OrgChannel, parent |-> "c1", forms |-> {Form("Channel")}]}
MCAgencies == {[code |-> "a1", id |-> OrgAgency, donor |-> "p2", forms |-> {Form("Agency")}]}
MCCrosswalk == [s \in {"provider", "channel", "agency"} |->
  IF s = "provider" THEN [c \in {"p1", "p3"} |-> IF c = "p1" THEN EU ELSE Ghost] ELSE << >>]
MCCountryId == [c \in {"LCA"} |-> Lucia]

Base(ids, names, codes, edges) ==
  [ents |-> ids, names |-> names, codes |-> codes, edges |-> edges, dated |-> {}]
Iso(id, two, three) == CodeOf(id, "iso2", two) \cup CodeOf(id, "iso3", three)
Countries == Base({Lucia, Mali}, {Row(Mali, "Mali")},
                  Iso(Lucia, "lc", "LCA") \cup CodeOf(Mali, "iso3", "MLI"),
                  EdgeOf(Mali, "contained_in", Noise))
FewerCountries == Base({Lucia}, {}, Iso(Lucia, "lc", "LCA"), {})
Regions == Base({Africa, Noise}, {Row(Noise, "Not applicable")}, {}, {})
Unions == Base({EU}, {}, {}, {})
Cities == Base({Niamey}, {}, {}, EdgeOf(Niamey, "contained_in", Niger))
MCSlice == [t \in {"country", "region", "union"} |->
  IF t = "country" THEN {Countries, FewerCountries}
  ELSE IF t = "region" THEN {Regions} ELSE {Unions}]
MCStaged ==
  Merged(Merged(Merged(Merged(Blank, "country", Countries), "region", Regions), "union", Unions),
         "city", Cities)
MCEarlier == {[Nothing EXCEPT
  !.names = {Row(EU, "EU Institutions")}, !.ents = {Sahel},
  !.edges = EdgeOf(Lucia, "member_of", Sahel) \cup EdgeOf(Mali, "member_of", Sahel)]}
MCOrgStaged == Blank
MCFetchable == [e \in {Noise, Niger} |->
  IF e = Noise THEN Base({Noise}, {Row(Noise, "Not applicable")}, {}, {})
  ELSE Base({Niger}, {}, CodeOf(Niger, "iso3", "NER"), EdgeOf(Niger, "contained_in", Noise))]
MCReconcileTypes == {"contained_in"}

Symmetry == Permutations(Run)
====
