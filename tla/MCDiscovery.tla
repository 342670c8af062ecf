---------------------------- MODULE MCDiscovery ----------------------------
(***************************************************************************)
(* Three countries in batches of two; a city directly under a country that *)
(* is under an area too, an area under parents of two batches, a country   *)
(* with none, a level of a type that has no place, and a generic area      *)
(* below the last level that is asked for.                                 *)
(***************************************************************************)
EXTENDS Discovery

MCPlace == {1, 2, 3, 11, 12, 21, 31, 41, 51, 91, 92}
MCCountries == <<2, 3, 1>>
MCKind == {"City", "Area", "Area1", "Area2", "Area3"}
MCLevelKind == <<"Area1", "Area2", "Area3">>
Only(parents) == [p \in MCPlace |-> IF p \in DOMAIN parents THEN parents[p] ELSE {}]
First == [p \in {1, 2} |-> IF p = 1 THEN {11, 12} ELSE {21}]
Second == [p \in {12, 21} |-> {31}]
Below31 == [p \in {31, 41} |-> IF p = 31 THEN {41} ELSE {51}]
MCBelow == [k \in MCKind |->
  CASE k = "City" -> Only([p \in {1, 11, 31} |-> IF p = 31 THEN {92} ELSE {91}])
    [] k = "Area1" -> Only(First)
    [] k = "Area2" -> Only(Second)
    [] k = "Area3" -> Only(<<>>)
    [] OTHER -> Only(First @@ Second @@ Below31)]
MCRequests == {{0, 1, 2, 3, 4}, {4}, {2}, {0, 2}}
=============================================================================
