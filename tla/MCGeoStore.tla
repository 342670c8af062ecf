----------------------------- MODULE MCGeoStore -----------------------------
(* Two runs over two coverage units and two source instances.              *)
EXTENDS GeoStore
CONSTANTS build, rebuild, countries, admin1, prod, custom

(* Both runs on one instance, or one on each: the names do not matter.     *)
MCInstances == {[r \in Run |-> prod], [r \in Run |-> IF r = build THEN prod ELSE custom]}

(* required_units_for_entity_types closes a plan under parent units.       *)
MCPlans == {{countries}, {countries, admin1}}

(* The rebuild finds no countries: a plan of countries alone then selects  *)
(* nothing, and a unit can be ready without rows.                          *)
MCYields == {[r \in Run |-> IF r = rebuild THEN {admin1} ELSE {countries, admin1}]}
=============================================================================
