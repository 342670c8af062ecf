-------------------------- MODULE MCSharedResolver --------------------------
EXTENDS SharedResolver, TLC

CONSTANTS t1, t2, symspell, fuzzy

TwoThreads == {t1, t2}
GeoSources == {symspell, fuzzy}
GeoLender == symspell :> None @@ fuzzy :> symspell
Work == [t \in Thread |-> IF t = t1 THEN 3 ELSE 2]
=============================================================================
