\* Two threads, and one of them alone after a fork; two geo sources that share an index,
\* one dictionary, one connection.
SPECIFICATION Spec
CONSTANTS
  t1 = t1
  t2 = t2
  symspell = symspell
  fuzzy = fuzzy
  None = none
  Conn = {c1}
  Dict = {d1}
  Thread <- TwoThreads
  Source <- GeoSources
  Lender <- GeoLender
  MaxWork <- Work
CHECK_DEADLOCK FALSE
INVARIANTS HeldExclusively LookupsAreWhole
PROPERTIES CallsReturn ForkedBuildsEnd
