SPECIFICATION Spec
CONSTANTS
  france = france
  congo = congo
  in = in
  xx = xx
  c0 = c0
  c1 = c1
  iso = iso
  num = num
  typo = typo
  e1 = e1
  e2 = e2
  e3 = e3
  Text = {france, congo, in, xx}
  Context = {c0, c1}
  System = {iso, num}
  Entity = {e1, e2, e3}
  CodeShaped = {in, xx}
  World <- Worlds
  Calls <- MCCalls
  Null = null
  Literal = literal
  NoSystem = nosystem
  Raw = raw
  Ignore = ignore
  None = none
  Other = typo
CHECK_DEADLOCK FALSE
INVARIANTS RowsAreIndependent LenientCallsReturn SettledTextsStay
