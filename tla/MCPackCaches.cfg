SPECIFICATION Spec
CONSTANTS
  p1 = p1
  p2 = p2
  Process <- MCProcess
  None = none
  Sqlite = sqlite
  symspell = symspell
  Artifact <- MCArtifact
  Metadata = metadata
  Entities = entities
  v1 = v1
  v2 = v2
  Version = {v1, v2}
  MaxCalls = 2
  MaxEvents = 2
SYMMETRY MCSymmetry
CHECK_DEADLOCK FALSE
INVARIANTS CachedIsComplete HandedOutIsThere ServedIsCurrent
