SPECIFICATION FairSpec
CONSTANTS
  None = None
  Kind <- MCKind
  Place <- MCPlace
  BatchSize = 2
  MaxWorkers = 2
  Retries = 1
  Below <- MCBelow
  ChunkSize = 2
  Countries <- MCCountries
  MaxLevel = 3
  AnyArea = "Area"
  LevelKind <- MCLevelKind
  City = "City"
  Requests <- MCRequests
INVARIANTS
  WalkIsComplete
  InBatchOrder
PROPERTIES
  WalkEnds
CHECK_DEADLOCK TRUE
