SPECIFICATION FairSpec
CONSTANTS
  c1 = c1
  c2 = c2
  Chunk <- MCChunk
  RetryLimits = {2}
  MaxWorkers = 2
  Reopenable = {2}
  MaxReopened = 1
INVARIANTS
  OnlyExhaustedChunksAreLost
PROPERTIES
  ImplementsLedger
  InvocationReturns
CHECK_DEADLOCK TRUE
