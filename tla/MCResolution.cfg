SPECIFICATION Spec
CONSTANTS
  None = none
  NoDate = nodate
  ChunkSize = 2
  Tokens <- MCTokens
  Held <- MCHeld
  Shape <- MCShape
  Spelling <- MCSpelling
  Near <- MCNear
  Alike <- MCAlike
  Domain <- MCDomain
  MaxNames = 10
  Pack <- MCPack
  Entity <- MCEntity
  Source <- Sources
  Constraint <- Constraints
  Plan <- PackPlan
  Filters <- PackFilters
  Trait <- PackTrait
  Policy <- PackPolicy
  Budget = 20
  Stride = 1
  MaxListed = 5
  Loaded <- MCLoaded
  Band <- PackBand
  DomainGap = 1000
  PerPack = 3
  Margin = 20
  Query <- Facts
  MaxCalls = 2
CHECK_DEADLOCK TRUE
INVARIANTS PackAnswersAreWhole VerdictIsTheDominant OrderIsIrrelevant CachedAnswerIsComplete ListsFollowTheAsk
