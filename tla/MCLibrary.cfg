SPECIFICATION LibrarySpec
CONSTANTS
  NoDate = NoDate
  ChunkSize = 2
  Tokens <- MCTokens
  Today = 2
  GroupTypes <- MCGroupTypes
  CodeLike <- MCCodeLike
  Hierarchy <- MCHierarchy
  Begins <- MCBegins
  Typos <- MCTypos
  RankedTypes = {"country", "region"}
  DeniedTypes = {"admin1"}
  MinProminence = 1
  MaxFuzzyNames = 8
  Headroom = 1
  PoolFactor = 1
  PoolFloor = 1
  PoolCeiling = 2
  KnownSystems <- MCKnownSystems
  MintId <- MCMintId
  Counter <- MCCounter
  Disk <- MCDisk
  Manifest <- MCManifest
  Overrides <- MCOverrides
  Offers <- MCOffers
  EntryPoints <- MCEntryPoints
  CachePath <- MCCachePath
  BuiltPaths <- MCBuiltPaths
  BuiltIds <- MCBuiltIds
  Factories <- MCFactories
  Selections <- MCSelections
  Filters <- MCFilters
  PathLists <- MCPathLists
  RecordsCalls <- MCRecordsCalls
  AugmentCalls <- MCAugmentCalls
  MaxBuilds = 2
  MaxOverlays = 2
INVARIANTS
  AddedIsFound
  HitIsABuild
  WaysAgree
PROPERTIES
  SelectionIsAuthoritative
  AugmentOnlyAdds
