SPECIFICATION EnrichSpec
CONSTANTS
  Null = Null
  Run = {a, b}
  Lucia = Lucia
  Mali = Mali
  EU = EU
  Noise = Noise
  Caribbean = Caribbean
  Africa = Africa
  Sahel = Sahel
  OrgBank = OrgBank
  OrgFund = OrgFund
  OrgChannel = OrgChannel
  OrgAgency = OrgAgency
  OecdRegion = OecdRegion
  Ghost = Ghost
  Niger = Niger
  Niamey = Niamey
  EuropeanUnion = EU
  Entity <- MCEntity
  TypeOf <- MCTypeOf
  Formal <- MCFormal
  Cldr <- MCCldr
  Iso3Fallback <- MCIso3Fallback
  Abbreviated <- MCAbbreviated
  Groups <- MCGroups
  M49Regions <- MCM49Regions
  M49Countries <- MCM49Countries
  GeoNames <- MCGeoNames
  Validity <- MCValidity
  RegionForms <- MCRegionForms
  NoiseRegion <- MCNoiseRegion
  NoiseExplicit <- MCNoiseExplicit
  Recipients <- MCRecipients
  Providers <- MCProviders
  Channels <- MCChannels
  Agencies <- MCAgencies
  Crosswalk <- MCCrosswalk
  CountryId <- MCCountryId
  Slice <- MCSlice
  Staged <- MCStaged
  Earlier <- MCEarlier
  OrgStaged <- MCOrgStaged
  Fetchable <- MCFetchable
  ReconcileTypes <- MCReconcileTypes
  MaxRounds = 2
  MaxPasses = 2
  MaxFaults = 1
INVARIANTS OrphansNeedAMerge CurationIsEnforced PassIsRepeatable
CHECK_DEADLOCK FALSE
SYMMETRY Symmetry
