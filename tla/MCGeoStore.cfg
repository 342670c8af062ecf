CONSTANTS
  build = build
  rebuild = rebuild
  countries = countries
  admin1 = admin1
  prod = prod
  custom = custom
  NoRun = NoRun
  NoSource = NoSource
  Run = {build, rebuild}
  Unit = {countries, admin1}
  Source = {prod, custom}
  Instances <- MCInstances
  Plans <- MCPlans
  Yields <- MCYields
  MaxStarts = 2
  MaxLive = 2
SPECIFICATION FairSpec
INVARIANT ReadyIsStored PacksHoldRequired
PROPERTY RunsReturn
