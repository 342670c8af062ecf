CONSTANTS
  main = main
  worker = worker
  fork = fork
  Thread = {main, worker}
  Child = fork
  Field = {"cache_dir", "default_to"}
  Setting = {"old", "new"}
  Initial = "old"
  Unlocked = Unlocked
  MaxBuilds = 3
  MaxCalls <- MCTwoCalls
SPECIFICATION FairSpec
INVARIANT OneOpenDefault FreshDefault
PROPERTY CallsReturn
