\* Worker threads, their channel and the emitting loop.
CONSTANTS
  N = 4
  MaxJobs = 3
  Pool = 2
  MaxDiags = 1
  Options <- ParOptions
  Suites <- ParSuites
  Fates = {"pass", "spin"}
  Births = {"ok"}
SPECIFICATION FairSpec
INVARIANTS NoRetry TruthfulStream EveryIndexHasResult PoolSuffices
PROPERTY ImplementsCensusStream
