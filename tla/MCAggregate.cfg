\* Two documents of two targets and a stranger, against every lockfile and manifest.
CONSTANTS
  Targets = {"t1", "t2", "t3"}
  Names <- MCNames
  Labels = {"a", "b", "g", "x", "y", "z"}
  LeafSegments = {"a", "b", "g", "x", "y", "z"}
  Features = {"f", "s"}
  Lockfiles <- MCLockfiles
  Manifests <- MCManifests
  Runs <- MCRuns
  MaxDocs = 2
SPECIFICATION Spec
INVARIANTS TypeOK GreenIsEarned SameCensus RunnerParity NothingHidden
