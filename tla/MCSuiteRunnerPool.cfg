\* More workers than the pool has instances.
CONSTANTS
  N = 4
  MaxJobs = 3
  Pool = 2
  MaxDiags = 0
  Options <- ParOptions
  Suites <- ParSuites
  Fates = {"pass"}
  Births = {"ok"}
SPECIFICATION Spec
INVARIANT JobsInvisible
