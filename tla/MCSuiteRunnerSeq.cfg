\* One thread serves and emits: all fates, all session failures.
CONSTANTS
  N = 3
  MaxJobs = 1
  Pool = 1
  MaxDiags = 1
  Options <- SeqOptions
  Suites <- SeqSuites
  Fates = {"pass", "failed", "skipped", "trap", "unknown", "spin", "wedge"}
  Births = {"ok", "short", "trap", "spin", "wedge"}
SPECIFICATION FairSpec
INVARIANTS TypeOK Isolation WriteThrough TruthfulStream TruthfulSummary
PROPERTIES GuardedRunEnds
