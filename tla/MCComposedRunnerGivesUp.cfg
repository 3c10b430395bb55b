\* Two cases that may give up a diagnostic call.
CONSTANTS
  N = 2
  MaxDiags = 3
  GivesUp = TRUE
SPECIFICATION FairSpec
PROPERTIES ReturnIsReported
