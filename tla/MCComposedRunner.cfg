\* Two cases of up to three messages, none given up.
CONSTANTS
  N = 2
  MaxDiags = 3
  GivesUp = FALSE
SPECIFICATION FairSpec
INVARIANTS TypeOK NothingReadIsLost OneAtATimeIsHeard
PROPERTIES WaitingEnds ReturnIsReported ImplementsCensusStream
