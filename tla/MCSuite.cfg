SPECIFICATION Spec
CONSTANTS
  Labels <- MCLabels
  LeafSegments <- MCLeafSegments
  Features = {"f"}
  Letters <- MCLetters
  Digits <- MCDigits
  Sources <- MCSources
  Revisions <- MCRevisions
  MaxBuilds = 2
INVARIANTS
  TypeOK
  NearestMarkWins
  AcceptedSuiteRuns
  TagsAgree
  QuietCheckCovers
CHECK_DEADLOCK FALSE
