\* Up to two workers; a heartbeat in two rows.
CONSTANTS
  Keys = {"one", "two"}
  Configs <- MCConfigs
  BeatEvery = 2
SPECIFICATION FairSpec
INVARIANTS TypeOK ReturnedIsWhole
PROPERTIES AwaitedIsThrown Settles
