CONSTANTS
  NofApps = 2
  RestartLimit = 1
  Startups <- MCStartups
  MaxTaken <- MCMaxTaken
  MaxStarts = 2
SPECIFICATION FairSpec
INVARIANTS
  TypeOK
  OneProcess
  LaunchesCounted
  StopLeaves
  WaitPerStart
PROPERTIES
  Supervised
CHECK_DEADLOCK FALSE
