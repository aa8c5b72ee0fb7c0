SPECIFICATION FairSpec
CONSTANTS
  Depth = 2
  MaxClicks = 4
INVARIANTS
  SessionsGivenBack
  ToldTheTruth
PROPERTIES
  LauncherCancelsTask
CHECK_DEADLOCK FALSE
