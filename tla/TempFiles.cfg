SPECIFICATION TempSpec
CONSTANTS
  first = first
  second = second
  panelTask = panelTask
  TempSessions <- MCTempSessions
  Threads <- MCThreads
  Depth = 1
  MaxTokens = 1
  MaxEdits = 2
  MaxFaults = 1
  MaxLaunches = 2
  MaxSaves = 1
SYMMETRY MCSymmetry
INVARIANTS
  
  
  KeptForPrograms
PROPERTIES
  AskedOnce
CHECK_DEADLOCK FALSE
