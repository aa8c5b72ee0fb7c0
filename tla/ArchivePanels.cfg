SPECIFICATION PanelsSpec
CONSTANTS
  worker = worker
  closer = closer
  Threads <- MCThreads
  Depth = 3
  MaxTokens = 4
  MaxEdits = 1
  MaxFaults = 1
INVARIANTS
  EditsKept
  HeldSessions
  ParentsStayOpen
  SharedSessionsKept
CHECK_DEADLOCK FALSE
