SPECIFICATION FairSpec
CONSTANTS
  dialog = dialog
  remote = remote
  Worker = Worker
  Clients <- MCClients
  Envelopes <- MCEnvelopes
  MaxCalls = 2
INVARIANTS
  PauseSurvivesEntry
  WakeIsComing
PROPERTIES
  FinalStateStays
  NoWorkAfterCancel
  CancelledSessionEnds
CHECK_DEADLOCK FALSE
