SPECIFICATION FairSpec
CONSTANTS
  a = a
  Tasks <- OneTask
  Cancellable <- OneTask
  Contended = TRUE
  Unreaped = TRUE
PROPERTIES ImplementsLifecycle ClaimedTaskIsHeard CancelReachesWorker
CHECK_DEADLOCK FALSE
