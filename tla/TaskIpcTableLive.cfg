SPECIFICATION FairSpec
CONSTANTS
  fm = fm
  Nobody = Nobody
  Owners <- OneOwner
  SlotCount = 1
  MaxSession = 2
  Cancellable = {1}
  MaxGeneration = 2
  Contended = FALSE
PROPERTIES HandledOnce EveryTaskIsHeard CancelReachesWorker
CHECK_DEADLOCK FALSE
