SPECIFICATION Spec
CONSTANTS
  fm = fm
  Nobody = Nobody
  Owners <- OneOwner
  SlotCount = 1
  MaxSession = 2
  Cancellable = {1}
  MaxGeneration = 2
  Contended = TRUE
INVARIANTS NoRunAfterVerdict NoForeignCancel
PROPERTIES SlotKeptUntilHeard ImplementsLifecycle
CHECK_DEADLOCK FALSE
