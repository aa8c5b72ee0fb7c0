SPECIFICATION LockFairSpec
CONSTANTS
  fm = fm
  worker = worker
  window = window
  monitor = monitor
  publisher = publisher
  Free = Free
  Procs <- MCProcs
  Threads <- MCThreads
  procOf <- MCProcOf
  Pollers = {monitor}
  MaxPermits = 1
  MaxCrashes = 1
INVARIANT MutualExclusion
PROPERTIES LiveOwnerKeepsLock DeadOwnerIsEvicted
