SPECIFICATION MSpec
CONSTANTS
  Co = {c1, c2, c3, c4}
  None = None
  MaxDepth = 2
INVARIANTS NoAssertFails MutualExclusion NoLostWakeup QuitIsLast
PROPERTIES ImplementsFifoLine WaiterGetsLock
