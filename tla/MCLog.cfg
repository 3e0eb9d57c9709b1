SPECIFICATION FairSpec
CONSTANTS
  LOG_BUFFER_SIZE = 3
  rollsize = 3
  MaxBuffers = 2
  MaxMsg = 6
  MaxBuf = 9
CHECK_DEADLOCK FALSE
INVARIANTS BuffersExact InOrder
PROPERTY EventuallyWritten
