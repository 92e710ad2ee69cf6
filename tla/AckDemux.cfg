CONSTANTS
  None = None
  FileIds = {0, 1}
  MaxBatches = 2
  MaxAcks = 2
  SockCap = 2
  Slow = TRUE
SPECIFICATION FairSpec
INVARIANTS NeverBlocks DInv
PROPERTIES ImplementsMailbox DrainedInTime RoutersEnd WorkersEnd
