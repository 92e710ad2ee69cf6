CONSTANTS
  p0 = p0  p1 = p1  p2 = p2  p3 = p3
  n0 = n0  n1 = n1  n2 = n2  n3 = n3
  None = None
  Files = {p1, p2}
  LongPaths = {}
  Chunks <- AllChunks
  BaseName <- OneName
  ValidNames = {n0}
  MAX_RETRIES = 2
  MaxTransfers = 2
  DataCap = 2
  AckCap = 2
  BufferSize = 2
  LossyData = TRUE
  LossyAcks = FALSE
  EarlyTimeout = FALSE
  Restarts = FALSE
SPECIFICATION Spec
INVARIANT LastOnDisk
