CONSTANTS
  p0 = p0  p1 = p1  p2 = p2  p3 = p3
  n0 = n0  n1 = n1  n2 = n2  n3 = n3
  None = None
  Files = {p0, p2, p3}
  LongPaths = {p3}
  Chunks <- AllChunks
  BaseName <- OwnNames
  ValidNames = {n0, n2, n3}
  MAX_RETRIES = 4
  MaxTransfers = 3
  DataCap = 3
  AckCap = 3
  BufferSize = 1
  LossyData = TRUE
  LossyAcks = TRUE
  EarlyTimeout = TRUE
  Restarts = TRUE
SPECIFICATION FairSpec
INVARIANTS SwTypeOK InLockStep SavedWhole LastOnDisk IInv DiskInv
PROPERTIES NoFalseAck ImplementsSerialTransfer TransfersEnd
