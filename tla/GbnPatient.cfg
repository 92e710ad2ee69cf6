CONSTANTS
  p0 = p0  p1 = p1  p2 = p2  p3 = p3  p4 = p4
  n0 = n0  n1 = n1  n2 = n2  n3 = n3  n4 = n4
  None = None
  FileIds = {0}
  Files = {p0, p1, p4}
  Chunks <- AllChunks
  BaseName <- OwnNames
  ValidNames = {n0, n1, n4}
  WINDOW_SIZE = 3
  MAX_SEQ = 6
  DataCap = 3
  AckCap = 3
  QueueCap = 3
  LossyData = TRUE
  LossyAcks = FALSE
  EarlyTimeout = FALSE
  MaxBatches = 3
  BufferSize = 1
  Interrupts = FALSE
  Restarts = TRUE
SPECIFICATION FairSession
INVARIANT FilesInv
PROPERTY BatchesEnd
