CONSTANTS
  p0 = p0  p1 = p1  p2 = p2  p3 = p3  p4 = p4
  n0 = n0  n1 = n1  n2 = n2  n3 = n3  n4 = n4
  None = None
  FileIds = {0}
  Files = {p0, p1}
  Chunks <- AllChunks
  BaseName <- OwnNames
  ValidNames = {n0, n1}
  WINDOW_SIZE = 2
  MAX_SEQ = 4
  DataCap = 4
  AckCap = 4
  QueueCap = 2
  LossyData = FALSE
  LossyAcks = FALSE
  EarlyTimeout = FALSE
  MaxBatches = 2
  BufferSize = 1
  Interrupts = TRUE
  Restarts = FALSE
SPECIFICATION SessionSpec
INVARIANT NeverMixed
