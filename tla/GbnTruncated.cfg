CONSTANTS
  p0 = p0  p1 = p1  p2 = p2  p3 = p3  p4 = p4
  n0 = n0  n1 = n1  n2 = n2  n3 = n3  n4 = n4
  None = None
  FileIds = {0}
  Files = {p1}
  Chunks <- AllChunks
  BaseName <- OwnNames
  ValidNames = {n1}
  WINDOW_SIZE = 3
  MAX_SEQ = 6
  DataCap = 4
  AckCap = 3
  QueueCap = 2
  LossyData = TRUE
  LossyAcks = FALSE
  EarlyTimeout = TRUE
SPECIFICATION Spec
INVARIANT IntactAtRest
