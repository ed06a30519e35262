SPECIFICATION DualFairSpec
CONSTANTS
  Results = {1, 2, 3}
  ChanCap = 1
  MaxBatch = 2
  Attempts = 2
INVARIANTS
  NoSendOnClosed
  InfluxKeeps
PROPERTIES
  NotHeldByInflux
  DualShutdownEnds
