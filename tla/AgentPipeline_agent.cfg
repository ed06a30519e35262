SPECIFICATION FairSpec
CONSTANTS
  s1 = s1
  s2 = s2
  Schedulers = {s1, s2}
  Owner <- MCOwner
  Results = {1, 2, 3}
  ChanCap = 1
  MaxBatch = 2
  Attempts = 2
  Skipped = {3}
  HideSkipped = TRUE
  StoreOn = TRUE
  StoreCap = 1
  MaxFaults = 1
INVARIANTS
  PipelineKeeps
  StoreBacksUp
PROPERTIES
  ShutdownEnds
  EventuallyPosted
