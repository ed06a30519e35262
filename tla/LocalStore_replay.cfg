SPECIFICATION FairSpec
CONSTANTS
  MaxLines = 3
  BatchSize = 2
  MaxRecords = 5
  MaxCrashes = 1
  MaxOutages = 1
  MaxFaults = 2
PROPERTIES
  RingSpec
  Replayed
