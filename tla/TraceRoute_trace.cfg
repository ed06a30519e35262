SPECIFICATION FairSpec
CONSTANTS
  MaxHops = 3
  MaxProbes = 2
  Distances = {1, 2, 3, 4}
  MaxNoise = 1
INVARIANTS
  HopsRecorded
  CompleteWhenQuiet
  ExactWhenQuiet
PROPERTIES
  TraceTerminates
