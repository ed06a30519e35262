SPECIFICATION FairSpec
CONSTANTS
  Floor = 5
  Ceilings = {3, 5, 8, 12, 18}
  Mtus = {2, 4, 5, 6, 11, 12, 13, 17, 30}
  MaxNoise = 2
INVARIANTS
  TypeOK
  NeverTooLargeWhenQuiet
  ExactWhenQuiet
PROPERTIES
  SearchTerminates
