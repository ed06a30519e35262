SPECIFICATION FairSpec
CONSTANTS
  Specs = 2
  Unknown = {}
  Exporter = FALSE
  MaxFetches = 5
INVARIANTS
  BoundedLag
PROPERTIES
  NeverOlder
  Refreshed
  ShutdownEnds
