SPECIFICATION FairSpec
CONSTANTS
  Specs = 2
  Unknown = {1}
  Exporter = TRUE
  MaxFetches = 2
PROPERTIES
  UnknownSkipped
