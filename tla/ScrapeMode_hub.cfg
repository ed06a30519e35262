SPECIFICATION Spec
CONSTANTS
  a = a
  b = b
  c = c
  Absent = Absent
  Bad = Bad
  Scrapes = {1, 2}
  Host = c
  Files <- MCFiles
  Scraped <- MCScraped
  Duration = 1
  Grace = 1
  DialLimit = 1
  WithIperf3 = TRUE
INVARIANTS
  HubSpokeAsDocumented
