SPECIFICATION FairSpec
CONSTANTS
  Count = 3
  Interval = 2
  Timeout = 2
  MaxWrite = 4
  MaxCopies = 2
  MaxJunk = 1
  SocketErrors = TRUE
  TwoPhase = TRUE
INVARIANTS
  OneOutcomePerPacket
  NoBlockedSend
PROPERTIES
  Termination
