SPECIFICATION MCSpec
CONSTANTS
  Count = 3
  Interval = 1
  Timeout = 2
  MaxWrite = 3
  MaxCopies = 2
  MaxJunk = 1
  SocketErrors = FALSE
  TwoPhase = FALSE
  Nanos = 3
  Fractions = 13
  Era = 4
  Epoch = 2
  Starts <- MCStarts
  Offsets <- MCOffsets
  MaxTicks = 6
INVARIANTS
  TypeOK
  ReceiverOutlivesSender
  EveryPacketAccounted
  RttIsTimeUnderWay
PROPERTIES
  AccountingSpec
