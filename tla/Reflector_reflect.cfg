SPECIFICATION FairSpec
CONSTANTS
  v4 = v4
  v6 = v6
  peer = peer
  other = other
  Conns = {v4, v6}
  Sources = {peer, other}
  Denied = {other}
  Rate = 1
  MaxConcurrent = 1
  MaxPackets = 2
  MaxTime = 1
  MaxSignals = 2
INVARIANTS
  TypeOK
  RateConforms
  ReflectedCounted
PROPERTIES
  SlotReturns
  ShutdownEnds
