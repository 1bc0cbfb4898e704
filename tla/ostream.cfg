SPECIFICATION FairSpec
CONSTANTS
  Capacity = 1
  PacketsPerChunk = 2
  Interval = 3
  IsBlocking = {TRUE, FALSE}
  Closers = {c1, c2}
  EndPackets = 1
  MaxChunks = 3
  MaxClock = 6
INVARIANTS SentAsAccepted BandwidthLimited PointerStillValid
PROPERTY NobodyStuck
