SPECIFICATION MonitorSpec
CONSTANTS
  Senders = {h1, h2}
  StartTime = 2
  StaleTimes <- MCStaleTimes
  Period = 0
  MaxHistory = 2
  Beams <- MCBeams
  HasRfiMask = FALSE
  DeviceNames <- MCDeviceNames
  Patterns <- MCPatterns
  Callers = {c1, c2}
  MaxTime = 7
  MaxChunks = 1
INVARIANT EachPacketOnce
CONSTRAINT OnePart
