SPECIFICATION Spec
CONSTANTS
  AssembledCapacity = 2
  TelescopingCapacity <- TwoLevels
  RfiMask = TRUE
  ChunkAlign = 2
  PoolSize = 10
  Captures = {}
  MaxIchunk = 11
  MaxFirst = 1
  NoChunk = NoChunk
  Off = Off
INVARIANTS StatsAgree NoInternalError TimelineContiguous PoolSuffices NoLostWakeup
PROPERTY LeavesWithMask
