SPECIFICATION FairSpec
CONSTANTS
  AssembledCapacity = 2
  TelescopingCapacity <- OneLevel
  RfiMask = FALSE
  ChunkAlign = 0
  PoolSize = 12
  Captures = {acq}
  MaxIchunk = 4
  MaxFirst = 0
  NoChunk = NoChunk
  Off = Off
PROPERTIES ImplementsChunkStream EndIsSeen
