SPECIFICATION FairSpec
CONSTANTS
  r1 = r1  r2 = r2  r3 = r3  r4 = r4  f1 = f1  f2 = f2
  Requests = {r1, r2, r3, r4}
  Files = {f1, f2}
  ChunkOf <- MCChunkOf
  FileOf <- MCFileOf
  Priority <- MCPriority
  NeedMask = {r2, r3}
  Closers = {c1, c2}
  NoRequest = NoRequest
PROPERTY EndStreamWaits
