SPECIFICATION Spec
CONSTANTS
  NfreqCoarseTot = 2
  MaxNtPerPacket = 512
  MaxPacketSize = 192
  ReadSize = 192
  MaxNpackets = 8
  MaxNbytes = 800
  NtPerChunk = 512
  MaxNupfreq = 64
  MaxFpgaPerSample = 3200
  Nupfreq = 2
  NtPerPacket = 16
  NrfiFreq = 1
  FpgaPerSample = 3
  BeamIds <- Beams
  CoarseFreqIds <- Freqs
  MyBeam = 5
  FirstIchunk = 2
  Sky <- MCSky
  Weights <- MCWeights
  WtCutoff = 1
  NanBytes <- MCNanBytes
  Schedules <- MCSchedules
  RfiMasks <- MCRfiMasks
  Strays <- MCStrays
INVARIANT FastIsReference
INVARIANT ReceivedAsSent
INVARIANT DownsampledIsAverage
INVARIANT NothingOutside
INVARIANT ReadBack
