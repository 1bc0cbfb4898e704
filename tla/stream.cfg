SPECIFICATION FairSpec
CONSTANTS
  NumBeams = 2
  RingCapacity = 1
  ListCapacity = 2
  ThrowChoices = {{}, {"beam_id_mismatch", "packet_mismatch", "buffer_drop", "assembler_miss"}}
  AcceptEos = TRUE
  Callers = {c1, c2}
  MaxPackets = 2
INVARIANTS EventsAccounted JoinedMeansComplete EndsBehindLastPacket
PROPERTY ShutdownCompletes
