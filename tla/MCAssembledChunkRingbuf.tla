----------------------- MODULE MCAssembledChunkRingbuf -----------------------
(* Instances of AssembledChunkRingbuf for TLC. *)
EXTENDS AssembledChunkRingbuf

TwoLevels == <<2, 2>>
OneLevel == <<2>>
=============================================================================
