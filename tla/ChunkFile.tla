------------------------------- MODULE ChunkFile -------------------------------
(***************************************************************************)
(* A chunk as a msgpack file of version 2: a sequence of 21 items, of      *)
(* which the 17th holds the data, compressed or not.  Compression is an    *)
(* external library; what it may do is given by its outcome.               *)
(***************************************************************************)
EXTENDS AssembledChunk, Sequences

(* What may become of a request to compress: it was not made, no buffer    *)
(* could be allocated, the library fails, its result is not smaller, or it *)
(* is.                                                                     *)
Outcomes == {"not_asked", "no_buffer", "fails", "not_smaller", "compressed"}

(* bshuf_compress_lz4(): fewer bytes, from which the data can be restored. *)
Lz4(data) == [lz4 |-> data]
Lz4Size(data) == Cardinality(DOMAIN data) - 1

ndata(c) == Cardinality(DOMAIN c.data)
nscales(c) == NfreqCoarseTot * NtCoarse(c)

(* mutant: the announced size is not reset when the data is not compressed. *)
AlwaysCompressedSize(c, outcome) == Lz4Size(c.data)
DataSizeInFile(c, outcome) == IF outcome = "compressed" THEN Lz4Size(c.data) ELSE ndata(c)

pack_assembled_chunk(c, outcome) ==
  << "assembled_chunk in msgpack format", 2,
     IF outcome = "compressed" THEN "comp_bitshuffle" ELSE "comp_none",
     DataSizeInFile(c, outcome),
     c.beam_id, c.nupfreq, c.nt_per_packet, c.fpga_counts_per_sample,
     NtCoarse(c), nscales(c), ndata(c),
     c.fpga_begin, c.fpga_end - c.fpga_begin, c.binning,
     c.scales, c.offsets,
     [bytes |-> IF outcome = "compressed" THEN Lz4(c.data) ELSE c.data,
      size  |-> DataSizeInFile(c, outcome)],
     c.frame0_nano, c.nrfifreq, c.has_rfi_mask, c.rfi_mask >>

Unreadable == [unreadable |-> TRUE]

(* The chunk a file of version 2 describes; its arrays replace the zeros   *)
(* of a new chunk.  Unreadable where the code throws.                      *)
unpack_assembled_chunk(arr) ==
  LET item(k) == arr[k + 1]
      isample0 == item(11) \div item(7)
      ch == NewChunk(item(4), item(5), item(6), item(18), item(7), item(13),
                     isample0 \div NtPerChunk, item(17))
      compressed == item(2) = "comp_bitshuffle"
      consistent ==
        /\ NtCoarse(ch) = item(8) /\ nscales(ch) = item(9) /\ ndata(ch) = item(10)
        /\ ch.fpga_begin = item(11)
        /\ ch.fpga_end = item(11) + item(12)
        /\ item(16).size = IF compressed THEN item(3) ELSE item(10)
        /\ Cardinality(DOMAIN item(14)) = item(9) /\ Cardinality(DOMAIN item(15)) = item(9)
        /\ item(19) => Cardinality(DOMAIN item(20)) = Cardinality(DOMAIN ch.rfi_mask)
  IN  IF Len(arr) # 21 \/ ~consistent THEN Unreadable
      ELSE [ch EXCEPT !.scales = item(14), !.offsets = item(15),
                      !.data = IF compressed THEN item(16).bytes.lz4 ELSE item(16).bytes,
                      !.has_rfi_mask = item(19),
                      !.rfi_mask = IF item(19) THEN item(20) ELSE @]
===============================================================================
