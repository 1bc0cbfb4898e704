---------------------------- MODULE IntensityPacket ----------------------------
(***************************************************************************)
(* intensity_packet: the wire format of an intensity packet.  A datagram   *)
(* is its size in bytes, the 24 bytes of its header and, for each of its   *)
(* arrays, the byte it starts at: mem[b] is the array that starts at byte  *)
(* b.  Encoder and decoder compute these places independently.  Arrays are *)
(* indexed from 0 as in the code.                                          *)
(***************************************************************************)
EXTENDS FixedPoint, FiniteSets

CONSTANTS
  NfreqCoarseTot,     \* constants::nfreq_coarse_tot
  MaxNtPerPacket,     \* constants::max_allowed_nt_per_packet
  MaxPacketSize,      \* constants::max_input_udp_packet_size
  NanBytes            \* NanBytes[i]: what the build makes of NaN as the byte of sample i

ASSUME PacketAssumption == {NfreqCoarseTot, MaxNtPerPacket, MaxPacketSize} \subseteq Nat \ {0}

IsPowerOfTwo(n) == \E k \in 0 .. 16 : n = 2^k

DataSize(h) == h.nbeams * h.nfreq_coarse * h.nupfreq * h.ntsamp

-----------------------------------------------------------------------------
(* decode(): a datagram is accepted or not; the arrays of an accepted one  *)
(* are wherever the header says.                                           *)

HeaderSize(h) == 24 + 2 * h.nbeams + 2 * h.nfreq_coarse + 8 * h.nbeams * h.nfreq_coarse

Pointers(h) ==
  [beam_ids        |-> 24,
   coarse_freq_ids |-> 24 + 2 * h.nbeams,
   scales          |-> 24 + 2 * h.nbeams + 2 * h.nfreq_coarse,
   offsets         |-> 24 + 2 * h.nbeams + 2 * h.nfreq_coarse + 4 * h.nbeams * h.nfreq_coarse,
   data            |-> HeaderSize(h)]

(* mutant: the number of bytes received is not compared. *)
SizeUnchecked(h, nbytes) == h.data_nbytes = DataSize(h)

SizeMatches(h, nbytes) ==
  /\ nbytes = HeaderSize(h) + DataSize(h)
  /\ h.data_nbytes = DataSize(h)

(* ntsamp = 0 passes the test of the code for a power of two, and then the *)
(* remainder below is a division by zero: no result, so not a value here.  *)
Acceptable(h, nbytes) ==
  /\ nbytes >= 24
  /\ nbytes <= MaxPacketSize
  /\ h.protocol_version = 1
  /\ h.ntsamp <= MaxNtPerPacket
  /\ IsPowerOfTwo(h.ntsamp)
  /\ h.fpga_counts_per_sample # 0
  /\ h.fpga_count % (h.fpga_counts_per_sample * h.ntsamp) = 0
  /\ SizeMatches(h, nbytes)

Decodes(w) ==
  /\ Acceptable(w.header, w.nbytes)
  /\ \A i \in 0 .. w.header.nfreq_coarse - 1 :
       w.mem[Pointers(w.header).coarse_freq_ids][i] < NfreqCoarseTot

Decoded(w) ==
  LET p == Pointers(w.header)
  IN  [header          |-> w.header,
       beam_ids        |-> w.mem[p.beam_ids],
       coarse_freq_ids |-> w.mem[p.coarse_freq_ids],
       scales          |-> w.mem[p.scales],
       offsets         |-> w.mem[p.offsets],
       data            |-> w.mem[p.data]]

(* The assembler's view of beam ibeam of a packet: the length fields of    *)
(* the header shortened to one beam, each pointer advanced.                *)
OneBeam(p, ibeam) ==
  LET nf == p.header.nfreq_coarse
      nd == nf * p.header.nupfreq * p.header.ntsamp
      From(a, start, n) == [i \in 0 .. n - 1 |-> a[start + i]]
  IN  [p EXCEPT !.header.data_nbytes = nd,
                !.header.nbeams = 1,
                !.beam_ids = From(@, ibeam, 1),
                !.scales   = From(@, ibeam * nf, nf),
                !.offsets  = From(@, ibeam * nf, nf),
                !.data     = From(@, ibeam * nd, nd)]

-----------------------------------------------------------------------------
(* encode(): per beam and coarse frequency, bytes that stand for scale *   *)
(* byte + offset.  x[i] and w[i] are the intensity and the weight of       *)
(* sample i = iupfreq * ntsamp + it.                                       *)
(*                                                                         *)
(* The scale is 0 if and only if every valid sample is 0.  Then the code   *)
(* divides 0 by 0 and converts NaN to uint8_t, for masked samples too,     *)
(* which is undefined: the conversions of x86 give 0, a min() or max()     *)
(* whose operands -ffast-math has swapped gives 255 or 0.                  *)

EncodedBlock(x, w, n, cutoff) ==
  LET on(i) == w[i] >= cutoff
      acc0  == SumTo(n, [i \in 0 .. n - 1 |-> IF on(i) THEN 1 ELSE 0])
      mean  == SumTo(n, [i \in 0 .. n - 1 |-> IF on(i) THEN x[i] ELSE 0]) \div acc0
      acc2  == SumTo(n, [i \in 0 .. n - 1 |-> IF on(i) THEN x[i] * x[i] ELSE 0])
      var   == (acc2 \div acc0) - mean * mean
      rms   == Sqrt(AtLeast(var, (mean * mean) \div 100000))
      scale == IF acc2 = 0 THEN 0 ELSE AtLeast(rms \div 25, 1)
      offset == mean - 128 * scale
      level(i) == IF on(i) THEN x[i] - offset ELSE 0
      byte(i) == IF scale = 0 THEN NanBytes[i]
                 ELSE RoundHalfUp(AtLeast(AtMost(level(i), 255 * scale), 0), scale)
  IN  IF acc0 = 0
      THEN [scale |-> One, offset |-> 0, bytes |-> [i \in 0 .. n - 1 |-> 0]]
      ELSE [scale |-> scale, offset |-> offset, bytes |-> [i \in 0 .. n - 1 |-> byte(i)]]

(* intensity and weight have one block per beam b and coarse frequency f,  *)
(* at index b * nfreq_coarse + f.                                          *)
Encoded(h, beam_ids, coarse_freq_ids, intensity, weight, cutoff) ==
  LET nb == h.nbeams
      nf == h.nfreq_coarse
      n  == h.nupfreq * h.ntsamp
      block == [k \in 0 .. nb * nf - 1 |-> EncodedBlock(intensity[k], weight[k], n, cutoff)]
      place == << 24, 24 + 2 * nb, 24 + 2 * nb + 2 * nf,
                  24 + 2 * nb + 2 * nf + 4 * nb * nf, 24 + 2 * nb + 2 * nf + 8 * nb * nf >>
      array == << beam_ids, coarse_freq_ids,
                  [k \in 0 .. nb * nf - 1 |-> block[k].scale],
                  [k \in 0 .. nb * nf - 1 |-> block[k].offset],
                  [i \in 0 .. nb * nf * n - 1 |-> block[i \div n].bytes[i % n]] >>
  IN  [nbytes |-> 24 + 2 * nb + 2 * nf + 8 * nb * nf + nb * nf * n,
       header |-> h,
       mem    |-> [b \in {place[k] : k \in 1 .. 5} |-> array[CHOOSE k \in 1 .. 5 : place[k] = b]]]
===============================================================================
