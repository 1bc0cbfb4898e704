---------------------------- MODULE AssembledChunk ----------------------------
(***************************************************************************)
(* assembled_chunk: the arrays of one beam and NtPerChunk time samples,    *)
(* with the reference versions of add_packet(), decode() and downsample(). *)
(* Arrays are flat and indexed from 0, as in the code: data by             *)
(* (coarse * nupfreq + up) * NtPerChunk + time, scales and offsets by      *)
(* coarse * nt_coarse + time / nt_per_packet, rfi_mask by bit.             *)
(***************************************************************************)
EXTENDS IntensityPacket

CONSTANTS
  NtPerChunk,        \* constants::nt_per_assembled_chunk
  MaxNupfreq,        \* constants::max_allowed_nupfreq
  MaxFpgaPerSample   \* constants::max_allowed_fpga_counts_per_sample

ASSUME ChunkAssumption == {NtPerChunk, MaxNupfreq, MaxFpgaPerSample} \subseteq Nat \ {0}

-----------------------------------------------------------------------------
(* Memory.  The arrays of a chunk lie in one slab of memory, each at a     *)
(* multiple of 64 bytes.                                                   *)

align(nbytes) == ((nbytes + 63) \div 64) * 64

(* In their order in the slab. *)
Arrays == <<"data", "scales", "offsets", "rfi_mask", "ds_data", "ds_mask", "ds_w2">>

(* nb: the size in bytes of each array; ib: where it starts.               *)
memory_slab_layout(nupfreq, nt_per_packet, nrfifreq) ==
  LET nt_c == NtPerChunk \div nt_per_packet
      nb == [data     |-> NfreqCoarseTot * nupfreq * NtPerChunk,
             scales   |-> 4 * (NfreqCoarseTot * nt_c),
             offsets  |-> 4 * (NfreqCoarseTot * nt_c),
             rfi_mask |-> (nrfifreq * NtPerChunk) \div 8,
             ds_data  |-> 4 * (nupfreq * (NtPerChunk \div 2)),
             ds_mask  |-> 4 * (nupfreq * (NtPerChunk \div 2)),
             ds_w2    |-> 4 * (nt_c \div 2)]
      scales   == align(nb.data)
      offsets  == align(scales + nb.scales)
      rfi_mask == align(offsets + nb.offsets)
      ds_data  == align(rfi_mask + nb.rfi_mask)
      ds_mask  == align(ds_data + nb.ds_data)
      ds_w2    == align(ds_mask + nb.ds_mask)
  IN  [nb |-> nb,
       ib |-> [data |-> 0, scales |-> scales, offsets |-> offsets, rfi_mask |-> rfi_mask,
               ds_data |-> ds_data, ds_mask |-> ds_mask, ds_w2 |-> ds_w2],
       slab_size |-> align(ds_w2 + nb.ds_w2)]

(* The constructor accepts nothing else. *)
ValidGeometry(nupfreq, nt_per_packet, nrfifreq) ==
  /\ nupfreq \in 1 .. MaxNupfreq
  /\ nt_per_packet \in 1 .. NtPerChunk
  /\ IsPowerOfTwo(nt_per_packet)
  /\ NtPerChunk % nt_per_packet = 0
  /\ nrfifreq >= 0
  /\ nrfifreq > 0 => (NfreqCoarseTot * nupfreq) % nrfifreq = 0

Zeros(n) == [i \in 0 .. n - 1 |-> 0]
Memcpy(dst, at, src, from, n) ==
  [i \in DOMAIN dst |-> IF i \in at .. at + n - 1 THEN src[from + i - at] ELSE dst[i]]

(* A loop of n iterations over the value it changes. *)
Loop(n, start, body(_, _)) ==
  LET after[k \in 0 .. n] == IF k = 0 THEN start ELSE body(after[k - 1], k - 1) IN after[n]

Window(a, from, n) == [i \in 0 .. n - 1 |-> a[from + i]]

NtCoarse(c) == NtPerChunk \div c.nt_per_packet
isample(c)  == c.ichunk * NtPerChunk

(* The constructor, on a slab of zeros. *)
NewChunk(beam_id, nupfreq, nt_per_packet, nrfifreq, fpga_per_sample, binning, ichunk, frame0) ==
  LET nt_c == NtPerChunk \div nt_per_packet
  IN  [beam_id |-> beam_id, nupfreq |-> nupfreq, nt_per_packet |-> nt_per_packet,
       nrfifreq |-> nrfifreq, fpga_counts_per_sample |-> fpga_per_sample,
       binning |-> binning, ichunk |-> ichunk, frame0_nano |-> frame0,
       fpga_begin   |-> ichunk * NtPerChunk * fpga_per_sample,
       fpga_end     |-> (ichunk + binning) * NtPerChunk * fpga_per_sample,
       data         |-> Zeros(NfreqCoarseTot * nupfreq * NtPerChunk),
       scales       |-> Zeros(NfreqCoarseTot * nt_c),
       offsets      |-> Zeros(NfreqCoarseTot * nt_c),
       rfi_mask     |-> Zeros(nrfifreq * NtPerChunk),
       has_rfi_mask |-> FALSE,
       packets_received |-> 0,
       ds_data |-> <<>>, ds_mask |-> <<>>, ds_w2 |-> <<>>]

-----------------------------------------------------------------------------
(* add_packet(): the checks it repeats, and the copies.                    *)

(* mutant: the time of the packet is taken for its place in the chunk.     *)
PlaceUnshifted(c, p) == p.header.fpga_count \div c.fpga_counts_per_sample
PlaceInChunk(c, p) == p.header.fpga_count \div c.fpga_counts_per_sample - isample(c)

Fits(c, p) ==
  LET h == p.header
  IN  /\ h.nbeams = 1
      /\ h.nupfreq = c.nupfreq
      /\ h.ntsamp = c.nt_per_packet
      /\ h.fpga_counts_per_sample = c.fpga_counts_per_sample
      /\ h.fpga_count % (c.fpga_counts_per_sample * c.nt_per_packet) = 0
      /\ p.beam_ids[0] = c.beam_id
      /\ PlaceInChunk(c, p) \in 0 .. NtPerChunk - c.nt_per_packet

(* The scale and offset of coarse channel f of the packet. *)
WithScales(c, p, f) ==
  LET d == p.coarse_freq_ids[f] * NtCoarse(c) + (PlaceInChunk(c, p) \div c.nt_per_packet)
  IN  [c EXCEPT !.scales[d] = p.scales[f], !.offsets[d] = p.offsets[f]]

AddPacket(c, p) ==
  LET t0 == PlaceInChunk(c, p)
      copyRow(f, data, u) ==
        Memcpy(data, (p.coarse_freq_ids[f] * c.nupfreq + u) * NtPerChunk + t0,
               p.data, (f * c.nupfreq + u) * c.nt_per_packet, c.nt_per_packet)
      copyFreq(acc, f) ==
        [WithScales(acc, p, f) EXCEPT
           !.data = Loop(c.nupfreq, @, LAMBDA data, u : copyRow(f, data, u))]
  IN  [Loop(p.header.nfreq_coarse, c, copyFreq) EXCEPT !.packets_received = @ + 1]

-----------------------------------------------------------------------------
(* decode() and decode_subset(): sample it of fine channel fine.           *)

Masked(byte) == byte \in {0, 255}

DecodedSample(c, fine, it, prescale) ==
  LET byte == c.data[fine * NtPerChunk + it]
      k    == (fine \div c.nupfreq) * NtCoarse(c) + (it \div c.nt_per_packet)
  IN  [intensity |-> c.scales[k] * prescale * byte + c.offsets[k] * prescale,
       weight    |-> IF Masked(byte) THEN 0 ELSE 1]

DecodedChunk(c, prescale) ==
  [fine \in 0 .. NfreqCoarseTot * c.nupfreq - 1 |->
     [it \in 0 .. NtPerChunk - 1 |-> DecodedSample(c, fine, it, prescale)]]

DecodedSubset(c, t0, nt) ==
  [fine \in 0 .. NfreqCoarseTot * c.nupfreq - 1 |->
     [i \in 0 .. nt - 1 |-> DecodedSample(c, fine, t0 + i, 1)]]

-----------------------------------------------------------------------------
(* downsample(): for each coarse channel and each of the two sources, a    *)
(* kernel that decodes and averages pairs of samples, one that finds the   *)
(* scales, and one that encodes.  ds_data, ds_mask and ds_w2 carry data    *)
(* from one kernel to the next; ds_w2 is enc_scale, here the number to     *)
(* divide by.                                                              *)

MayDownsample(dst, src1, src2) ==
  /\ ~dst.has_rfi_mask
  /\ src1.binning = src2.binning
  /\ src2.ichunk = src1.ichunk + src2.binning
  /\ dst.binning = 2 * src1.binning
  /\ dst.ichunk = src1.ichunk
  /\ \A s \in {src1, src2} :
       /\ <<dst.beam_id, dst.nupfreq, dst.nrfifreq, dst.nt_per_packet>> =
             <<s.beam_id, s.nupfreq, s.nrfifreq, s.nt_per_packet>>
       /\ dst.nrfifreq > 0 => s.has_rfi_mask

SlowKernel1(in_data, in_offsets, in_scales, nupfreq, nt_per_packet) ==
  LET half  == NtPerChunk \div 2
      nq    == nt_per_packet \div 2
      valid(i) == ~Masked(in_data[2 * i]) /\ ~Masked(in_data[2 * i + 1])
      x(i)  == LET p == (i % half) \div nq
               IN  ((in_scales[p] * (in_data[2 * i] + in_data[2 * i + 1])) \div 2) + in_offsets[p]
      sample(p2, k) == (k \div nt_per_packet) * half + p2 * nt_per_packet + (k % nt_per_packet)
      Total(p2, f(_)) ==
        SumTo(nupfreq * nt_per_packet,
              [k \in 0 .. nupfreq * nt_per_packet - 1 |->
                 IF valid(sample(p2, k)) THEN f(sample(p2, k)) ELSE 0])
      count(p2) == Total(p2, LAMBDA i : 1)
  IN  [data  |-> [i \in 0 .. nupfreq * half - 1 |-> IF valid(i) THEN x(i) ELSE 0],
       mask  |-> [i \in 0 .. nupfreq * half - 1 |-> IF valid(i) THEN -1 ELSE 0],
       count |-> [p2 \in 0 .. (half \div nt_per_packet) - 1 |-> count(p2)],
       mean  |-> [p2 \in 0 .. (half \div nt_per_packet) - 1 |-> Total(p2, x) \div AtLeast(count(p2), 1)]]

(* From the variance to scales and offset.  The variance gets the square   *)
(* of 1.0e-5 * mean on top, so that only a block of zeros takes the        *)
(* fallback; a scale below the resolution is one unit.                     *)
Scaling(count, mean, sumsq) ==
  LET regulator == AtLeast(mean, -mean) \div 100000
      var == sumsq \div AtLeast(count, 1) + regulator * regulator
      rms == IF var > 0 \/ mean # 0 THEN Sqrt(var) ELSE One
      dec_scale == AtLeast(rms \div 25, 1)
  IN  [offset |-> mean - 128 * dec_scale, scale |-> dec_scale]

SlowKernel2(in_data, in_mask, w0, w1, nupfreq, nt_per_packet) ==
  LET half == NtPerChunk \div 2
      sumsq(p) ==
        SumTo(nupfreq * nt_per_packet,
              [k \in 0 .. nupfreq * nt_per_packet - 1 |->
                 LET i == (k \div nt_per_packet) * half + p * nt_per_packet + (k % nt_per_packet)
                 IN  IF in_mask[i] # 0 THEN (in_data[i] - w1[p]) * (in_data[i] - w1[p]) ELSE 0])
  IN  [p \in 0 .. (half \div nt_per_packet) - 1 |-> Scaling(w0[p], w1[p], sumsq(p))]

(* mutant: a masked sample keeps the level of its (undefined) intensity. *)
MaskIgnored(level, mask) == level
MaskedLevel(level, mask) == IF mask # -1 THEN 0 ELSE level

(* out[u * NtPerChunk + i], i below NtPerChunk / 2. *)
SlowKernel3(data, mask, enc_off, enc_scal, nupfreq, nt_per_packet) ==
  LET half == NtPerChunk \div 2
  IN  [i \in 0 .. nupfreq * half - 1 |->
         LET p == (i % half) \div nt_per_packet
             level == AtMost(AtLeast(data[i] - enc_off[p], 0), 255 * enc_scal[p])
         IN  RoundHalfUp(MaskedLevel(level, mask[i]), enc_scal[p])]

(* Two neighbouring bits are both 1. *)
SlowRfiMask(src, nbits_in) ==
  [i \in 0 .. (nbits_in \div 2) - 1 |-> IF src[2 * i] = 1 /\ src[2 * i + 1] = 1 THEN 1 ELSE 0]
===============================================================================
