-------------------------- MODULE FastAssembledChunk --------------------------
(***************************************************************************)
(* fast_assembled_chunk: the overrides of add_packet(), decode() and       *)
(* downsample() with AVX2 instructions.  They need nt_per_packet = 16, an  *)
(* even nupfreq and NtPerChunk a multiple of 256 (of 512 with RFI masks).  *)
(*                                                                         *)
(* A register is a function from its lanes, numbered from the low end, to  *)
(* values: 8 floats or 32-bit integers, 16 16-bit integers, 32 bytes, or   *)
(* 256 bits, whichever the instruction works on.  The instructions that    *)
(* move lanes move them within and between 128-bit halves as the hardware  *)
(* does; those that compute do so lane by lane.                            *)
(***************************************************************************)
EXTENDS AssembledChunk, Sequences

-----------------------------------------------------------------------------
(* Instructions.                                                           *)

Load(a, from, lanes) == Window(a, from, lanes)
Added(a, b) == [i \in DOMAIN a |-> a[i] + b[i]]

(* _mm256_shuffle_ps and _mm256_permute_ps: selectors s, per half. *)
ShufflePs(a, b, s) ==
  [i \in 0 .. 7 |-> LET from == IF i % 4 < 2 THEN a ELSE b
                    IN  from[4 * (i \div 4) + s[(i % 4) + 1]]]

(* _mm256_blend_epi32 and _mm256_blend_ps: the 32-bit lanes in S from b. *)
Blend(a, b, S) ==
  LET width == Cardinality(DOMAIN a) \div 8
  IN  [i \in DOMAIN a |-> IF i \div width \in S THEN b[i] ELSE a[i]]

(* _mm256_permute2x128: low and high half chosen among a's (0, 1) and b's. *)
Permute2x128(a, b, low, high) ==
  LET half == Cardinality(DOMAIN a) \div 2
      From(h, i) == IF h < 2 THEN a[h * half + i] ELSE b[(h - 2) * half + i]
  IN  [i \in DOMAIN a |-> IF i < half THEN From(low, i) ELSE From(high, i - half)]

(* _mm256_shuffle_epi32 on bytes: selectors s, per half. *)
ShuffleEpi32(x, s) ==
  [i \in 0 .. 31 |-> x[16 * (i \div 16) + 4 * s[((i % 16) \div 4) + 1] + (i % 4)]]

(* _mm256_shuffle_epi8: ctl names a byte of the same half, 255 gives 0. *)
ShuffleEpi8(x, ctl) ==
  [i \in 0 .. 31 |-> IF ctl[i + 1] = 255 THEN 0 ELSE x[16 * (i \div 16) + ctl[i + 1]]]

-----------------------------------------------------------------------------
(* Helpers of the kernels.                                                 *)

(* incremental_downsample8: eight registers in, sums of eight lanes out.   *)
PairSums(a, b) == Added(ShufflePs(a, b, <<0, 2, 0, 2>>), ShufflePs(a, b, <<1, 3, 1, 3>>))

(* mutant: the halves are not crossed at the end. *)
HalvesUncrossed(lower, upper) == Added(lower, upper)
HalvesJoined(lower, upper) == Added(Blend(lower, upper, 4 .. 7), Permute2x128(lower, upper, 1, 2))

incremental_downsample8(x) ==
  HalvesJoined(PairSums(PairSums(x[0], x[1]), PairSums(x[2], x[3])),
               PairSums(PairSums(x[4], x[5]), PairSums(x[6], x[7])))

(* incremental_upsample8::get<n>(): lane n of x01 in every lane. *)
Upsample8(x01, n) ==
  LET x10 == Permute2x128(x01, x01, 1, 0)
      x0  == Blend(x01, x10, 4 .. 7)
      x1  == Blend(x01, x10, 0 .. 3)
      s   == [k \in 1 .. 4 |-> n % 4]
  IN  IF n < 4 THEN ShufflePs(x0, x0, s) ELSE ShufflePs(x1, x1, s)

(* _extract_32_8: four registers of floats to the 32 bytes they round to. *)
ToBytes(x) ==
  [i \in 0 .. 31 |->
     IF i % 4 = 0 THEN RoundHalfEven(AtMost(AtLeast(x[i \div 4].num, 0), 255 * x[i \div 4].den),
                                     x[i \div 4].den)
                  ELSE 0]
Z == 255
ctl0 == << 0, 4, 8, 12,  Z, Z, Z, Z,  Z, Z, Z, Z,  Z, Z, Z, Z,
           Z, Z, Z, Z,   0, 4, 8, 12, Z, Z, Z, Z,  Z, Z, Z, Z >>
ctl1 == << Z, Z, Z, Z,   Z, Z, Z, Z,  0, 4, 8, 12, Z, Z, Z, Z,
           Z, Z, Z, Z,   Z, Z, Z, Z,  Z, Z, Z, Z,  0, 4, 8, 12 >>

extract_32_8(a, b, c, d) ==
  LET ab == Blend(ShuffleEpi8(ToBytes(a), ctl0), ShuffleEpi8(ToBytes(b), ctl1), {2, 3, 6, 7})
      cd == Blend(ShuffleEpi8(ToBytes(c), ctl0), ShuffleEpi8(ToBytes(d), ctl1), {2, 3, 6, 7})
      t  == Blend(ab, cd, {4, 5, 6, 7})
      u  == Blend(ab, cd, {0, 1, 2, 3})
  IN  Blend(t, Permute2x128(u, u, 1, 0), {1, 3, 4, 6})

-----------------------------------------------------------------------------
(* add_packet(): no checks and no count, two rows at a time.               *)

AddPacketKernel(dst, at, src, from, nupfreq) ==
  Loop(nupfreq \div 2, dst,
       LAMBDA data, k :
         LET x == Load(src, from + 32 * k, 32)
         IN  Memcpy(Memcpy(data, at + 2 * k * NtPerChunk, x, 0, 16),
                    at + (2 * k + 1) * NtPerChunk, x, 16, 16))

FastAddPacket(c, p) ==
  LET t0 == PlaceInChunk(c, p)
      copyFreq(acc, f) ==
        [WithScales(acc, p, f) EXCEPT
           !.data = AddPacketKernel(@, p.coarse_freq_ids[f] * c.nupfreq * NtPerChunk + t0,
                                    p.data, f * c.nupfreq * 16, c.nupfreq)]
  IN  Loop(p.header.nfreq_coarse, c, copyFreq)

-----------------------------------------------------------------------------
(* decode().                                                               *)

ctl == << 4, 12, 0, 8, 5, 13, 1, 9, 6, 14, 2, 10, 7, 15, 3, 11,
          4, 12, 0, 8, 5, 13, 1, 9, 6, 14, 2, 10, 7, 15, 3, 11 >>

(* Samples 32 N .. 32 N + 31 of 128; scales and offsets are registers of 8. *)
decode32(N, data, scales, offsets) ==
  LET x == Load(data, 32 * N, 32)
      y == ShuffleEpi32(x, <<1, 0, 3, 2>>)
      z == Permute2x128(x, x, 1, 0)
      d == ShuffleEpi8(Blend(y, z, {0, 2, 5, 7}), ctl)
      byte(i)   == d[4 * (i % 8) + (i \div 8)]          \* shift right by 8 * (i / 8), and 255
      get(r, i) == Upsample8(r, 2 * N + (i \div 16))[i % 8]
  IN  [i \in 0 .. 31 |-> [intensity |-> get(scales, i) * byte(i) + get(offsets, i),
                          weight    |-> IF byte(i) \in {0, 255} THEN 0 ELSE 1]]

DecodeRow(data, scales, offsets, prescale) ==
  [it \in 0 .. NtPerChunk - 1 |->
     LET i == it \div 128
         prescaled(a) == [k \in 0 .. 7 |-> a[8 * i + k] * prescale]
     IN  decode32((it % 128) \div 32, Load(data, 128 * i, 128), prescaled(scales), prescaled(offsets))[it % 32]]

FastDecodedChunk(c, prescale) ==
  [fine \in 0 .. NfreqCoarseTot * c.nupfreq - 1 |->
     LET coarse == fine \div c.nupfreq
     IN  DecodeRow(Window(c.data, fine * NtPerChunk, NtPerChunk),
                   Window(c.scales, coarse * NtCoarse(c), NtCoarse(c)),
                   Window(c.offsets, coarse * NtCoarse(c), NtCoarse(c)), prescale)]

-----------------------------------------------------------------------------
(* downsample(): the kernels, for nt_per_packet = 16.  They work on rows   *)
(* of half a chunk, in blocks of 128 samples, one register of counts,      *)
(* means, scales and offsets per block.                                    *)

HalfChunk == NtPerChunk \div 2

(* 32 bytes of in_data, with scales and offsets N2 and N2 + 1: 16 averages *)
(* and their mask.  scale is 2 * scale2 of the code.                       *)
ds_kernel1a(N, d8, offset, scale) ==
  LET m8  == [i \in 0 .. 31 |-> d8[i] = 0 \/ d8[i] = 255]
      d16 == [k \in 0 .. 15 |-> d8[2 * k] + d8[2 * k + 1]]
      m16 == [k \in 0 .. 15 |-> IF m8[2 * k] \/ m8[2 * k + 1] THEN 0 ELSE -1]
      N2  == (2 * N) % 8
      get(r, k) == Upsample8(r, N2 + (k \div 8))[k % 8]
  IN  [k \in 0 .. 15 |->
         [data |-> IF m16[k] = 0 THEN 0 ELSE ((get(scale, k) * d16[k]) \div 2) + get(offset, k),
          mask |-> m16[k]]]

(* 256 bytes of in_data from byte 'from' on, 16 scales and offsets. *)
ds_kernel1b(in_data, from, offsets, scales) ==
  [N \in 0 .. 7 |->
     ds_kernel1a(N, Load(in_data, from + 32 * N, 32),
                 Load(offsets, 8 * (N \div 4), 8), Load(scales, 8 * (N \div 4), 8))]

(* Sums over rows and over 16 neighbouring samples of a row, x[i] for      *)
(* sample i: two registers are added, eight such sums downsampled.         *)
FastSums(nupfreq, x) ==
  [p \in 0 .. (HalfChunk \div 16) - 1 |->
     SumTo(nupfreq, [u \in 0 .. nupfreq - 1 |->
       LET from == u * HalfChunk + 128 * (p \div 8)
       IN  incremental_downsample8(
             [N \in 0 .. 7 |-> [l \in 0 .. 7 |-> x[from + 16 * N + l] + x[from + 16 * N + 8 + l]]])[p % 8]])]

FastKernel1(in_data, in_offsets, in_scales, nupfreq) ==
  LET at(i) ==
        LET block == (i % HalfChunk) \div 128
        IN  ds_kernel1b(in_data, (i \div HalfChunk) * NtPerChunk + 256 * block,
                        Load(in_offsets, 16 * block, 16), Load(in_scales, 16 * block, 16))
              [(i % 128) \div 16][i % 16]
      sample == [i \in 0 .. nupfreq * HalfChunk - 1 |-> at(i)]
      count == FastSums(nupfreq, [i \in DOMAIN sample |-> -sample[i].mask])
      sum   == FastSums(nupfreq, [i \in DOMAIN sample |-> sample[i].data])
  IN  [data  |-> [i \in DOMAIN sample |-> sample[i].data],
       mask  |-> [i \in DOMAIN sample |-> sample[i].mask],
       count |-> count,
       mean  |-> [p \in DOMAIN count |-> sum[p] \div AtLeast(count[p], 1)]]

FastKernel2(data, mask, count, mean, nupfreq) ==
  LET deviation(i) ==
        LET block == (i % HalfChunk) \div 128
            x == data[i] - Upsample8(Load(mean, 8 * block, 8), (i % 128) \div 16)[i % 8]
        IN  IF mask[i] = 0 THEN 0 ELSE x
      sumsq == FastSums(nupfreq, [i \in 0 .. nupfreq * HalfChunk - 1 |-> deviation(i) * deviation(i)])
  IN  [p \in DOMAIN sumsq |-> Scaling(count[p], mean[p], sumsq[p])]

FastKernel3(data, mask, enc_off, enc_scal, nupfreq) ==
  [i \in 0 .. nupfreq * HalfChunk - 1 |->
     LET block == (i % HalfChunk) \div 128
         N     == (i % 128) \div 32
         get(r, j) == Upsample8(Load(r, 8 * block, 8), 2 * N + (j \div 2))
         level(j)  ==
           [k \in 0 .. 7 |->
              LET at == 32 * (i \div 32) + 8 * j + k
              IN  [num |-> IF mask[at] = 0 THEN 0 ELSE data[at] - get(enc_off, j)[k],
                   den |-> get(enc_scal, j)[k]]]
     IN  extract_32_8(level(0), level(1), level(2), level(3))[i % 32]]

(* Registers of bits: shifts stay in their 32-bit lane. *)
Srl32(x, k) == [i \in 0 .. 255 |-> IF (i % 32) + k < 32 THEN x[i + k] ELSE 0]
BitAnd(x, y) == [i \in 0 .. 255 |-> x[i] * y[i]]
BitOr(x, y)  == [i \in 0 .. 255 |-> IF x[i] + y[i] > 0 THEN 1 ELSE 0]
InEachByte(x, S) == [i \in 0 .. 255 |-> IF i % 8 \in S THEN x[i] ELSE 0]

(* The even bits of x that were 1 with their neighbour, packed. *)
PackedPairs(x) ==
  LET pairs == InEachByte(BitAnd(x, Srl32(x, 1)), {0, 2, 4, 6})
      twos  == InEachByte(BitOr(pairs, Srl32(pairs, 1)), {0, 1, 4, 5})
      fours == InEachByte(BitOr(twos, Srl32(twos, 2)), {0, 1, 2, 3})
      bytes == BitOr(fours, Srl32(fours, 4))
      even  == [b \in 0 .. 31 |-> 16 * (b \div 16) + 2 * (b % 8)]       \* _mm256_shuffle_epi8
  IN  [i \in 0 .. 255 |-> bytes[8 * even[i \div 8] + (i % 8)]]

FastRfiMask(src, nbits_in) ==
  [i \in 0 .. (nbits_in \div 2) - 1 |->
     LET from == 512 * (i \div 256)
         x == PackedPairs(Load(src, from, 256))
         y == PackedPairs(Load(src, from + 256, 256))
         z == Permute2x128(x, y, 1, 2)
     IN  Blend(Blend(z, x, {0, 1}), y, {6, 7})[i % 256]]
===============================================================================
