------------------------------ MODULE MCDataPath ------------------------------
EXTENDS DataPath, TLC

Beams == (0 :> 7) @@ (1 :> 5)
Freqs == (0 :> 1) @@ (1 :> 0)

(* Noise with a few samples off the scale, blocks without noise, blocks    *)
(* around zero and blocks of zeros, and samples the sender masks.          *)
Noise(slot, k, i) == ((slot * 31 + k * 17 + i * i * 7 + i * 13) % 61) - 30

Block == 0 .. 2 * 16 - 1
MCSky ==
  [slot \in 0 .. 63 |->
     [k \in 0 .. 3 |->
        [i \in Block |->
           IF slot % 16 = 14 THEN 0
           ELSE IF slot % 8 \in {6, 7} THEN 10 * Noise(slot, k, i)
           ELSE IF slot % 8 = 5 THEN 3000 + slot
           ELSE IF slot % 4 = 1 /\ i = 9 THEN 9000
           ELSE 3000 + 5 * slot + 10 * Noise(slot, k, i)]]]
MCWeights ==
  [slot \in 0 .. 63 |->
     [k \in 0 .. 3 |->
        [i \in Block |-> IF slot % 16 = 3 \/ (slot + k + i) % 11 = 0 THEN 0 ELSE 1]]]

MCNanBytes == [i \in Block |-> IF i % 3 = 0 THEN 255 ELSE 0]

InOrder == [n \in 1 .. 64 |-> n - 1]
Reversed == [n \in 1 .. 64 |-> 64 - n]
Lossy == SelectSeq(InOrder, LAMBDA slot : slot \notin {0, 7, 10, 11, 40, 63})
Twice == <<33, 1, 33, 2, 1>>
MCSchedules == {Reversed, Lossy, Twice}

MCRfiMasks == {[i \in 0 .. 511 |-> IF i % 3 = 0 \/ i \in 250 .. 270 THEN 1 ELSE 0]}

(* Sizes around the right one, some that no packet has, and one that fills *)
(* a list of four packets to the last byte below its limit.                *)
StrayHeader(d, nb) ==
  [protocol_version |-> 1, data_nbytes |-> d, fpga_counts_per_sample |-> 3,
   fpga_count |-> 96, nbeams |-> nb, nfreq_coarse |-> 2, nupfreq |-> 2, ntsamp |-> 16]
MCStrays ==
  {[header |-> StrayHeader(d, nb), nbytes |-> n] :
      d \in {64, 128}, nb \in 1 .. 2, n \in {110, 174, 190, 191, 192}}
  \union {[header |-> StrayHeader(64, 1), nbytes |-> n] : n \in {0, 24, 31, 193, 250}}
===============================================================================
