------------------------- MODULE MCIntensityHdf5File -------------------------
EXTENDS IntensityHdf5File

Args(nfreq, pol, freq0, freq1, bitshuffle) ==
  [nfreq |-> nfreq, pol |-> pol, freq0 |-> freq0, freq1 |-> freq1, bitshuffle |-> bitshuffle]

MCArguments ==
  { Args(2, <<"XX", "YY">>, 800, 400, 3), Args(3, <<"YY">>, 400, 700, 1),
    Args(1, <<"XX">>, 400, 800, 0), Args(2, <<"XX", "XX">>, 400, 800, 0) }

(* Chunks that overlap, that follow at once, with one sample between them, *)
(* and so far apart that a tolerated drift adds up to a whole sample.      *)
MCGaps == {-1, 0, 1, 98}
MCDrifts == {0, 2, 3}

(* Pattern 0 masks every third element, pattern 2 has a negative weight. *)
MCWeightOf(pattern, i) ==
  IF pattern = 2 /\ i = 1 THEN -1 ELSE IF pattern = 0 /\ i % 3 = 0 THEN 0 ELSE 1 + (i % 2)

MCIntensityOf(k, ipos) == 100 * k + ipos + 1
===============================================================================
