------------------------- MODULE Downsample_proofs -------------------------
(***************************************************************************)
(* Proof that downsample() averages, for every geometry and content: what  *)
(* each of its kernels leaves for the next one, and at which places of the *)
(* downsampled chunk.                                                      *)
(***************************************************************************)
EXTENDS DataPath_proofs

LEMMA InHalf ==
  ASSUME FastGeometry, NEW h \in Halves, NEW j \in 0 .. HalfChunk - 1
  PROVE  h * HalfChunk + j \in 0 .. NtPerChunk - 1
<1>1. HalfChunk \in Nat \ {0} /\ NtPerChunk = 2 * HalfChunk
  BY Parts
<1>2. h * HalfChunk \in {0, HalfChunk}
  BY <1>1 DEF Halves
<1> DEFINE a == h * HalfChunk
<1> HIDE DEF a
<1>3. a \in {0, HalfChunk}
  BY <1>2 DEF a
<1>4. a + j \in 0 .. NtPerChunk - 1
  BY <1>1, <1>3
<1> QED
  BY <1>4 DEF a

(* The place of sample j of row u of half h of coarse channel f.           *)
Spot(f, u, h, j) == At(f, u, h * HalfChunk + j)

LEMMA SpotIsPlace ==
  ASSUME FastGeometry, NEW f \in 0 .. NfreqCoarseTot - 1, NEW u \in 0 .. Nupfreq - 1,
         NEW h \in Halves, NEW j \in 0 .. HalfChunk - 1
  PROVE  /\ h * HalfChunk + j \in 0 .. NtPerChunk - 1
         /\ Spot(f, u, h, j) \in 0 .. NfreqCoarseTot * Nupfreq * NtPerChunk - 1
<1>1. h * HalfChunk + j \in 0 .. NtPerChunk - 1
  BY InHalf
<1> QED
  BY <1>1, AtIsPlace DEF Spot

LEMMA SameSpot ==
  ASSUME FastGeometry, NEW f \in Nat, NEW u \in 0 .. Nupfreq - 1,
         NEW h \in Halves, NEW j \in 0 .. HalfChunk - 1,
         NEW g \in Nat, NEW v \in 0 .. Nupfreq - 1, NEW e \in Halves, NEW i \in 0 .. HalfChunk - 1,
         Spot(f, u, h, j) = Spot(g, v, e, i)
  PROVE  f = g /\ u = v /\ h = e /\ j = i
<1> DEFINE t == h * HalfChunk + j
           s == e * HalfChunk + i
<1>1. t \in 0 .. NtPerChunk - 1 /\ s \in 0 .. NtPerChunk - 1
  BY InHalf
<1>2. At(f, u, t) = At(g, v, s)
  BY DEF Spot
<1> HIDE DEF t, s
<1>3. f = g /\ u = v /\ t = s
  BY <1>1, <1>2, SamePlace
<1>4. h * HalfChunk + j = e * HalfChunk + i
  BY <1>3 DEF t, s
<1>5. h \in Nat /\ e \in Nat /\ HalfChunk \in Nat \ {0}
  BY Parts DEF Halves
<1>6. h = e /\ j = i
  BY <1>4, <1>5, SameRow
<1> QED
  BY <1>3, <1>6

(* The rows of half a coarse channel are stored at their places, and       *)
(* nothing else changes.                                                   *)
RowsHold(r, a, f, h, out, n) ==
  /\ DOMAIN r = DOMAIN a
  /\ \A u \in 0 .. n - 1, j \in 0 .. HalfChunk - 1 : r[Spot(f, u, h, j)] = out[u * HalfChunk + j]
  /\ \A i \in DOMAIN a : (\A u \in 0 .. n - 1, j \in 0 .. HalfChunk - 1 : i # Spot(f, u, h, j)) => r[i] = a[i]

LEMMA RowStored ==
  ASSUME FastGeometry, NEW a, DOMAIN a = 0 .. NfreqCoarseTot * Nupfreq * NtPerChunk - 1,
         NEW f \in 0 .. NfreqCoarseTot - 1, NEW h \in Halves, NEW out, NEW k \in 0 .. Nupfreq - 1,
         NEW r, RowsHold(r, a, f, h, out, k)
  PROVE  RowsHold(LevelRow(r, k, f, h, out), a, f, h, out, k + 1)
<1> DEFINE w == HalfChunk
           at == (f * Nupfreq + k) * NtPerChunk + h * w
           from == k * w
           x == LevelRow(r, k, f, h, out)
<1>1. /\ w \in Nat \ {0} /\ k \in Nat /\ f \in Nat /\ h \in Nat
      /\ Nupfreq \in Nat \ {0} /\ NtPerChunk \in Nat \ {0}
  BY Geometry, Parts DEF Halves
<1>2. at \in Nat /\ from \in Nat /\ \A j \in 0 .. w - 1 : Spot(f, k, h, j) = at + j
  <2> DEFINE y == f * Nupfreq + k
             z == y * NtPerChunk
  <2>1. y \in Nat /\ from \in Nat /\ h * w \in Nat
    BY <1>1
  <2>2. z \in Nat
    <3> HIDE DEF y
    <3> QED
      BY <1>1, <2>1
  <2>3. at = z + h * w /\ \A j : Spot(f, k, h, j) = z + (h * w + j)
    BY DEF Spot, At
  <2> HIDE DEF z, at
  <2> QED
    BY <1>1, <2>1, <2>2, <2>3
<1>3. x = Memcpy(r, at, out, from, w) /\ DOMAIN r = DOMAIN a
  BY Zenon DEF LevelRow, RowsHold
<1> HIDE DEF x, at, from, w
<1>4. DOMAIN x = DOMAIN a
      /\ \A i \in DOMAIN a : x[i] = IF i \in at .. at + w - 1 THEN out[from + i - at] ELSE r[i]
  BY <1>3, Zenon DEF Memcpy
<1>5. ASSUME NEW u \in 0 .. k, NEW j \in 0 .. w - 1
      PROVE  x[Spot(f, u, h, j)] = out[u * HalfChunk + j]
  <2> DEFINE i == Spot(f, u, h, j)
  <2>0. j \in 0 .. HalfChunk - 1 /\ u \in 0 .. Nupfreq - 1
    BY <1>1 DEF w
  <2>1. i \in DOMAIN a
    BY <2>0, SpotIsPlace
  <2>2. CASE u = k
    <3>1. i = at + j
      BY <1>2, <2>2
    <3>2. i \in at .. at + w - 1 /\ from + i - at = from + j
      <4> HIDE DEF i
      <4> QED
        BY <1>1, <1>2, <3>1
    <3>3. x[i] = out[from + j]
      <4> HIDE DEF i
      <4> QED
        BY <1>4, <2>1, <3>2
    <3> QED
      BY <2>2, <3>3 DEF from, w
  <2>3. CASE u # k
    <3>1. u \in 0 .. k - 1
      BY <1>1, <2>3
    <3>2. i \notin at .. at + w - 1
      <4> SUFFICES ASSUME i \in at .. at + w - 1 PROVE FALSE
        OBVIOUS
      <4>1. i - at \in 0 .. w - 1 /\ i = at + (i - at)
        <5>1. i \in Int
          BY <2>1
        <5> HIDE DEF i
        <5> QED
          BY <1>1, <1>2, <5>1
      <4>2. Spot(f, u, h, j) = Spot(f, k, h, i - at)
        BY <1>2, <4>1
      <4>3. i - at \in 0 .. HalfChunk - 1
        BY <4>1 DEF w
      <4> HIDE DEF i
      <4> QED
        BY <1>1, <2>0, <2>3, <4>2, <4>3, SameSpot, SMTT(30)
    <3>3. r[i] = out[u * HalfChunk + j]
      BY <2>0, <3>1 DEF RowsHold
    <3> HIDE DEF i
    <3>4. x[i] = r[i]
      BY <1>4, <2>1, <3>2
    <3> QED
      BY <3>3, <3>4 DEF i
  <2> QED
    BY <2>2, <2>3
<1>6. ASSUME NEW i \in DOMAIN a, \A u \in 0 .. k, j \in 0 .. w - 1 : i # Spot(f, u, h, j)
      PROVE  x[i] = a[i]
  <2>1. i \notin at .. at + w - 1
    <3> SUFFICES ASSUME i \in at .. at + w - 1 PROVE FALSE
      OBVIOUS
    <3>1. i - at \in 0 .. w - 1 /\ i = at + (i - at)
      BY <1>1, <1>2
    <3>2. i = Spot(f, k, h, i - at)
      BY <1>2, <3>1
    <3>3. k \in 0 .. k
      BY <1>1
    <3> QED
      BY <1>6, <3>1, <3>2, <3>3
  <2>2. r[i] = a[i]
    <3>1. \A u \in 0 .. k - 1, j \in 0 .. HalfChunk - 1 : i # Spot(f, u, h, j)
      <4>1. \A u \in 0 .. k - 1 : u \in 0 .. k
        BY <1>1
      <4> QED
        BY <1>6, <4>1, Zenon DEF w
    <3> QED
      BY <3>1, Zenon DEF RowsHold
  <2> QED
    BY <1>4, <2>1, <2>2
<1>7. 0 .. (k + 1) - 1 = 0 .. k
  BY <1>1
<1> QED
  BY <1>4, <1>5, <1>6, <1>7 DEF RowsHold, x, w

LEMMA RowsStored ==
  ASSUME FastGeometry, NEW a, DOMAIN a = 0 .. NfreqCoarseTot * Nupfreq * NtPerChunk - 1,
         NEW f \in 0 .. NfreqCoarseTot - 1, NEW h \in Halves, NEW out
  PROVE  RowsHold(LevelsStored(a, f, h, out), a, f, h, out, Nupfreq)
<1> DEFINE n == Nupfreq
           step(r, k) == IF k = 0 THEN a ELSE LevelRow(r[k - 1], k - 1, f, h, out)
           S == {m \in Nat : \E r : r = [k \in 0 .. m |-> step(r, k)]}
           rows == CHOOSE r : r = [k \in 0 .. n |-> step(r, k)]
           T == {k \in Nat : k <= n => RowsHold(rows[k], a, f, h, out, k)}
<1>1. LevelsStored(a, f, h, out) = rows[n] /\ n \in Nat
  BY Geometry DEF LevelsStored, Loop, LevelRow
<1>2. 0 \in S
  <2> DEFINE f0 == [k \in 0 .. 0 |-> a]
  <2>1. f0 = [k \in 0 .. 0 |-> step(f0, k)]
    OBVIOUS
  <2> QED
    BY <2>1
<1>3. ASSUME NEW m \in Nat, m \in S PROVE m + 1 \in S
  <2>1. PICK f1 : f1 = [k \in 0 .. m |-> step(f1, k)]
    BY <1>3
  <2> DEFINE g == [k \in 0 .. m + 1 |-> IF k <= m THEN f1[k] ELSE step(f1, k)]
  <2>2. ASSUME NEW k \in 0 .. m + 1 PROVE g[k] = step(g, k)
    <3>1. step(g, k) = step(f1, k)
      OBVIOUS
    <3>2. k <= m => f1[k] = step(f1, k)
      <4>1. k <= m => k \in 0 .. m
        OBVIOUS
      <4> QED
        BY <2>1, <4>1, Zenon
    <3> QED
      BY <3>1, <3>2
  <2>3. g = [k \in 0 .. m + 1 |-> step(g, k)]
    BY <2>2, Zenon
  <2> HIDE DEF g, step
  <2> QED
    BY <2>3
<1>4. n \in S
  BY <1>1, <1>2, <1>3, NatSetInduction
<1>5. \A k \in 0 .. n : rows[k] = step(rows, k)
  <2>1. rows = [k \in 0 .. n |-> step(rows, k)]
    BY <1>4, Zenon
  <2> QED
    BY <2>1, Zenon
<1> HIDE DEF rows, S
<1>6. 0 \in T
  <2>1. 0 \in 0 .. n /\ 0 .. 0 - 1 = {}
    BY <1>1
  <2>2. rows[0] = a
    BY <1>5, <2>1
  <2> QED
    BY <2>1, <2>2 DEF RowsHold
<1>7. ASSUME NEW k \in Nat, k \in T PROVE k + 1 \in T
  <2> SUFFICES ASSUME k + 1 <= n PROVE RowsHold(rows[k + 1], a, f, h, out, k + 1)
    OBVIOUS
  <2>1. RowsHold(rows[k], a, f, h, out, k) /\ k \in 0 .. Nupfreq - 1
        /\ k + 1 \in 0 .. n /\ k + 1 # 0 /\ (k + 1) - 1 = k
    BY <1>1, <1>7
  <2>2. rows[k + 1] = LevelRow(rows[k], k, f, h, out)
    BY <1>5, <2>1
  <2> QED
    BY <2>1, <2>2, RowStored
<1>8. n \in T
  BY <1>1, <1>6, <1>7, NatSetInduction
<1> QED
  BY <1>1, <1>8

(* What is stored for half e of coarse channel g is there, and leaves the  *)
(* entries of every other half as they were.                               *)
HalfHolds(x, a, g, e, s) ==
  \A f \in 0 .. NfreqCoarseTot - 1, h \in Halves, p \in 0 .. HalfCoarse - 1 :
    x[OutAt(f, h) + p] = IF f = g /\ h = e THEN s[p] ELSE a[OutAt(f, h) + p]

LEMMA HalfApart ==
  ASSUME FastGeometry, NEW g \in 0 .. NfreqCoarseTot - 1, NEW e \in Halves,
         NEW a, DOMAIN a = 0 .. NfreqCoarseTot * SlotsPerChunk - 1, NEW s
  PROVE  HalfHolds(Memcpy(a, OutAt(g, e), s, 0, HalfCoarse), a, g, e, s)
<1> SUFFICES ASSUME NEW f \in 0 .. NfreqCoarseTot - 1, NEW h \in Halves, NEW p \in 0 .. HalfCoarse - 1
             PROVE  Memcpy(a, OutAt(g, e), s, 0, HalfCoarse)[OutAt(f, h) + p] =
                      IF f = g /\ h = e THEN s[p] ELSE a[OutAt(f, h) + p]
  BY Zenon DEF HalfHolds
<1> DEFINE i == OutAt(f, h) + p
           at == OutAt(g, e)
           x == Memcpy(a, at, s, 0, HalfCoarse)[i]
<1>1. /\ HalfCoarse \in Nat \ {0} /\ SlotsPerChunk = 2 * HalfCoarse /\ SlotsPerChunk \in Nat \ {0}
      /\ f \in Nat /\ g \in Nat /\ h \in Nat /\ e \in Nat
  <2>1. HalfChunk \in Nat \ {0} /\ HalfChunk = 16 * HalfCoarse /\ HalfCoarse \in Nat
        /\ SlotsPerChunk = 2 * HalfCoarse
    BY Parts, Zenon
  <2> QED
    BY <2>1, Geometry DEF Halves
<1>2. i \in DOMAIN a /\ i \in Int /\ at \in Nat /\ OutAt(f, h) \in Nat
  BY HalfPart
<1>3. x = IF i \in at .. at + HalfCoarse - 1 THEN s[0 + i - at] ELSE a[i]
  <2> HIDE DEF i, at
  <2> QED
    BY <1>2, Zenon DEF Memcpy
<1>4. CASE f = g /\ h = e
  <2>1. i = at + p /\ i \in at .. at + HalfCoarse - 1 /\ 0 + i - at = p
    <3>1. i = at + p
      BY <1>4
    <3> HIDE DEF i, at
    <3> QED
      BY <1>1, <1>2, <3>1
  <2> HIDE DEF i, at, x
  <2> QED
    BY <1>3, <1>4, <2>1 DEF i, at, x
<1>5. CASE ~(f = g /\ h = e)
  <2>1. i \notin at .. at + HalfCoarse - 1
    <3> SUFFICES ASSUME i \in at .. at + HalfCoarse - 1 PROVE FALSE
      OBVIOUS
    <3> DEFINE q == i - at
    <3>1. q \in 0 .. HalfCoarse - 1 /\ i = at + q
      <4> HIDE DEF i, at
      <4> QED
        BY <1>1, <1>2
    <3> HIDE DEF q
    <3>2. f * SlotsPerChunk + (h * HalfCoarse + p) = g * SlotsPerChunk + (e * HalfCoarse + q)
      <4> DEFINE a1 == f * SlotsPerChunk
                 b1 == h * HalfCoarse
                 c1 == g * SlotsPerChunk
                 d1 == e * HalfCoarse
      <4>1. a1 \in Nat /\ b1 \in Nat /\ c1 \in Nat /\ d1 \in Nat
        BY <1>1
      <4>2. a1 + b1 + p = c1 + d1 + q
        BY <3>1 DEF OutAt
      <4> HIDE DEF a1, b1, c1, d1
      <4>3. a1 + (b1 + p) = c1 + (d1 + q)
        BY <1>1, <3>1, <4>1, <4>2
      <4> QED
        BY <4>3 DEF a1, b1, c1, d1
    <3>3. /\ h * HalfCoarse + p \in 0 .. SlotsPerChunk - 1
          /\ e * HalfCoarse + q \in 0 .. SlotsPerChunk - 1
      <4>1. h * HalfCoarse \in {0, HalfCoarse} /\ e * HalfCoarse \in {0, HalfCoarse}
        BY <1>1 DEF Halves
      <4> DEFINE b1 == h * HalfCoarse
                 d1 == e * HalfCoarse
      <4>2. b1 \in {0, HalfCoarse} /\ d1 \in {0, HalfCoarse}
        BY <4>1
      <4> HIDE DEF b1, d1
      <4>3. b1 + p \in 0 .. SlotsPerChunk - 1 /\ d1 + q \in 0 .. SlotsPerChunk - 1
        BY <1>1, <3>1, <4>2
      <4> QED
        BY <4>3 DEF b1, d1
    <3>4. f = g /\ h * HalfCoarse + p = e * HalfCoarse + q
      <4> DEFINE b1 == h * HalfCoarse + p
                 d1 == e * HalfCoarse + q
      <4>1. b1 \in 0 .. SlotsPerChunk - 1 /\ d1 \in 0 .. SlotsPerChunk - 1
            /\ f * SlotsPerChunk + b1 = g * SlotsPerChunk + d1
        BY <3>2, <3>3
      <4> HIDE DEF b1, d1
      <4>2. f = g /\ b1 = d1
        BY <1>1, <4>1, SameRow
      <4> QED
        BY <4>2 DEF b1, d1
    <3>5. h = e
      BY <1>1, <3>1, <3>4, SameRow
    <3> QED
      BY <1>5, <3>4, <3>5
  <2> HIDE DEF i, at, x
  <2> QED
    BY <1>3, <1>5, <2>1 DEF i, at, x
<1> QED
  BY <1>4, <1>5, Zenon

(* A byte of kernel 3: the level of an average, rounded, or masked. *)
Rounded1(q, mask, level, s) == IF mask = -1 THEN Rounds(q, Clipped(level, s), s) ELSE q = 0

LEMMA LevelsAre ==
  ASSUME FastGeometry, NEW c, Scaled(c), Ints(c.offsets),
         DOMAIN c.offsets = 0 .. NfreqCoarseTot * SlotsPerChunk - 1,
         NEW f \in 0 .. NfreqCoarseTot - 1, NEW h \in Halves,
         NEW u \in 0 .. Nupfreq - 1, NEW i \in 0 .. HalfChunk - 1
  PROVE  LET k == u * HalfChunk + i
             s == c.ds_w2[i \div 16]
             o == c.offsets[OutAt(f, h) + (i \div 16)]
         IN  /\ i \div 16 \in 0 .. HalfCoarse - 1 /\ s \in Nat \ {0} /\ o \in Int
             /\ c.ds_data[k] \in Int
             /\ \A q \in {FastLevels(c, f, h)[k], SlowLevels(c, f, h)[k]} :
                  Rounded1(q, c.ds_mask[k], c.ds_data[k] - o, s)
<1> DEFINE k == u * HalfChunk + i
           p == i \div 16
           off == Window(c.offsets, OutAt(f, h), HalfCoarse)
           s == c.ds_w2[p]
           o == c.offsets[OutAt(f, h) + p]
           l == c.ds_data[k] - o
           level == KernelLevel(c.ds_data, c.ds_mask, off, c.ds_w2, k)
<1>1. /\ HalfChunk \in Nat \ {0} /\ HalfChunk = 16 * HalfCoarse /\ HalfCoarse \in Nat
      /\ Nupfreq \in Nat /\ NtPerChunk % 256 = 0 /\ u \in Nat
  BY Parts, Geometry DEF FastGeometry
<1>2. p \in 0 .. HalfCoarse - 1
  BY <1>1
<1>3. k \in 0 .. Nupfreq * HalfChunk - 1 /\ k % HalfChunk = i
  <2>1. u * HalfChunk + i \in 0 .. Nupfreq * HalfChunk - 1
    BY <1>1, InPart
  <2>2. (u * HalfChunk + i) % HalfChunk = i
    BY <1>1, RowOf, SMTT(30)
  <2> QED
    BY <2>1, <2>2, Zenon
<1>4. (k % HalfChunk) \div 16 = p
  BY <1>3, Zenon
<1>5. off[p] = o
  BY <1>2 DEF Window
<1>6. o \in Int
  <2>1. OutAt(f, h) + p \in DOMAIN c.offsets
    BY <1>2, HalfPart
  <2> QED
    BY <2>1 DEF Ints
<1>7. s \in Nat \ {0} /\ c.ds_data[k] \in Int /\ c.ds_mask[k] \in {0, -1}
  BY <1>2, <1>3 DEF Scaled, Averaged
<1> HIDE DEF k, p, off, s, o
<1>8. /\ FastLevels(c, f, h)[k] = RoundHalfEven(level, s)
      /\ SlowLevels(c, f, h)[k] = RoundHalfUp(level, s)
  <2>1. /\ FastKernel3(c.ds_data, c.ds_mask, off, c.ds_w2, Nupfreq)[k] =
             RoundHalfEven(level, c.ds_w2[(k % HalfChunk) \div 16])
        /\ SlowKernel3(c.ds_data, c.ds_mask, off, c.ds_w2, Nupfreq, 16)[k] =
             RoundHalfUp(level, c.ds_w2[(k % HalfChunk) \div 16])
    <3> HIDE DEF level
    <3>1. /\ off[(k % HalfChunk) \div 16] \in Int /\ c.ds_w2[(k % HalfChunk) \div 16] \in Nat \ {0}
      BY <1>4, <1>5, <1>6, <1>7 DEF s
    <3> DEFINE data == c.ds_data
               mask == c.ds_mask
               scal == c.ds_w2
    <3>2. data[k] \in Int /\ mask[k] \in {0, -1} /\ k \in 0 .. Nupfreq * HalfChunk - 1
          /\ off[(k % HalfChunk) \div 16] \in Int /\ scal[(k % HalfChunk) \div 16] \in Nat \ {0}
      BY <1>3, <1>7, <3>1
    <3> HIDE DEF data, mask, scal
    <3>3. /\ FastKernel3(data, mask, off, scal, Nupfreq)[k] =
               RoundHalfEven(KernelLevel(data, mask, off, scal, k), scal[(k % HalfChunk) \div 16])
          /\ SlowKernel3(data, mask, off, scal, Nupfreq, 16)[k] =
               RoundHalfUp(KernelLevel(data, mask, off, scal, k), scal[(k % HalfChunk) \div 16])
      BY <1>1, <3>2, FastKernel3Is
    <3> QED
      BY <3>3 DEF level, data, mask, scal
  <2> HIDE DEF level
  <2>2. c.ds_w2[(k % HalfChunk) \div 16] = s
    BY <1>4 DEF s
  <2> QED
    BY <2>1, <2>2, Zenon DEF FastLevels, SlowLevels, off
<1>9. level = MaskedLevel(AtMost(AtLeast(l, 0), 255 * s), c.ds_mask[k])
  BY <1>4, <1>5, Zenon DEF KernelLevel, s
<1>10. AtMost(AtLeast(l, 0), 255 * s) = Clipped(l, s)
  <2>1. l \in Int /\ 255 * s \in Nat
    BY <1>6, <1>7
  <2> HIDE DEF l
  <2> DEFINE m == 255 * s
  <2> HIDE DEF m
  <2>2. AtMost(AtLeast(l, 0), m) = AtLeast(AtMost(l, m), 0)
    BY <2>1 DEF AtMost, AtLeast, m
  <2> QED
    BY <2>2 DEF Clipped, m
<1> HIDE DEF l, level
<1>11. ASSUME NEW q \in {FastLevels(c, f, h)[k], SlowLevels(c, f, h)[k]}
       PROVE  Rounded1(q, c.ds_mask[k], l, s)
  <2>1. CASE c.ds_mask[k] = -1
    <3>1. level = Clipped(l, s)
      BY <1>9, <1>10, <2>1 DEF MaskedLevel
    <3> QED
      BY <1>8, <2>1, <3>1, Zenon DEF Rounded1, Rounds
  <2>2. CASE c.ds_mask[k] = 0
    <3>1. level = 0
      BY <1>9, <2>2 DEF MaskedLevel
    <3>2. RoundHalfUp(0, s) = 0 /\ RoundHalfEven(0, s) = 0
      BY <1>7, RoundingsAreNear, Zenon
    <3>3. q = 0
      BY <1>8, <3>1, <3>2, Zenon
    <3> QED
      BY <2>2, <3>3 DEF Rounded1
  <2> QED
    BY <1>7, <2>1, <2>2
<1> QED
  BY <1>2, <1>6, <1>7, <1>11, Zenon DEF k, p, s, o, l

(* The place of bit i of half h of the mask of RFI frequency k. *)
BitAt(k, h, i) == k * NtPerChunk + (h * HalfChunk + i)

LEMMA BitIsPlace ==
  ASSUME FastGeometry, NEW k \in 0 .. NrfiFreq - 1, NEW h \in Halves, NEW i \in 0 .. HalfChunk - 1
  PROVE  /\ BitAt(k, h, i) \in 0 .. NrfiFreq * NtPerChunk - 1
         /\ k * NtPerChunk \in Nat /\ BitAt(k, h, i) = (k * NtPerChunk + h * HalfChunk) + i
<1>1. h * HalfChunk + i \in 0 .. NtPerChunk - 1
  BY InHalf
<1>2. NrfiFreq \in Nat /\ NtPerChunk \in Nat
  BY Geometry, DataPathAssumption
<1>3. k * NtPerChunk \in Nat /\ k * NtPerChunk + (h * HalfChunk + i) \in 0 .. NrfiFreq * NtPerChunk - 1
  BY <1>1, <1>2, InPart
<1>4. h * HalfChunk \in Nat /\ i \in Nat
  BY Parts DEF Halves
<1> DEFINE a == k * NtPerChunk
           b == h * HalfChunk
<1>5. a \in Nat /\ b \in Nat
  BY <1>3, <1>4
<1> HIDE DEF a, b
<1>6. a + (b + i) = (a + b) + i
  BY <1>4, <1>5
<1> QED
  BY <1>3, <1>6 DEF BitAt, a, b

(* The bits of half h of the mask of RFI frequency k are stored, and no    *)
(* other changes.                                                          *)
BitsStored(x, a, k, h, s) ==
  /\ DOMAIN x = DOMAIN a
  /\ \A j \in 0 .. NrfiFreq - 1, e \in Halves, i \in 0 .. HalfChunk - 1 :
       x[BitAt(j, e, i)] = IF j = k /\ e = h THEN s[i] ELSE a[BitAt(j, e, i)]

LEMMA BitsCopied ==
  ASSUME FastGeometry, NEW a, DOMAIN a = 0 .. NrfiFreq * NtPerChunk - 1,
         NEW k \in 0 .. NrfiFreq - 1, NEW h \in Halves, NEW s,
         NEW at, at = k * NtPerChunk + h * HalfChunk
  PROVE  BitsStored(Memcpy(a, at, s, 0, HalfChunk), a, k, h, s)
<1> DEFINE x == Memcpy(a, at, s, 0, HalfChunk)
<1>0. DOMAIN x = DOMAIN a
  BY DEF Memcpy
<1> SUFFICES ASSUME NEW j \in 0 .. NrfiFreq - 1, NEW e \in Halves, NEW i \in 0 .. HalfChunk - 1
             PROVE  x[BitAt(j, e, i)] = IF j = k /\ e = h THEN s[i] ELSE a[BitAt(j, e, i)]
  BY <1>0 DEF BitsStored
<1> DEFINE b == BitAt(j, e, i)
<1>1. /\ HalfChunk \in Nat \ {0} /\ NtPerChunk \in Nat \ {0}
      /\ k \in Nat /\ j \in Nat /\ h \in Nat /\ e \in Nat
  <2>1. HalfChunk \in Nat \ {0}
    BY Parts, Zenon
  <2> QED
    BY <2>1, Geometry DEF Halves
<1>2. b \in DOMAIN a /\ b \in Nat
  <2>1. b \in 0 .. NrfiFreq * NtPerChunk - 1
    BY BitIsPlace
  <2> HIDE DEF b
  <2> QED
    BY <2>1
<1>3. at \in Nat
  <2>1. k * NtPerChunk \in Nat /\ h * HalfChunk \in Nat
    BY <1>1
  <2> QED
    BY <2>1
<1>4. DOMAIN x = DOMAIN a /\ x[b] = IF b \in at .. at + HalfChunk - 1 THEN s[0 + b - at] ELSE a[b]
  <2> HIDE DEF b
  <2> QED
    BY <1>2, Zenon DEF Memcpy
<1>5. CASE j = k /\ e = h
  <2>1. b = at + i
    BY <1>5, BitIsPlace
  <2>2. b \in at .. at + HalfChunk - 1 /\ 0 + b - at = i
    <3> HIDE DEF b
    <3> QED
      BY <1>1, <1>3, <2>1
  <2> HIDE DEF b, x
  <2> QED
    BY <1>4, <1>5, <2>2 DEF b, x
<1>6. CASE ~(j = k /\ e = h)
  <2>1. b \notin at .. at + HalfChunk - 1
    <3> SUFFICES ASSUME b \in at .. at + HalfChunk - 1 PROVE FALSE
      OBVIOUS
    <3> DEFINE q == b - at
    <3>1. q \in 0 .. HalfChunk - 1 /\ b = at + q
      <4> HIDE DEF b
      <4> QED
        BY <1>1, <1>2, <1>3
    <3> HIDE DEF q
    <3>2. BitAt(k, h, q) = at + q
      BY <3>1, BitIsPlace
    <3>3. BitAt(j, e, i) = BitAt(k, h, q)
      BY <3>1, <3>2
    <3> DEFINE c == e * HalfChunk + i
               d == h * HalfChunk + q
    <3>4. c \in 0 .. NtPerChunk - 1 /\ d \in 0 .. NtPerChunk - 1
      BY <3>1, InHalf
    <3>5. j * NtPerChunk + c = k * NtPerChunk + d
      BY <3>3 DEF BitAt
    <3> HIDE DEF c, d
    <3>6. j = k /\ c = d
      BY <1>1, <3>4, <3>5, SameRow
    <3>7. e * HalfChunk + i = h * HalfChunk + q
      BY <3>6 DEF c, d
    <3>8. e = h
      BY <1>1, <3>1, <3>7, SameRow
    <3> QED
      BY <1>6, <3>6, <3>8
  <2> HIDE DEF b, x
  <2> QED
    BY <1>4, <1>6, <2>1 DEF b, x
<1> QED
  BY <1>5, <1>6

LEMMA RowIsMasked ==
  ASSUME FastGeometry, NEW a, DOMAIN a = 0 .. NrfiFreq * NtPerChunk - 1,
         NEW k \in 0 .. NrfiFreq - 1, NEW first, NEW second
  PROVE  LET x == MaskRow(a, k, first, second)
         IN  /\ DOMAIN x = DOMAIN a
             /\ \A j \in 0 .. NrfiFreq - 1, h \in Halves, i \in 0 .. HalfChunk - 1 :
                  x[BitAt(j, h, i)] = IF j = k THEN (IF h = 0 THEN first[i] ELSE second[i])
                                      ELSE a[BitAt(j, h, i)]
<1> DEFINE b == Memcpy(a, k * NtPerChunk, first, 0, HalfChunk)
           x == Memcpy(b, k * NtPerChunk + HalfChunk, second, 0, HalfChunk)
<1>1. /\ k * NtPerChunk + 0 * HalfChunk = k * NtPerChunk
      /\ k * NtPerChunk + 1 * HalfChunk = k * NtPerChunk + HalfChunk
      /\ 0 \in Halves /\ 1 \in Halves /\ Halves = {0, 1} /\ HalfChunk \in Nat \ {0}
  <2>1. HalfChunk \in Nat \ {0} /\ NtPerChunk \in Nat
    BY Parts, Geometry, Zenon
  <2>2. k * NtPerChunk \in Nat /\ 0 * HalfChunk = 0 /\ 1 * HalfChunk = HalfChunk
    BY <2>1
  <2> DEFINE y == k * NtPerChunk
  <2> HIDE DEF y
  <2>3. y + 0 * HalfChunk = y
    BY <2>2 DEF y
  <2> QED
    BY <2>1, <2>2, <2>3 DEF Halves, y
<1>2. BitsStored(b, a, k, 0, first)
  BY <1>1, BitsCopied, Zenon
<1>3. DOMAIN b = 0 .. NrfiFreq * NtPerChunk - 1
  BY DEF Memcpy
<1> HIDE DEF b
<1>4. BitsStored(x, b, k, 1, second)
  BY <1>1, <1>3, BitsCopied, Zenon
<1>5. x = MaskRow(a, k, first, second)
  BY DEF MaskRow, b
<1> HIDE DEF x
<1>6. ASSUME NEW j \in 0 .. NrfiFreq - 1, NEW h \in Halves, NEW i \in 0 .. HalfChunk - 1
      PROVE  x[BitAt(j, h, i)] = IF j = k THEN (IF h = 0 THEN first[i] ELSE second[i])
                                 ELSE a[BitAt(j, h, i)]
  <2>1. h = 0 \/ h = 1
    BY <1>1
  <2>2. b[BitAt(j, h, i)] = IF j = k /\ h = 0 THEN first[i] ELSE a[BitAt(j, h, i)]
    BY <1>2, Zenon DEF BitsStored
  <2>3. x[BitAt(j, h, i)] = IF j = k /\ h = 1 THEN second[i] ELSE b[BitAt(j, h, i)]
    BY <1>4, Zenon DEF BitsStored
  <2> QED
    BY <2>1, <2>2, <2>3
<1>7. DOMAIN x = DOMAIN a
  BY <1>3, <1>4 DEF BitsStored
<1> QED
  BY <1>5, <1>6, <1>7

(* The mask of a downsampled chunk has the bits of its sources. *)
LEMMA MasksAre ==
  ASSUME FastGeometry, NEW a, DOMAIN a = 0 .. NrfiFreq * NtPerChunk - 1, NEW srcs,
         NEW j \in 0 .. NrfiFreq - 1, NEW h \in Halves, NEW i \in 0 .. HalfChunk - 1
  PROVE  SlowMasks(a, srcs)[BitAt(j, h, i)] = SlowBits(srcs, h, j)[i]
<1> DEFINE n == NrfiFreq
           row(r, k) == MaskRow(r[k - 1], k - 1, SlowBits(srcs, 0, k - 1), SlowBits(srcs, 1, k - 1))
           step(r, k) == IF k = 0 THEN a ELSE row(r, k)
           S == {m \in Nat : \E r : r = [k \in 0 .. m |-> step(r, k)]}
           rows == CHOOSE r : r = [k \in 0 .. n |-> step(r, k)]
           good(r, k) == DOMAIN r = DOMAIN a /\ (j < k => r[BitAt(j, h, i)] = SlowBits(srcs, h, j)[i])
           T == {k \in Nat : k <= n => good(rows[k], k)}
<1>1. SlowMasks(a, srcs) = rows[n] /\ n \in Nat
  BY DataPathAssumption DEF SlowMasks, Loop
<1>2. 0 \in S
  <2> DEFINE f0 == [k \in 0 .. 0 |-> a]
  <2>1. f0 = [k \in 0 .. 0 |-> step(f0, k)]
    OBVIOUS
  <2> QED
    BY <2>1
<1>3. ASSUME NEW m \in Nat, m \in S PROVE m + 1 \in S
  <2>1. PICK f1 : f1 = [k \in 0 .. m |-> step(f1, k)]
    BY <1>3
  <2> DEFINE g == [k \in 0 .. m + 1 |-> IF k <= m THEN f1[k] ELSE step(f1, k)]
  <2>2. ASSUME NEW k \in 0 .. m + 1 PROVE g[k] = step(g, k)
    <3>1. step(g, k) = step(f1, k)
      OBVIOUS
    <3>2. k <= m => f1[k] = step(f1, k)
      <4>1. k <= m => k \in 0 .. m
        OBVIOUS
      <4> QED
        BY <2>1, <4>1, Zenon
    <3> QED
      BY <3>1, <3>2
  <2>3. g = [k \in 0 .. m + 1 |-> step(g, k)]
    BY <2>2, Zenon
  <2> HIDE DEF g, step
  <2> QED
    BY <2>3
<1>4. n \in S
  BY <1>1, <1>2, <1>3, NatSetInduction
<1>5. \A k \in 0 .. n : rows[k] = step(rows, k)
  <2>1. rows = [k \in 0 .. n |-> step(rows, k)]
    BY <1>4, Zenon
  <2> QED
    BY <2>1, Zenon
<1> HIDE DEF rows, S
<1>6. 0 \in T
  <2>1. 0 \in 0 .. n
    BY <1>1
  <2>2. rows[0] = a
    BY <1>5, <2>1
  <2> QED
    BY <2>1, <2>2
<1>7. ASSUME NEW k \in Nat, k \in T PROVE k + 1 \in T
  <2> SUFFICES ASSUME k + 1 <= n PROVE good(rows[k + 1], k + 1)
    OBVIOUS
  <2>1. good(rows[k], k) /\ k \in 0 .. n - 1 /\ k + 1 \in 0 .. n /\ k + 1 # 0 /\ (k + 1) - 1 = k
    BY <1>1, <1>7
  <2> DEFINE x == MaskRow(rows[k], k, SlowBits(srcs, 0, k), SlowBits(srcs, 1, k))
  <2>2. rows[k + 1] = x
    BY <1>5, <2>1
  <2>3. /\ DOMAIN x = DOMAIN a
        /\ x[BitAt(j, h, i)] = IF j = k THEN (IF h = 0 THEN SlowBits(srcs, 0, k)[i] ELSE SlowBits(srcs, 1, k)[i])
                               ELSE rows[k][BitAt(j, h, i)]
    BY <2>1, RowIsMasked
  <2> HIDE DEF x
  <2>4. h = 0 \/ h = 1
    BY DEF Halves
  <2>5. j < k + 1 => j = k \/ (j # k /\ j < k)
    OBVIOUS
  <2>6. good(x, k + 1)
    BY <2>1, <2>3, <2>4, <2>5
  <2> QED
    BY <2>2, <2>6
<1>8. n \in T
  BY <1>1, <1>6, <1>7, NatSetInduction
<1>9. j < n /\ n <= n
  BY <1>1
<1> QED
  BY <1>1, <1>8, <1>9

(* The bytes of half h of coarse channel f stand for the averages in ch.   *)
Encodes(ch, scales, offsets, data, f, h) ==
  \A u \in 0 .. Nupfreq - 1, i \in 0 .. HalfChunk - 1 :
    LET k == u * HalfChunk + i
        s == scales[OutAt(f, h) + (i \div 16)]
        o == offsets[OutAt(f, h) + (i \div 16)]
    IN  /\ s \in Nat \ {0} /\ o \in Int /\ ch.data[k] \in Int
        /\ Rounded1(data[Spot(f, u, h, i)], ch.mask[k], ch.data[k] - o, s)

LEMMA PairOfHalf ==
  ASSUME FastGeometry, NEW i \in 0 .. HalfChunk - 1
  PROVE  i \div 16 \in 0 .. HalfCoarse - 1
<1>1. HalfChunk \in Nat \ {0} /\ HalfChunk = 16 * HalfCoarse /\ HalfCoarse \in Nat
  BY Parts
<1> QED
  BY <1>1

LEMMA EncodesApart ==
  ASSUME FastGeometry, NEW f \in 0 .. NfreqCoarseTot - 1, NEW h \in Halves,
         NEW g \in 0 .. NfreqCoarseTot - 1, NEW e \in Halves, ~(f = g /\ h = e),
         NEW c, NEW x, HalfStored(x, c, g, e),
         DOMAIN c.scales = 0 .. NfreqCoarseTot * SlotsPerChunk - 1,
         DOMAIN c.offsets = 0 .. NfreqCoarseTot * SlotsPerChunk - 1,
         NEW ch, NEW data, Encodes(ch, c.scales, c.offsets, data, f, h)
  PROVE  Encodes(ch, x.scales, x.offsets, data, f, h)
<1>1. PICK s, o : /\ x.scales = Memcpy(c.scales, OutAt(g, e), s, 0, HalfCoarse)
                  /\ x.offsets = Memcpy(c.offsets, OutAt(g, e), o, 0, HalfCoarse)
  BY DEF HalfStored
<1>11. /\ HalfHolds(Memcpy(c.scales, OutAt(g, e), s, 0, HalfCoarse), c.scales, g, e, s)
       /\ HalfHolds(Memcpy(c.offsets, OutAt(g, e), o, 0, HalfCoarse), c.offsets, g, e, o)
  BY HalfApart
<1>2. ASSUME NEW i \in 0 .. HalfChunk - 1
      PROVE  LET p == OutAt(f, h) + (i \div 16)
             IN  x.scales[p] = c.scales[p] /\ x.offsets[p] = c.offsets[p]
  <2> DEFINE q == i \div 16
             p == OutAt(f, h) + q
  <2>1. q \in 0 .. HalfCoarse - 1
    BY PairOfHalf
  <2> HIDE DEF q
  <2>2. Memcpy(c.scales, OutAt(g, e), s, 0, HalfCoarse)[p] = c.scales[p]
    BY <1>11, <2>1, Zenon DEF HalfHolds
  <2>3. Memcpy(c.offsets, OutAt(g, e), o, 0, HalfCoarse)[p] = c.offsets[p]
    BY <1>11, <2>1, Zenon DEF HalfHolds
  <2> QED
    BY <1>1, <2>2, <2>3, Zenon DEF q
<1> SUFFICES ASSUME NEW u \in 0 .. Nupfreq - 1, NEW i \in 0 .. HalfChunk - 1
             PROVE  LET k == u * HalfChunk + i
                        s1 == x.scales[OutAt(f, h) + (i \div 16)]
                        o1 == x.offsets[OutAt(f, h) + (i \div 16)]
                    IN  /\ s1 \in Nat \ {0} /\ o1 \in Int /\ ch.data[k] \in Int
                        /\ Rounded1(data[Spot(f, u, h, i)], ch.mask[k], ch.data[k] - o1, s1)
  BY Zenon DEF Encodes
<1> QED
  BY <1>2, Zenon DEF Encodes

LEMMA EncodesRows ==
  ASSUME FastGeometry, NEW f \in 0 .. NfreqCoarseTot - 1, NEW h \in Halves,
         NEW g \in 0 .. NfreqCoarseTot - 1, NEW e \in Halves, ~(f = g /\ h = e),
         NEW a, DOMAIN a = 0 .. NfreqCoarseTot * Nupfreq * NtPerChunk - 1,
         NEW r, NEW out, RowsHold(r, a, g, e, out, Nupfreq),
         NEW ch, NEW scales, NEW offsets, Encodes(ch, scales, offsets, a, f, h)
  PROVE  Encodes(ch, scales, offsets, r, f, h)
<1>1. ASSUME NEW u \in 0 .. Nupfreq - 1, NEW i \in 0 .. HalfChunk - 1
      PROVE  r[Spot(f, u, h, i)] = a[Spot(f, u, h, i)]
  <2>1. Spot(f, u, h, i) \in DOMAIN a
    BY SpotIsPlace
  <2>2. ASSUME NEW v \in 0 .. Nupfreq - 1, NEW j \in 0 .. HalfChunk - 1
        PROVE  Spot(f, u, h, i) # Spot(g, v, e, j)
    <3> SUFFICES ASSUME Spot(f, u, h, i) = Spot(g, v, e, j) PROVE FALSE
      OBVIOUS
    <3>1. f \in Nat /\ g \in Nat
      OBVIOUS
    <3>2. f = g /\ h = e
      BY <3>1, SameSpot
    <3> QED
      BY <3>2
  <2> QED
    BY <2>1, <2>2, Zenon DEF RowsHold
<1> QED
  BY <1>1, Zenon DEF Encodes

LEMMA EncodesNew ==
  ASSUME FastGeometry, NEW f \in 0 .. NfreqCoarseTot - 1, NEW h \in Halves,
         NEW c, Scaled(c), Ints(c.offsets), DOMAIN c.offsets = 0 .. NfreqCoarseTot * SlotsPerChunk - 1,
         \A p \in 0 .. HalfCoarse - 1 : c.scales[OutAt(f, h) + p] = c.ds_w2[p],
         NEW ch, c.ds_data = ch.data, c.ds_mask = ch.mask,
         NEW a, NEW r, NEW out \in {FastLevels(c, f, h), SlowLevels(c, f, h)},
         RowsHold(r, a, f, h, out, Nupfreq)
  PROVE  Encodes(ch, c.scales, c.offsets, r, f, h)
<1> SUFFICES ASSUME NEW u \in 0 .. Nupfreq - 1, NEW i \in 0 .. HalfChunk - 1
             PROVE  LET k == u * HalfChunk + i
                        s == c.scales[OutAt(f, h) + (i \div 16)]
                        o == c.offsets[OutAt(f, h) + (i \div 16)]
                    IN  /\ s \in Nat \ {0} /\ o \in Int /\ ch.data[k] \in Int
                        /\ Rounded1(r[Spot(f, u, h, i)], ch.mask[k], ch.data[k] - o, s)
  BY Zenon DEF Encodes
<1> DEFINE k == u * HalfChunk + i
           p == i \div 16
           s == c.ds_w2[p]
           o == c.offsets[OutAt(f, h) + p]
<1>1. /\ p \in 0 .. HalfCoarse - 1 /\ s \in Nat \ {0} /\ o \in Int
      /\ c.ds_data[k] \in Int
      /\ \A q \in {FastLevels(c, f, h)[k], SlowLevels(c, f, h)[k]} :
           Rounded1(q, c.ds_mask[k], c.ds_data[k] - o, s)
  BY LevelsAre
<1>2. r[Spot(f, u, h, i)] = out[k]
  BY Zenon DEF RowsHold
<1> HIDE DEF k, p
<1>3. c.scales[OutAt(f, h) + p] = s
  BY <1>1, Zenon
<1>4. out[k] \in {FastLevels(c, f, h)[k], SlowLevels(c, f, h)[k]}
  OBVIOUS
<1>5. Rounded1(out[k], c.ds_mask[k], c.ds_data[k] - o, s)
  BY <1>1, <1>4, Zenon
<1> QED
  BY <1>1, <1>2, <1>3, <1>5, Zenon DEF k, p

-----------------------------------------------------------------------------
(* The downsampled chunk after each kernel: the halves of channels that    *)
(* are complete hold their averages, in either class; what kernel 1 left   *)
(* for kernels 2 and 3 is of the half they work on.                        *)
HalfDone(s, f, h) ==
  s.kernel > 3 \/ (s.kernel > 0 /\ (f < s.freq \/ (f = s.freq /\ h < s.half)))

AverageInv ==
  /\ stage.kernel \in {2, 3} =>
       LET ch == HalvedChannel(chunk["fast"][stage.half], stage.freq)
       IN  down["fast"].ds_data = ch.data /\ down["fast"].ds_mask = ch.mask
  /\ stage.kernel = 3 =>
       \A p \in 0 .. HalfCoarse - 1 :
         down["fast"].scales[OutAt(stage.freq, stage.half) + p] = down["fast"].ds_w2[p]
  /\ \A f \in Channels, h \in Halves : HalfDone(stage, f, h) =>
       \A impl \in Impls :
         Encodes(HalvedChannel(chunk["fast"][h], f), down["fast"].scales, down["fast"].offsets,
                 down[impl].data, f, h)
  /\ stage.kernel = 5 =>
       \A j \in 0 .. NrfiFreq - 1, h \in Halves, i \in 0 .. HalfChunk - 1 :
         down["fast"].rfi_mask[BitAt(j, h, i)] = SlowBits(chunk["fast"], h, j)[i]

LEMMA Kernel12Averages ==
  ASSUME FastGeometry, StageInv, ShapeInv, ReferenceInv, AverageInv, Downsample,
         stage.kernel = 1 \/ stage.kernel = 2
  PROVE  AverageInv'
<1> DEFINE c == down["fast"]
           d == down["reference"]
           x == down'["fast"]
           y == down'["reference"]
           f == stage.freq
           h == stage.half
           src == chunk["fast"][h]
           ref == chunk["reference"][h]
           ch == HalvedChannel(src, f)
<1>1. /\ x = RunKernel("fast", stage) /\ y = RunKernel("reference", stage)
      /\ stage' = NextStage(stage) /\ UNCHANGED chunk
  BY DEF Downsample, Impls
<1>2. /\ f \in 0 .. NfreqCoarseTot - 1 /\ h \in Halves
      /\ stage' = Kernel(stage.kernel + 1, f, h)
      /\ stage'.kernel = stage.kernel + 1 /\ stage'.freq = f /\ stage'.half = h
  <2>1. f \in 0 .. NfreqCoarseTot - 1 /\ h \in Halves
    BY DEF StageInv, Kernel, Filling, Finished
  <2>2. stage' = Kernel(stage.kernel + 1, f, h)
    BY <1>1 DEF NextStage
  <2> QED
    BY <2>1, <2>2 DEF Kernel
<1>3. /\ Alike(c, d, DownFields) /\ Levels(c) /\ Shaped(c, BlankChunk(2, FirstIchunk))
      /\ stage.kernel = 2 => Averaged(c)
      /\ Shaped(src, BlankChunk(1, FirstIchunk + h)) /\ Alike(src, ref, Counted) /\ Numbers(src)
  BY <1>2 DEF ReferenceInv, ShapeInv, PairShaped, PairAlike
<1>4. /\ DOMAIN c.scales = 0 .. NfreqCoarseTot * SlotsPerChunk - 1
      /\ DOMAIN c.offsets = 0 .. NfreqCoarseTot * SlotsPerChunk - 1
  BY <1>3, Domains
<1>5. stage.kernel = 2 => c.ds_data = ch.data /\ c.ds_mask = ch.mask
  BY DEF AverageInv
<1> HIDE DEF src, ref, ch, f, h, x, y, c, d
<1>6. /\ x.data = c.data /\ y.data = d.data /\ HalfStored(x, c, f, h)
      /\ x.ds_data = ch.data /\ x.ds_mask = ch.mask
      /\ stage.kernel = 2 => x.scales = Memcpy(c.scales, OutAt(f, h), x.ds_w2, 0, HalfCoarse)
  <2>1. CASE stage.kernel = 1
    <3>1. x = RunKernel1("fast", c, src, f, h) /\ y = RunKernel1("reference", d, ref, f, h)
      BY <1>1, <2>1 DEF RunKernel, c, d, f, h, src, ref
    <3>2. /\ x.data = c.data /\ y.data = d.data /\ HalfStored(x, c, f, h)
          /\ x.ds_data = HalvedChannel(src, f).data /\ x.ds_mask = HalvedChannel(src, f).mask
      BY <1>2, <1>3, <3>1, Kernel1Alike
    <3> QED
      BY <2>1, <3>2 DEF ch
  <2>2. CASE stage.kernel = 2
    <3>1. x = RunKernel2("fast", c, f, h) /\ y = RunKernel2("reference", d, f, h)
      BY <1>1, <2>2 DEF RunKernel, c, d, f, h
    <3>2. Averaged(c)
      BY <1>3, <2>2
    <3>3. /\ x.data = c.data /\ y.data = d.data /\ HalfStored(x, c, f, h)
          /\ x.ds_data = c.ds_data /\ x.ds_mask = c.ds_mask
          /\ x.scales = Memcpy(c.scales, OutAt(f, h), x.ds_w2, 0, HalfCoarse)
      BY <1>2, <1>3, <3>1, <3>2, Kernel2Alike
    <3> QED
      BY <1>5, <2>2, <3>3
  <2> QED
    BY <2>1, <2>2
<1>7. ASSUME stage.kernel = 2, NEW p \in 0 .. HalfCoarse - 1
      PROVE  x.scales[OutAt(f, h) + p] = x.ds_w2[p]
  <2>1. HalfHolds(Memcpy(c.scales, OutAt(f, h), x.ds_w2, 0, HalfCoarse), c.scales, f, h, x.ds_w2)
    BY <1>2, <1>4, HalfApart
  <2> QED
    BY <1>2, <1>6, <1>7, <2>1, Zenon DEF HalfHolds
<1>8. ASSUME NEW F \in Channels, NEW H \in Halves, HalfDone(stage', F, H), NEW impl \in Impls
      PROVE  Encodes(HalvedChannel(chunk["fast"][H], F), x.scales, x.offsets, down'[impl].data, F, H)
  <2>1. HalfDone(stage, F, H) /\ ~(F = f /\ H = h)
    <3>1. stage.kernel + 1 <= 3 /\ stage.kernel > 0
      OBVIOUS
    <3>2. F < f \/ (F = f /\ H < h)
      BY <1>2, <1>8, <3>1 DEF HalfDone
    <3> QED
      BY <1>2, <3>1, <3>2 DEF HalfDone, f, h, Channels, Halves
  <2>2. Encodes(HalvedChannel(chunk["fast"][H], F), c.scales, c.offsets, down[impl].data, F, H)
    BY <2>1, Zenon DEF AverageInv, c
  <2>3. down'[impl].data = down[impl].data
    BY <1>6 DEF Impls, c, d, x, y
  <2>4. F \in 0 .. NfreqCoarseTot - 1
    BY DEF Channels
  <2>5. Encodes(HalvedChannel(chunk["fast"][H], F), x.scales, x.offsets, down[impl].data, F, H)
    <3> DEFINE halved == HalvedChannel(chunk["fast"][H], F)
               data == down[impl].data
    <3>1. Encodes(halved, c.scales, c.offsets, data, F, H) /\ HalfStored(x, c, f, h)
          /\ f \in 0 .. NfreqCoarseTot - 1 /\ h \in Halves
      BY <1>2, <1>6, <2>2, Zenon
    <3> HIDE DEF halved, data
    <3>2. Encodes(halved, x.scales, x.offsets, data, F, H)
      BY <1>4, <2>1, <2>4, <3>1, EncodesApart
    <3> QED
      BY <3>2 DEF halved, data
  <2> QED
    BY <2>3, <2>5, Zenon
<1>9. x.ds_data = HalvedChannel(chunk'["fast"][stage'.half], stage'.freq).data
      /\ x.ds_mask = HalvedChannel(chunk'["fast"][stage'.half], stage'.freq).mask
  BY <1>1, <1>2, <1>6, Zenon DEF ch, src
<1>10. stage'.kernel = 3 => \A p \in 0 .. HalfCoarse - 1 :
                              x.scales[OutAt(stage'.freq, stage'.half) + p] = x.ds_w2[p]
  BY <1>2, <1>7
<1>11. stage'.kernel # 5
  BY <1>2
<1>12. \A F \in Channels, H \in Halves : HalfDone(stage', F, H) =>
         \A impl \in Impls :
           Encodes(HalvedChannel(chunk'["fast"][H], F), x.scales, x.offsets, down'[impl].data, F, H)
  BY <1>1, <1>8, Zenon
<1> QED
  BY <1>9, <1>10, <1>11, <1>12, Zenon DEF AverageInv, x

LEMMA Kernel3Averages ==
  ASSUME FastGeometry, StageInv, ShapeInv, ReferenceInv, AverageInv, Downsample, stage.kernel = 3
  PROVE  AverageInv'
<1> DEFINE c == down["fast"]
           d == down["reference"]
           x == down'["fast"]
           y == down'["reference"]
           f == stage.freq
           h == stage.half
           ch == HalvedChannel(chunk["fast"][h], f)
<1>1. /\ x = RunKernel("fast", stage) /\ y = RunKernel("reference", stage)
      /\ stage' = NextStage(stage) /\ UNCHANGED chunk
  BY DEF Downsample, Impls
<1>2. f \in 0 .. NfreqCoarseTot - 1 /\ h \in Halves
  BY DEF StageInv, Kernel, Filling, Finished
<1>3. /\ Alike(c, d, DownFields) /\ Near(c.data, d.data) /\ Levels(c) /\ Scaled(c)
      /\ Shaped(c, BlankChunk(2, FirstIchunk))
  BY DEF ReferenceInv, ShapeInv
<1>4. /\ DOMAIN c.data = 0 .. NfreqCoarseTot * Nupfreq * NtPerChunk - 1
      /\ DOMAIN d.data = 0 .. NfreqCoarseTot * Nupfreq * NtPerChunk - 1
      /\ DOMAIN c.offsets = 0 .. NfreqCoarseTot * SlotsPerChunk - 1
  <2>1. /\ DOMAIN c.data = 0 .. NfreqCoarseTot * Nupfreq * NtPerChunk - 1
        /\ DOMAIN c.offsets = 0 .. NfreqCoarseTot * SlotsPerChunk - 1
    BY <1>3, Domains
  <2>2. DOMAIN d.data = DOMAIN c.data
    BY <1>3 DEF Near
  <2> QED
    BY <2>1, <2>2
<1>5. /\ c.ds_data = ch.data /\ c.ds_mask = ch.mask
      /\ \A p \in 0 .. HalfCoarse - 1 : c.scales[OutAt(f, h) + p] = c.ds_w2[p]
  BY DEF AverageInv
<1>6. x = RunKernel3("fast", c, f, h) /\ y = RunKernel3("reference", d, f, h)
  BY <1>1 DEF RunKernel
<1> HIDE DEF ch, f, h, x, y, c, d
<1> DEFINE fl == FastLevels(c, f, h)
           sl == SlowLevels(c, f, h)
<1>7. /\ x.scales = c.scales /\ x.offsets = c.offsets
      /\ x.data = LevelsStored(c.data, f, h, fl)
      /\ y.data = LevelsStored(d.data, f, h, sl)
  BY <1>2, <1>3, <1>6, Kernel3Alike
<1> HIDE DEF fl, sl
<1>8. /\ RowsHold(x.data, c.data, f, h, fl, Nupfreq)
      /\ RowsHold(y.data, d.data, f, h, sl, Nupfreq)
  <2>1. RowsHold(LevelsStored(c.data, f, h, fl), c.data, f, h, fl, Nupfreq)
    BY <1>2, <1>4, RowsStored
  <2>2. RowsHold(LevelsStored(d.data, f, h, sl), d.data, f, h, sl, Nupfreq)
    BY <1>2, <1>4, RowsStored
  <2> QED
    BY <1>7, <2>1, <2>2, Zenon
<1>9. ASSUME NEW F \in Channels, NEW H \in Halves, HalfDone(stage', F, H)
      PROVE  HalfDone(stage, F, H) \/ (F = f /\ H = h)
  <2>1. NfreqCoarseTot \in Nat /\ (h = 0 \/ h = 1) /\ (H = 0 \/ H = 1) /\ F \in Int /\ F < NfreqCoarseTot
        /\ f \in Int /\ f < NfreqCoarseTot
    BY <1>2, Geometry DEF Halves, Channels
  <2>2. stage.kernel = 3 /\ stage.freq = f /\ stage.half = h
    BY DEF f, h
  <2>3. (F < f \/ (F = f /\ H < h)) => HalfDone(stage, F, H)
    BY <2>2 DEF HalfDone
  <2>4. CASE h = 0
    <3>1. stage' = Kernel(1, f, 1)
      BY <1>1, <2>2, <2>4 DEF NextStage
    <3>2. stage'.kernel = 1 /\ stage'.freq = f /\ stage'.half = 1
      BY <3>1 DEF Kernel
    <3>3. F < f \/ (F = f /\ H = 0)
      BY <1>9, <2>1, <3>2 DEF HalfDone
    <3> QED
      BY <2>3, <2>4, <3>3
  <2>5. CASE h = 1 /\ f + 1 < NfreqCoarseTot
    <3>1. stage' = Kernel(1, f + 1, 0)
      BY <1>1, <2>1, <2>2, <2>5 DEF NextStage
    <3>2. stage'.kernel = 1 /\ stage'.freq = f + 1 /\ stage'.half = 0
      BY <3>1 DEF Kernel
    <3>3. F < f + 1
      BY <1>9, <2>1, <3>2 DEF HalfDone
    <3> QED
      BY <2>1, <2>3, <2>5, <3>3
  <2>6. CASE h = 1 /\ f + 1 = NfreqCoarseTot
    BY <2>1, <2>3, <2>6
  <2> QED
    BY <2>1, <2>4, <2>5, <2>6
<1>10. ASSUME NEW data, NEW r, NEW out \in {fl, sl},
              DOMAIN data = 0 .. NfreqCoarseTot * Nupfreq * NtPerChunk - 1,
              RowsHold(r, data, f, h, out, Nupfreq),
              NEW F \in Channels, NEW H \in Halves, NEW halved,
              halved = HalvedChannel(chunk["fast"][H], F),
              (F = f /\ H = h) \/ Encodes(halved, c.scales, c.offsets, data, F, H)
       PROVE  Encodes(halved, x.scales, x.offsets, r, F, H)
  <2>1. CASE F = f /\ H = h
    <3>1. halved = ch
      BY <1>10, <2>1 DEF ch
    <3>2. Ints(c.offsets)
      BY <1>3 DEF Levels
    <3>3. Encodes(ch, c.scales, c.offsets, r, f, h)
      BY <1>2, <1>3, <1>4, <1>5, <1>10, <3>2, EncodesNew DEF fl, sl
    <3> QED
      BY <1>7, <2>1, <3>1, <3>3, Zenon
  <2>2. CASE ~(F = f /\ H = h)
    <3>1. F \in 0 .. NfreqCoarseTot - 1 /\ Encodes(halved, c.scales, c.offsets, data, F, H)
      BY <1>10, <2>2 DEF Channels
    <3>2. Encodes(halved, c.scales, c.offsets, r, F, H)
      BY <1>2, <1>10, <2>2, <3>1, EncodesRows
    <3> QED
      BY <1>7, <3>2, Zenon
  <2> QED
    BY <2>1, <2>2
<1>11. ASSUME NEW F \in Channels, NEW H \in Halves, HalfDone(stage', F, H), NEW impl \in Impls
       PROVE  Encodes(HalvedChannel(chunk["fast"][H], F), x.scales, x.offsets, down'[impl].data, F, H)
  <2> DEFINE halved == HalvedChannel(chunk["fast"][H], F)
             data == down[impl].data
  <2>1. (F = f /\ H = h) \/ Encodes(halved, c.scales, c.offsets, data, F, H)
    <3>1. HalfDone(stage, F, H) => Encodes(halved, c.scales, c.offsets, data, F, H)
      BY Zenon DEF AverageInv, c
    <3> QED
      BY <1>9, <1>11, <3>1, Zenon
  <2>2. halved = HalvedChannel(chunk["fast"][H], F)
    OBVIOUS
  <2> HIDE DEF halved
  <2>3. CASE impl = "fast"
    <3>1. data = c.data /\ down'[impl].data = x.data
      BY <2>3 DEF c, x
    <3>2. Encodes(halved, x.scales, x.offsets, x.data, F, H)
      BY <1>4, <1>8, <1>10, <2>1, <2>2, <3>1, Zenon
    <3> QED
      BY <2>2, <3>1, <3>2, Zenon
  <2>4. CASE impl = "reference"
    <3>1. data = d.data /\ down'[impl].data = y.data
      BY <2>4 DEF d, y
    <3>2. Encodes(halved, x.scales, x.offsets, y.data, F, H)
      BY <1>4, <1>8, <1>10, <2>1, <2>2, <3>1, Zenon
    <3> QED
      BY <2>2, <3>1, <3>2, Zenon
  <2> QED
    BY <2>3, <2>4 DEF Impls
<1>12. stage'.kernel \in {1, 4}
  <2>1. h = 0 \/ h = 1
    BY <1>2 DEF Halves
  <2>2. f + 1 < NfreqCoarseTot \/ f + 1 = NfreqCoarseTot
    BY <1>2, Geometry
  <2>3. stage' = Kernel(1, f, 1) \/ stage' = Kernel(1, f + 1, 0) \/ stage' = Kernel(4, 0, 0)
    BY <1>1, <2>1, <2>2, Geometry DEF NextStage, f, h
  <2> QED
    BY <2>3 DEF Kernel
<1>13. \A F \in Channels, H \in Halves : HalfDone(stage', F, H) =>
         \A impl \in Impls :
           Encodes(HalvedChannel(chunk'["fast"][H], F), x.scales, x.offsets, down'[impl].data, F, H)
  BY <1>1, <1>11, Zenon
<1>14. stage'.kernel \notin {2, 3} /\ stage'.kernel # 3 /\ stage'.kernel # 5
  BY <1>12
<1> QED
  BY <1>13, <1>14, Zenon DEF AverageInv, x

LEMMA Kernel4Averages ==
  ASSUME FastGeometry, StageInv, ShapeInv, ReferenceInv, AverageInv, Downsample, stage = Kernel(4, 0, 0)
  PROVE  AverageInv'
<1> DEFINE c == down["fast"]
           d == down["reference"]
           x == down'["fast"]
           y == down'["reference"]
           srcs == chunk["fast"]
           refs == chunk["reference"]
<1>1. /\ x = RunKernel("fast", stage) /\ y = RunKernel("reference", stage)
      /\ stage' = NextStage(stage) /\ UNCHANGED chunk
  BY DEF Downsample, Impls
<1>2. stage.kernel = 4 /\ stage'.kernel = 5
  BY <1>1 DEF Kernel, NextStage, Finished
<1>3. Alike(c, d, DownFields) /\ Levels(c) /\ Shaped(c, BlankChunk(2, FirstIchunk))
  BY DEF ReferenceInv, ShapeInv
<1>4. ASSUME NEW h \in Halves
      PROVE  /\ srcs[h].rfi_mask = refs[h].rfi_mask /\ AreBits(srcs[h].rfi_mask)
             /\ DOMAIN srcs[h].rfi_mask = 0 .. NrfiFreq * NtPerChunk - 1
  <2> DEFINE u == srcs[h]
             v == refs[h]
  <2>1. Shaped(u, BlankChunk(1, FirstIchunk + h)) /\ Alike(u, v, Counted) /\ Numbers(u)
    BY DEF ShapeInv, PairShaped, ReferenceInv, PairAlike
  <2> HIDE DEF u, v
  <2>2. DOMAIN u.rfi_mask = 0 .. NrfiFreq * NtPerChunk - 1
    BY <2>1, Domains
  <2>3. u.rfi_mask = v.rfi_mask
    BY <2>1, SameArrays
  <2>4. AreBits(u.rfi_mask)
    BY <2>1 DEF Numbers
  <2> QED
    BY <2>2, <2>3, <2>4 DEF u, v
<1>5. x = RunRfiKernel("fast", c, srcs) /\ y = RunRfiKernel("reference", d, refs)
  BY <1>1, <1>2 DEF RunKernel
<1> HIDE DEF x, y, c, d, srcs, refs
<1>6. /\ x.data = c.data /\ y.data = d.data /\ x.scales = c.scales /\ x.offsets = c.offsets
      /\ x.rfi_mask = SlowMasks(c.rfi_mask, srcs)
  BY <1>3, <1>4, <1>5, RfiKernelAlike
<1>7. DOMAIN c.rfi_mask = 0 .. NrfiFreq * NtPerChunk - 1
  BY <1>3, Domains
<1>8. \A j \in 0 .. NrfiFreq - 1, h \in Halves, i \in 0 .. HalfChunk - 1 :
        x.rfi_mask[BitAt(j, h, i)] = SlowBits(srcs, h, j)[i]
  BY <1>6, <1>7, MasksAre
<1>9. ASSUME NEW F \in Channels, NEW H \in Halves, NEW impl \in Impls
      PROVE  Encodes(HalvedChannel(chunk["fast"][H], F), x.scales, x.offsets, down'[impl].data, F, H)
  <2>1. HalfDone(stage, F, H)
    BY <1>2 DEF HalfDone
  <2>2. Encodes(HalvedChannel(chunk["fast"][H], F), c.scales, c.offsets, down[impl].data, F, H)
    BY <2>1, Zenon DEF AverageInv, c
  <2>3. down'[impl].data = down[impl].data
    BY <1>6 DEF Impls, c, d, x, y
  <2> QED
    BY <1>6, <2>2, <2>3, Zenon
<1>10. \A F \in Channels, H \in Halves : HalfDone(stage', F, H) =>
         \A impl \in Impls :
           Encodes(HalvedChannel(chunk'["fast"][H], F), x.scales, x.offsets, down'[impl].data, F, H)
  BY <1>1, <1>9, Zenon
<1>11. \A j \in 0 .. NrfiFreq - 1, h \in Halves, i \in 0 .. HalfChunk - 1 :
         x.rfi_mask[BitAt(j, h, i)] = SlowBits(chunk'["fast"], h, j)[i]
  BY <1>1, <1>8, Zenon DEF srcs
<1>12. stage'.kernel \notin {2, 3} /\ stage'.kernel # 3
  BY <1>2
<1> QED
  BY <1>10, <1>11, <1>12, Zenon DEF AverageInv, x

(* Nothing is complete of a chunk that is not yet downsampled.             *)
LEMMA NothingDone ==
  ASSUME NEW s, s.kernel = 0 \/ s = Kernel(1, 0, 0)
  PROVE  s.kernel \in {0, 1} /\ \A f \in Channels, h \in Halves : ~HalfDone(s, f, h)
<1>1. s.kernel \in {0, 1} /\ (s.kernel = 1 => s.freq = 0 /\ s.half = 0)
  BY DEF Kernel
<1>2. ASSUME NEW f \in Channels, NEW h \in Halves PROVE ~HalfDone(s, f, h)
  BY <1>1 DEF HalfDone, Channels, Halves
<1> QED
  BY <1>1, <1>2

LEMMA AverageKept ==
  ASSUME FastGeometry, StageInv, ShapeInv, ReferenceInv, AverageInv, [Next]_vars
  PROVE  AverageInv'
<1>1. CASE Downsample
  <2>1. stage = Kernel(4, 0, 0) \/ stage.kernel = 1 \/ stage.kernel = 2 \/ stage.kernel = 3
    BY <1>1 DEF Downsample, StageInv, Kernel
  <2> QED
    BY <1>1, <2>1, Kernel12Averages, Kernel3Averages, Kernel4Averages
<1>2. CASE StartDownsample \/ ProcessPackets \/ FillMask
  <2>1. stage'.kernel = 0 \/ stage' = Kernel(1, 0, 0)
    <3>1. CASE StartDownsample
      BY <3>1 DEF StartDownsample
    <3>2. CASE ProcessPackets
      <4>1. incoming.npackets > 0 /\ UNCHANGED stage
        BY <3>2 DEF ProcessPackets
      <4> QED
        BY <4>1 DEF StageInv, Filling, Kernel
    <3>3. CASE FillMask
      BY <3>3 DEF FillMask, AllArrived, Filling, Kernel
    <3> QED
      BY <1>2, <3>1, <3>2, <3>3
  <2>2. stage'.kernel \in {0, 1} /\ \A f \in Channels, h \in Halves : ~HalfDone(stage', f, h)
    BY <2>1, NothingDone
  <2>3. stage'.kernel \notin {2, 3} /\ stage'.kernel # 3 /\ stage'.kernel # 5
    BY <2>2
  <2> QED
    BY <2>2, <2>3, Zenon DEF AverageInv
<1>3. CASE UNCHANGED <<chunk, down, stage>>
  BY <1>3 DEF AverageInv
<1>4. \/ Downsample \/ (StartDownsample \/ ProcessPackets \/ FillMask) \/ UNCHANGED <<chunk, down, stage>>
  BY DEF Next, Arrive, StrayArrives, WriteTemp, Rename, ReadFile, Done, vars, listVars, fileVars
<1> QED
  BY <1>1, <1>2, <1>3, <1>4

-----------------------------------------------------------------------------
(* What a pair of samples of a source, and what half of a downsampled      *)
(* channel, decode to.                                                     *)
FineOf(F, u) == F * Nupfreq + u

LEMMA FineIs ==
  ASSUME NEW F \in 0 .. NfreqCoarseTot - 1, NEW u \in 0 .. Nupfreq - 1
  PROVE  FineOf(F, u) \div Nupfreq = F /\ FineOf(F, u) \in Int
<1>1. Nupfreq \in Nat \ {0} /\ F \in Nat /\ u \in Nat
  BY Geometry
<1>2. (F * Nupfreq + u) \div Nupfreq = F
  BY <1>1, RowOf
<1> QED
  BY <1>1, <1>2 DEF FineOf

LEMMA SourcePair ==
  ASSUME FastGeometry, NEW binning, NEW ichunk, NEW src, Shaped(src, BlankChunk(binning, ichunk)),
         Numbers(src), NEW F \in 0 .. NfreqCoarseTot - 1, NEW u \in 0 .. Nupfreq - 1,
         NEW r \in 0 .. HalfChunk - 1
  PROVE  LET ch == HalvedChannel(src, F)
             k == u * HalfChunk + r
             x == DecodedSample(src, FineOf(F, u), 2 * r, 1)
             y == DecodedSample(src, FineOf(F, u), 2 * r + 1, 1)
         IN  /\ ch.mask[k] = IF x.weight = 1 /\ y.weight = 1 THEN -1 ELSE 0
             /\ x.weight = 1 /\ y.weight = 1 => ch.data[k] = (x.intensity + y.intensity) \div 2
<1> DEFINE m == Nupfreq * NtPerChunk
           from == F * Nupfreq * NtPerChunk
           d == Window(src.data, from, m)
           o == Window(src.offsets, F * SlotsPerChunk, SlotsPerChunk)
           s == Window(src.scales, F * SlotsPerChunk, SlotsPerChunk)
           ch == HalvedChannel(src, F)
           k == u * HalfChunk + r
           p == r \div 8
           l == F * SlotsPerChunk + p
           at == FineOf(F, u) * NtPerChunk
           a == src.data[at + 2 * r]
           b == src.data[at + (2 * r + 1)]
           sc == src.scales[l]
           of == src.offsets[l]
           x == DecodedSample(src, FineOf(F, u), 2 * r, 1)
           y == DecodedSample(src, FineOf(F, u), 2 * r + 1, 1)
<1>1. /\ HalfChunk \in Nat \ {0} /\ NtPerChunk = 2 * HalfChunk /\ HalfChunk = 16 * HalfCoarse
      /\ SlotsPerChunk = 2 * HalfCoarse /\ HalfCoarse \in Nat /\ Nupfreq \in Nat \ {0}
      /\ NfreqCoarseTot \in Nat \ {0} /\ F \in Nat /\ u \in Nat /\ NtPerChunk \in Nat \ {0}
  <2>1. /\ HalfChunk \in Nat \ {0} /\ NtPerChunk = 2 * HalfChunk /\ HalfChunk = 16 * HalfCoarse
        /\ SlotsPerChunk = 2 * HalfCoarse /\ HalfCoarse \in Nat
    BY Parts, Zenon
  <2> QED
    BY <2>1, Geometry
<1>2. p \in 0 .. SlotsPerChunk - 1 /\ (2 * r) \div 16 = p /\ (2 * r + 1) \div 16 = p
  BY <1>1
<1>3. l \in 0 .. NfreqCoarseTot * SlotsPerChunk - 1
  <2> HIDE DEF p
  <2> QED
    BY <1>1, <1>2, InPart
<1>4. k \in 0 .. Nupfreq * HalfChunk - 1 /\ k % HalfChunk = r
  <2>1. u * HalfChunk + r \in 0 .. Nupfreq * HalfChunk - 1
    BY <1>1, InPart
  <2>2. (u * HalfChunk + r) % HalfChunk = r
    BY <1>1, RowOf
  <2> QED
    BY <2>1, <2>2, Zenon
<1>5. 2 * k \in 0 .. m - 1 /\ 2 * k + 1 \in 0 .. m - 1 /\ from + 2 * k = at + 2 * r
      /\ from + (2 * k + 1) = at + (2 * r + 1)
  <2> DEFINE v == u * HalfChunk
             w == Nupfreq * HalfChunk
             g == F * Nupfreq
  <2>1. v \in Nat /\ w \in Nat /\ g \in Nat
    BY <1>1
  <2>2. m = 2 * w /\ k = v + r /\ k \in 0 .. w - 1
    BY <1>1, <1>4
  <2>3. from = 2 * (g * HalfChunk) /\ at = 2 * (g * HalfChunk) + 2 * v
    <3>1. from = g * (2 * HalfChunk) /\ at = (g + u) * (2 * HalfChunk)
      BY <1>1 DEF FineOf
    <3> HIDE DEF g, from, at
    <3> QED
      BY <1>1, <2>1, <3>1
  <2> DEFINE z == g * HalfChunk
  <2>4. z \in Nat
    <3> HIDE DEF g
    <3> QED
      BY <1>1, <2>1
  <2> HIDE DEF z, g, v, w, m, from, at, k
  <2> QED
    BY <2>1, <2>2, <2>3, <2>4 DEF z
<1>6. d[2 * k] = a /\ d[2 * k + 1] = b /\ o[p] = of /\ s[p] = sc
  <2> HIDE DEF m, k, p, at, from
  <2> QED
    BY <1>2, <1>5 DEF Window
<1>7. a \in Int /\ b \in Int /\ sc \in Int /\ of \in Int
  <2>1. at + 2 * r \in DOMAIN src.data /\ at + (2 * r + 1) \in DOMAIN src.data
    <3>1. 2 * r \in 0 .. NtPerChunk - 1 /\ 2 * r + 1 \in 0 .. NtPerChunk - 1
      BY <1>1
    <3>2. \A t \in 0 .. NtPerChunk - 1 : at + t \in 0 .. NfreqCoarseTot * Nupfreq * NtPerChunk - 1
      BY AtIsPlace DEF At, FineOf
    <3>3. DOMAIN src.data = 0 .. NfreqCoarseTot * Nupfreq * NtPerChunk - 1
      BY Domains
    <3> HIDE DEF at
    <3> QED
      BY <3>1, <3>2, <3>3
  <2>2. l \in DOMAIN src.scales /\ l \in DOMAIN src.offsets
    BY <1>3, Domains
  <2> HIDE DEF l, at
  <2> QED
    BY <2>1, <2>2 DEF Numbers, Ints
<1>8. src.nupfreq = Nupfreq /\ src.nt_per_packet = 16 /\ NtCoarse(src) = SlotsPerChunk
  <2>1. src.nupfreq = Nupfreq /\ src.nt_per_packet = NtPerPacket
    BY DEF Shaped, HeaderFields, BlankChunk, NewChunk
  <2>2. NtPerPacket = 16
    BY DEF FastGeometry
  <2> QED
    BY <2>1, <2>2 DEF NtCoarse, SlotsPerChunk
<1>9. /\ x = [intensity |-> sc * 1 * a + of * 1, weight |-> IF Masked(a) THEN 0 ELSE 1]
      /\ y = [intensity |-> sc * 1 * b + of * 1, weight |-> IF Masked(b) THEN 0 ELSE 1]
  <2>1. FineOf(F, u) \div Nupfreq = F
    BY FineIs
  <2> HIDE DEF p
  <2> QED
    BY <1>2, <1>8, <2>1, Zenon DEF DecodedSample
<1>10. /\ PairSample(d, o, s, k).mask = (IF PairValid(d, k) THEN -1 ELSE 0)
       /\ PairValid(d, k) => PairSample(d, o, s, k).data = ((sc * (a + b)) \div 2) + of
       /\ PairValid(d, k) <=> ~Masked(a) /\ ~Masked(b)
  <2> HIDE DEF k, d, o, s, sc, of
  <2>1. PairMean(d, o, s, k) = ((s[p] * (d[2 * k] + d[2 * k + 1])) \div 2) + o[p]
    BY <1>4, Zenon DEF PairMean
  <2> HIDE DEF a, b, p
  <2>2. PairMean(d, o, s, k) = ((sc * (a + b)) \div 2) + of
    BY <1>6, <2>1, Zenon
  <2>3. PairValid(d, k) <=> ~Masked(a) /\ ~Masked(b)
    BY <1>6, Zenon DEF PairValid
  <2> QED
    BY <2>2, <2>3 DEF PairSample
<1>11. ch.mask[k] = PairSample(d, o, s, k).mask /\ ch.data[k] = PairSample(d, o, s, k).data
  <2> HIDE DEF k, d, o, s
  <2>1. ch = Kernel1(d, o, s, Nupfreq)
    BY DEF HalvedChannel, d, o, s
  <2> HIDE DEF ch
  <2>2. /\ ch.mask = [i \in 0 .. Nupfreq * HalfChunk - 1 |-> PairSample(d, o, s, i).mask]
        /\ ch.data = [i \in 0 .. Nupfreq * HalfChunk - 1 |-> PairSample(d, o, s, i).data]
    BY <2>1 DEF Kernel1
  <2> QED
    BY <1>4, <2>2, Zenon
<1>12. ((sc * 1 * a + of * 1) + (sc * 1 * b + of * 1)) \div 2 = ((sc * (a + b)) \div 2) + of
  <2> HIDE DEF a, b, sc, of
  <2> DEFINE e == sc * a
             f == sc * b
  <2>1. e \in Int /\ f \in Int /\ sc * (a + b) = e + f /\ sc * 1 * a = e /\ sc * 1 * b = f
    BY <1>7
  <2> HIDE DEF e, f
  <2>2. ((e + of) + (f + of)) \div 2 = ((e + f) \div 2) + of
    BY <1>7, <2>1
  <2>3. of * 1 = of
    BY <1>7
  <2> QED
    BY <2>1, <2>2, <2>3
<1> HIDE DEF a, b, sc, of, d, o, s, k, ch, x, y
<1>13. /\ x.weight = 1 <=> ~Masked(a)
       /\ y.weight = 1 <=> ~Masked(b)
       /\ x.intensity = sc * 1 * a + of * 1 /\ y.intensity = sc * 1 * b + of * 1
  BY <1>9
<1>14. (x.intensity + y.intensity) \div 2 = ((sc * (a + b)) \div 2) + of
  BY <1>12, <1>13, Zenon
<1>15. /\ ch.mask[k] = IF x.weight = 1 /\ y.weight = 1 THEN -1 ELSE 0
       /\ x.weight = 1 /\ y.weight = 1 => ch.data[k] = (x.intensity + y.intensity) \div 2
  BY <1>10, <1>11, <1>13, <1>14, Zenon
<1> QED
  BY <1>15 DEF x, y, k, ch

LEMMA HalfSample ==
  ASSUME FastGeometry, NEW c, c.nupfreq = Nupfreq, c.nt_per_packet = 16,
         NEW F \in 0 .. NfreqCoarseTot - 1, NEW u \in 0 .. Nupfreq - 1, NEW h \in Halves,
         NEW r \in 0 .. HalfChunk - 1
  PROVE  LET fine == FineOf(F, u)
             it == h * HalfChunk + r
             q == c.data[Spot(F, u, h, r)]
             s == c.scales[OutAt(F, h) + (r \div 16)]
             o == c.offsets[OutAt(F, h) + (r \div 16)]
         IN  /\ fine * NtPerChunk + it = Spot(F, u, h, r)
             /\ DecodedSample(c, fine, it, 1) =
                  [intensity |-> s * 1 * q + o * 1, weight |-> IF Masked(q) THEN 0 ELSE 1]
             /\ ScaleOf(c, fine, it) = s
<1> DEFINE fine == FineOf(F, u)
           it == h * HalfChunk + r
           l == OutAt(F, h) + (r \div 16)
<1>1. /\ HalfChunk \in Nat \ {0} /\ HalfChunk = 16 * HalfCoarse /\ HalfCoarse \in Nat
      /\ SlotsPerChunk = 2 * HalfCoarse /\ NtPerPacket = 16 /\ (h = 0 \/ h = 1) /\ F \in Nat
  <2>1. HalfChunk \in Nat \ {0} /\ HalfChunk = 16 * HalfCoarse /\ HalfCoarse \in Nat
        /\ SlotsPerChunk = 2 * HalfCoarse
    BY Parts, Zenon
  <2> QED
    BY <2>1 DEF FastGeometry, Halves
<1>2. it \div 16 = h * HalfCoarse + (r \div 16)
  <2>1. it = 16 * (h * HalfCoarse) + r
    BY <1>1
  <2> DEFINE g == h * HalfCoarse
  <2>2. g \in Nat
    BY <1>1
  <2> HIDE DEF g
  <2>3. (16 * g + r) \div 16 = g + (r \div 16)
    BY <2>2
  <2> QED
    BY <2>1, <2>3 DEF g
<1>3. F * SlotsPerChunk + (it \div 16) = l
  <2> DEFINE g == h * HalfCoarse
             t == F * SlotsPerChunk
             e == r \div 16
  <2>1. g \in Int /\ t \in Int /\ e \in Int
    BY <1>1
  <2>2. it \div 16 = g + e /\ l = (t + g) + e
    BY <1>2 DEF OutAt
  <2> HIDE DEF g, t, e, it, l
  <2>3. t + (it \div 16) = l
    BY <2>1, <2>2
  <2> QED
    BY <2>3 DEF t
<1>4. fine \div Nupfreq = F
  BY FineIs
<1>5. fine * NtPerChunk + it = Spot(F, u, h, r)
  BY Zenon DEF Spot, At, FineOf
<1>6. NtCoarse(c) = SlotsPerChunk
  BY <1>1 DEF NtCoarse, SlotsPerChunk
<1> HIDE DEF fine, it, l
<1>7. ScaleOf(c, fine, it) = c.scales[l]
  BY <1>1, <1>3, <1>4, Zenon DEF ScaleOf
<1>8. DecodedSample(c, fine, it, 1) =
        [intensity |-> c.scales[l] * 1 * c.data[Spot(F, u, h, r)] + c.offsets[l] * 1,
         weight |-> IF Masked(c.data[Spot(F, u, h, r)]) THEN 0 ELSE 1]
  BY <1>3, <1>4, <1>5, <1>6, Zenon DEF DecodedSample
<1> QED
  BY <1>5, <1>7, <1>8, Zenon DEF fine, it, l

(* A byte that stands for the average of two valid samples, or is lost.    *)
LEMMA LossIs ==
  ASSUME NEW s \in Nat \ {0}, NEW o \in Int, NEW average \in Int, NEW q, NEW v \in BOOLEAN,
         NEW mask, mask = IF v THEN -1 ELSE 0, NEW x, v => x = average,
         Rounded1(q, mask, x - o, s)
  PROVE  LET offset == (s * 1 * q + o * 1) - s * q
         IN  /\ ~Masked(q) => v /\ 2 * Distance(s * 1 * q + o * 1, average) <= s
             /\ Masked(q) /\ v => average <= offset + s \/ average >= offset + 254 * s
<1>1. CASE ~v
  <2>1. q = 0
    BY <1>1 DEF Rounded1
  <2> QED
    BY <1>1, <2>1 DEF Masked
<1>2. CASE v
  <2> DEFINE l == average - o
             z == s * q
  <2>1. Rounds(q, Clipped(l, s), s) /\ l \in Int
    BY <1>2 DEF Rounded1
  <2>2. /\ q \in 0 .. 255
        /\ ~Masked(q) => 2 * (s * q) - 2 * l \in -s .. s
        /\ q = 0 => 2 * l <= s
        /\ q = 255 => 2 * l >= 509 * s
    <3> HIDE DEF l
    <3> QED
      BY <2>1, LevelIs
  <2>3. z \in Int /\ s * 1 * q + o * 1 = z + o /\ (s * 1 * q + o * 1) - s * q = o
    <3>1. q \in Int /\ z \in Int
      BY <2>2
    <3>2. s * 1 * q = z /\ o * 1 = o
      BY <3>1
    <3> HIDE DEF z
    <3>3. (s * 1 * q + o * 1) - z = o /\ s * 1 * q + o * 1 = z + o
      BY <3>1, <3>2
    <3> QED
      BY <3>1, <3>3 DEF z
  <2>4. ~Masked(q) => 2 * Distance(z + o, average) <= s
    <3>1. ~Masked(q) => 2 * z - 2 * l \in -s .. s
      BY <2>2
    <3> HIDE DEF z
    <3> QED
      BY <2>3, <3>1 DEF Distance
  <2>5. Masked(q) => average <= o + s \/ average >= o + 254 * s
    BY <2>2 DEF Masked
  <2> HIDE DEF z
  <2> QED
    BY <1>2, <2>3, <2>4, <2>5, Zenon
<1> QED
  BY <1>1, <1>2

(* Decoding does not depend on the class. *)
LEMMA SameDecoded ==
  ASSUME NEW c, NEW d, Alike(c, d, Counted), NEW fine, NEW it
  PROVE  DecodedSample(c, fine, it, 1) = DecodedSample(d, fine, it, 1)
<1>1. c.nupfreq = d.nupfreq /\ c.nt_per_packet = d.nt_per_packet
  BY DEF Alike, Counted, AllFields, HeaderFields
<1>2. c.data = d.data /\ c.scales = d.scales /\ c.offsets = d.offsets
  BY SameArrays
<1> QED
  BY <1>1, <1>2, Zenon DEF DecodedSample, NtCoarse

LEMMA AveragesAreRight ==
  ASSUME FastGeometry, ShapeInv, ReferenceInv, AverageInv, stage = Finished
  PROVE  DownsampledIsAverage
<1> SUFFICES ASSUME NEW impl \in Impls, NEW it \in 0 .. NtPerChunk - 1
             PROVE  LET src == chunk[impl][it \div HalfChunk]
                        j   == 2 * (it % HalfChunk)
                    IN  /\ \A fine \in FineChannels :
                             LET x == DecodedSample(src, fine, j, 1)
                                 y == DecodedSample(src, fine, j + 1, 1)
                                 d == DecodedSample(down[impl], fine, it, 1)
                                 scale == ScaleOf(down[impl], fine, it)
                                 average == (x.intensity + y.intensity) \div 2
                                 offset == d.intensity - scale * down[impl].data[fine * NtPerChunk + it]
                             IN  /\ d.weight = 1 => /\ x.weight = 1 /\ y.weight = 1
                                                     /\ 2 * Distance(d.intensity, average) <= scale
                                 /\ d.weight = 0 /\ x.weight = 1 /\ y.weight = 1 =>
                                      \/ average <= offset + scale
                                      \/ average >= offset + 254 * scale
                        /\ \A k \in 0 .. NrfiFreq - 1 :
                             down[impl].rfi_mask[k * NtPerChunk + it] = 1 <=>
                               /\ src.rfi_mask[k * NtPerChunk + j] = 1
                               /\ src.rfi_mask[k * NtPerChunk + j + 1] = 1
  BY Zenon DEF DownsampledIsAverage
<1> DEFINE h == it \div HalfChunk
           r == it % HalfChunk
           j == 2 * r
           src == chunk[impl][h]
           one == chunk["fast"][h]
           c == down[impl]
           g == down["fast"]
<1>1. /\ HalfChunk \in Nat \ {0} /\ NtPerChunk = 2 * HalfChunk /\ NtPerPacket = 16
      /\ Nupfreq \in Nat \ {0} /\ NfreqCoarseTot \in Nat \ {0} /\ NtPerChunk \in Nat \ {0}
  <2>1. HalfChunk \in Nat \ {0} /\ NtPerChunk = 2 * HalfChunk
    BY Parts, Zenon
  <2> QED
    BY <2>1, Geometry DEF FastGeometry
<1>2. h \in Halves /\ r \in 0 .. HalfChunk - 1 /\ it = h * HalfChunk + r
  <2>1. it \in 0 .. 2 * HalfChunk - 1
    BY <1>1
  <2>2. h \in 0 .. 2 - 1 /\ r \in 0 .. HalfChunk - 1
    BY <1>1, <2>1, BlockNumber
  <2>3. it = HalfChunk * h + r
    BY <1>1
  <2>4. h \in Nat
    BY <2>2
  <2> HIDE DEF h, r
  <2>5. HalfChunk * h = h * HalfChunk
    BY <1>1, <2>4
  <2> QED
    BY <2>2, <2>3, <2>5 DEF Halves
<1> HIDE DEF h, r
<1>3. /\ Shaped(one, BlankChunk(1, FirstIchunk + h)) /\ Numbers(one)
      /\ src = one \/ Alike(one, src, Counted)
  BY <1>2 DEF ShapeInv, PairShaped, ReferenceInv, PairAlike, Impls
<1>4. /\ Shaped(g, BlankChunk(2, FirstIchunk))
      /\ c = g \/ Alike(g, c, DownFields)
  BY DEF ShapeInv, ReferenceInv, Impls
<1>5. stage.kernel = 5
  BY DEF Finished, Kernel
<1>6. \A F \in Channels :
        Encodes(HalvedChannel(one, F), g.scales, g.offsets, c.data, F, h)
  <2>1. \A F \in Channels : HalfDone(stage, F, h)
    BY <1>5 DEF HalfDone
  <2> QED
    BY <1>2, <2>1, Zenon DEF AverageInv
<1>7. \A k \in 0 .. NrfiFreq - 1 : g.rfi_mask[BitAt(k, h, r)] = SlowBits(chunk["fast"], h, k)[r]
  BY <1>2, <1>5, Zenon DEF AverageInv
<1>8. /\ c.scales = g.scales /\ c.offsets = g.offsets /\ c.rfi_mask = g.rfi_mask
      /\ c.nupfreq = g.nupfreq /\ c.nt_per_packet = g.nt_per_packet
  <2> HIDE DEF c, g
  <2>1. CASE Alike(g, c, DownFields)
    <3>1. c.scales = g.scales /\ c.offsets = g.offsets /\ c.rfi_mask = g.rfi_mask
      BY <2>1, SameArrays
    <3>2. c.nupfreq = g.nupfreq /\ c.nt_per_packet = g.nt_per_packet
      BY <2>1 DEF Alike, DownFields, AllFields, HeaderFields
    <3> QED
      BY <3>1, <3>2
  <2> QED
    BY <1>4, <2>1
<1>9. c.nupfreq = Nupfreq /\ c.nt_per_packet = 16
  <2>1. g.nupfreq = Nupfreq /\ g.nt_per_packet = NtPerPacket
    BY <1>4 DEF Shaped, HeaderFields, BlankChunk, NewChunk
  <2> QED
    BY <1>1, <1>8, <2>1
<1>10. src.rfi_mask = one.rfi_mask /\ \A fine, t : DecodedSample(src, fine, t, 1) = DecodedSample(one, fine, t, 1)
  <2> HIDE DEF src, one
  <2>1. CASE Alike(one, src, Counted)
    <3>1. src.rfi_mask = one.rfi_mask
      BY <2>1, SameArrays
    <3>2. \A fine, t : DecodedSample(src, fine, t, 1) = DecodedSample(one, fine, t, 1)
      BY <2>1, SameDecoded
    <3> QED
      BY <3>1, <3>2
  <2> QED
    BY <1>3, <2>1
<1> HIDE DEF src, one, c, g
<1>11. ASSUME NEW fine \in FineChannels
       PROVE  LET x == DecodedSample(src, fine, j, 1)
                  y == DecodedSample(src, fine, j + 1, 1)
                  d == DecodedSample(c, fine, it, 1)
                  scale == ScaleOf(c, fine, it)
                  average == (x.intensity + y.intensity) \div 2
                  offset == d.intensity - scale * c.data[fine * NtPerChunk + it]
              IN  /\ d.weight = 1 => /\ x.weight = 1 /\ y.weight = 1
                                      /\ 2 * Distance(d.intensity, average) <= scale
                  /\ d.weight = 0 /\ x.weight = 1 /\ y.weight = 1 =>
                       \/ average <= offset + scale
                       \/ average >= offset + 254 * scale
  <2> DEFINE F == fine \div Nupfreq
             u == fine % Nupfreq
             k == u * HalfChunk + r
             ch == HalvedChannel(one, F)
             q == c.data[Spot(F, u, h, r)]
             s == c.scales[OutAt(F, h) + (r \div 16)]
             o == c.offsets[OutAt(F, h) + (r \div 16)]
             x == DecodedSample(one, fine, j, 1)
             y == DecodedSample(one, fine, j + 1, 1)
             d == DecodedSample(c, fine, it, 1)
             scale == ScaleOf(c, fine, it)
             average == (x.intensity + y.intensity) \div 2
             v == x.weight = 1 /\ y.weight = 1
  <2>1. F \in 0 .. NfreqCoarseTot - 1 /\ u \in 0 .. Nupfreq - 1 /\ fine = FineOf(F, u)
    <3>1. fine \in 0 .. NfreqCoarseTot * Nupfreq - 1
      BY DEF FineChannels
    <3>2. F \in 0 .. NfreqCoarseTot - 1 /\ u \in 0 .. Nupfreq - 1
      BY <1>1, <3>1, BlockNumber
    <3>3. fine = Nupfreq * F + u
      BY <1>1, <3>1
    <3>4. F \in Nat /\ u \in Nat
      BY <3>2
    <3> HIDE DEF F, u
    <3>5. F * Nupfreq = Nupfreq * F
      BY <1>1, <3>4
    <3> QED
      BY <3>2, <3>3, <3>5 DEF FineOf
  <2> HIDE DEF F, u
  <2>2. /\ ch.mask[k] = IF v THEN -1 ELSE 0
        /\ v => ch.data[k] = average
    <3> DEFINE x1 == DecodedSample(one, FineOf(F, u), 2 * r, 1)
               y1 == DecodedSample(one, FineOf(F, u), 2 * r + 1, 1)
    <3>1. /\ HalvedChannel(one, F).mask[u * HalfChunk + r] = IF x1.weight = 1 /\ y1.weight = 1 THEN -1 ELSE 0
          /\ x1.weight = 1 /\ y1.weight = 1 =>
               HalvedChannel(one, F).data[u * HalfChunk + r] = (x1.intensity + y1.intensity) \div 2
      BY <1>2, <1>3, <2>1, SourcePair
    <3>2. x1 = x /\ y1 = y
      BY <2>1, Zenon
    <3> HIDE DEF x1, y1, x, y
    <3> QED
      BY <3>1, <3>2, Zenon
  <2>3. /\ fine * NtPerChunk + it = Spot(F, u, h, r)
        /\ d = [intensity |-> s * 1 * q + o * 1, weight |-> IF Masked(q) THEN 0 ELSE 1]
        /\ scale = s
    <3> DEFINE t == h * HalfChunk + r
               fine1 == FineOf(F, u)
    <3>1. /\ fine1 * NtPerChunk + t = Spot(F, u, h, r)
          /\ DecodedSample(c, fine1, t, 1) =
               [intensity |-> s * 1 * q + o * 1, weight |-> IF Masked(q) THEN 0 ELSE 1]
          /\ ScaleOf(c, fine1, t) = s
      BY <1>2, <1>9, <2>1, HalfSample
    <3>2. t = it /\ fine1 = fine
      BY <1>2, <2>1, Zenon
    <3> HIDE DEF t, fine1, s, q, o
    <3> QED
      BY <3>1, <3>2, Zenon
  <2>4. /\ s \in Nat \ {0} /\ o \in Int /\ ch.data[k] \in Int
        /\ Rounded1(q, ch.mask[k], ch.data[k] - o, s)
    <3>1. F \in Channels
      BY <2>1 DEF Channels
    <3>2. Encodes(ch, c.scales, c.offsets, c.data, F, h)
      BY <1>6, <1>8, <3>1, Zenon
    <3> HIDE DEF ch
    <3> QED
      BY <1>2, <2>1, <3>2, Zenon DEF Encodes
  <2> HIDE DEF ch, k, q, s, o, d, scale, x, y
  <2>5. average \in Int \/ ~v
    BY <2>2, <2>4
  <2>6. d.intensity = s * 1 * q + o * 1 /\ d.weight = IF Masked(q) THEN 0 ELSE 1
    BY <2>3
  <2>7. LET offset == (s * 1 * q + o * 1) - s * q
        IN  /\ ~Masked(q) => v /\ 2 * Distance(s * 1 * q + o * 1, average) <= s
            /\ Masked(q) /\ v => average <= offset + s \/ average >= offset + 254 * s
    <3>1. CASE v
      <4> HIDE DEF average, v
      <4>1. v \in BOOLEAN /\ average \in Int
        BY <2>5, <3>1 DEF v
      <4> DEFINE mask == ch.mask[k]
                 z == ch.data[k]
      <4>2. mask = (IF v THEN -1 ELSE 0) /\ (v => z = average) /\ Rounded1(q, mask, z - o, s)
            /\ s \in Nat \ {0} /\ o \in Int
        BY <2>2, <2>4, Zenon DEF v
      <4> HIDE DEF mask, z
      <4> QED
        BY <4>1, <4>2, LossIs
    <3>2. CASE ~v
      <4>1. q = 0
        BY <2>2, <2>4, <3>2 DEF Rounded1
      <4> QED
        BY <3>2, <4>1 DEF Masked
    <3> QED
      BY <3>1, <3>2
  <2>8. c.data[fine * NtPerChunk + it] = q
    BY <2>3, Zenon DEF q
  <2> HIDE DEF average
  <2>9. /\ d.weight = 1 => /\ x.weight = 1 /\ y.weight = 1
                           /\ 2 * Distance(d.intensity, average) <= scale
        /\ d.weight = 0 /\ x.weight = 1 /\ y.weight = 1 =>
             \/ average <= (d.intensity - scale * c.data[fine * NtPerChunk + it]) + scale
             \/ average >= (d.intensity - scale * c.data[fine * NtPerChunk + it]) + 254 * scale
    <3>1. (d.weight = 1 => ~Masked(q)) /\ (d.weight = 0 => Masked(q))
      BY <2>6
    <3> QED
      BY <2>3, <2>6, <2>7, <2>8, <3>1, Zenon
  <2>10. x = DecodedSample(src, fine, j, 1) /\ y = DecodedSample(src, fine, j + 1, 1)
    BY <1>10, Zenon DEF x, y
  <2> QED
    BY <2>9, <2>10, Zenon DEF average, d, scale
<1>12. ASSUME NEW k \in 0 .. NrfiFreq - 1
       PROVE  c.rfi_mask[k * NtPerChunk + it] = 1 <=>
                /\ src.rfi_mask[k * NtPerChunk + j] = 1
                /\ src.rfi_mask[k * NtPerChunk + j + 1] = 1
  <2> DEFINE w == Window(one.rfi_mask, k * NtPerChunk, NtPerChunk)
             b == k * NtPerChunk
  <2>1. b + it = BitAt(k, h, r)
    BY <1>2, Zenon DEF BitAt
  <2>2. SlowBits(chunk["fast"], h, k)[r] = IF w[2 * r] = 1 /\ w[2 * r + 1] = 1 THEN 1 ELSE 0
    <3>1. r \in 0 .. (NtPerChunk \div 2) - 1
      BY <1>1, <1>2
    <3>2. SlowBits(chunk["fast"], h, k) = SlowRfiMask(w, NtPerChunk)
      BY Zenon DEF SlowBits, one
    <3> HIDE DEF w
    <3> QED
      BY <3>1, <3>2 DEF SlowRfiMask
  <2>3. /\ w[2 * r] = one.rfi_mask[b + 2 * r] /\ w[2 * r + 1] = one.rfi_mask[b + (2 * r + 1)]
        /\ b + (2 * r + 1) = b + j + 1
    <3>1. 2 * r \in 0 .. NtPerChunk - 1 /\ 2 * r + 1 \in 0 .. NtPerChunk - 1 /\ b \in Nat /\ r \in Nat
      BY <1>1, <1>2
    <3> HIDE DEF b
    <3>2. b + (2 * r + 1) = b + j + 1
      BY <3>1
    <3>3. w[2 * r] = one.rfi_mask[b + 2 * r] /\ w[2 * r + 1] = one.rfi_mask[b + (2 * r + 1)]
      BY <3>1 DEF Window, b
    <3> QED
      BY <3>2, <3>3
  <2>4. c.rfi_mask[b + it] = SlowBits(chunk["fast"], h, k)[r]
    BY <1>7, <1>8, <2>1, Zenon
  <2> HIDE DEF w, b
  <2>5. c.rfi_mask[b + it] = 1 <=> one.rfi_mask[b + j] = 1 /\ one.rfi_mask[b + j + 1] = 1
    BY <2>2, <2>3, <2>4
  <2> QED
    BY <1>10, <2>5, Zenon DEF b
<1> QED
  BY <1>11, <1>12, Zenon DEF src, c, h, r

(* Downsampling averages, in either class, for every geometry of the fast  *)
(* class, every stream and every content of the two source chunks: each    *)
(* kernel works on its own half of its own channel, the scale kernel 2     *)
(* chooses is the one kernel 3 divides by and leaves in the chunk, and no  *)
(* later kernel touches a half that is complete.                           *)
THEOREM DownsampledIsRight ==
  ASSUME FastGeometry
  PROVE  Spec => []DownsampledIsAverage
<1> DEFINE IInv == SlotsInv /\ StageInv /\ ShapeInv /\ ReferenceInv /\ AverageInv
<1>1. Init => IInv
  <2> SUFFICES ASSUME Init PROVE IInv
    OBVIOUS
  <2>1. SlotsInv
    BY DataPathAssumption DEF Init, SlotsInv, List!Empty
  <2>2. StageInv
    BY DEF Init, StageInv
  <2>3. ShapeInv
    BY BlankIsShaped DEF Init, ShapeInv, PairShaped, Impls
  <2>4. ReferenceInv
    BY ReferenceInit
  <2>5. AverageInv
    <3>1. stage.kernel = 0
      BY DEF Init, Filling, Kernel
    <3>2. stage.kernel \in {0, 1} /\ \A f \in Channels, h \in Halves : ~HalfDone(stage, f, h)
      BY <3>1, NothingDone
    <3>3. stage.kernel \notin {2, 3} /\ stage.kernel # 3 /\ stage.kernel # 5
      BY <3>1
    <3> QED
      BY <3>2, <3>3, Zenon DEF AverageInv
  <2> QED
    BY <2>1, <2>2, <2>3, <2>4, <2>5
<1>2. IInv /\ [Next]_vars => IInv'
  BY SlotsKept, StageKept, ShapeKept, ReferenceKept, AverageKept
<1>3. IInv => DownsampledIsAverage
  <2>1. stage # Finished => DownsampledIsAverage
    BY Zenon DEF DownsampledIsAverage
  <2> QED
    BY <2>1, AveragesAreRight
<1> HIDE DEF IInv
<1> QED
  BY <1>1, <1>2, <1>3, PTL DEF Spec
=============================================================================
