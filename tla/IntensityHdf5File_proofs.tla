----------------------- MODULE IntensityHdf5File_proofs -----------------------
(***************************************************************************)
(* Proofs about IntensityHdf5File, for every length of chunks, every gap,  *)
(* drift and weight, any number of chunks and any call of the library that *)
(* fails: what a file is read as is what was appended to it, an index the  *)
(* reader returns is the position of its sample, and a file no call of     *)
(* which failed reads back all of what was appended.                       *)
(***************************************************************************)
EXTENDS IntensityHdf5File, SequenceTheorems, FiniteSetTheorems, WellFoundedInduction, TLAPS

-----------------------------------------------------------------------------
(* Sums.                                                                    *)

LEMMA NatSetInduction ==
  ASSUME NEW S, 0 \in S, \A n \in Nat : n \in S => n + 1 \in S
  PROVE  Nat \subseteq S
<1> SUFFICES ASSUME Nat \ S # {} PROVE FALSE
  OBVIOUS
<1>1. IsWellFoundedOn(OpToRel(<, Nat), Nat)
  BY NatLessThanWellFounded
<1>2. PICK least \in Nat \ S : \A n \in Nat \ S : ~(<<n, least>> \in OpToRel(<, Nat))
  BY <1>1, WFMin
<1>3. \A n \in Nat : n < least => n \in S
  BY <1>2 DEF OpToRel
<1>4. least # 0 /\ least - 1 \in Nat /\ least - 1 < least
  OBVIOUS
<1>5. least - 1 \in S
  BY <1>3, <1>4
<1>6. (least - 1) + 1 = least
  OBVIOUS
<1> QED
  BY <1>4, <1>5, <1>6

LEMMA SumRecursion ==
  ASSUME NEW f
  PROVE  SumOf(0, f) = 0 /\ \A n \in Nat : SumOf(n + 1, f) = SumOf(n, f) + f[n]
<1> DEFINE Step(a, k) == IF k = 0 THEN 0 ELSE a[k - 1] + f[k - 1]
           Is(a, n) == a = [k \in 0 .. n |-> Step(a, k)]
           E == {n \in Nat : \E a : Is(a, n)}
<1>1. Nat \subseteq E
  <2>1. 0 \in E
    <3> DEFINE a == [k \in 0 .. 0 |-> 0]
    <3>1. Is(a, 0)
      OBVIOUS
    <3> QED
      BY <3>1
  <2>2. ASSUME NEW n \in Nat, n \in E PROVE n + 1 \in E
    <3>1. PICK a : Is(a, n)
      BY <2>2
    <3> DEFINE b == [k \in 0 .. n + 1 |-> IF k <= n THEN a[k] ELSE Step(a, k)]
    <3>2. \A k \in 0 .. n + 1 : k # 0 => b[k - 1] = a[k - 1]
      OBVIOUS
    <3>3. \A k \in 0 .. n : a[k] = Step(a, k)
      <4> HIDE DEF Step
      <4> QED
        BY <3>1
    <3>4. \A k \in 0 .. n + 1 : b[k] = Step(b, k)
      <4> TAKE k \in 0 .. n + 1
      <4>1. Step(b, k) = Step(a, k)
        BY <3>2
      <4>2. b[k] = Step(a, k)
        BY <3>3
      <4> QED
        BY <4>1, <4>2
    <3>5. b = [k \in 0 .. n + 1 |-> b[k]]
      OBVIOUS
    <3>6. Is(b, n + 1)
      <4> HIDE DEF b, Step
      <4> QED
        BY <3>4, <3>5
    <3> HIDE DEF Is
    <3> QED
      BY <3>6
  <2> HIDE DEF E
  <2> QED
    BY <2>1, <2>2, NatSetInduction
<1>2. ASSUME NEW a, NEW n \in Nat, Is(a, n) PROVE \A k \in 0 .. n : a[k] = Step(a, k)
  <2> HIDE DEF Step
  <2> QED
    BY <1>2
<1>3. ASSUME NEW a, NEW n \in Nat, Is(a, n), NEW b, NEW m \in Nat, Is(b, m)
      PROVE  \A k \in Nat : k <= n /\ k <= m => a[k] = b[k]
  <2> DEFINE S == {k \in Nat : k <= n /\ k <= m => a[k] = b[k]}
  <2>0. /\ \A k \in 0 .. n : a[k] = Step(a, k)
        /\ \A k \in 0 .. m : b[k] = Step(b, k)
    <3> HIDE DEF Is, Step
    <3> QED
      BY <1>2, <1>3
  <2>1. 0 \in S
    BY <2>0
  <2>2. ASSUME NEW k \in Nat, k \in S PROVE k + 1 \in S
    <3> SUFFICES ASSUME k + 1 <= n, k + 1 <= m PROVE a[k + 1] = b[k + 1]
      OBVIOUS
    <3>1. a[k] = b[k] /\ k + 1 \in 0 .. n /\ k + 1 \in 0 .. m /\ (k + 1) - 1 = k /\ k + 1 # 0
      BY <2>2
    <3>2. a[k + 1] = Step(a, k + 1) /\ b[k + 1] = Step(b, k + 1)
      BY <2>0, <3>1
    <3> QED
      BY <3>1, <3>2
  <2> HIDE DEF S
  <2>3. Nat \subseteq S
    BY <2>1, <2>2, NatSetInduction
  <2> QED
    BY <2>3 DEF S
<1> DEFINE Best(n) == CHOOSE a : Is(a, n)
           g == [n \in Nat |-> Best(n)[n]]
<1>4. \A n \in Nat : Is(Best(n), n)
  <2> TAKE n \in Nat
  <2>1. \E a : Is(a, n)
    <3> HIDE DEF Is
    <3> QED
      BY <1>1
  <2> HIDE DEF Is
  <2> QED
    BY <2>1
<1>5. \A n \in Nat : g[n] = Step(g, n)
  <2> TAKE n \in Nat
  <2>1. Best(n)[n] = Step(Best(n), n)
    <3> HIDE DEF Is, Step, Best
    <3> QED
      BY <1>2, <1>4
  <2>2. CASE n = 0
    BY <2>1, <2>2
  <2>3. CASE n # 0
    <3>1. n - 1 \in Nat /\ n - 1 <= n /\ n - 1 <= n - 1
      BY <2>3
    <3>2. Best(n)[n - 1] = Best(n - 1)[n - 1]
      <4> HIDE DEF Is, Step, Best
      <4> QED
        BY <1>3, <1>4, <3>1
    <3>3. g[n] = Best(n)[n] /\ g[n - 1] = Best(n - 1)[n - 1]
      BY <3>1
    <3> HIDE DEF Best, g
    <3> QED
      BY <2>1, <2>3, <3>2, <3>3
  <2> QED
    BY <2>2, <2>3
<1>6. g = [n \in Nat |-> Step(g, n)]
  <2>1. g = [n \in Nat |-> g[n]]
    OBVIOUS
  <2> HIDE DEF g, Step
  <2> QED
    BY <1>5, <2>1
<1> DEFINE sum == CHOOSE s : s = [k \in Nat |-> Step(s, k)]
<1>7. sum = [k \in Nat |-> Step(sum, k)]
  <2> HIDE DEF g, Step
  <2> QED
    BY <1>6, Zenon
<1>8. \A n : SumOf(n, f) = sum[n]
  BY Zenon DEF SumOf
<1> HIDE DEF sum
<1>9. \A k \in Nat : sum[k] = Step(sum, k)
  <2> HIDE DEF Step
  <2> QED
    BY <1>7
<1>10. sum[0] = 0
  BY <1>9
<1>11. ASSUME NEW n \in Nat PROVE sum[n + 1] = sum[n] + f[n]
  <2>1. n + 1 \in Nat /\ n + 1 # 0 /\ (n + 1) - 1 = n
    OBVIOUS
  <2>2. sum[n + 1] = Step(sum, n + 1)
    BY <1>9, <2>1
  <2> QED
    BY <2>1, <2>2
<1> QED
  BY <1>8, <1>10, <1>11

LEMMA SumIsInt ==
  ASSUME NEW n \in Nat, NEW f, \A k \in 0 .. n - 1 : f[k] \in Int
  PROVE  SumOf(n, f) \in Int
<1> DEFINE S == {m \in Nat : m <= n => SumOf(m, f) \in Int}
<1>1. 0 \in S
  BY SumRecursion
<1>2. ASSUME NEW m \in Nat, m \in S PROVE m + 1 \in S
  <2>1. SumOf(m + 1, f) = SumOf(m, f) + f[m]
    BY SumRecursion
  <2> QED
    BY <1>2, <2>1
<1> HIDE DEF S
<1>3. n \in S
  BY <1>1, <1>2, NatSetInduction
<1> QED
  BY <1>3 DEF S

LEMMA SumsEqual ==
  ASSUME NEW n \in Nat, NEW f, NEW g, \A k \in 0 .. n - 1 : f[k] = g[k]
  PROVE  SumOf(n, f) = SumOf(n, g)
<1> DEFINE S == {m \in Nat : m <= n => SumOf(m, f) = SumOf(m, g)}
<1>1. 0 \in S
  BY SumRecursion
<1>2. ASSUME NEW m \in Nat, m \in S PROVE m + 1 \in S
  <2>1. SumOf(m + 1, f) = SumOf(m, f) + f[m] /\ SumOf(m + 1, g) = SumOf(m, g) + g[m]
    BY SumRecursion
  <2> QED
    BY <1>2, <2>1
<1> HIDE DEF S
<1>3. n \in S
  BY <1>1, <1>2, NatSetInduction
<1> QED
  BY <1>3 DEF S

(* A sum in which one term counts, or none. *)
LEMMA SumOfOne ==
  ASSUME NEW n \in Nat, NEW f, NEW a \in 0 .. n, \A k \in 0 .. n - 1 : k # a => f[k] = 0,
         a < n => f[a] \in Int
  PROVE  SumOf(n, f) = IF a < n THEN f[a] ELSE 0
<1> DEFINE S == {m \in Nat : m <= n => SumOf(m, f) = IF a < m THEN f[a] ELSE 0}
<1>1. 0 \in S
  BY SumRecursion
<1>2. ASSUME NEW m \in Nat, m \in S PROVE m + 1 \in S
  <2>1. SumOf(m + 1, f) = SumOf(m, f) + f[m]
    BY SumRecursion
  <2> QED
    BY <1>2, <2>1
<1> HIDE DEF S
<1>3. n \in S
  BY <1>1, <1>2, NatSetInduction
<1> QED
  BY <1>3 DEF S

LEMMA SumSplits ==
  ASSUME NEW a \in Nat, NEW b \in Nat, NEW f, \A k \in 0 .. a + b - 1 : f[k] \in Int
  PROVE  SumOf(a + b, f) = SumOf(a, f) + SumOf(b, [k \in 0 .. b - 1 |-> f[a + k]])
<1> DEFINE g == [k \in 0 .. b - 1 |-> f[a + k]]
           S == {m \in Nat : m <= b => SumOf(a + m, f) = SumOf(a, f) + SumOf(m, g)}
<1>0. SumOf(a, f) \in Int
  BY SumIsInt
<1>1. 0 \in S
  <2>1. SumOf(0, g) = 0 /\ a + 0 = a
    BY SumRecursion
  <2> HIDE DEF g
  <2> QED
    BY <1>0, <2>1
<1>2. ASSUME NEW m \in Nat, m \in S PROVE m + 1 \in S
  <2> SUFFICES ASSUME m + 1 <= b
               PROVE  SumOf(a + (m + 1), f) = SumOf(a, f) + SumOf(m + 1, g)
    OBVIOUS
  <2>1. SumOf(m + 1, g) = SumOf(m, g) + g[m]
    BY SumRecursion
  <2>2. a + m \in Nat /\ (a + m) + 1 = a + (m + 1)
    OBVIOUS
  <2>3. SumOf((a + m) + 1, f) = SumOf(a + m, f) + f[a + m]
    BY <2>2, SumRecursion
  <2>4. g[m] = f[a + m] /\ f[a + m] \in Int
    OBVIOUS
  <2>5. SumOf(m, g) \in Int
    <3>1. \A k \in 0 .. m - 1 : g[k] \in Int
      OBVIOUS
    <3> HIDE DEF g
    <3> QED
      BY <3>1, SumIsInt
  <2>6. SumOf(a + m, f) = SumOf(a, f) + SumOf(m, g)
    BY <1>2
  <2> HIDE DEF g
  <2> QED
    BY <1>0, <2>1, <2>2, <2>3, <2>4, <2>5, <2>6
<1> HIDE DEF S
<1>3. b \in S
  BY <1>1, <1>2, NatSetInduction
<1> QED
  BY <1>3 DEF S

LEMMA SumsAdd ==
  ASSUME NEW n \in Nat, NEW f, NEW g, NEW h,
         \A k \in 0 .. n - 1 : f[k] \in Int /\ g[k] \in Int /\ h[k] = f[k] + g[k]
  PROVE  SumOf(n, h) = SumOf(n, f) + SumOf(n, g)
<1> DEFINE S == {m \in Nat : m <= n => /\ SumOf(m, f) \in Int /\ SumOf(m, g) \in Int
                                       /\ SumOf(m, h) = SumOf(m, f) + SumOf(m, g)}
<1>1. 0 \in S
  BY SumRecursion
<1>2. ASSUME NEW m \in Nat, m \in S PROVE m + 1 \in S
  <2>1. /\ SumOf(m + 1, f) = SumOf(m, f) + f[m]
        /\ SumOf(m + 1, g) = SumOf(m, g) + g[m]
        /\ SumOf(m + 1, h) = SumOf(m, h) + h[m]
    BY SumRecursion
  <2> QED
    BY <1>2, <2>1
<1> HIDE DEF S
<1>3. n \in S
  BY <1>1, <1>2, NatSetInduction
<1> QED
  BY <1>3 DEF S

(* The sum of an array of w rows of n elements is the sum of its rows. *)
Row(f, r, n) == [t \in 0 .. n - 1 |-> f[r * n + t]]
RowSums(f, w, n) == [r \in 0 .. w - 1 |-> SumOf(n, Row(f, r, n))]

LEMMA RowBounds ==
  ASSUME NEW w \in Nat, NEW n \in Nat, NEW r \in 0 .. w - 1
  PROVE  r * n \in Nat /\ w * n \in Nat /\ (r + 1) * n = r * n + n /\ r * n + n <= w * n
<1>1. r * n \in Nat /\ w * n \in Nat /\ (r + 1) * n = r * n + n
  OBVIOUS
<1>2. PICK d \in Nat : w = (r + 1) + d
  <2>1. w - (r + 1) \in Nat /\ w = (r + 1) + (w - (r + 1))
    OBVIOUS
  <2> QED
    BY <2>1
<1>3. w * n = (r + 1) * n + d * n /\ d * n \in Nat
  BY <1>2
<1> QED
  BY <1>1, <1>3

LEMMA SumOfRows ==
  ASSUME NEW w \in Nat, NEW n \in Nat, NEW f, \A k \in 0 .. w * n - 1 : f[k] \in Int
  PROVE  SumOf(w * n, f) = SumOf(w, RowSums(f, w, n))
<1> DEFINE R == RowSums(f, w, n)
           S == {m \in Nat : m <= w => SumOf(m * n, f) = SumOf(m, R)}
<1>1. 0 \in S
  <2>1. 0 * n = 0
    OBVIOUS
  <2> QED
    BY <2>1, SumRecursion
<1>2. ASSUME NEW m \in Nat, m \in S PROVE m + 1 \in S
  <2> SUFFICES ASSUME m + 1 <= w PROVE SumOf((m + 1) * n, f) = SumOf(m + 1, R)
    OBVIOUS
  <2>1. m \in 0 .. w - 1
    OBVIOUS
  <2>2. m * n \in Nat /\ w * n \in Nat /\ (m + 1) * n = m * n + n /\ m * n + n <= w * n
    BY <2>1, RowBounds
  <2> DEFINE q == m * n
             total == w * n
  <2>3. \A k \in 0 .. q + n - 1 : f[k] \in Int
    <3>1. \A k \in 0 .. total - 1 : f[k] \in Int
      OBVIOUS
    <3>2. q \in Nat /\ total \in Nat /\ q + n <= total
      BY <2>2
    <3> HIDE DEF q, total
    <3> QED
      BY <3>1, <3>2
  <2>4. SumOf(q + n, f) = SumOf(q, f) + SumOf(n, [k \in 0 .. n - 1 |-> f[q + k]])
    <3>1. q \in Nat
      BY <2>2
    <3> HIDE DEF q
    <3> QED
      BY <2>3, <3>1, SumSplits
  <2>5. R[m] = SumOf(n, [k \in 0 .. n - 1 |-> f[q + k]])
    BY <2>1 DEF RowSums, Row
  <2>6. SumOf(m + 1, R) = SumOf(m, R) + R[m]
    BY SumRecursion
  <2>7. SumOf(q, f) = SumOf(m, R)
    BY <1>2
  <2> HIDE DEF q, R
  <2> QED
    BY <2>2, <2>4, <2>5, <2>6, <2>7 DEF q
<1> HIDE DEF S
<1>3. w \in S
  BY <1>1, <1>2, NatSetInduction
<1> QED
  BY <1>3 DEF S

-----------------------------------------------------------------------------
(* The invariant of the writer.                                             *)

Names == {"time", "intensity", "weight"}
Open == DOMAIN file = Names

Calls == {<<"extend", j>> : j \in 1 .. 3} \cup {<<"write", j>> : j \in 1 .. 3}
Rests == {<<"new">>, <<"ready">>, <<"closed">>, <<"read">>}

(* The dataset append_chunk() has come to, or 0. *)
Stage == IF step \in Calls THEN step[2] ELSE 0

ChunkOK(c) ==
  /\ c.nt \in Lengths /\ c.nt > 0
  /\ c.ipos \in Int /\ c.t0 \in Int /\ c.pattern \in Patterns
  /\ \A i \in 0 .. Width * c.nt - 1 : ~(WeightOf(c.pattern, i) < 0)

(* Chunk c may come after chunk b. *)
Succeeds(b, c) ==
  /\ c.ipos >= b.ipos + b.nt
  /\ c.ipos - (b.ipos + b.nt) \in Gaps
  /\ 100 * Abs(c.t0 - (b.t0 + Dt * (c.ipos - b.ipos))) <= Dt

Comes(L, c) == ChunkOK(c) /\ (L # <<>> => Succeeds(L[Len(L)], c))

Chained(L) ==
  /\ \A k \in 1 .. Len(L) : ChunkOK(L[k])
  /\ \A k \in 1 .. Len(L) - 1 : Succeeds(L[k], L[k + 1])

(* p[i] is the chunk of list L, and the sample in it, that column i of a      *)
(* file belongs to.                                                           *)
Neighbours(L, a, b) ==
  \/ b.k = a.k /\ b.it = a.it + 1
  \/ b.k = a.k + 1 /\ b.it = 0 /\ a.it = L[a.k].nt - 1

Places(L, p, n) ==
  /\ p \in [1 .. n -> [k : 1 .. Len(L), it : Nat]]
  /\ \A i \in 1 .. n : p[i].it < L[p[i].k].nt
  /\ \A k \in 1 .. Len(L) : \A it \in 0 .. L[k].nt - 1 : \E i \in 1 .. n : p[i].k = k /\ p[i].it = it
  /\ \A i \in 1 .. n - 1 : Neighbours(L, p[i], p[i + 1])
  /\ n > 0 => p[1].k = 1 /\ p[1].it = 0 /\ p[n].k = Len(L) /\ p[n].it = L[Len(L)].nt - 1

Holds(p) ==
  /\ Places(appended, p, curr_shape["weight"])
  /\ \A d \in Names : \A i \in 1 .. curr_shape["weight"] :
       file[d][i] = Column(appended[p[i].k], d, p[i].it)

(* Dataset d goes on with the columns of chunk c. *)
GoesOn(d, c) ==
  \A it \in 0 .. c.nt - 1 : file[d][curr_shape["weight"] + it + 1] = Column(c, d, it)

Blank(n) ==
  \A i \in curr_shape["weight"] + 1 .. n : file["weight"][i] = [k \in 0 .. Width - 1 |-> 0]

(* No write has failed half-way. *)
Aligned ==
  /\ \E p : Holds(p)
  /\ curr_shape["time"] = curr_shape["weight"] + (IF Stage > 1 THEN chunk.nt ELSE 0)
  /\ curr_shape["intensity"] = curr_shape["weight"] + (IF Stage > 2 THEN chunk.nt ELSE 0)
  /\ Len(file["weight"]) = curr_shape["weight"] + (IF step = <<"write", 3>> THEN chunk.nt ELSE 0)
  /\ Stage > 1 => GoesOn("time", chunk)
  /\ Stage > 2 => GoesOn("intensity", chunk)
  /\ Blank(Len(file["weight"]))

(* The last write, that of weights, has failed: they are zeros. *)
Masked ==
  \E c : /\ Stage < 2 /\ Comes(appended, c)
         /\ \E p : Holds(p)
         /\ curr_shape["time"] = curr_shape["weight"] + c.nt
         /\ curr_shape["intensity"] = curr_shape["weight"] + c.nt
         /\ Len(file["weight"]) = curr_shape["weight"] + c.nt
         /\ GoesOn("time", c)
         /\ Blank(Len(file["weight"]))

(* A failure has made the datasets differ in length for ever. *)
Displaced ==
  /\ curr_shape["weight"] + (IF Stage > 1 THEN chunk.nt ELSE 0) < curr_shape["time"]
  /\ Len(file["weight"]) < curr_shape["time"]

ShapeInv ==
  /\ DOMAIN curr_shape = Names
  /\ \A d \in Names : /\ curr_shape[d] \in Nat
                      /\ DOMAIN file[d] = 1 .. Len(file[d]) /\ Len(file[d]) \in Nat
                      /\ Len(file[d]) >= curr_shape[d]
  /\ step[1] = "write" => Len(file[Datasets[step[2]]]) = curr_shape[Datasets[step[2]]] + chunk.nt

WriterInv ==
  /\ writer.curr_nt = curr_shape["weight"]
  /\ (appended = <<>>) <=> (writer.curr_nt = 0)
  /\ appended = <<>> => writer.curr_ipos = 0 /\ writer.curr_time = 0
  /\ appended # <<>> =>
       LET b == appended[Len(appended)]
       IN  writer.curr_ipos = b.ipos + b.nt /\ writer.curr_time = b.t0 + b.nt * Dt

FileInv ==
  /\ ValidArguments
  /\ step # <<"new">>
  /\ step \in Calls => Comes(appended, chunk)
  /\ Chained(appended)
  /\ WriterInv /\ ShapeInv
  /\ Aligned \/ Masked \/ Displaced

TypeInv ==
  /\ args \in Arguments
  /\ step \in Calls \cup Rests
  /\ chunk \in [nt : Int, ipos : Int, t0 : Int, pattern : Patterns \cup {0}]
  /\ appended \in Seq([nt : Int, ipos : Int, t0 : Int, pattern : Patterns \cup {0}])
  /\ DOMAIN writer = {"curr_nt", "curr_time", "curr_ipos", "initial_ipos", "wsum", "wmax"}
  /\ writer.curr_nt \in Nat /\ writer.curr_time \in Int /\ writer.curr_ipos \in Int

OpenInv ==
  /\ step \in Calls \cup {<<"ready">>} => Open
  /\ Open => FileInv
  /\ ~Open => /\ appended = <<>> /\ writer.curr_nt = 0
               /\ writer.curr_ipos = 0 /\ writer.curr_time = 0

ReaderInv ==
  /\ step = <<"read">> => reader = IF DOMAIN file = {} THEN {} ELSE Loaded
  /\ step # <<"read">> => reader = {}

IInv == TypeInv /\ OpenInv /\ ReaderInv


LEMMA Constants ==
  /\ Dt \in Nat \ {0} /\ Lengths \subseteq Int /\ Gaps \subseteq Int /\ Drifts \subseteq Int
  /\ \A a \in Arguments : /\ a.nfreq \in Int /\ a.freq0 \in Int /\ a.freq1 \in Int
                          /\ a.pol \in Seq(STRING)
                          /\ a.nfreq > 0 => (a.freq1 - a.freq0) % a.nfreq = 0
BY Hdf5Assumption

LEMMA StepKinds ==
  ASSUME step \in Calls \cup Rests
  PROVE  /\ step[1] = "extend" => step \in Calls /\ step[2] \in 1 .. 3 /\ step = <<"extend", step[2]>>
         /\ step[1] = "write" => step \in Calls /\ step[2] \in 1 .. 3 /\ step = <<"write", step[2]>>
         /\ step \in Rests => step \notin Calls /\ step[1] \notin {"extend", "write"} /\ Stage = 0
         /\ step \in Calls => Stage = step[2] /\ step[2] \in 1 .. 3 /\ step[1] \in {"extend", "write"}
BY DEF Calls, Rests, Stage

LEMMA DatasetNames ==
  /\ Datasets[1] = "time" /\ Datasets[2] = "intensity" /\ Datasets[3] = "weight"
  /\ \A j \in 1 .. 3 : Datasets[j] \in Names
BY DEF Datasets, Names

LEMMA ColumnKept ==
  ASSUME args' = args
  PROVE  /\ Width' = Width
         /\ \A c, d, it : Column(c, d, it)' = Column(c, d, it)
         /\ \A c : ChunkOK(c)' <=> ChunkOK(c)
<1>1. Width' = Width
  BY DEF Width
<1> QED
  BY <1>1, Zenon DEF Column, ChunkOK

LEMMA HoldsKept ==
  ASSUME args' = args, appended' = appended, curr_shape'["weight"] = curr_shape["weight"],
         \A d \in Names : \A i \in 1 .. curr_shape["weight"] : file'[d][i] = file[d][i],
         \E p : Holds(p)
  PROVE  (\E p : Holds(p))'
<1>1. PICK p : Holds(p)
  OBVIOUS
<1> DEFINE W == curr_shape["weight"]
<1>2. /\ Places(appended, p, W)
      /\ \A d \in Names : \A i \in 1 .. W : file[d][i] = Column(appended[p[i].k], d, p[i].it)
  BY <1>1 DEF Holds
<1>4. (\A d \in Names : \A i \in 1 .. curr_shape["weight"] :
         file[d][i] = Column(appended[p[i].k], d, p[i].it))'
  <2>1. \A c, d, it : Column(c, d, it)' = Column(c, d, it)
    BY ColumnKept
  <2>2. \A d, i : Column(appended[p[i].k], d, p[i].it)' = Column(appended[p[i].k], d, p[i].it)
    BY <2>1
  <2>3. \A d \in Names : \A i \in 1 .. curr_shape["weight"] :
          file'[d][i] = Column(appended[p[i].k], d, p[i].it)'
    <3> SUFFICES ASSUME NEW d \in Names, NEW i \in 1 .. curr_shape["weight"]
                 PROVE  file'[d][i] = Column(appended[p[i].k], d, p[i].it)'
      OBVIOUS
    <3>1. file'[d][i] = file[d][i]
      OBVIOUS
    <3>2. file[d][i] = Column(appended[p[i].k], d, p[i].it)
      BY <1>2
    <3> QED
      BY <2>2, <3>1, <3>2
  <2> QED
    BY <2>3
<1>5. Holds(p)'
  <2>1. Places(appended, p, W)'
    BY <1>2 DEF Places, Neighbours
  <2> QED
    BY <1>4, <2>1, Zenon DEF Holds
<1> QED
  BY <1>5

(* A step between two calls of append_chunk() leaves the file as it was. *)
LEMMA FileKept ==
  ASSUME UNCHANGED <<args, appended, file, curr_shape>>, Stage < 2, Stage' < 2,
         step # <<"write", 3>>, step' # <<"write", 3>>,
         curr_shape["weight"] \in Nat, Stage \in 0 .. 3, Stage' \in 0 .. 3,
         Aligned \/ Masked \/ Displaced
  PROVE  (Aligned \/ Masked \/ Displaced)'
<1>1. Width' = Width /\ \A c, d, it : Column(c, d, it)' = Column(c, d, it)
  BY ColumnKept
<1>2. \A c : ChunkOK(c)' <=> ChunkOK(c)
  BY ColumnKept
<1>3. \A n : Blank(n)' <=> Blank(n)
  BY <1>1 DEF Blank
<1>4. \A d, c : GoesOn(d, c)' <=> GoesOn(d, c)
  BY <1>1, Zenon DEF GoesOn
<1>5. \A c : Comes(appended, c)' <=> Comes(appended, c)
  BY <1>2 DEF Comes, Succeeds
<1>6. (\E p : Holds(p)) => (\E p : Holds(p))'
  BY HoldsKept
<1>7. ~(Stage > 1) /\ ~(Stage > 2) /\ ~(Stage' > 1) /\ ~(Stage' > 2)
  OBVIOUS
<1>8. CASE Aligned
  <2>1. Aligned'
    BY <1>8, <1>3, <1>6, <1>7 DEF Aligned
  <2> QED
    BY <2>1
<1>9. CASE Masked
  <2>1. Masked'
    BY <1>9, <1>3, <1>4, <1>5, <1>6 DEF Masked
  <2> QED
    BY <2>1
<1>10. CASE Displaced
  <2>1. Displaced'
    BY <1>10, <1>7 DEF Displaced
  <2> QED
    BY <2>1
<1> QED
  BY <1>8, <1>9, <1>10


LEMMA LengthIs ==
  ASSUME NEW n \in Nat, NEW s, DOMAIN s = 1 .. n
  PROVE  Len(s) = n
<1>1. \A m \in Nat : 1 .. m = 1 .. n => m = n
  OBVIOUS
<1> QED
  BY <1>1

(* The places of a list and one chunk more. *)
Further(L, p, n, c) ==
  [i \in 1 .. n + c.nt |-> IF i <= n THEN p[i] ELSE [k |-> Len(L) + 1, it |-> i - n - 1]]

LEMMA PlacesAppend ==
  ASSUME NEW T, NEW L \in Seq(T), NEW c \in T, NEW p, NEW n \in Nat,
         c.nt \in Nat \ {0}, L = <<>> <=> n = 0, Places(L, p, n),
         \A k \in 1 .. Len(L) : L[k].nt \in Nat
  PROVE  Places(Append(L, c), Further(L, p, n, c), n + c.nt)
<1> DEFINE M == Append(L, c)
           q == Further(L, p, n, c)
           m == n + c.nt
<1>1. /\ Len(L) \in Nat /\ Len(M) = Len(L) + 1 /\ M[Len(L) + 1] = c
      /\ \A k \in 1 .. Len(L) : M[k] = L[k]
  OBVIOUS
<1>2. /\ p \in [1 .. n -> [k : 1 .. Len(L), it : Nat]]
      /\ \A i \in 1 .. n : p[i].it < L[p[i].k].nt
      /\ \A k \in 1 .. Len(L) : \A it \in 0 .. L[k].nt - 1 :
           \E i \in 1 .. n : p[i].k = k /\ p[i].it = it
      /\ \A i \in 1 .. n - 1 : Neighbours(L, p[i], p[i + 1])
      /\ n > 0 => p[1].k = 1 /\ p[1].it = 0 /\ p[n].k = Len(L) /\ p[n].it = L[Len(L)].nt - 1
  BY DEF Places
<1>3. \A i \in 1 .. n : p[i].k \in 1 .. Len(L) /\ p[i].it \in Nat
  BY <1>2
<1>4. m \in Nat /\ m > n /\ m > 0
  OBVIOUS
<1>a. q = [i \in 1 .. m |-> q[i]]
  BY DEF Further
<1>5. \A i \in 1 .. n : i \in 1 .. m /\ q[i] = p[i]
  BY <1>4 DEF Further
<1>b. \A i \in n + 1 .. m : q[i] = [k |-> Len(L) + 1, it |-> i - n - 1]
  BY <1>4 DEF Further
<1>c. \A i \in n + 1 .. m : i - n - 1 \in 0 .. c.nt - 1 /\ i - n - 1 \in Nat /\ i \in 1 .. m
  OBVIOUS
<1>6. \A i \in n + 1 .. m : q[i].k = Len(L) + 1 /\ q[i].it = i - n - 1 /\ i - n - 1 \in 0 .. c.nt - 1
  <2> HIDE DEF q, m
  <2> TAKE i \in n + 1 .. m
  <2> DEFINE e == i - n - 1
  <2>1. q[i] = [k |-> Len(L) + 1, it |-> e] /\ e \in 0 .. c.nt - 1
    BY <1>b, <1>c
  <2> HIDE DEF e
  <2>2. q[i].k = Len(L) + 1 /\ q[i].it = e
    BY <2>1
  <2> QED
    BY <2>1, <2>2 DEF e
<1>7. q \in [1 .. m -> [k : 1 .. Len(M), it : Nat]]
  <2>1. ASSUME NEW i \in 1 .. m PROVE q[i] \in [k : 1 .. Len(M), it : Nat]
    <3>1. CASE i <= n
      <4>1. i \in 1 .. n
        BY <3>1
      <4>2. p[i] \in [k : 1 .. Len(L), it : Nat]
        BY <1>2, <4>1
      <4>3. \A x \in [k : 1 .. Len(L), it : Nat] : x \in [k : 1 .. Len(M), it : Nat]
        <5>1. 1 .. Len(L) \subseteq 1 .. Len(M)
          BY <1>1
        <5> QED
          BY <5>1
      <4> QED
        BY <1>5, <4>1, <4>2, <4>3
    <3>2. CASE ~(i <= n)
      <4>1. i \in n + 1 .. m /\ Len(L) + 1 \in 1 .. Len(M)
        BY <3>2, <1>1, <1>4
      <4> DEFINE e == i - n - 1
      <4>2. q[i] = [k |-> Len(L) + 1, it |-> e] /\ e \in Nat
        BY <1>b, <1>c, <4>1
      <4> HIDE DEF q, m, e
      <4> QED
        BY <4>1, <4>2
    <3> QED
      BY <3>1, <3>2
  <2> QED
    BY <1>a, <2>1
<1> HIDE DEF M, q, m
<1>8. ASSUME NEW i \in 1 .. m PROVE q[i].it < M[q[i].k].nt
  <2>1. CASE i <= n
    <3>1. i \in 1 .. n
      BY <1>4, <2>1
    <3>2. q[i] = p[i] /\ p[i].k \in 1 .. Len(L) /\ p[i].it < L[p[i].k].nt
      BY <1>2, <1>3, <1>5, <3>1
    <3> QED
      BY <1>1, <3>2
  <2>2. CASE ~(i <= n)
    <3>1. i \in n + 1 .. m
      BY <1>4, <2>2
    <3> QED
      BY <1>1, <1>6, <3>1
  <2> QED
    BY <2>1, <2>2
<1>9. ASSUME NEW k \in 1 .. Len(M), NEW it \in 0 .. M[k].nt - 1
      PROVE  \E i \in 1 .. m : q[i].k = k /\ q[i].it = it
  <2>1. CASE k <= Len(L)
    <3>1. k \in 1 .. Len(L) /\ it \in 0 .. L[k].nt - 1
      BY <1>1, <2>1
    <3>2. PICK i \in 1 .. n : p[i].k = k /\ p[i].it = it
      BY <1>2, <3>1
    <3>3. i \in 1 .. m /\ q[i] = p[i]
      BY <1>5
    <3> QED
      BY <3>2, <3>3
  <2>2. CASE ~(k <= Len(L))
    <3>1. k = Len(L) + 1 /\ it \in 0 .. c.nt - 1
      BY <1>1, <2>2
    <3>2. n + 1 + it \in n + 1 .. m /\ n + 1 + it \in 1 .. m /\ (n + 1 + it) - n - 1 = it
      BY <3>1 DEF m
    <3> QED
      BY <1>6, <3>1, <3>2
  <2> QED
    BY <2>1, <2>2
<1>10. ASSUME NEW i \in 1 .. m - 1 PROVE Neighbours(M, q[i], q[i + 1])
  <2>1. CASE i < n
    <3>1. i \in 1 .. n - 1 /\ i \in 1 .. n /\ i + 1 \in 1 .. n
      BY <1>4, <2>1
    <3>2. q[i] = p[i] /\ q[i + 1] = p[i + 1] /\ Neighbours(L, p[i], p[i + 1]) /\ p[i].k \in 1 .. Len(L)
      BY <1>2, <1>3, <1>5, <3>1
    <3> QED
      BY <1>1, <3>2 DEF Neighbours
  <2>2. CASE i = n
    <3>1. n > 0 /\ n \in 1 .. n /\ i + 1 \in n + 1 .. m /\ (i + 1) - n - 1 = 0
      BY <1>4, <2>2
    <3>2. q[i] = p[n] /\ q[i + 1].k = Len(L) + 1 /\ q[i + 1].it = 0
      BY <1>5, <1>6, <2>2, <3>1
    <3>3. p[n].k = Len(L) /\ p[n].it = L[Len(L)].nt - 1 /\ Len(L) \in 1 .. Len(L)
      BY <1>2, <1>3, <3>1
    <3> QED
      BY <1>1, <3>2, <3>3 DEF Neighbours
  <2>3. CASE i > n
    <3>1. i \in n + 1 .. m /\ i + 1 \in n + 1 .. m
      BY <1>4, <2>3
    <3>2. q[i].k = Len(L) + 1 /\ q[i + 1].k = Len(L) + 1
          /\ q[i].it = i - n - 1 /\ q[i + 1].it = (i + 1) - n - 1
      BY <1>6, <3>1
    <3> QED
      BY <3>2 DEF Neighbours
  <2> QED
    BY <2>1, <2>2, <2>3
<1>11. q[1].k = 1 /\ q[1].it = 0
  <2>1. CASE n = 0
    <3>1. Len(L) = 0 /\ 1 \in n + 1 .. m
      BY <1>4, <2>1
    <3> QED
      BY <1>6, <2>1, <3>1
  <2>2. CASE n > 0
    <3>1. 1 \in 1 .. n
      BY <2>2
    <3> QED
      BY <1>2, <1>5, <2>2, <3>1
  <2> QED
    BY <2>1, <2>2
<1>12. q[m].k = Len(M) /\ q[m].it = M[Len(M)].nt - 1
  <2>1. m \in n + 1 .. m /\ m - n - 1 = c.nt - 1
    BY <1>4 DEF m
  <2> QED
    BY <1>1, <1>6, <2>1
<1>13. Places(M, q, m)
  BY <1>7, <1>8, <1>9, <1>10, <1>11, <1>12 DEF Places
<1> QED
  BY <1>13 DEF M, q, m


LEMMA InitIInv == Init => IInv
<1> SUFFICES ASSUME Init PROVE IInv
  OBVIOUS
<1>1. ~Open /\ DOMAIN file = {}
  BY DEF Init, Open, Names
<1>2. step = <<"new">> /\ step \in Rests /\ step \notin Calls /\ step # <<"read">> /\ step # <<"ready">>
  BY DEF Init, Rests, Calls
<1>3. TypeInv
  BY <1>2 DEF Init, TypeInv, NoChunk
<1> QED
  BY <1>1, <1>2, <1>3 DEF Init, IInv, OpenInv, ReaderInv

LEMMA ConstructStep == IInv /\ Construct => IInv'
<1> SUFFICES ASSUME IInv, Construct PROVE IInv'
  OBVIOUS
<1>1. PICK plugin \in BOOLEAN :
        LET made == IF ~ValidArguments THEN {}
                    ELSE IF args.bitshuffle = 3 /\ ~plugin THEN {"time"}
                    ELSE {"time", "intensity", "weight"}
        IN  /\ file' = [d \in made |-> <<>>]
            /\ curr_shape' = [d \in made |-> 0]
            /\ step' = IF Cardinality(made) = 3 THEN <<"ready">> ELSE <<"closed">>
  BY DEF Construct
<1> DEFINE made == IF ~ValidArguments THEN {}
                   ELSE IF args.bitshuffle = 3 /\ ~plugin THEN {"time"}
                   ELSE {"time", "intensity", "weight"}
<1>2. /\ file' = [d \in made |-> <<>>]
      /\ curr_shape' = [d \in made |-> 0]
      /\ step' = IF Cardinality(made) = 3 THEN <<"ready">> ELSE <<"closed">>
  BY <1>1
<1>3. /\ made \in {{}, {"time"}, Names}
      /\ made = Names => ValidArguments
      /\ {} # Names /\ {"time"} # Names
  BY DEF Names
<1>4. Cardinality({}) = 0 /\ Cardinality({"time"}) = 1
  BY FS_EmptySet, FS_Singleton
<1> HIDE DEF made
<1>5. step = <<"new">> /\ UNCHANGED <<args, chunk, writer, reader, appended, counters>>
  BY DEF Construct
<1>6. /\ step' \in Rests /\ step' \notin Calls /\ step' # <<"new">> /\ step' # <<"read">>
      /\ step # <<"read">>
      /\ step' = <<"ready">> => made = Names
  <2>1. step' \in {<<"ready">>, <<"closed">>}
    BY <1>2
  <2>2. step' = <<"ready">> => Cardinality(made) = 3
    BY <1>2
  <2>3. step' = <<"ready">> => made = Names
    <3> SUFFICES ASSUME step' = <<"ready">> PROVE made = Names
      OBVIOUS
    <3>1. made # {} /\ made # {"time"}
      BY <1>4, <2>2
    <3> QED
      BY <1>3, <3>1
  <2> QED
    BY <1>5, <2>1, <2>3 DEF Rests, Calls
<1>7. ~Open
  BY <1>5 DEF IInv, OpenInv, FileInv
<1>8. appended = <<>> /\ writer.curr_nt = 0 /\ writer.curr_ipos = 0 /\ writer.curr_time = 0
  BY <1>7 DEF IInv, OpenInv
<1>9. Open' <=> made = Names
  BY <1>2 DEF Open
<1>10. Open' => FileInv'
  <2> SUFFICES ASSUME made = Names PROVE FileInv'
    BY <1>9
  <2>1. /\ DOMAIN file' = Names /\ DOMAIN curr_shape' = Names
        /\ \A d \in Names : file'[d] = <<>> /\ curr_shape'[d] = 0
    BY <1>2
  <2>2. {"time", "intensity", "weight"} \subseteq Names
    BY DEF Names
  <2>3. Stage' = 0
    BY <1>6 DEF Stage
  <2>4. (\E p : Holds(p))'
    <3> DEFINE p == [i \in 1 .. 0 |-> 0]
    <3>1. Places(appended', p, 0)
      <4>1. p \in [1 .. 0 -> [k : 1 .. Len(appended'), it : Nat]] /\ Len(appended') = 0
        BY <1>5, <1>8
      <4> HIDE DEF p
      <4> QED
        BY <4>1 DEF Places
    <3>2. Holds(p)'
      <4> HIDE DEF p
      <4> QED
        BY <2>1, <2>2, <3>1 DEF Holds, Places, Neighbours
    <3> QED
      BY <3>2
  <2>5. Aligned'
    <3>1. /\ Len(file'["weight"]) = 0 /\ curr_shape'["weight"] = 0
          /\ curr_shape'["time"] = 0 /\ curr_shape'["intensity"] = 0 /\ step' # <<"write", 3>>
      BY <1>6, <2>1, <2>2 DEF Calls
    <3>2. Blank(Len(file["weight"]))'
      BY <3>1 DEF Blank
    <3>3. ~(Stage' > 1) /\ ~(Stage' > 2)
      BY <2>3
    <3> QED
      BY <2>4, <3>1, <3>2, <3>3 DEF Aligned
  <2>6. ShapeInv'
    <3>1. step'[1] # "write"
      BY <1>6 DEF Rests
    <3> QED
      BY <2>1, <2>2, <3>1 DEF ShapeInv
  <2>7. WriterInv'
    BY <1>5, <1>8, <2>1, <2>2 DEF WriterInv
  <2>8. Chained(appended)'
    BY <1>5, <1>8 DEF Chained
  <2>9. ValidArguments'
    BY <1>3, <1>5 DEF ValidArguments
  <2> QED
    BY <1>6, <2>5, <2>6, <2>7, <2>8, <2>9 DEF FileInv
<1>11. OpenInv'
  BY <1>5, <1>6, <1>8, <1>9, <1>10 DEF OpenInv
<1>12. TypeInv'
  BY <1>5, <1>6 DEF IInv, TypeInv
<1> QED
  BY <1>5, <1>6, <1>11, <1>12 DEF IInv, ReaderInv

(* Steps that leave the file, and the list of chunks in it, alone. *)
LEMMA QuietStep ==
  ASSUME IInv, step \in Calls \cup {<<"ready">>},
         UNCHANGED <<args, appended, file, curr_shape, reader>>,
         Stage < 2, step # <<"write", 3>>,
         step' \in {<<"ready">>, <<"closed">>, <<"extend", 1>>},
         chunk' \in [nt : Int, ipos : Int, t0 : Int, pattern : Patterns \cup {0}],
         step' = <<"extend", 1>> => Comes(appended, chunk'),
         \A field \in {"curr_nt", "curr_ipos", "curr_time"} : writer'[field] = writer[field],
         DOMAIN writer' = DOMAIN writer
  PROVE  IInv'
<1>1. /\ step' \in Calls \cup Rests /\ step' # <<"new">> /\ step' # <<"read">> /\ step' # <<"write", 3>>
      /\ Stage' \in 0 .. 1 /\ Stage \in 0 .. 3 /\ step # <<"read">>
      /\ step' \in Calls => step' = <<"extend", 1>>
      /\ step'[1] # "write"
  BY StepKinds DEF Calls, Rests, Stage
<1>2. Open /\ FileInv /\ TypeInv
  BY DEF IInv, OpenInv
<1>3. (Aligned \/ Masked \/ Displaced)'
  <2>1. curr_shape["weight"] \in Nat /\ (Aligned \/ Masked \/ Displaced)
    BY <1>2 DEF FileInv, ShapeInv, Names
  <2>2. Stage' < 2 /\ Stage' \in 0 .. 3
    BY <1>1
  <2> QED
    BY <1>1, <2>1, <2>2, FileKept
<1>4. Open'
  BY <1>2 DEF Open
<1>5. ShapeInv'
  BY <1>1, <1>2 DEF FileInv, ShapeInv
<1>6. WriterInv'
  BY <1>2 DEF FileInv, WriterInv
<1>7. /\ \A c : ChunkOK(c)' <=> ChunkOK(c)
  BY ColumnKept
<1>8. Chained(appended)'
  BY <1>2, <1>7 DEF FileInv, Chained, Succeeds
<1>9. (step \in Calls => Comes(appended, chunk))'
  BY <1>1, <1>7 DEF Comes, Succeeds
<1>10. ValidArguments'
  BY <1>2 DEF FileInv, ValidArguments
<1>11. FileInv'
  BY <1>1, <1>3, <1>5, <1>6, <1>8, <1>9, <1>10 DEF FileInv
<1>12. TypeInv'
  BY <1>1, <1>2 DEF TypeInv
<1>13. OpenInv'
  BY <1>4, <1>11 DEF OpenInv
<1>14. ReaderInv'
  BY <1>1 DEF IInv, ReaderInv
<1> QED
  BY <1>12, <1>13, <1>14 DEF IInv


(* A chunk that append_chunk() accepts may follow those in the file. *)
LEMMA AcceptedComes ==
  ASSUME IInv, Open, NEW c, Follows(c), ~HasNegativeWeight(c),
         c.nt \in Lengths, c.nt > 0, c.ipos \in Int, c.t0 \in Int, c.pattern \in Patterns,
         c.ipos - writer.curr_ipos \in Gaps
  PROVE  Comes(appended, c)
<1>1. TypeInv /\ FileInv
  BY DEF IInv, OpenInv
<1>2. ChunkOK(c)
  BY DEF ChunkOK, HasNegativeWeight
<1>3. ASSUME appended # <<>> PROVE Succeeds(appended[Len(appended)], c)
  <2> DEFINE b == appended[Len(appended)]
  <2>1. Len(appended) \in 1 .. Len(appended)
    BY <1>1, <1>3 DEF TypeInv
  <2>2. b.nt \in Int /\ b.ipos \in Int /\ b.t0 \in Int
    <3>1. b \in [nt : Int, ipos : Int, t0 : Int, pattern : Patterns \cup {0}]
      BY <1>1, <2>1, ElementOfSeq DEF TypeInv
    <3> HIDE DEF b
    <3> QED
      BY <3>1
  <2>3. /\ writer.curr_nt > 0
        /\ writer.curr_ipos = b.ipos + b.nt /\ writer.curr_time = b.t0 + b.nt * Dt
    BY <1>1, <1>3 DEF FileInv, WriterInv, TypeInv
  <2>4. c.ipos >= writer.curr_ipos /\ 100 * Abs(c.t0 - Expected(c.ipos)) <= Dt
    BY <2>3 DEF Follows
  <2> HIDE DEF b
  <2>5. Expected(c.ipos) = b.t0 + Dt * (c.ipos - b.ipos)
    <3> DEFINE x == c.ipos - b.ipos
               y == b.nt
    <3>1. c.ipos - writer.curr_ipos = x - y /\ x \in Int /\ y \in Int /\ Dt \in Int
      BY <2>2, <2>3, Constants
    <3>2. Dt * (x - y) = Dt * x - y * Dt /\ Dt * x \in Int /\ y * Dt \in Int
      <4> HIDE DEF x, y
      <4> QED
        BY <3>1
    <3>3. Expected(c.ipos) = (b.t0 + y * Dt) + Dt * (x - y)
      BY <2>3, <3>1 DEF Expected
    <3> HIDE DEF x, y
    <3>4. Expected(c.ipos) = b.t0 + Dt * x
      BY <2>2, <3>2, <3>3
    <3> QED
      BY <3>4 DEF x
  <2> QED
    BY <2>3, <2>4, <2>5 DEF Succeeds, b
<1> QED
  BY <1>2, <1>3 DEF Comes

LEMMA AppendStep ==
  ASSUME IInv, NEW nt \in Lengths, NEW ipos \in Int, NEW t0 \in Int, NEW pattern \in Patterns,
         ipos - writer.curr_ipos \in Gaps, AppendChunk(nt, ipos, t0, pattern)
  PROVE  IInv'
<1> DEFINE c == [nt |-> nt, ipos |-> ipos, t0 |-> t0, pattern |-> pattern]
<1>1. /\ step = <<"ready">> /\ nt > 0
      /\ UNCHANGED <<args, fileVars, reader, appended, failures>>
      /\ \/ UNCHANGED <<step, chunk, writer, refused>>
         \/ writer' = WithWeights(writer, c) /\ UNCHANGED <<step, chunk>>
         \/ /\ Follows(c) /\ ~HasNegativeWeight(c)
            /\ writer' = WithWeights(writer, c) /\ chunk' = c /\ step' = <<"extend", 1>>
  BY DEF AppendChunk
<1>2. c.nt = nt /\ c.ipos = ipos /\ c.t0 = t0 /\ c.pattern = pattern
      /\ c \in [nt : Int, ipos : Int, t0 : Int, pattern : Patterns \cup {0}]
  BY Constants
<1> HIDE DEF c
<1>3. TypeInv /\ Open /\ Stage < 2 /\ step # <<"write", 3>>
  BY <1>1 DEF IInv, OpenInv, Stage, Calls
<1>4. /\ \A field \in {"curr_nt", "curr_ipos", "curr_time"} : writer'[field] = writer[field]
      /\ DOMAIN writer' = DOMAIN writer
  <2>1. CASE writer' = writer
    BY <2>1
  <2>2. CASE writer' = WithWeights(writer, c)
    <3> DEFINE S == writer.wsum + SumOf(Width * c.nt, [i \in 0 .. Width * c.nt - 1 |-> WeightOf(c.pattern, i)])
               x == writer'.wmax
               y == InitialIpos(writer, c)
    <3>1. \E u, v, w : writer' = [writer EXCEPT !.initial_ipos = u, !.wsum = v, !.wmax = w]
      BY <2>2, Zenon DEF WithWeights
    <3> QED
      BY <3>1, <1>3 DEF TypeInv
  <2> QED
    BY <1>1, <2>1, <2>2
<1>5. CASE UNCHANGED <<step, chunk>>
  <2>1. step' = <<"ready">> /\ step' # <<"extend", 1>> /\ step' \in {<<"ready">>, <<"closed">>, <<"extend", 1>>}
    BY <1>1, <1>5
  <2>2. chunk' \in [nt : Int, ipos : Int, t0 : Int, pattern : Patterns \cup {0}]
    BY <1>3, <1>5 DEF TypeInv
  <2> QED
    BY <1>1, <1>3, <1>4, <2>1, <2>2, QuietStep DEF fileVars
<1>6. CASE /\ Follows(c) /\ ~HasNegativeWeight(c)
           /\ chunk' = c /\ step' = <<"extend", 1>>
  <2>1. Comes(appended, chunk')
    BY <1>1, <1>2, <1>3, <1>6, AcceptedComes
  <2>2. step' \in {<<"ready">>, <<"closed">>, <<"extend", 1>>}
    BY <1>6
  <2>3. chunk' \in [nt : Int, ipos : Int, t0 : Int, pattern : Patterns \cup {0}]
    BY <1>2, <1>6
  <2>4. UNCHANGED <<args, appended, file, curr_shape, reader>> /\ step \in Calls \cup {<<"ready">>}
    BY <1>1 DEF fileVars
  <2> QED
    BY <1>3, <1>4, <2>1, <2>2, <2>3, <2>4, QuietStep
<1> QED
  BY <1>1, <1>5, <1>6

LEMMA AppendsStep ==
  ASSUME IInv, NEW nt \in Lengths, NEW gap \in Gaps, NEW pattern \in Patterns,
         \/ AppendUntimed(nt, gap, pattern)
         \/ \E drift \in Drifts : AppendTimed(nt, gap, drift, pattern)
  PROVE  IInv'
<1> DEFINE ipos == writer.curr_ipos + gap
<1>1. gap \in Int /\ writer.curr_ipos \in Int /\ writer.curr_time \in Int /\ Dt \in Int
      /\ Drifts \subseteq Int
  BY Constants DEF IInv, TypeInv
<1>2. ipos \in Int /\ ipos - writer.curr_ipos \in Gaps /\ ipos - writer.curr_ipos \in Int
  BY <1>1
<1>3. ASSUME AppendUntimed(nt, gap, pattern) PROVE IInv'
  <2>1. Expected(ipos) \in Int
    <3> HIDE DEF ipos
    <3> QED
      BY <1>1, <1>2 DEF Expected
  <2>2. AppendChunk(nt, ipos, Expected(ipos), pattern)
    BY <1>3 DEF AppendUntimed
  <2> HIDE DEF ipos
  <2> QED
    BY <1>2, <2>1, <2>2, AppendStep
<1>4. ASSUME NEW drift \in Drifts, AppendTimed(nt, gap, drift, pattern) PROVE IInv'
  <2>1. AppendChunk(nt, ipos, Dt * ipos + drift, pattern)
    BY <1>4 DEF AppendTimed
  <2> HIDE DEF ipos
  <2>2. Dt * ipos + drift \in Int
    BY <1>1, <1>2
  <2> QED
    BY <1>2, <2>1, <2>2, AppendStep
<1> QED
  BY <1>3, <1>4

LEMMA CloseStep == IInv /\ Close => IInv'
<1> SUFFICES ASSUME IInv, Close PROVE IInv'
  OBVIOUS
<1>1. /\ step = <<"ready">> /\ step' = <<"closed">>
      /\ UNCHANGED <<args, chunk, fileVars, writer, reader, appended, counters>>
  BY DEF Close
<1>2. Stage < 2 /\ step # <<"write", 3>>
  BY <1>1 DEF Stage, Calls
<1>3. UNCHANGED <<args, appended, file, curr_shape, reader>> /\ step \in Calls \cup {<<"ready">>}
  BY <1>1 DEF fileVars
<1>4. /\ step' \in {<<"ready">>, <<"closed">>, <<"extend", 1>>} /\ step' # <<"extend", 1>>
      /\ chunk' \in [nt : Int, ipos : Int, t0 : Int, pattern : Patterns \cup {0}]
      /\ \A field \in {"curr_nt", "curr_ipos", "curr_time"} : writer'[field] = writer[field]
      /\ DOMAIN writer' = DOMAIN writer
  BY <1>1 DEF IInv, TypeInv
<1> QED
  BY <1>2, <1>3, <1>4, QuietStep

(* Reading changes only what was read. *)
LEMMA ReadStep ==
  ASSUME IInv, Read \/ UNCHANGED vars
  PROVE  IInv'
<1>1. UNCHANGED <<args, chunk, fileVars, writer, appended>>
  BY DEF Read, vars, counters
<1>2. /\ step \in Calls \cup Rests
      /\ \/ step = <<"closed">> /\ step' = <<"read">>
            /\ reader' = IF DOMAIN file = {} THEN {} ELSE Loaded
         \/ step' = step /\ reader' = reader
  BY DEF Read, vars, IInv, TypeInv
<1>3. /\ step' \in Calls \cup Rests
      /\ step' # step => Stage = 0 /\ Stage' = 0 /\ step \notin Calls \cup {<<"ready">>, <<"new">>}
                         /\ step' \notin Calls \cup {<<"ready">>, <<"new">>}
                         /\ step[1] # "write" /\ step'[1] # "write"
      /\ step' = step => Stage' = Stage
  BY <1>2 DEF Calls, Rests, Stage
<1>4. Loaded' = Loaded /\ Open' = Open
  <2>1. Width' = Width
    BY <1>1 DEF Width
  <2>2. \A s : Flat(s)' = Flat(s)
    BY <2>1, Zenon DEF Flat
  <2>3. freq' = freq
    BY <1>1, Zenon DEF freq
  <2>4. Loaded' = Loaded
    <3>1. args' = args /\ file' = file
      BY <1>1 DEF fileVars
    <3>2. Flat(file["weight"])' = Flat(file["weight"])
      BY <2>2, <3>1, Zenon
    <3>3. Flat(file["intensity"])' = Flat(file["intensity"])
      BY <2>2, <3>1, Zenon
    <3>4. BandOf(freq, args.nfreq)' = BandOf(freq, args.nfreq) /\ TimesOf(file["time"])' = TimesOf(file["time"])
      BY <2>3, <3>1, Zenon
    <3>5. Len(file["time"])' = Len(file["time"])
      BY <3>1, Zenon
    <3> QED
      BY <2>1, <3>1, <3>2, <3>3, <3>4, <3>5, SMT DEF Loaded
  <2> QED
    BY <1>1, <2>4 DEF Open, fileVars
<1>5. ReaderInv'
  BY <1>1, <1>2, <1>3, <1>4 DEF IInv, ReaderInv, fileVars
<1>6. TypeInv'
  BY <1>1, <1>3 DEF IInv, TypeInv
<1>7. OpenInv'
  <2>1. ASSUME Open PROVE FileInv'
    <3>1. FileInv
      BY <2>1 DEF IInv, OpenInv
    <3>2. UNCHANGED <<args, chunk, file, curr_shape, writer, appended>>
      BY <1>1 DEF fileVars
    <3>3. /\ \A c : ChunkOK(c)' <=> ChunkOK(c)
          /\ Width' = Width /\ \A c, d, it : Column(c, d, it)' = Column(c, d, it)
      BY <3>2, ColumnKept
    <3>4. (Aligned \/ Masked \/ Displaced)'
      <4>1. CASE step' # step
        BY <3>1, <3>2, <1>3, <4>1, FileKept DEF FileInv, ShapeInv, Names, Calls
      <4>2. CASE step' = step
        <5>1. Stage' = Stage
          BY <1>3, <4>2
        <5>2. (\E p : Holds(p)) => (\E p : Holds(p))'
          BY <3>2, HoldsKept
        <5>3. \A n : Blank(n)' <=> Blank(n)
          BY <3>2, <3>3 DEF Blank
        <5>4. \A d, c : GoesOn(d, c)' <=> GoesOn(d, c)
          BY <3>2, <3>3, Zenon DEF GoesOn
        <5>5. \A c : Comes(appended, c)' <=> Comes(appended, c)
          BY <3>2, <3>3 DEF Comes, Succeeds
        <5>6. Aligned => Aligned'
          BY <3>2, <4>2, <5>1, <5>2, <5>3, <5>4 DEF Aligned
        <5>7. Masked => Masked'
          BY <3>2, <4>2, <5>1, <5>2, <5>3, <5>4, <5>5 DEF Masked
        <5>8. Displaced => Displaced'
          BY <3>2, <5>1 DEF Displaced
        <5> QED
          BY <3>1, <5>6, <5>7, <5>8 DEF FileInv
      <4> QED
        BY <4>1, <4>2
    <3>5. ShapeInv'
      BY <3>1, <3>2, <1>3 DEF FileInv, ShapeInv
    <3>6. WriterInv'
      BY <3>1, <3>2 DEF FileInv, WriterInv
    <3>7. Chained(appended)'
      BY <3>1, <3>2, <3>3 DEF FileInv, Chained, Succeeds
    <3>8. (step \in Calls => Comes(appended, chunk))'
      BY <3>1, <3>2, <3>3, <1>3 DEF FileInv, Comes, Succeeds
    <3>9. ValidArguments' /\ step' # <<"new">>
      BY <3>1, <3>2, <1>3 DEF FileInv, ValidArguments
    <3> QED
      BY <3>4, <3>5, <3>6, <3>7, <3>8, <3>9 DEF FileInv
  <2>2. step' \in Calls \cup {<<"ready">>} => Open'
    BY <1>3, <1>4 DEF IInv, OpenInv
  <2>3. ~Open' => appended' = <<>> /\ writer'.curr_nt = 0
                  /\ writer'.curr_ipos = 0 /\ writer'.curr_time = 0
    BY <1>1, <1>4 DEF IInv, OpenInv
  <2> QED
    BY <1>4, <2>1, <2>2, <2>3 DEF OpenInv
<1> QED
  BY <1>5, <1>6, <1>7 DEF IInv


LEMMA FailStep == IInv /\ CallFails => IInv'
<1> SUFFICES ASSUME IInv, CallFails PROVE IInv'
  OBVIOUS
<1>1. /\ step[1] \in {"extend", "write"} /\ step' = <<"ready">> /\ chunk' = NoChunk
      /\ UNCHANGED <<args, file, curr_shape, writer, reader, appended>>
  BY DEF CallFails, fileVars
<1>2. TypeInv
  BY DEF IInv
<1>3. step \in Calls /\ Stage = step[2] /\ Stage \in 1 .. 3 /\ step # <<"read">>
  BY <1>1, <1>2, StepKinds DEF TypeInv, Calls
<1>4. Open /\ FileInv
  BY <1>3 DEF IInv, OpenInv
<1>5. /\ step' \in Calls \cup Rests /\ step' \notin Calls /\ step' # <<"new">> /\ step' # <<"read">>
      /\ step'[1] # "write" /\ Stage' = 0 /\ step' # <<"write", 3>>
  BY <1>1 DEF Calls, Rests, Stage
<1>6. (Aligned \/ Masked \/ Displaced)'
  <2> DEFINE W == curr_shape["weight"]
             T == curr_shape["time"]
             n == Len(file["weight"])
             nt == chunk.nt
  <2>1. W \in Nat /\ T \in Nat /\ n \in Nat
    BY <1>4 DEF FileInv, ShapeInv, Names
  <2>2. nt \in Nat /\ nt > 0 /\ Comes(appended, chunk)
    BY <1>2, <1>3, <1>4 DEF FileInv, Comes, ChunkOK, TypeInv
  <2>3. CASE Stage = 1 \/ Masked
    <3>1. Stage < 2 /\ Stage' < 2 /\ Stage \in 0 .. 3 /\ Stage' \in 0 .. 3
      BY <1>3, <1>5, <2>3 DEF Masked
    <3>2. step # <<"write", 3>>
      BY <1>3, <3>1
    <3> QED
      BY <1>1, <1>4, <1>5, <2>1, <3>1, <3>2, FileKept DEF FileInv
  <2>4. CASE Displaced
    <3>1. IF Stage > 1 THEN W + nt < T ELSE W < T
      BY <2>1, <2>4 DEF Displaced
    <3>2. W < T /\ n < T
      BY <2>1, <2>2, <2>4, <3>1 DEF Displaced
    <3>3. Displaced'
      BY <1>1, <1>5, <3>2, <2>1 DEF Displaced
    <3> QED
      BY <3>3
  <2>5. CASE Aligned /\ Stage > 1 /\ step # <<"write", 3>>
    <3>1. T = W + nt /\ n = W
      BY <2>1, <2>5 DEF Aligned
    <3>2. Displaced'
      BY <1>1, <1>5, <2>1, <2>2, <3>1 DEF Displaced
    <3> QED
      BY <3>2
  <2>6. CASE Aligned /\ step = <<"write", 3>>
    <3>1. Stage = 3
      BY <1>3, <2>6
    <3>2. /\ T = W + nt /\ n = W + nt /\ curr_shape["intensity"] = W + nt
          /\ GoesOn("time", chunk) /\ Blank(n) /\ \E p : Holds(p)
      BY <2>6, <3>1 DEF Aligned
    <3>3. Width' = Width /\ \A c, d, it : Column(c, d, it)' = Column(c, d, it)
      BY <1>1, ColumnKept
    <3>4. \A c : ChunkOK(c)' <=> ChunkOK(c)
      BY <1>1, ColumnKept
    <3> DEFINE c == chunk
    <3> SUFFICES ASSUME NEW cc, cc = chunk PROVE Masked'
      OBVIOUS
    <3>5. Blank(Len(file["weight"]))'
      BY <1>1, <3>2, <3>3 DEF Blank
    <3>6. GoesOn("time", cc)'
      <4>1. \A it \in 0 .. cc.nt - 1 : file["time"][W + it + 1] = Column(cc, "time", it)
        BY <3>2 DEF GoesOn
      <4> QED
        BY <1>1, <3>3, <4>1 DEF GoesOn
    <3>7. Comes(appended, cc)'
      BY <1>1, <2>2, <3>4 DEF Comes, Succeeds
    <3>8. (\E p : Holds(p))'
      BY <1>1, <3>2, HoldsKept
    <3>9. Stage' < 2 /\ curr_shape' = curr_shape /\ Len(file["weight"])' = n
      BY <1>1, <1>5
    <3> QED
      BY <3>2, <3>5, <3>6, <3>7, <3>8, <3>9 DEF Masked
  <2> QED
    BY <1>3, <1>4, <2>3, <2>4, <2>5, <2>6 DEF FileInv
<1>7. ShapeInv'
  BY <1>1, <1>4, <1>5 DEF FileInv, ShapeInv
<1>8. WriterInv'
  BY <1>1, <1>4 DEF FileInv, WriterInv
<1>9. \A c : ChunkOK(c)' <=> ChunkOK(c)
  BY <1>1, ColumnKept
<1>10. Chained(appended)'
  BY <1>1, <1>4, <1>9 DEF FileInv, Chained, Succeeds
<1>11. ValidArguments'
  BY <1>1, <1>4 DEF FileInv, ValidArguments
<1>12. FileInv' /\ Open'
  BY <1>1, <1>4, <1>5, <1>6, <1>7, <1>8, <1>10, <1>11 DEF FileInv, Open
<1>13. TypeInv'
  BY <1>1, <1>2, <1>5 DEF TypeInv, NoChunk
<1>14. OpenInv'
  BY <1>12 DEF OpenInv
<1>15. ReaderInv'
  BY <1>1, <1>3, <1>5 DEF IInv, ReaderInv
<1> QED
  BY <1>13, <1>14, <1>15 DEF IInv

LEMMA ExtendStep == IInv /\ Extend => IInv'
<1> SUFFICES ASSUME IInv, Extend PROVE IInv'
  OBVIOUS
<1> DEFINE j == step[2]
           d == Datasets[j]
           n == curr_shape[d] + chunk.nt
           longer == [i \in 1 .. n |-> IF i <= Len(file[d]) THEN file[d][i] ELSE FillValue(d)]
<1>1. /\ step[1] = "extend" /\ step' = <<"write", j>>
      /\ file' = [file EXCEPT ![d] = longer]
      /\ UNCHANGED <<args, chunk, curr_shape, writer, reader, appended>>
  BY DEF Extend, LengthAfter, counters
<1>2. TypeInv
  BY DEF IInv
<1>3. step \in Calls /\ Stage = j /\ j \in 1 .. 3 /\ step # <<"read">> /\ step = <<"extend", j>>
  BY <1>1, <1>2, StepKinds DEF TypeInv, Calls
<1>4. Open /\ FileInv
  BY <1>3 DEF IInv, OpenInv
<1>5. /\ step' \in Calls /\ step' # <<"new">> /\ step' # <<"read">>
      /\ step'[1] = "write" /\ step'[2] = j /\ Stage' = j
      /\ step' = <<"write", 3>> <=> j = 3
  BY <1>1, <1>3 DEF Calls, Stage
<1>6. d \in Names /\ (d = "time" <=> j = 1) /\ (d = "intensity" <=> j = 2) /\ (d = "weight" <=> j = 3)
  BY <1>3, DatasetNames
<1>7. /\ \A e \in Names : /\ curr_shape[e] \in Nat /\ Len(file[e]) \in Nat
                          /\ DOMAIN file[e] = 1 .. Len(file[e]) /\ Len(file[e]) >= curr_shape[e]
      /\ DOMAIN curr_shape = Names /\ DOMAIN file = Names
  BY <1>4 DEF FileInv, ShapeInv, Open
<1>8. chunk.nt \in Nat /\ chunk.nt > 0 /\ Comes(appended, chunk)
  BY <1>2, <1>3, <1>4 DEF FileInv, Comes, ChunkOK, TypeInv
<1>9. n \in Nat /\ n > curr_shape[d]
  BY <1>6, <1>7, <1>8
<1>10. DOMAIN longer = 1 .. n /\ Len(longer) = n
  <2>1. DOMAIN longer = 1 .. n
    OBVIOUS
  <2> HIDE DEF longer, n
  <2> QED
    BY <1>9, <2>1, LengthIs
<1>11. \A i \in 1 .. curr_shape[d] : longer[i] = file[d][i]
  BY <1>6, <1>7, <1>9
<1>12. \A i \in 1 .. n : i > Len(file[d]) => longer[i] = FillValue(d)
  BY <1>6, <1>7
<1>a. Len(longer) = curr_shape[d] + chunk.nt
  BY <1>10
<1> HIDE DEF longer, n, d, j
<1>13. /\ DOMAIN file' = Names /\ file'[d] = longer
       /\ \A e \in Names : e # d => file'[e] = file[e]
  BY <1>1, <1>6, <1>7
<1>14. \A e \in Names : \A i \in 1 .. curr_shape[e] : file'[e][i] = file[e][i]
  BY <1>11, <1>13
<1>15. Width' = Width /\ \A c, e, it : Column(c, e, it)' = Column(c, e, it)
  BY <1>1, ColumnKept
<1>16. \A c : ChunkOK(c)' <=> ChunkOK(c)
  BY <1>1, ColumnKept
<1> DEFINE W == curr_shape["weight"]
           T == curr_shape["time"]
           m == Len(file["weight"])
           nt == chunk.nt
<1>17. W \in Nat /\ T \in Nat /\ m \in Nat /\ "weight" \in Names /\ "time" \in Names /\ "intensity" \in Names
  BY <1>7 DEF Names
<1>18. Aligned \/ Masked \/ Displaced
  BY <1>4 DEF FileInv
<1>19. Aligned \/ Masked => (\E p : Holds(p))'
  <2> SUFFICES ASSUME Aligned \/ Masked PROVE (\E p : Holds(p))'
    OBVIOUS
  <2>0. Aligned \/ Masked
    OBVIOUS
  <2>1. (\E p : Holds(p)) /\ T >= W /\ curr_shape["intensity"] >= W
    <3>1. CASE Aligned
      BY <1>8, <1>17, <3>1 DEF Aligned
    <3>2. CASE Masked
      <4>1. PICK c : /\ Comes(appended, c) /\ \E p : Holds(p)
                     /\ T = W + c.nt /\ curr_shape["intensity"] = W + c.nt
        BY <3>2 DEF Masked
      <4>2. c.nt \in Int /\ c.nt > 0
        BY <4>1, Constants DEF Comes, ChunkOK
      <4> QED
        BY <1>17, <4>1, <4>2
    <3> QED
      BY <2>0, <3>1, <3>2
  <2>2. \A e \in Names : curr_shape[e] >= W
    BY <1>17, <2>1 DEF Names
  <2>3. \A e \in Names : \A i \in 1 .. W : file'[e][i] = file[e][i]
    <3> SUFFICES ASSUME NEW e \in Names, NEW i \in 1 .. W
                 PROVE  file'[e][i] = file[e][i]
      OBVIOUS
    <3>1. i \in 1 .. curr_shape[e]
      BY <1>7, <1>17, <2>2
    <3> QED
      BY <1>14, <3>1
  <2> QED
    BY <1>1, <2>1, <2>3, HoldsKept
<1>20. Aligned => Aligned'
  <2> SUFFICES ASSUME Aligned PROVE Aligned'
    OBVIOUS
  <2>1. /\ T = W + (IF j > 1 THEN nt ELSE 0)
        /\ curr_shape["intensity"] = W + (IF j > 2 THEN nt ELSE 0)
        /\ m = W /\ Blank(m)
        /\ j > 1 => GoesOn("time", chunk)
        /\ j > 2 => GoesOn("intensity", chunk)
    BY <1>3, <1>17 DEF Aligned
  <2>2. j > 1 => GoesOn("time", chunk)'
    <3>1. j > 1 => file'["time"] = file["time"]
      BY <1>3, <1>6, <1>13, <1>17
    <3>2. \A c, it : Column(c, "time", it)' = Column(c, "time", it)
      BY <1>15
    <3> QED
      BY <1>1, <2>1, <3>1, <3>2 DEF GoesOn
  <2>3. j > 2 => GoesOn("intensity", chunk)'
    <3>1. j > 2 => file'["intensity"] = file["intensity"]
      BY <1>3, <1>6, <1>13, <1>17
    <3>2. \A c, it : Column(c, "intensity", it)' = Column(c, "intensity", it)
      BY <1>15
    <3> QED
      BY <1>1, <2>1, <3>1, <3>2 DEF GoesOn
  <2>4. CASE j = 3
    <3>1. d = "weight" /\ file'["weight"] = longer /\ Len(longer) = W + nt
      BY <1>6, <1>13, <1>a, <2>4
    <3>2. Blank(W + nt)'
      <4> SUFFICES ASSUME NEW i \in W + 1 .. W + nt
                   PROVE  longer[i] = [k \in 0 .. Width - 1 |-> 0]
        BY <1>1, <1>15, <3>1 DEF Blank
      <4>1. i \in 1 .. n /\ i > Len(file[d])
        BY <1>8, <1>17, <2>1, <3>1 DEF n
      <4> QED
        BY <1>12, <3>1, <4>1 DEF FillValue
    <3>3. Len(file'["weight"]) = W + nt
      BY <3>1
    <3>4. Blank(Len(file["weight"]))'
      BY <1>1, <3>2, <3>3 DEF Blank
    <3>5. step' = <<"write", 3>>
      BY <1>5, <2>4
    <3> QED
      BY <1>1, <1>5, <1>19, <2>1, <2>2, <2>3, <3>3, <3>4, <3>5 DEF Aligned
  <2>5. CASE j # 3
    <3>1. file'["weight"] = file["weight"] /\ step' # <<"write", 3>>
      BY <1>5, <1>6, <1>13, <1>17, <2>5
    <3>2. Blank(Len(file["weight"]))'
      BY <1>1, <1>15, <2>1, <3>1 DEF Blank
    <3> QED
      BY <1>1, <1>5, <1>17, <1>19, <2>1, <2>2, <2>3, <3>1, <3>2 DEF Aligned
  <2> QED
    BY <2>4, <2>5
<1>21. Masked => Masked'
  <2> SUFFICES ASSUME Masked PROVE Masked'
    OBVIOUS
  <2>1. PICK c : /\ Stage < 2 /\ Comes(appended, c)
                 /\ T = W + c.nt /\ curr_shape["intensity"] = W + c.nt /\ m = W + c.nt
                 /\ GoesOn("time", c) /\ Blank(m)
    BY DEF Masked
  <2>2. Stage' < 2 /\ d = "time" /\ file'["weight"] = file["weight"]
    BY <1>3, <1>5, <1>6, <1>13, <1>17, <2>1
  <2>3. Blank(Len(file["weight"]))'
    BY <1>1, <1>15, <2>1, <2>2 DEF Blank
  <2>4. GoesOn("time", c)'
    <3>1. c.nt \in Int
      BY <2>1, Constants DEF Comes, ChunkOK
    <3>2. ASSUME NEW it \in 0 .. c.nt - 1 PROVE file'["time"][W + it + 1] = Column(c, "time", it)
      <4>1. W + it + 1 \in 1 .. T
        BY <1>17, <2>1, <3>1
      <4>2. file["time"][W + it + 1] = Column(c, "time", it)
        BY <2>1 DEF GoesOn
      <4> QED
        BY <1>14, <1>17, <4>1, <4>2
    <3>3. \A it : Column(c, "time", it)' = Column(c, "time", it)
      BY <1>15
    <3> QED
      BY <1>1, <3>2, <3>3 DEF GoesOn
  <2>5. Comes(appended, c)'
    BY <1>1, <1>16, <2>1 DEF Comes, Succeeds
  <2> QED
    BY <1>1, <1>19, <2>1, <2>2, <2>3, <2>4, <2>5 DEF Masked
<1>22. Displaced => Displaced'
  <2> SUFFICES ASSUME Displaced PROVE Displaced'
    OBVIOUS
  <2>1. W + (IF j > 1 THEN nt ELSE 0) < T /\ m < T
    BY <1>3 DEF Displaced
  <2>2. Len(file'["weight"]) < T
    <3>1. CASE j = 3
      <4>1. Len(file'["weight"]) = W + nt
        BY <1>6, <1>13, <1>a, <3>1
      <4> QED
        BY <2>1, <3>1, <4>1
    <3>2. CASE j # 3
      <4>1. file'["weight"] = file["weight"]
        BY <1>6, <1>13, <1>17, <3>2
      <4> QED
        BY <2>1, <4>1
    <3> QED
      BY <3>1, <3>2
  <2> QED
    BY <1>1, <1>5, <2>1, <2>2 DEF Displaced
<1>23. ShapeInv'
  <2>1. ASSUME NEW e \in Names
        PROVE  /\ DOMAIN file'[e] = 1 .. Len(file'[e]) /\ Len(file'[e]) \in Nat
               /\ Len(file'[e]) >= curr_shape[e]
    <3>1. CASE e = d
      BY <1>7, <1>9, <1>10, <1>13, <3>1
    <3>2. CASE e # d
      BY <1>7, <1>13, <3>2
    <3> QED
      BY <3>1, <3>2
  <2>2. Len(file'[d]) = curr_shape[d] + chunk.nt
    BY <1>13, <1>a
  <2> QED
    BY <1>1, <1>5, <1>7, <2>1, <2>2 DEF ShapeInv, d
<1>24. WriterInv'
  BY <1>1, <1>4 DEF FileInv, WriterInv
<1>25. Chained(appended)' /\ Comes(appended, chunk)'
  BY <1>1, <1>4, <1>8, <1>16 DEF FileInv, Chained, Succeeds, Comes
<1>26. ValidArguments'
  BY <1>1, <1>4 DEF FileInv, ValidArguments
<1>27. FileInv' /\ Open'
  BY <1>5, <1>13, <1>18, <1>20, <1>21, <1>22, <1>23, <1>24, <1>25, <1>26 DEF FileInv, Open
<1>28. TypeInv'
  BY <1>1, <1>2, <1>5 DEF TypeInv
<1>29. OpenInv'
  BY <1>27 DEF OpenInv
<1>30. ReaderInv'
  BY <1>1, <1>3, <1>5 DEF IInv, ReaderInv
<1> QED
  BY <1>28, <1>29, <1>30 DEF IInv


(* What a call that writes columns leaves in the file. *)
Written(j) ==
  LET d == Datasets[j]
  IN  /\ DOMAIN file' = Names
      /\ \A e \in Names : e # d => file'[e] = file[e] /\ curr_shape'[e] = curr_shape[e]
      /\ DOMAIN curr_shape' = Names
      /\ curr_shape'[d] = curr_shape[d] + chunk.nt
      /\ DOMAIN file'[d] = 1 .. Len(file[d]) /\ Len(file'[d]) = Len(file[d])
      /\ \A i \in 1 .. curr_shape[d] : file'[d][i] = file[d][i]
      /\ \A it \in 0 .. chunk.nt - 1 : file'[d][curr_shape[d] + it + 1] = Column(chunk, d, it)

LEMMA WriteWrites ==
  ASSUME IInv, Write
  PROVE  /\ step \in Calls /\ step[2] \in 1 .. 3 /\ Stage = step[2] /\ step = <<"write", step[2]>>
         /\ step # <<"read">>
         /\ Open /\ FileInv /\ TypeInv
         /\ Written(step[2])
         /\ chunk.nt \in Nat /\ chunk.nt > 0 /\ Comes(appended, chunk)
         /\ UNCHANGED <<args, reader>>
<1> DEFINE j == step[2]
           d == Datasets[j]
           old == curr_shape[d]
           s == [i \in 1 .. Len(file[d]) |->
                   IF i \in old + 1 .. old + chunk.nt
                   THEN Column(chunk, d, i - old - 1) ELSE file[d][i]]
<1>1. /\ step[1] = "write"
      /\ file' = [file EXCEPT ![d] = s]
      /\ curr_shape' = [curr_shape EXCEPT ![d] = @ + chunk.nt]
      /\ UNCHANGED <<args, reader>>
  BY DEF Write, WithColumns, LengthAfter
<1>2. TypeInv
  BY DEF IInv
<1>3. step \in Calls /\ Stage = j /\ j \in 1 .. 3 /\ step # <<"read">> /\ step = <<"write", j>>
  BY <1>1, <1>2, StepKinds DEF TypeInv, Calls
<1>4. Open /\ FileInv
  BY <1>3 DEF IInv, OpenInv
<1>5. chunk.nt \in Nat /\ chunk.nt > 0 /\ Comes(appended, chunk)
  BY <1>2, <1>3, <1>4 DEF FileInv, Comes, ChunkOK, TypeInv
<1>6. d \in Names
  BY <1>3, DatasetNames
<1>7. /\ old \in Nat /\ Len(file[d]) \in Nat /\ Len(file[d]) = old + chunk.nt
      /\ DOMAIN file = Names /\ DOMAIN curr_shape = Names
  BY <1>1, <1>4, <1>6 DEF FileInv, ShapeInv, Open
<1>8. DOMAIN s = 1 .. Len(file[d]) /\ Len(s) = Len(file[d])
  <2>1. DOMAIN s = 1 .. Len(file[d])
    OBVIOUS
  <2> HIDE DEF s
  <2> QED
    BY <1>7, <2>1, LengthIs
<1>9. \A i \in 1 .. old : s[i] = file[d][i]
  BY <1>7, <1>5
<1>10. \A it \in 0 .. chunk.nt - 1 : s[old + it + 1] = Column(chunk, d, it)
  <2> TAKE it \in 0 .. chunk.nt - 1
  <2>1. /\ old + it + 1 \in 1 .. Len(file[d]) /\ old + it + 1 \in old + 1 .. old + chunk.nt
        /\ (old + it + 1) - old - 1 = it
    <3> DEFINE len == Len(file[d])
               nt == chunk.nt
    <3>1. old \in Nat /\ len = old + nt /\ nt \in Nat /\ it \in 0 .. nt - 1
      BY <1>5, <1>7
    <3> HIDE DEF old, len, nt
    <3>2. /\ old + it + 1 \in 1 .. len /\ old + it + 1 \in old + 1 .. old + nt
          /\ (old + it + 1) - old - 1 = it
      BY <3>1
    <3> QED
      BY <3>2 DEF len, nt
  <2> QED
    BY <2>1
<1> HIDE DEF s, old
<1>11. Written(j)
  <2>1. file'[d] = s /\ curr_shape'[d] = curr_shape[d] + chunk.nt
        /\ DOMAIN file' = Names /\ DOMAIN curr_shape' = Names
        /\ \A e \in Names : e # d => file'[e] = file[e] /\ curr_shape'[e] = curr_shape[e]
    BY <1>1, <1>6, <1>7
  <2> HIDE DEF d, j
  <2> QED
    BY <1>8, <1>9, <1>10, <2>1 DEF Written, old, d
<1> QED
  BY <1>1, <1>2, <1>3, <1>4, <1>5, <1>11

LEMMA WriteOnStep ==
  ASSUME IInv, Write, step[2] < 3
  PROVE  IInv'
<1> DEFINE j == step[2]
           d == Datasets[j]
           W == curr_shape["weight"]
           T == curr_shape["time"]
           I == curr_shape["intensity"]
           m == Len(file["weight"])
           nt == chunk.nt
<1>1. /\ step \in Calls /\ j \in 1 .. 2 /\ Stage = j /\ step = <<"write", j>> /\ step # <<"read">>
      /\ Open /\ FileInv /\ TypeInv /\ Written(j)
      /\ nt \in Nat /\ nt > 0 /\ Comes(appended, chunk)
      /\ UNCHANGED <<args, reader>>
  BY WriteWrites
<1>2. step' = <<"extend", j + 1>> /\ UNCHANGED <<chunk, writer, appended>>
  BY DEF Write
<1>3. /\ step' \in Calls /\ step' # <<"new">> /\ step' # <<"read">> /\ step' # <<"write", 3>>
      /\ step'[1] # "write" /\ Stage' = j + 1 /\ step # <<"write", 3>>
  BY <1>1, <1>2 DEF Calls, Stage
<1>4. d \in Names /\ d # "weight" /\ (d = "time" <=> j = 1) /\ (d = "intensity" <=> j = 2)
  BY <1>1, DatasetNames
<1>5. /\ DOMAIN file' = Names
      /\ \A e \in Names : e # d => file'[e] = file[e] /\ curr_shape'[e] = curr_shape[e]
      /\ DOMAIN curr_shape' = Names
      /\ curr_shape'[d] = curr_shape[d] + nt
      /\ DOMAIN file'[d] = 1 .. Len(file[d]) /\ Len(file'[d]) = Len(file[d])
      /\ \A i \in 1 .. curr_shape[d] : file'[d][i] = file[d][i]
      /\ \A it \in 0 .. nt - 1 : file'[d][curr_shape[d] + it + 1] = Column(chunk, d, it)
  BY <1>1 DEF Written
<1>6. /\ \A e \in Names : /\ curr_shape[e] \in Nat /\ Len(file[e]) \in Nat
                          /\ DOMAIN file[e] = 1 .. Len(file[e]) /\ Len(file[e]) >= curr_shape[e]
      /\ Len(file[d]) = curr_shape[d] + nt
  BY <1>1 DEF FileInv, ShapeInv
<1>7. W \in Nat /\ T \in Nat /\ I \in Nat /\ m \in Nat
      /\ "weight" \in Names /\ "time" \in Names /\ "intensity" \in Names
  BY <1>6 DEF Names
<1> HIDE DEF j, d
<1>8. file'["weight"] = file["weight"] /\ curr_shape'["weight"] = W
  BY <1>4, <1>5, <1>7
<1>9. Width' = Width /\ \A c, e, it : Column(c, e, it)' = Column(c, e, it)
  BY <1>1, ColumnKept
<1>10. \A c : ChunkOK(c)' <=> ChunkOK(c)
  BY <1>1, ColumnKept
<1>11. Blank(m) => Blank(Len(file["weight"]))'
  BY <1>8, <1>9 DEF Blank
<1>12. (Aligned \/ Masked \/ Displaced)'
  <2>1. CASE Aligned
    <3>1. /\ \E p : Holds(p)
          /\ T = W + (IF j > 1 THEN nt ELSE 0) /\ I = W
          /\ m = W /\ Blank(m)
          /\ j > 1 => GoesOn("time", chunk)
      BY <1>1, <1>3, <1>7, <2>1 DEF Aligned
    <3>2. (\E p : Holds(p))'
      <4>1. \A e \in Names : \A i \in 1 .. W : file'[e][i] = file[e][i]
        <5> SUFFICES ASSUME NEW e \in Names, NEW i \in 1 .. W PROVE file'[e][i] = file[e][i]
          OBVIOUS
        <5>1. W <= curr_shape[d]
          BY <1>1, <1>4, <1>7, <3>1 DEF Names
        <5>2. e = d => i \in 1 .. curr_shape[d]
          BY <1>4, <1>6, <1>7, <5>1
        <5> QED
          BY <1>5, <5>2
      <4> QED
        BY <1>1, <1>2, <1>8, <3>1, <4>1, HoldsKept
    <3>3. CASE j = 1
      <4>1. d = "time" /\ T = W /\ curr_shape'["time"] = W + nt /\ curr_shape'["intensity"] = W
        BY <1>4, <1>5, <1>7, <3>1, <3>3
      <4>2. GoesOn("time", chunk)'
        <5>1. \A it \in 0 .. nt - 1 : file'["time"][W + it + 1] = Column(chunk, "time", it)
          BY <1>5, <4>1
        <5>2. Column(chunk, "time", 0)' = Column(chunk, "time", 0)
              /\ \A it : Column(chunk, "time", it)' = Column(chunk, "time", it)
          BY <1>2, <1>9
        <5> QED
          BY <1>2, <1>8, <5>1, <5>2 DEF GoesOn
      <4>3. Stage' > 1 /\ ~(Stage' > 2)
        BY <1>3, <3>3
      <4>4. Aligned'
        BY <1>2, <1>3, <1>8, <1>11, <3>1, <3>2, <4>1, <4>2, <4>3 DEF Aligned
      <4> QED
        BY <4>4
    <3>4. CASE j = 2
      <4>1. d = "intensity" /\ T = W + nt /\ I = W
            /\ curr_shape'["time"] = W + nt /\ curr_shape'["intensity"] = W + nt
            /\ file'["time"] = file["time"]
        BY <1>4, <1>5, <1>7, <3>1, <3>4
      <4>2. GoesOn("intensity", chunk)'
        <5>1. \A it \in 0 .. nt - 1 : file'["intensity"][W + it + 1] = Column(chunk, "intensity", it)
          BY <1>5, <4>1
        <5>2. \A it : Column(chunk, "intensity", it)' = Column(chunk, "intensity", it)
          BY <1>2, <1>9
        <5> QED
          BY <1>2, <1>8, <5>1, <5>2 DEF GoesOn
      <4>3. GoesOn("time", chunk)'
        <5>1. \A it : Column(chunk, "time", it)' = Column(chunk, "time", it)
          BY <1>2, <1>9
        <5> QED
          BY <1>2, <1>8, <3>1, <3>4, <4>1, <5>1 DEF GoesOn
      <4>4. Stage' > 1 /\ Stage' > 2
        BY <1>3, <3>4
      <4>5. Aligned'
        BY <1>2, <1>3, <1>8, <1>11, <3>1, <3>2, <4>1, <4>2, <4>3, <4>4 DEF Aligned
      <4> QED
        BY <4>5
    <3> QED
      BY <1>1, <3>3, <3>4
  <2>2. CASE Masked
    <3>1. PICK c : Stage < 2 /\ Comes(appended, c) /\ T = W + c.nt /\ m = W + c.nt
      BY <2>2 DEF Masked
    <3>2. c.nt \in Int /\ c.nt > 0
      BY <3>1, Constants DEF Comes, ChunkOK
    <3>3. j = 1 /\ d = "time" /\ curr_shape'["time"] = T + nt
      BY <1>1, <1>4, <1>5, <3>1
    <3>4. W + nt < T + nt /\ m < T + nt
      BY <1>1, <1>7, <3>1, <3>2
    <3>5. Displaced'
      BY <1>2, <1>3, <1>8, <3>3, <3>4 DEF Displaced
    <3> QED
      BY <3>5
  <2>3. CASE Displaced
    <3>1. W + (IF j > 1 THEN nt ELSE 0) < T /\ m < T
      BY <1>1, <2>3 DEF Displaced
    <3>2. curr_shape'["time"] = IF j = 1 THEN T + nt ELSE T
      BY <1>4, <1>5, <1>7
    <3>3. W + nt < curr_shape'["time"] /\ m < curr_shape'["time"] /\ Stage' > 1
      BY <1>1, <1>3, <1>7, <3>1, <3>2
    <3>4. Displaced'
      BY <1>2, <1>8, <3>3 DEF Displaced
    <3> QED
      BY <3>4
  <2> QED
    BY <1>1, <2>1, <2>2, <2>3 DEF FileInv
<1>13. ShapeInv'
  <2>1. ASSUME NEW e \in Names
        PROVE  /\ DOMAIN file'[e] = 1 .. Len(file'[e]) /\ Len(file'[e]) \in Nat
               /\ curr_shape'[e] \in Nat /\ Len(file'[e]) >= curr_shape'[e]
    <3>1. CASE e = d
      BY <1>1, <1>4, <1>5, <1>6, <3>1
    <3>2. CASE e # d
      BY <1>5, <1>6, <3>2
    <3> QED
      BY <3>1, <3>2
  <2> QED
    BY <1>3, <1>5, <2>1 DEF ShapeInv
<1>14. WriterInv'
  BY <1>1, <1>2, <1>8 DEF FileInv, WriterInv
<1>15. Chained(appended)' /\ Comes(appended, chunk)'
  BY <1>1, <1>2, <1>10 DEF FileInv, Chained, Succeeds, Comes
<1>16. ValidArguments'
  BY <1>1 DEF FileInv, ValidArguments
<1>17. FileInv' /\ Open'
  BY <1>3, <1>5, <1>12, <1>13, <1>14, <1>15, <1>16 DEF FileInv, Open
<1>18. TypeInv'
  BY <1>1, <1>2, <1>3 DEF TypeInv
<1>19. OpenInv'
  BY <1>17 DEF OpenInv
<1>20. ReaderInv'
  BY <1>1, <1>3 DEF IInv, ReaderInv
<1> QED
  BY <1>18, <1>19, <1>20 DEF IInv


LEMMA WriteLastStep ==
  ASSUME IInv, Write, ~(step[2] < 3)
  PROVE  IInv'
<1> DEFINE W == curr_shape["weight"]
           T == curr_shape["time"]
           I == curr_shape["intensity"]
           m == Len(file["weight"])
           nt == chunk.nt
           Chunks == [nt : Int, ipos : Int, t0 : Int, pattern : Patterns \cup {0}]
<1>1. /\ step \in Calls /\ step[2] \in 1 .. 3 /\ Stage = step[2] /\ step = <<"write", step[2]>>
      /\ step # <<"read">>
      /\ Open /\ FileInv /\ TypeInv /\ Written(step[2])
      /\ nt \in Nat /\ nt > 0 /\ Comes(appended, chunk)
      /\ UNCHANGED <<args, reader>>
  BY WriteWrites
<1>2. step[2] = 3 /\ Stage = 3 /\ step = <<"write", 3>> /\ Written(3)
  BY <1>1
<1>3. /\ step' = <<"ready">>
      /\ writer' = [writer EXCEPT !.curr_nt = @ + nt, !.curr_ipos = chunk.ipos + nt,
                                  !.curr_time = chunk.t0 + nt * Dt]
      /\ appended' = Append(appended, chunk)
      /\ chunk' = NoChunk
  BY <1>2 DEF Write
<1>4. /\ step' \in Calls \cup Rests /\ step' \notin Calls /\ step' # <<"new">> /\ step' # <<"read">>
      /\ step' # <<"write", 3>> /\ step'[1] # "write" /\ Stage' = 0
  BY <1>3 DEF Calls, Rests, Stage
<1>5. /\ DOMAIN file' = Names
      /\ file'["time"] = file["time"] /\ file'["intensity"] = file["intensity"]
      /\ curr_shape'["time"] = T /\ curr_shape'["intensity"] = I
      /\ DOMAIN curr_shape' = Names
      /\ curr_shape'["weight"] = W + nt
      /\ DOMAIN file'["weight"] = 1 .. m /\ Len(file'["weight"]) = m
      /\ \A i \in 1 .. W : file'["weight"][i] = file["weight"][i]
      /\ \A it \in 0 .. nt - 1 : file'["weight"][W + it + 1] = Column(chunk, "weight", it)
  BY <1>2, DatasetNames DEF Written, Names
<1>6. /\ \A e \in Names : /\ curr_shape[e] \in Nat /\ Len(file[e]) \in Nat
                          /\ DOMAIN file[e] = 1 .. Len(file[e]) /\ Len(file[e]) >= curr_shape[e]
      /\ m = W + nt
  BY <1>1, <1>2, DatasetNames DEF FileInv, ShapeInv
<1>7. W \in Nat /\ T \in Nat /\ I \in Nat /\ m \in Nat
  BY <1>6 DEF Names
<1>8. Width' = Width /\ \A c, e, it : Column(c, e, it)' = Column(c, e, it)
  BY <1>1, ColumnKept
<1>9. \A c : ChunkOK(c)' <=> ChunkOK(c)
  BY <1>1, ColumnKept
<1>10. /\ appended \in Seq(Chunks) /\ chunk \in Chunks /\ Len(appended) \in Nat
       /\ Len(appended') = Len(appended) + 1 /\ appended'[Len(appended) + 1] = chunk
       /\ \A k \in 1 .. Len(appended) : appended'[k] = appended[k]
       /\ appended' \in Seq(Chunks) /\ appended' # <<>>
  <2>1. appended \in Seq(Chunks) /\ chunk \in Chunks
    BY <1>1 DEF TypeInv
  <2> HIDE DEF Chunks
  <2> QED
    BY <1>3, <2>1
<1>11. appended = <<>> <=> W = 0
  BY <1>1 DEF FileInv, WriterInv
<1>12. (Aligned \/ Displaced)'
  <2>1. CASE Aligned
    <3>1. /\ \E p : Holds(p)
          /\ T = W + nt /\ I = W + nt /\ GoesOn("time", chunk) /\ GoesOn("intensity", chunk)
      BY <1>2, <2>1 DEF Aligned
    <3>2. PICK p : Holds(p)
      BY <3>1
    <3>q. PICK q : q = Further(appended, p, W, chunk)
      OBVIOUS
    <3>3. /\ Places(appended, p, W)
          /\ \A d \in Names : \A i \in 1 .. W : file[d][i] = Column(appended[p[i].k], d, p[i].it)
      BY <3>2 DEF Holds
    <3>4. Places(appended', q, W + nt)
      <4>1. \A k \in 1 .. Len(appended) : appended[k].nt \in Nat
        <5> TAKE k \in 1 .. Len(appended)
        <5>1. appended[k] \in Chunks
          BY <1>10, ElementOfSeq
        <5>2. appended[k].nt > 0
          BY <1>1 DEF FileInv, Chained, ChunkOK
        <5> QED
          BY <5>1, <5>2
      <4>2. nt \in Nat \ {0}
        BY <1>1
      <4> HIDE DEF Chunks
      <4>3. Places(Append(appended, chunk), Further(appended, p, W, chunk), W + nt)
        BY <1>7, <1>10, <1>11, <3>3, <4>1, <4>2, PlacesAppend
      <4> QED
        BY <1>3, <3>q, <4>3, Zenon
    <3>5. \A d \in Names : \A it \in 0 .. nt - 1 : file'[d][W + it + 1] = Column(chunk, d, it)
      BY <1>5, <3>1 DEF GoesOn, Names
    <3>6. \A d \in Names : \A i \in 1 .. W : file'[d][i] = file[d][i]
      BY <1>5 DEF Names
    <3>7. \A i \in 1 .. W : p[i].k \in 1 .. Len(appended)
      BY <3>3 DEF Places
    <3>8. \A i \in 1 .. W : q[i] = p[i]
      BY <1>7, <1>1, <3>q DEF Further
    <3>9. \A it \in 0 .. nt - 1 : q[W + it + 1].k = Len(appended) + 1 /\ q[W + it + 1].it = it
      <4> TAKE it \in 0 .. nt - 1
      <4> DEFINE i == W + it + 1
      <4>1. i \in 1 .. W + nt /\ ~(i <= W) /\ i - W - 1 = it
        BY <1>1, <1>7, SMTT(30)
      <4> HIDE DEF i
      <4>2. q[i] = [k |-> Len(appended) + 1, it |-> it]
        BY <4>1, <3>q DEF Further
      <4> QED
        BY <4>2 DEF i
    <3>10. ASSUME NEW d \in Names, NEW i \in 1 .. W + nt
           PROVE  file'[d][i] = Column(appended'[q[i].k], d, q[i].it)
      <4>1. CASE i <= W
        <5>1. i \in 1 .. W
          BY <1>7, <4>1
        <5>2. file'[d][i] = Column(appended[p[i].k], d, p[i].it)
          BY <3>3, <3>6, <5>1
        <5>3. appended'[p[i].k] = appended[p[i].k] /\ q[i] = p[i]
          BY <1>10, <3>7, <3>8, <5>1
        <5> QED
          BY <5>2, <5>3
      <4>2. CASE ~(i <= W)
        <5>1. i - W - 1 \in 0 .. nt - 1 /\ i = W + (i - W - 1) + 1
          BY <1>1, <1>7, <4>2, SMTT(30)
        <5>2. PICK it \in 0 .. nt - 1 : i = W + it + 1
          BY <5>1
        <5>3. q[i].k = Len(appended) + 1 /\ q[i].it = it /\ file'[d][i] = Column(chunk, d, it)
          BY <3>5, <3>9, <5>2
        <5> QED
          BY <1>10, <5>3
      <4> QED
        BY <4>1, <4>2
    <3>11. Holds(q)'
      <4>1. \A d, i : Column(appended[q[i].k], d, q[i].it)' = Column(appended'[q[i].k], d, q[i].it)
        BY <1>8
      <4>2. \A d \in Names : \A i \in 1 .. W + nt :
              file'[d][i] = Column(appended[q[i].k], d, q[i].it)'
        BY <3>10, <4>1
      <4>3. Places(appended, q, curr_shape["weight"])'
        BY <1>5, <3>4 DEF Places, Neighbours
      <4>4. (\A d \in Names : \A i \in 1 .. curr_shape["weight"] :
               file[d][i] = Column(appended[q[i].k], d, q[i].it))'
        BY <1>5, <4>2
      <4> QED
        BY <4>3, <4>4, Zenon DEF Holds
    <3>12. Blank(Len(file["weight"]))'
      BY <1>5, <1>6, <1>7, <1>1 DEF Blank
    <3>13. ~(Stage' > 1) /\ ~(Stage' > 2)
      BY <1>4
    <3>14. (\E r : Holds(r))'
      BY <3>11
    <3>15. Aligned'
      BY <1>1, <1>4, <1>5, <1>6, <1>7, <3>1, <3>12, <3>13, <3>14 DEF Aligned
    <3> QED
      BY <3>15
  <2>2. CASE Displaced
    <3>1. W + nt < T /\ m < T
      BY <1>2, <2>2 DEF Displaced
    <3>2. ~(Stage' > 1) /\ W + nt \in Nat
      BY <1>1, <1>4, <1>7
    <3>3. Displaced'
      BY <1>5, <3>1, <3>2 DEF Displaced
    <3> QED
      BY <3>3
  <2>3. ~Masked
    BY <1>2 DEF Masked
  <2> QED
    BY <1>1, <2>1, <2>2, <2>3 DEF FileInv
<1>13. ShapeInv'
  <2>1. ASSUME NEW e \in Names
        PROVE  /\ DOMAIN file'[e] = 1 .. Len(file'[e]) /\ Len(file'[e]) \in Nat
               /\ curr_shape'[e] \in Nat /\ Len(file'[e]) >= curr_shape'[e]
    <3>1. CASE e = "weight"
      BY <1>1, <1>5, <1>6, <1>7, <3>1
    <3>2. CASE e = "time"
      BY <1>5, <1>6, <3>2
    <3>3. CASE e = "intensity"
      BY <1>5, <1>6, <3>3
    <3> QED
      BY <3>1, <3>2, <3>3 DEF Names
  <2> QED
    BY <1>4, <1>5, <2>1 DEF ShapeInv
<1>14. /\ writer'.curr_nt = W + nt /\ writer'.curr_ipos = chunk.ipos + nt
       /\ writer'.curr_time = chunk.t0 + nt * Dt /\ DOMAIN writer' = DOMAIN writer
  BY <1>1, <1>3 DEF FileInv, WriterInv, TypeInv
<1>15. WriterInv'
  <2>1. writer'.curr_nt = curr_shape'["weight"]
    BY <1>5, <1>14
  <2>2. appended' # <<>> /\ writer'.curr_nt # 0
    BY <1>1, <1>7, <1>10, <1>14, SMTT(30)
  <2>3. appended'[Len(appended')] = chunk
    BY <1>10
  <2> QED
    BY <1>14, <2>1, <2>2, <2>3 DEF WriterInv
<1>16. Chained(appended)'
  <2>1. \A k \in 1 .. Len(appended') : ChunkOK(appended'[k])
    <3> TAKE k \in 1 .. Len(appended')
    <3>1. CASE k = Len(appended) + 1
      BY <1>1, <1>10, <3>1 DEF Comes
    <3>2. CASE k # Len(appended) + 1
      <4>1. k \in 1 .. Len(appended)
        BY <1>10, <3>2
      <4> QED
        BY <1>1, <1>10, <4>1 DEF FileInv, Chained
    <3> QED
      BY <3>1, <3>2
  <2>2. \A k \in 1 .. Len(appended') - 1 : Succeeds(appended'[k], appended'[k + 1])
    <3> TAKE k \in 1 .. Len(appended') - 1
    <3>1. k \in 1 .. Len(appended) /\ appended'[k] = appended[k]
      BY <1>10
    <3>2. CASE k = Len(appended)
      <4>1. appended # <<>>
        BY <3>1
      <4> QED
        BY <1>1, <1>10, <3>1, <3>2, <4>1 DEF Comes
    <3>3. CASE k # Len(appended)
      <4>1. k \in 1 .. Len(appended) - 1 /\ k + 1 \in 1 .. Len(appended)
        BY <1>10, <3>1, <3>3
      <4> QED
        BY <1>1, <1>10, <4>1 DEF FileInv, Chained
    <3> QED
      BY <3>2, <3>3
  <2> QED
    BY <1>9, <2>1, <2>2 DEF Chained, Succeeds
<1>17. ValidArguments'
  BY <1>1 DEF FileInv, ValidArguments
<1>18. FileInv' /\ Open'
  BY <1>4, <1>5, <1>12, <1>13, <1>15, <1>16, <1>17 DEF FileInv, Open
<1>19. TypeInv'
  <2>1. chunk.ipos \in Int /\ chunk.t0 \in Int /\ Dt \in Int
    BY <1>10, Constants
  <2>a. nt * Dt \in Int
    BY <1>1, <2>1
  <2>2. /\ writer'.curr_nt \in Nat /\ writer'.curr_ipos \in Int /\ writer'.curr_time \in Int
    <3> DEFINE x == nt * Dt
               y == chunk.ipos
               z == chunk.t0
    <3>1. /\ writer'.curr_nt = W + nt /\ writer'.curr_ipos = y + nt /\ writer'.curr_time = z + x
          /\ x \in Int /\ y \in Int /\ z \in Int /\ W \in Nat /\ nt \in Nat
      BY <1>1, <1>7, <1>14, <2>1, <2>a
    <3> HIDE DEF x, y, z, W, nt
    <3> QED
      BY <3>1
  <2>3. chunk' \in Chunks
    BY <1>3 DEF NoChunk
  <2> QED
    BY <1>1, <1>4, <1>10, <1>14, <2>2, <2>3 DEF TypeInv
<1>20. OpenInv'
  BY <1>18 DEF OpenInv
<1>21. ReaderInv'
  BY <1>1, <1>4 DEF IInv, ReaderInv
<1> QED
  BY <1>19, <1>20, <1>21 DEF IInv

LEMMA WriteStep == IInv /\ Write => IInv'
BY WriteOnStep, WriteLastStep

LEMMA NextIInv == IInv /\ [Next]_vars => IInv'
<1> SUFFICES ASSUME IInv, [Next]_vars PROVE IInv'
  OBVIOUS
<1>1. CASE Construct
  BY <1>1, ConstructStep
<1>2. ASSUME NEW nt \in Lengths, NEW gap \in Gaps, NEW pattern \in Patterns,
             \/ AppendUntimed(nt, gap, pattern)
             \/ \E drift \in Drifts : AppendTimed(nt, gap, drift, pattern)
      PROVE  IInv'
  BY <1>2, AppendsStep
<1>3. CASE Extend
  BY <1>3, ExtendStep
<1>4. CASE Write
  BY <1>4, WriteStep
<1>5. CASE CallFails
  BY <1>5, FailStep
<1>6. CASE Close
  BY <1>6, CloseStep
<1>7. CASE Read \/ Done \/ UNCHANGED vars
  BY <1>7, ReadStep DEF Done
<1> QED
  BY <1>1, <1>2, <1>3, <1>4, <1>5, <1>6, <1>7 DEF Next

LEMMA Invariance == Spec => []IInv
<1>1. Init => IInv
  BY InitIInv
<1>2. IInv /\ [Next]_vars => IInv'
  BY NextIInv
<1> QED
  BY <1>1, <1>2, PTL DEF Spec


-----------------------------------------------------------------------------
(* The reader: numbers.                                                     *)

LEMMA NoGap ==
  ASSUME NEW n \in Nat \ {0}, NEW x \in Int, NEW y \in Int, x < y
  PROVE  n * x + n <= n * y
<1>1. PICK d \in Nat : y = x + 1 + d
  <2>1. y - x - 1 \in Nat /\ y = x + 1 + (y - x - 1)
    OBVIOUS
  <2> QED
    BY <2>1
<1>2. n * y = n * x + n + n * d
  BY <1>1
<1>3. n * d >= 0 /\ n * d \in Int /\ n * x \in Int
  BY <1>1
<1> QED
  BY <1>2, <1>3

LEMMA DivMod ==
  ASSUME NEW n \in Nat \ {0}, NEW x \in Nat
  PROVE  /\ x = n * (x \div n) + (x % n)
         /\ x \div n \in Nat /\ x % n \in 0 .. n - 1
  OBVIOUS

LEMMA Numbering ==
  ASSUME NEW n \in Nat \ {0}, NEW q \in Nat, NEW k \in 0 .. n - 1
  PROVE  (n * q + k) \div n = q /\ (n * q + k) % n = k
<1> DEFINE x == n * q + k
           r == x \div n
           j == x % n
<1>1. n * q \in Nat /\ x \in Nat /\ x = n * q + k
  OBVIOUS
<1>2. x = n * r + j /\ r \in Nat /\ j \in 0 .. n - 1
  BY <1>1, DivMod
<1> HIDE DEF x, r, j
<1>3. n * r \in Nat
  BY <1>2
<1>4. ~(q < r)
  <2>1. ASSUME q < r PROVE n * q + n <= n * r
    BY <1>2, <2>1, NoGap
  <2> QED
    BY <1>1, <1>2, <1>3, <2>1
<1>5. ~(r < q)
  <2>1. ASSUME r < q PROVE n * r + n <= n * q
    BY <1>2, <2>1, NoGap
  <2> QED
    BY <1>1, <1>2, <1>3, <2>1
<1>6. q = r
  BY <1>2, <1>4, <1>5
<1>7. k = j
  BY <1>1, <1>2, <1>3, <1>6
<1> QED
  BY <1>6, <1>7 DEF x, r, j

LEMMA Increasing ==
  ASSUME NEW lo \in Int, NEW hi \in Int, NEW a, \A i \in lo .. hi : a[i] \in Int,
         \A i \in lo .. hi - 1 : a[i] < a[i + 1]
  PROVE  \A i, j \in lo .. hi : i < j => a[i] < a[j]
<1> DEFINE S == {m \in Nat : \A i, j \in lo .. hi : j = i + 1 + m => a[i] < a[j]}
<1>1. 0 \in S
  <2> SUFFICES ASSUME NEW i \in lo .. hi, NEW j \in lo .. hi, j = i + 1 + 0 PROVE a[i] < a[j]
    OBVIOUS
  <2>1. i \in lo .. hi - 1 /\ j = i + 1
    OBVIOUS
  <2> QED
    BY <2>1
<1>2. ASSUME NEW m \in Nat, m \in S PROVE m + 1 \in S
  <2> SUFFICES ASSUME NEW i \in lo .. hi, NEW j \in lo .. hi, j = i + 1 + (m + 1) PROVE a[i] < a[j]
    OBVIOUS
  <2>1. j - 1 \in lo .. hi - 1 /\ j - 1 \in lo .. hi /\ j - 1 = i + 1 + m /\ (j - 1) + 1 = j
    OBVIOUS
  <2>2. a[i] < a[j - 1] /\ a[j - 1] < a[j]
    BY <1>2, <2>1
  <2> QED
    BY <2>1, <2>2
<1> HIDE DEF S
<1>3. Nat \subseteq S
  BY <1>1, <1>2, NatSetInduction
<1> SUFFICES ASSUME NEW i \in lo .. hi, NEW j \in lo .. hi, i < j PROVE a[i] < a[j]
  OBVIOUS
<1>4. j - i - 1 \in Nat /\ j = i + 1 + (j - i - 1)
  OBVIOUS
<1>5. j - i - 1 \in S
  BY <1>3, <1>4
<1> QED
  BY <1>4, <1>5 DEF S

LEMMA MinExists ==
  ASSUME NEW n \in Nat \ {0}, NEW a, \A i \in 1 .. n : a[i] \in Int
  PROVE  \E i \in 1 .. n : \A j \in 1 .. n : a[i] <= a[j]
<1> DEFINE S == {m \in Nat : m + 1 <= n => \E i \in 1 .. m + 1 : \A j \in 1 .. m + 1 : a[i] <= a[j]}
<1>1. 0 \in S
  <2>1. 1 \in 1 .. 0 + 1 /\ \A j \in 1 .. 0 + 1 : j = 1 /\ a[1] \in Int
    OBVIOUS
  <2> QED
    BY <2>1
<1>2. ASSUME NEW m \in Nat, m \in S PROVE m + 1 \in S
  <2> SUFFICES ASSUME (m + 1) + 1 <= n
               PROVE  \E i \in 1 .. (m + 1) + 1 : \A j \in 1 .. (m + 1) + 1 : a[i] <= a[j]
    OBVIOUS
  <2>1. PICK i \in 1 .. m + 1 : \A j \in 1 .. m + 1 : a[i] <= a[j]
    BY <1>2
  <2>2. i \in 1 .. n /\ m + 2 \in 1 .. n /\ a[i] \in Int /\ a[m + 2] \in Int
    OBVIOUS
  <2>3. \A j \in 1 .. (m + 1) + 1 : j \in 1 .. m + 1 \/ j = m + 2
    OBVIOUS
  <2>4. CASE a[i] <= a[m + 2]
    <3>1. \A j \in 1 .. (m + 1) + 1 : a[i] <= a[j]
      BY <2>1, <2>3, <2>4
    <3> QED
      BY <2>2, <3>1
  <2>5. CASE ~(a[i] <= a[m + 2])
    <3>1. \A j \in 1 .. (m + 1) + 1 : a[m + 2] <= a[j]
      <4> SUFFICES ASSUME NEW j \in 1 .. (m + 1) + 1 PROVE a[m + 2] <= a[j]
        OBVIOUS
      <4>1. CASE j = m + 2
        BY <2>2, <4>1
      <4>2. CASE j \in 1 .. m + 1
        <5>1. a[i] <= a[j] /\ j \in 1 .. n
          BY <2>1, <4>2
        <5>2. a[j] \in Int
          BY <5>1
        <5> QED
          BY <2>2, <2>5, <5>1, <5>2
      <4> QED
        BY <2>3, <4>1, <4>2
    <3>2. m + 2 \in 1 .. (m + 1) + 1
      OBVIOUS
    <3> QED
      BY <3>1, <3>2
  <2> QED
    BY <2>4, <2>5
<1> HIDE DEF S
<1>3. n - 1 \in S
  BY <1>1, <1>2, NatSetInduction
<1>4. n - 1 \in Nat /\ (n - 1) + 1 = n
  OBVIOUS
<1> QED
  BY <1>3, <1>4 DEF S

LEMMA StepsPositive ==
  ASSUME NEW dt \in Int, NEW u \in Nat \ {0}, dt >= u
  PROVE  Steps(dt, u) \in Nat \ {0}
<1> DEFINE x == 2 * dt + u
           y == 2 * u
           q == x \div y
           r == x % y
<1>1. x \in Nat /\ y \in Nat \ {0} /\ x >= y
  OBVIOUS
<1> HIDE DEF x, y
<1>2. x = y * q + r /\ q \in Nat /\ r \in 0 .. y - 1
  BY <1>1, DivMod
<1> HIDE DEF q, r
<1>3. q # 0
  <2>1. q = 0 => y * q = 0
    BY <1>1
  <2> QED
    BY <1>1, <1>2, <2>1
<1> QED
  BY <1>2, <1>3 DEF Steps, q, x, y

(* The terms of one sample of one channel: one for each polarization.         *)
Picked(S, npol, n, base, terms) ==
  [k \in 0 .. npol * n - 1 |->
     IF k % n \in S /\ k \div n \in 0 .. npol - 1 THEN terms[(k \div n) * n + (k % n) + base] ELSE 0]

PickedRight(S, npol, n, base, terms, p, t) ==
  /\ p * n + t \in 0 .. npol * n - 1
  /\ t \in S => Picked(S, npol, n, base, terms)[p * n + t] = terms[p * n + t + base]
  /\ t \notin S => Picked(S, npol, n, base, terms)[p * n + t] = 0

LEMMA PickedAt ==
  ASSUME NEW n \in Nat \ {0}, NEW npol \in Nat, NEW S, NEW base \in Nat, NEW terms,
         NEW p \in 0 .. npol - 1, NEW t \in 0 .. n - 1
  PROVE  PickedRight(S, npol, n, base, terms, p, t)
<1> DEFINE x == p * n + t
<1>1. p * n \in Nat /\ npol * n \in Nat /\ p * n + n <= npol * n
  BY RowBounds
<1>2. x \in 0 .. npol * n - 1
  <2> DEFINE y == p * n
             z == npol * n
  <2>1. y \in Nat /\ z \in Nat /\ y + n <= z
    BY <1>1
  <2> HIDE DEF y, z
  <2>2. y + t \in 0 .. z - 1
    BY <2>1
  <2> QED
    BY <2>2 DEF y, z
<1>3. x \div n = p /\ x % n = t
  <2>1. n * p = p * n
    OBVIOUS
  <2>2. (n * p + t) \div n = p /\ (n * p + t) % n = t
    BY Numbering
  <2> QED
    BY <2>1, <2>2
<1> DEFINE q == x \div n
           r == x % n
           g == Picked(S, npol, n, base, terms)
<1> HIDE DEF x
<1>4. /\ r \in S /\ q \in 0 .. npol - 1 => g[x] = terms[q * n + r + base]
      /\ r \notin S => g[x] = 0
  <2> DEFINE value(k) == IF k % n \in S /\ k \div n \in 0 .. npol - 1
                         THEN terms[(k \div n) * n + (k % n) + base] ELSE 0
  <2>1. g = [k \in 0 .. npol * n - 1 |-> value(k)]
    BY DEF Picked
  <2>2. g[x] = value(x)
    <3> HIDE DEF value, g
    <3> QED
      BY <1>2, <2>1
  <2>3. value(x) = IF r \in S /\ q \in 0 .. npol - 1 THEN terms[q * n + r + base] ELSE 0
    BY Zenon
  <2> HIDE DEF value, g, q, r
  <2> QED
    BY <2>2, <2>3
<1>5. q = p /\ r = t
  BY <1>3
<1> HIDE DEF q, r, g
<1>6. /\ t \in S => g[x] = terms[p * n + t + base]
      /\ t \notin S => g[x] = 0
  BY <1>4, <1>5
<1> QED
  BY <1>2, <1>6 DEF x, g, PickedRight

SumPicks(S, npol, n, a, base, terms) ==
  SumOf(npol * n, Picked(S, npol, n, base, terms)) =
    SumOf(npol, [p \in 0 .. npol - 1 |-> IF a < n THEN terms[p * n + a + base] ELSE 0])

LEMMA SumOfPicked ==
  ASSUME NEW n \in Nat \ {0}, NEW npol \in Nat, NEW S, NEW a \in 0 .. n, NEW base \in Nat, NEW terms,
         \A t \in 0 .. n - 1 : t \in S <=> t = a,
         \A p \in 0 .. npol - 1 : a < n => terms[p * n + a + base] \in Int
  PROVE  SumPicks(S, npol, n, a, base, terms)
<1> DEFINE g == Picked(S, npol, n, base, terms)
           h == [p \in 0 .. npol - 1 |-> IF a < n THEN terms[p * n + a + base] ELSE 0]
<1>1. \A p \in 0 .. npol - 1 : \A t \in 0 .. n - 1 :
        /\ t = a => g[p * n + t] = terms[p * n + t + base]
        /\ t # a => g[p * n + t] = 0
  <2> SUFFICES ASSUME NEW p \in 0 .. npol - 1, NEW t \in 0 .. n - 1
               PROVE  /\ t = a => g[p * n + t] = terms[p * n + t + base]
                      /\ t # a => g[p * n + t] = 0
    OBVIOUS
  <2>1. /\ p * n + t \in 0 .. npol * n - 1
        /\ t \in S => Picked(S, npol, n, base, terms)[p * n + t] = terms[p * n + t + base]
        /\ t \notin S => Picked(S, npol, n, base, terms)[p * n + t] = 0
    <3>1. PickedRight(S, npol, n, base, terms, p, t)
      BY PickedAt
    <3> QED
      BY <3>1, Zenon DEF PickedRight
  <2>2. t \in S <=> t = a
    OBVIOUS
  <2> QED
    BY <2>1, <2>2, Zenon
<1>2. \A k \in 0 .. npol * n - 1 : g[k] \in Int
  <2> TAKE k \in 0 .. npol * n - 1
  <2>1. k \in Nat /\ k <= npol * n - 1 /\ npol * n \in Int
    OBVIOUS
  <2> DEFINE p == k \div n
             t == k % n
  <2>2. k = n * p + t /\ p \in Nat /\ t \in 0 .. n - 1
    BY <2>1, DivMod
  <2> HIDE DEF p, t
  <2>3. p < npol
    <3> SUFFICES ASSUME npol <= p PROVE FALSE
      BY <2>2
    <3>1. n * npol <= n * p
      <4>1. CASE npol = p
        BY <2>2, <4>1
      <4>2. CASE npol < p
        <5>1. n * npol + n <= n * p /\ n * npol \in Int /\ n * p \in Int
          BY <2>2, <4>2, NoGap
        <5> QED
          BY <5>1
      <4> QED
        BY <2>2, <4>1, <4>2
    <3>2. n * npol = npol * n /\ n * p \in Int
      BY <2>2
    <3> QED
      BY <2>1, <2>2, <3>1, <3>2
  <2>4. p \in 0 .. npol - 1 /\ k = p * n + t
    BY <2>2, <2>3
  <2> HIDE DEF g
  <2>5. /\ t = a => g[k] = terms[p * n + t + base]
        /\ t # a => g[k] = 0
    BY <1>1, <2>2, <2>4
  <2> QED
    BY <2>2, <2>4, <2>5
<1>3. SumOf(npol * n, g) = SumOf(npol, RowSums(g, npol, n))
  <2> HIDE DEF g
  <2> QED
    BY <1>2, SumOfRows
<1>4. \A p \in 0 .. npol - 1 : RowSums(g, npol, n)[p] = h[p]
  <2> TAKE p \in 0 .. npol - 1
  <2> DEFINE r == Row(g, p, n)
             v == terms[p * n + a + base]
  <2>1. \A t \in 0 .. n - 1 : (t = a => r[t] = terms[p * n + t + base]) /\ (t # a => r[t] = 0)
    BY <1>1 DEF Row
  <2>2. RowSums(g, npol, n)[p] = SumOf(n, r)
    BY DEF RowSums
  <2>3. a < n => v \in Int
    OBVIOUS
  <2> HIDE DEF r
  <2>4. \A t \in 0 .. n - 1 : t # a => r[t] = 0
    BY <2>1
  <2>5. a < n => r[a] = v
    <3>1. a < n => a \in 0 .. n - 1
      OBVIOUS
    <3> QED
      BY <2>1, <3>1
  <2>6. h[p] = IF a < n THEN v ELSE 0
    OBVIOUS
  <2> HIDE DEF r, v, g, h
  <2>7. SumOf(n, r) = IF a < n THEN r[a] ELSE 0
    BY <2>3, <2>4, <2>5, SumOfOne
  <2> QED
    BY <2>2, <2>5, <2>6, <2>7
<1> HIDE DEF g, h
<1>5. SumOf(npol, RowSums(g, npol, n)) = SumOf(npol, h)
  BY <1>4, SumsEqual
<1> QED
  BY <1>3, <1>5 DEF g, h, SumPicks


-----------------------------------------------------------------------------
(* The reader: what it has accepted.                                        *)

(* The times a, of n samples, have steps of about u, and index maps the       *)
(* samples to steps.                                                          *)
Stepped(a, n, u, index) ==
  /\ n \in Nat /\ n >= 2
  /\ u \in Nat \ {0}
  /\ \E i \in 1 .. n - 1 : u = a[i + 1] - a[i]
  /\ \A i \in 1 .. n - 1 : a[i + 1] - a[i] >= u
  /\ \A i \in 1 .. n - 1 :
       100 * Abs(a[i + 1] - a[i] - Steps(a[i + 1] - a[i], u) * u) <= u
  /\ DOMAIN index = 0 .. n - 1
  /\ index[0] = 0
  /\ \A i \in 1 .. n - 1 : index[i] = index[i - 1] + Steps(a[i + 1] - a[i], u)

LEMMA TimesAre ==
  ASSUME NEW a, Len(a) \in Nat, \A i \in 1 .. Len(a) : a[i] \in Int,
         TimesOf(a).valid
  PROVE  LET t == TimesOf(a)
         IN  /\ t.nt_file = Len(a)
             /\ Stepped(a, Len(a), t.dt_p, t.time_index_mapping)
             /\ t.nt_logical = t.time_index_mapping[Len(a) - 1] + 1
<1> DEFINE n == Len(a)
           diff == [i \in 1 .. n - 1 |-> a[i + 1] - a[i]]
           u == Min({diff[i] : i \in DOMAIN diff})
           steps == [i \in 0 .. n - 2 |-> Steps(diff[i + 1], u)]
           even(i) == 100 * Abs(diff[i] - Steps(diff[i], u) * u) <= u
           index == [i \in 0 .. n - 1 |-> SumOf(i, steps)]
           t == [valid |-> TRUE, nt_file |-> n, dt_p |-> u,
                 time_index_mapping |-> index,
                 nt_logical |-> SumOf(n - 1, steps) + 1,
                 time_lo |-> a[1], time_hi |-> a[n] + u]
<1>1. TimesOf(a) = IF n < 2 \/ u <= 0 \/ \E i \in DOMAIN diff : ~even(i)
                   THEN [valid |-> FALSE] ELSE t
  BY Zenon DEF TimesOf
<1>n. n \in Nat /\ \A i \in 1 .. n : a[i] \in Int
  OBVIOUS
<1> HIDE DEF n
<1>2. DOMAIN diff = 1 .. n - 1 /\ \A i \in 1 .. n - 1 : diff[i] = a[i + 1] - a[i] /\ diff[i] \in Int
  <2>1. \A i \in 1 .. n - 1 : i \in 1 .. n /\ i + 1 \in 1 .. n
    BY <1>n
  <2> QED
    BY <1>n, <2>1
<1>3. DOMAIN index = 0 .. n - 1 /\ (\A i \in 0 .. n - 1 : index[i] = SumOf(i, steps))
      /\ \A i \in 0 .. n - 2 : steps[i] = Steps(diff[i + 1], u)
  <2> HIDE DEF u, diff
  <2> QED
    BY <1>n
<1>4. n >= 2 /\ ~(u <= 0) /\ (\A i \in 1 .. n - 1 : even(i)) /\ TimesOf(a) = t
  <2>1. [valid |-> FALSE].valid = FALSE
    OBVIOUS
  <2> DEFINE few == n < 2
             still == u <= 0
             uneven == \E i \in DOMAIN diff : ~even(i)
             bad == few \/ still \/ uneven
  <2>2. TimesOf(a) = IF bad THEN [valid |-> FALSE] ELSE t
    BY <1>1
  <2>3. ~bad
    <3> SUFFICES ASSUME bad PROVE FALSE
      OBVIOUS
    <3>1. TimesOf(a) = [valid |-> FALSE]
      <4> HIDE DEF bad, t
      <4> QED
        BY <2>2
    <3> HIDE DEF bad
    <3> QED
      BY <2>1, <3>1
  <2>4. TimesOf(a) = t
    <3> HIDE DEF bad, t
    <3> QED
      BY <2>2, <2>3
  <2>5. ~few /\ ~still /\ ~uneven
    BY <2>3, Zenon
  <2>6. n >= 2
    <3>1. ~(n < 2)
      BY <2>5
    <3> QED
      BY <1>n, <3>1
  <2> HIDE DEF diff, u, t, even
  <2> QED
    BY <1>2, <2>4, <2>5, <2>6
<1>5. u \in Int /\ (\E i \in 1 .. n - 1 : u = diff[i]) /\ \A i \in 1 .. n - 1 : u <= diff[i]
  <2> DEFINE D == {diff[i] : i \in DOMAIN diff}
  <2>1. n - 1 \in Nat \ {0}
    BY <1>n, <1>4
  <2>2. PICK i \in 1 .. n - 1 : \A k \in 1 .. n - 1 : diff[i] <= diff[k]
    <3> HIDE DEF diff
    <3> QED
      BY <1>2, <2>1, MinExists
  <2> HIDE DEF diff
  <2>3. diff[i] \in D /\ \A y \in D : diff[i] <= y
    BY <1>2, <2>2
  <2>4. u = CHOOSE x \in D : \A y \in D : x <= y
    BY Zenon DEF Min
  <2>5. u \in D /\ \A y \in D : u <= y
    <3> HIDE DEF D, u
    <3> QED
      BY <2>3, <2>4
  <2> HIDE DEF u
  <2> QED
    BY <1>2, <2>5
<1>6. u \in Nat \ {0}
  <2> HIDE DEF u
  <2> QED
    BY <1>4, <1>5
<1>7. \A i \in 1 .. n - 1 : 100 * Abs(a[i + 1] - a[i] - Steps(a[i + 1] - a[i], u) * u) <= u
  <2> HIDE DEF u, diff
  <2>1. \A i \in 1 .. n - 1 : 100 * Abs(diff[i] - Steps(diff[i], u) * u) <= u
    BY <1>4
  <2> QED
    BY <1>2, <2>1
<1> HIDE DEF u, diff, steps, index, even
<1>8. index[0] = 0
  BY <1>n, <1>3, <1>4, SumRecursion
<1>9. \A i \in 1 .. n - 1 : index[i] = index[i - 1] + Steps(a[i + 1] - a[i], u)
  <2> TAKE i \in 1 .. n - 1
  <2>1. i - 1 \in Nat /\ (i - 1) + 1 = i /\ i - 1 \in 0 .. n - 2 /\ i - 1 \in 0 .. n - 1 /\ i \in 0 .. n - 1
    BY <1>n, <1>4
  <2>2. SumOf((i - 1) + 1, steps) = SumOf(i - 1, steps) + steps[i - 1]
    BY <2>1, SumRecursion
  <2>3. steps[i - 1] = Steps(diff[i], u)
    BY <1>3, <2>1
  <2> QED
    BY <1>2, <1>3, <2>1, <2>2, <2>3
<1>10. Stepped(a, n, u, index)
  BY <1>n, <1>2, <1>3, <1>4, <1>5, <1>6, <1>7, <1>8, <1>9 DEF Stepped
<1>11. SumOf(n - 1, steps) = index[n - 1]
  BY <1>n, <1>3, <1>4
<1>12. /\ TimesOf(a).nt_file = n /\ TimesOf(a).dt_p = u /\ TimesOf(a).time_index_mapping = index
       /\ TimesOf(a).nt_logical = SumOf(n - 1, steps) + 1
  BY <1>4
<1>13. /\ TimesOf(a).nt_file = n
       /\ Stepped(a, n, TimesOf(a).dt_p, TimesOf(a).time_index_mapping)
       /\ TimesOf(a).nt_logical = TimesOf(a).time_index_mapping[n - 1] + 1
  BY <1>10, <1>11, <1>12
<1> QED
  BY <1>13 DEF n

LEMMA SteppedIncreases ==
  ASSUME NEW a, NEW n, NEW u, NEW index, Stepped(a, n, u, index), \A i \in 1 .. n : a[i] \in Int
  PROVE  /\ \A i, j \in 1 .. n : i < j => a[i] < a[j]
         /\ \A i \in 0 .. n - 1 : index[i] \in Nat
         /\ \A i, j \in 0 .. n - 1 : i < j => index[i] < index[j]
         /\ \A i \in 1 .. n - 1 : Steps(a[i + 1] - a[i], u) \in Nat \ {0}
<1>1. /\ n \in Nat /\ n >= 2 /\ u \in Nat \ {0}
      /\ \A i \in 1 .. n - 1 : a[i + 1] - a[i] >= u
      /\ index[0] = 0
      /\ \A i \in 1 .. n - 1 : index[i] = index[i - 1] + Steps(a[i + 1] - a[i], u)
  BY DEF Stepped
<1>2. \A i \in 1 .. n - 1 : a[i] \in Int /\ a[i + 1] \in Int /\ a[i + 1] - a[i] \in Int
  <2>1. \A i \in 1 .. n - 1 : i \in 1 .. n /\ i + 1 \in 1 .. n
    BY <1>1
  <2> QED
    BY <2>1
<1>3. \A i \in 1 .. n - 1 : Steps(a[i + 1] - a[i], u) \in Nat \ {0}
  <2> TAKE i \in 1 .. n - 1
  <2> DEFINE x == a[i + 1] - a[i]
  <2>1. x \in Int /\ x >= u
    BY <1>1, <1>2
  <2> HIDE DEF x
  <2>2. Steps(x, u) \in Nat \ {0}
    BY <1>1, <2>1, StepsPositive
  <2> QED
    BY <2>2 DEF x
<1>4. \A i, j \in 1 .. n : i < j => a[i] < a[j]
  <2>1. \A i \in 1 .. n - 1 : a[i] < a[i + 1]
    BY <1>1, <1>2
  <2>2. 1 \in Int /\ n \in Int
    BY <1>1
  <2>3. \A i \in 1 .. n : a[i] \in Int
    OBVIOUS
  <2> QED
    BY <2>1, <2>2, <2>3, Increasing
<1>5. \A i \in 0 .. n - 1 : index[i] \in Nat
  <2> DEFINE S == {i \in Nat : i <= n - 1 => index[i] \in Nat}
  <2>1. 0 \in S
    BY <1>1
  <2>2. ASSUME NEW i \in Nat, i \in S PROVE i + 1 \in S
    <3> SUFFICES ASSUME i + 1 <= n - 1 PROVE index[i + 1] \in Nat
      OBVIOUS
    <3>1. i + 1 \in 1 .. n - 1 /\ (i + 1) - 1 = i /\ index[i] \in Nat
      BY <1>1, <2>2
    <3>2. index[i + 1] = index[(i + 1) - 1] + Steps(a[(i + 1) + 1] - a[i + 1], u)
      BY <1>1, <3>1
    <3>3. Steps(a[(i + 1) + 1] - a[i + 1], u) \in Nat
      BY <1>3, <3>1
    <3> QED
      BY <3>1, <3>2, <3>3
  <2> HIDE DEF S
  <2>3. Nat \subseteq S
    BY <2>1, <2>2, NatSetInduction
  <2> QED
    BY <1>1, <2>3 DEF S
<1>6. \A i, j \in 0 .. n - 1 : i < j => index[i] < index[j]
  <2>1. \A i \in 0 .. (n - 1) - 1 : index[i] < index[i + 1]
    <3> TAKE i \in 0 .. (n - 1) - 1
    <3>1. i + 1 \in 1 .. n - 1 /\ (i + 1) - 1 = i /\ i \in 0 .. n - 1
      BY <1>1
    <3>2. index[i + 1] = index[(i + 1) - 1] + Steps(a[(i + 1) + 1] - a[i + 1], u)
      BY <1>1, <3>1
    <3>3. Steps(a[(i + 1) + 1] - a[i + 1], u) \in Nat \ {0}
      BY <1>3, <3>1
    <3> QED
      BY <1>5, <3>1, <3>2, <3>3
  <2>2. \A i \in 0 .. n - 1 : index[i] \in Int
    BY <1>5
  <2>3. 0 \in Int /\ n - 1 \in Int
    BY <1>1
  <2> QED
    BY <2>1, <2>2, <2>3, Increasing
<1> QED
  BY <1>3, <1>4, <1>5, <1>6


-----------------------------------------------------------------------------
(* What was read.                                                           *)

FileSize == Width * Len(file["time"])

LoadedFrom(f) ==
  /\ DOMAIN file = Names
  /\ args.nfreq >= 2 /\ Len(args.pol) \in 1 .. 2
  /\ BandOf(freq, args.nfreq).valid /\ f.band = BandOf(freq, args.nfreq)
  /\ TimesOf(file["time"]).valid /\ f.times = TimesOf(file["time"])
  /\ Len(file["intensity"]) = Len(file["time"]) /\ Len(file["weight"]) = Len(file["time"])
  /\ f.intensity = Flat(file["intensity"]) /\ f.weights = Flat(file["weight"])
  /\ f.wsum = SumOf(FileSize, f.weights)
  /\ f.wmax = Max({f.weights[i] : i \in 0 .. FileSize - 1})

LEMMA LoadedIs ==
  ASSUME NEW f \in Loaded, args \in Arguments
  PROVE  LoadedFrom(f)
<1> DEFINE band  == BandOf(freq, args.nfreq)
           times == TimesOf(file["time"])
           n == Len(file["time"])
           weights == Flat(file["weight"])
           size == Width * n
           bad == \/ args.nfreq < 2 \/ ~band.valid
                  \/ Len(args.pol) \notin 1 .. 2
                  \/ DOMAIN file # {"time", "intensity", "weight"}
                  \/ ~times.valid
                  \/ Len(file["intensity"]) # n \/ Len(file["weight"]) # n
                  \/ \E i \in 0 .. size - 1 : weights[i] < 0
           g == [band |-> band, times |-> times,
                 intensity |-> Flat(file["intensity"]), weights |-> weights,
                 wsum |-> SumOf(size, weights),
                 wmax |-> Max({weights[i] : i \in 0 .. size - 1})]
<1>1. Loaded = IF bad THEN {} ELSE {g}
  BY Zenon DEF Loaded
<1>2. ~bad /\ f = g
  <2> HIDE DEF bad, g
  <2> QED
    BY <1>1
<1>3. /\ ~(args.nfreq < 2) /\ band.valid /\ Len(args.pol) \in 1 .. 2
      /\ DOMAIN file = {"time", "intensity", "weight"}
      /\ times.valid
      /\ Len(file["intensity"]) = n /\ Len(file["weight"]) = n
  BY <1>2, Zenon
<1>4. /\ f.band = band /\ f.times = times /\ f.intensity = Flat(file["intensity"])
      /\ f.weights = weights /\ f.wsum = SumOf(size, weights)
      /\ f.wmax = Max({weights[i] : i \in 0 .. size - 1})
  <2> HIDE DEF bad, band, times, weights, size
  <2> QED
    BY <1>2
<1>5. DOMAIN file = Names
  BY <1>3 DEF Names
<1>6. args.nfreq >= 2
  <2>1. args.nfreq \in Int
    BY Constants
  <2> QED
    BY <1>3, <2>1
<1>7. FileSize = size
  BY DEF FileSize
<1> HIDE DEF bad, band, times, weights, size, n, g
<1>8. f.wsum = SumOf(FileSize, f.weights) /\ f.wmax = Max({f.weights[i] : i \in 0 .. FileSize - 1})
  BY <1>4, <1>7
<1> QED
  BY <1>3, <1>4, <1>5, <1>6, <1>8, Zenon DEF LoadedFrom, band, times, weights, n

(* The file that was read: of its n samples, W are those appended, and the    *)
(* weights of the others are zeros.                                           *)
Readable(f, p, W, n) ==
  /\ W = curr_shape["weight"] /\ n = Len(file["time"])
  /\ W \in Nat /\ n \in Nat /\ W <= n
  /\ Holds(p)
  /\ \A d \in Names : Len(file[d]) = n
  /\ \A i \in 1 .. n : file["time"][i] \in Int
  /\ \A i \in W + 1 .. n : file["weight"][i] = [k \in 0 .. Width - 1 |-> 0]
  /\ Chained(appended)
  /\ Width \in Nat \ {0}
  /\ args \in Arguments

LEMMA TimeColumn == \A c, it : Column(c, "time", it) = c.t0 + it * Dt
BY DEF Column

LEMMA WeightColumn ==
  ASSUME NEW c, NEW it, NEW k \in 0 .. Width - 1
  PROVE  Column(c, "weight", it)[k] = WeightOf(c.pattern, k * c.nt + it)
BY DEF Column

LEMMA IntensityColumn ==
  ASSUME NEW c, NEW it, NEW k \in 0 .. Width - 1
  PROVE  Column(c, "intensity", it)[k] = IntensityOf(k, c.ipos + it)
BY DEF Column

LEMMA HeldTimes ==
  ASSUME NEW p, Holds(p), Chained(appended), curr_shape["weight"] \in Nat
  PROVE  \A i \in 1 .. curr_shape["weight"] : file["time"][i] \in Int
<1> TAKE i \in 1 .. curr_shape["weight"]
<1> DEFINE c == appended[p[i].k]
<1>1. file["time"][i] = Column(c, "time", p[i].it)
  BY DEF Holds, Names
<1>2. p[i].k \in 1 .. Len(appended) /\ p[i].it \in Nat
  <2>1. p \in [1 .. curr_shape["weight"] -> [k : 1 .. Len(appended), it : Nat]]
    BY DEF Holds, Places
  <2> QED
    BY <2>1
<1>3. c.t0 \in Int
  BY <1>2 DEF Chained, ChunkOK
<1>4. Dt \in Nat
  BY Constants
<1> QED
  BY <1>1, <1>2, <1>3, <1>4, TimeColumn

LEMMA ReadableIs ==
  ASSUME IInv, NEW f \in reader
  PROVE  /\ step = <<"read">> /\ FileInv /\ TypeInv /\ LoadedFrom(f)
         /\ \E p : Readable(f, p, curr_shape["weight"], Len(file["time"]))
<1> DEFINE W == curr_shape["weight"]
           n == Len(file["time"])
<1>1. step = <<"read">> /\ f \in Loaded /\ TypeInv
  BY DEF IInv, ReaderInv
<1>2. LoadedFrom(f)
  BY <1>1, LoadedIs DEF TypeInv
<1>3. FileInv
  BY <1>2 DEF IInv, OpenInv, Open, LoadedFrom
<1>4. Stage = 0 /\ step # <<"write", 3>>
  BY <1>1 DEF Stage, Calls
<1>5. ShapeInv /\ Chained(appended)
  BY <1>3 DEF FileInv
<1>6. /\ W \in Nat /\ n \in Nat /\ W <= n /\ n >= curr_shape["time"] /\ curr_shape["time"] \in Nat
      /\ \A d \in Names : Len(file[d]) = n
  BY <1>2, <1>5 DEF ShapeInv, Names, LoadedFrom
<1>7. args \in Arguments /\ Width \in Nat \ {0}
  <2>1. args \in Arguments
    BY <1>1 DEF TypeInv
  <2>2. args.nfreq \in Int /\ args.nfreq >= 2 /\ Len(args.pol) \in 1 .. 2
    BY <1>2, <2>1, Constants DEF LoadedFrom
  <2> DEFINE x == args.nfreq
             y == Len(args.pol)
  <2> HIDE DEF x, y
  <2>3. y = 1 \/ y = 2
    BY <2>2 DEF y
  <2>4. x * y \in Nat \ {0}
    BY <2>2, <2>3 DEF x
  <2> QED
    BY <2>1, <2>4 DEF Width, x, y
<1>8. ~Displaced
  BY <1>4, <1>6 DEF Displaced, Names
<1>9. CASE Aligned
  <2>1. PICK p : Holds(p)
    BY <1>9 DEF Aligned
  <2>2. n = W
    BY <1>4, <1>6, <1>9 DEF Aligned, Names
  <2>3. \A i \in 1 .. n : file["time"][i] \in Int
    BY <1>5, <1>6, <2>1, <2>2, HeldTimes
  <2>4. \A i \in W + 1 .. n : FALSE
    BY <1>6, <2>2
  <2>5. Readable(f, p, W, n)
    BY <1>5, <1>6, <1>7, <2>1, <2>3, <2>4 DEF Readable
  <2> QED
    BY <1>1, <1>2, <1>3, <2>5
<1>10. CASE Masked
  <2>1. PICK c : /\ Comes(appended, c) /\ Len(file["weight"]) = W + c.nt
                 /\ GoesOn("time", c) /\ Blank(Len(file["weight"]))
                 /\ \E p : Holds(p)
    BY <1>10 DEF Masked
  <2>2. PICK p : Holds(p)
    BY <2>1
  <2>3. c.t0 \in Int /\ c.nt \in Nat /\ Dt \in Nat
    <3>1. c.t0 \in Int /\ c.nt \in Lengths /\ c.nt > 0
      BY <2>1, Zenon DEF Comes, ChunkOK
    <3>2. Dt \in Nat /\ Lengths \subseteq Int
      BY Constants
    <3>3. c.nt \in Int
      BY <3>1, <3>2
    <3>4. c.nt \in Nat
      BY <3>1, <3>3
    <3> QED
      BY <3>1, <3>2, <3>4
  <2>4. n = W + c.nt
    BY <1>6, <2>1 DEF Names
  <2>5. \A i \in 1 .. n : file["time"][i] \in Int
    <3> TAKE i \in 1 .. n
    <3>1. CASE i <= W
      BY <1>5, <1>6, <2>2, <3>1, HeldTimes
    <3>2. CASE ~(i <= W)
      <4> DEFINE it == i - W - 1
      <4>1. it \in 0 .. c.nt - 1 /\ W + it + 1 = i
        BY <1>6, <2>3, <2>4, <3>2
      <4>2. file["time"][i] = Column(c, "time", it)
        <5> HIDE DEF it
        <5> QED
          BY <2>1, <4>1 DEF GoesOn
      <4> HIDE DEF it
      <4> QED
        BY <2>3, <4>1, <4>2, TimeColumn
    <3> QED
      BY <3>1, <3>2
  <2>6. \A i \in W + 1 .. n : file["weight"][i] = [k \in 0 .. Width - 1 |-> 0]
    BY <2>1, <2>4 DEF Blank
  <2>7. Readable(f, p, W, n)
    BY <1>5, <1>6, <1>7, <2>2, <2>5, <2>6 DEF Readable
  <2> QED
    BY <1>1, <1>2, <1>3, <2>7
<1> QED
  BY <1>3, <1>8, <1>9, <1>10 DEF FileInv


-----------------------------------------------------------------------------
(* get_unpolarized_intensity().                                             *)

(* Weights and intensities are numbers. *)
Hdf5Values ==
  /\ \A pattern \in Patterns, i \in Nat : WeightOf(pattern, i) \in Int
  /\ \A k \in Nat, ipos \in Int : IntensityOf(k, ipos) \in Int

SampleOf(k, it) ==
  [ipos |-> appended[k].ipos + it, time |-> appended[k].t0 + it * Dt, k |-> k, it |-> it]

LEMMA SamplesAre ==
  ASSUME Chained(appended), TypeInv
  PROVE  /\ \A s \in Samples : Real(s) =>
              \E k \in 1 .. Len(appended) : \E it \in 0 .. appended[k].nt - 1 : s = SampleOf(k, it)
         /\ \A k \in 1 .. Len(appended) : \A it \in 0 .. appended[k].nt - 1 :
              SampleOf(k, it) \in Samples /\ Real(SampleOf(k, it))
<1>1. DOMAIN appended = 1 .. Len(appended) /\ Len(appended) \in Nat
  BY DEF TypeInv
<1>2. \A k \in 1 .. Len(appended) : appended[k].nt \in Lengths /\ appended[k].nt \in Int
  BY Constants DEF Chained, ChunkOK
<1>3. Max(Lengths) \in Lengths /\ \A nt \in Lengths : nt <= Max(Lengths)
  <2>1. PICK longest \in Lengths : \A nt \in Lengths : nt <= longest
    BY Hdf5Assumption
  <2>2. Lengths \subseteq Int
    BY Constants
  <2>3. Max(Lengths) = CHOOSE x \in Lengths : \A y \in Lengths : x >= y
    BY Zenon DEF Max
  <2>4. \A y \in Lengths : longest >= y
    BY <2>1, <2>2
  <2>5. Max(Lengths) \in Lengths /\ \A y \in Lengths : Max(Lengths) >= y
    BY <2>3, <2>4
  <2> QED
    BY <2>2, <2>5
<1>4. Max(Lengths) \in Int
  BY <1>3, Constants
<1> DEFINE m == Max(Lengths)
<1>s. Samples = {SampleOf(k, it) : k \in DOMAIN appended, it \in 0 .. m - 1}
  BY DEF Samples, SampleOf
<1> HIDE DEF m
<1>5. ASSUME NEW k \in 1 .. Len(appended), NEW it \in 0 .. appended[k].nt - 1
      PROVE  SampleOf(k, it) \in Samples /\ Real(SampleOf(k, it))
  <2>1. it \in 0 .. Max(Lengths) - 1 /\ it < appended[k].nt
    <3>1. m \in Int /\ appended[k].nt \in Int /\ appended[k].nt <= m
      BY <1>2, <1>3, <1>4 DEF m
    <3>2. it \in 0 .. m - 1 /\ it < appended[k].nt
      BY <3>1
    <3> QED
      BY <3>2 DEF m
  <2>2. SampleOf(k, it) \in Samples
    BY <1>1, <1>s, <2>1 DEF m
  <2>3. SampleOf(k, it).it = it /\ SampleOf(k, it).k = k
    BY DEF SampleOf
  <2> QED
    BY <2>1, <2>2, <2>3 DEF Real
<1>6. ASSUME NEW s \in Samples, Real(s)
      PROVE  \E k \in 1 .. Len(appended) : \E it \in 0 .. appended[k].nt - 1 : s = SampleOf(k, it)
  <2>1. PICK k \in DOMAIN appended, it \in 0 .. Max(Lengths) - 1 : s = SampleOf(k, it)
    BY <1>6, <1>s DEF m
  <2>2. s.it = it /\ s.k = k
    BY <2>1 DEF SampleOf
  <2>3. it < appended[k].nt /\ k \in 1 .. Len(appended)
    BY <1>1, <1>6, <2>2 DEF Real
  <2>4. it \in 0 .. appended[k].nt - 1
    <3>1. it \in 0 .. m - 1 /\ m \in Int
      BY <1>4 DEF m
    <3> QED
      BY <1>2, <2>3, <3>1
  <2> QED
    BY <2>1, <2>3, <2>4
<1> QED
  BY <1>5, <1>6, Zenon

LEMMA FlatAt ==
  ASSUME NEW n \in Nat \ {0}, NEW columns, Len(columns) = n, Width \in Nat,
         NEW k \in 0 .. Width - 1, NEW a \in 0 .. n - 1
  PROVE  /\ k * n + a \in 0 .. Width * n - 1
         /\ Flat(columns)[k * n + a] = columns[a + 1][k]
         /\ DOMAIN Flat(columns) = 0 .. Width * n - 1
<1> DEFINE w == Width
           i == k * n + a
<1>1. w \in Nat /\ k \in 0 .. w - 1
  OBVIOUS
<1> HIDE DEF w
<1>2. k * n \in Nat /\ w * n \in Nat /\ k * n + n <= w * n
  BY <1>1, RowBounds
<1>3. i \in 0 .. w * n - 1
  <2> DEFINE x == k * n
             y == w * n
  <2>1. x \in Nat /\ y \in Nat /\ x + n <= y
    BY <1>2
  <2> HIDE DEF x, y
  <2>2. x + a \in 0 .. y - 1
    BY <2>1
  <2> QED
    BY <2>2 DEF x, y
<1>4. i \div n = k /\ i % n = a
  <2>1. n * k = k * n /\ k \in Nat
    OBVIOUS
  <2>2. (n * k + a) \div n = k /\ (n * k + a) % n = a
    BY <2>1, Numbering
  <2> QED
    BY <2>1, <2>2
<1>5. Flat(columns) = [j \in 0 .. w * n - 1 |-> columns[(j % n) + 1][j \div n]]
  BY DEF Flat, w
<1> HIDE DEF i
<1>6. Flat(columns)[i] = columns[(i % n) + 1][i \div n] /\ DOMAIN Flat(columns) = 0 .. w * n - 1
  BY <1>3, <1>5
<1>7. Flat(columns)[i] = columns[a + 1][k]
  BY <1>4, <1>6
<1> QED
  BY <1>3, <1>6, <1>7 DEF i, w

LEMMA Channel ==
  ASSUME Width \in Nat, args.nfreq \in Nat, Len(args.pol) \in Nat, NEW n \in Nat \ {0},
         NEW ifreq \in 0 .. args.nfreq - 1, NEW p \in 0 .. Len(args.pol) - 1, NEW a \in 0 .. n - 1
  PROVE  /\ ifreq * Len(args.pol) + p \in 0 .. Width - 1
         /\ (ifreq * Len(args.pol) + p) * n + a = p * n + a + ifreq * Stride(Len(args.pol), n)
         /\ ifreq * Stride(Len(args.pol), n) \in Nat
<1> DEFINE c == Len(args.pol)
           w == args.nfreq
<1>1. c \in Nat /\ w \in Nat /\ p \in 0 .. c - 1 /\ ifreq \in 0 .. w - 1
  OBVIOUS
<1> HIDE DEF c, w
<1>2. ifreq * c \in Nat /\ w * c \in Nat /\ ifreq * c + c <= w * c
  BY <1>1, RowBounds
<1>3. ifreq * c + p \in 0 .. w * c - 1
  <2> DEFINE x == ifreq * c
             y == w * c
  <2>1. x \in Nat /\ y \in Nat /\ x + c <= y
    BY <1>2
  <2> HIDE DEF x, y
  <2>2. x + p \in 0 .. y - 1
    BY <1>1, <2>1
  <2> QED
    BY <2>2 DEF x, y
<1>4. (ifreq * c + p) * n + a = p * n + a + ifreq * (c * n)
  BY <1>1
<1>5. ifreq * (c * n) \in Nat
  BY <1>1
<1> QED
  BY <1>3, <1>4, <1>5 DEF Width, Stride, c, w

Products(f) == [i \in DOMAIN f.weights |-> f.intensity[i] * f.weights[i]]
InFile(f, it_l) == {it \in 0 .. f.times.nt_file - 1 : f.times.time_index_mapping[it] = it_l}
AddedUp(f, ifreq, it_l, terms) ==
  LET npol == Len(args.pol)
      n == f.times.nt_file
  IN  SumOf(npol * n, Picked(InFile(f, it_l), npol, n, ifreq * Stride(npol, n), terms))

LEMMA UnpolarizedIs ==
  ASSUME NEW f, NEW ifreq, NEW t0, NEW nt, NEW it \in 0 .. nt - 1
  PROVE  LET out == get_unpolarized_intensity(f, ifreq, t0, nt)
         IN  /\ out[it].weight = AddedUp(f, ifreq, t0 + it, f.weights)
             /\ out[it].sum = AddedUp(f, ifreq, t0 + it, Products(f))
<1> DEFINE out == get_unpolarized_intensity(f, ifreq, t0, nt)
<1>1. out = [i \in 0 .. nt - 1 |-> [sum |-> AddedUp(f, ifreq, t0 + i, Products(f)),
                                   weight |-> AddedUp(f, ifreq, t0 + i, f.weights)]]
  BY Zenon DEF get_unpolarized_intensity, AddedUp, Picked, Products, InFile, Polarizations
<1> HIDE DEF out
<1>2. out[it] = [sum |-> AddedUp(f, ifreq, t0 + it, Products(f)),
                 weight |-> AddedUp(f, ifreq, t0 + it, f.weights)]
  BY <1>1
<1> QED
  BY <1>2 DEF out


(* One file sample is read for a logical sample, or none. *)
Indexed(f, a, n) ==
  /\ n = f.times.nt_file
  /\ Stepped(a, n, f.times.dt_p, f.times.time_index_mapping)
  /\ \A i \in 1 .. n : a[i] \in Int

LEMMA OneInFile ==
  ASSUME NEW f, NEW it_l, NEW a, NEW n, Indexed(f, a, n)
  PROVE  \E t \in 0 .. n : \A it \in 0 .. n - 1 : it \in InFile(f, it_l) <=> it = t
<1> DEFINE index == f.times.time_index_mapping
<1>0. n = f.times.nt_file /\ Stepped(a, n, f.times.dt_p, index) /\ \A i \in 1 .. n : a[i] \in Int
  BY DEF Indexed
<1>1. n \in Nat /\ n >= 2
  BY <1>0 DEF Stepped
<1>2. \A i \in 0 .. n - 1 : index[i] \in Nat
  BY <1>0, SteppedIncreases
<1>3. \A i, j \in 0 .. n - 1 : i < j => index[i] < index[j]
  BY <1>0, SteppedIncreases
<1>4. \A it \in 0 .. n - 1 : it \in InFile(f, it_l) <=> index[it] = it_l
  BY <1>0 DEF InFile
<1> HIDE DEF index
<1>5. CASE \E t \in 0 .. n - 1 : index[t] = it_l
  <2>1. PICK t \in 0 .. n - 1 : index[t] = it_l
    BY <1>5
  <2>2. \A it \in 0 .. n - 1 : index[it] = it_l <=> it = t
    <3> TAKE it \in 0 .. n - 1
    <3>1. it < t \/ t < it \/ it = t
      BY <1>1
    <3>2. index[it] \in Nat /\ index[t] \in Nat
      BY <1>2
    <3>3. it < t => index[it] < index[t]
      BY <1>3
    <3>4. t < it => index[t] < index[it]
      BY <1>3
    <3> QED
      BY <2>1, <3>1, <3>2, <3>3, <3>4
  <2>3. t \in 0 .. n
    BY <1>1
  <2> QED
    BY <1>4, <2>2, <2>3
<1>6. CASE ~\E t \in 0 .. n - 1 : index[t] = it_l
  <2>1. n \in 0 .. n /\ \A it \in 0 .. n - 1 : it # n
    BY <1>1
  <2>2. \A it \in 0 .. n - 1 : it \in InFile(f, it_l) <=> it = n
    BY <1>4, <1>6, <2>1
  <2> QED
    BY <2>1, <2>2
<1> QED
  BY <1>5, <1>6

(* Where the terms lie that are added for file sample a, if a < n. *)
TermAt(npol, n, ifreq, a, terms, q) == terms[(ifreq * npol + q) * n + a]

AddsUp(f, ifreq, it_l, n, a, terms) ==
  AddedUp(f, ifreq, it_l, terms) =
    SumOf(Len(args.pol), [q \in 0 .. Len(args.pol) - 1 |->
      IF a < n THEN TermAt(Len(args.pol), n, ifreq, a, terms, q) ELSE 0])

LEMMA AddedUpIs ==
  ASSUME Width \in Nat, args.nfreq \in Nat, Len(args.pol) \in Nat, NEW f, NEW it_l, NEW n \in Nat \ {0},
         n = f.times.nt_file, NEW ifreq \in 0 .. args.nfreq - 1, NEW a \in 0 .. n, NEW terms,
         \A it \in 0 .. n - 1 : it \in InFile(f, it_l) <=> it = a,
         \A q \in 0 .. Len(args.pol) - 1 : a < n => TermAt(Len(args.pol), n, ifreq, a, terms, q) \in Int
  PROVE  AddsUp(f, ifreq, it_l, n, a, terms)
<1> DEFINE npol == Len(args.pol)
           S == InFile(f, it_l)
           base == ifreq * Stride(npol, n)
           g == [q \in 0 .. npol - 1 |-> IF a < n THEN terms[q * n + a + base] ELSE 0]
           h == [q \in 0 .. npol - 1 |-> IF a < n THEN TermAt(npol, n, ifreq, a, terms, q) ELSE 0]
<1>1. base \in Nat
  <2>1. CASE npol = 0
    BY <2>1 DEF Stride
  <2>2. CASE npol # 0
    <3>1. 0 \in 0 .. npol - 1 /\ 0 \in 0 .. n - 1
      BY <2>2
    <3> QED
      BY <3>1, Channel
  <2> QED
    BY <2>1, <2>2
<1>2. \A q \in 0 .. npol - 1 : a < n =>
        terms[q * n + a + base] = TermAt(npol, n, ifreq, a, terms, q)
  <2> SUFFICES ASSUME NEW q \in 0 .. npol - 1, a < n
               PROVE  terms[q * n + a + base] = TermAt(npol, n, ifreq, a, terms, q)
    OBVIOUS
  <2>1. a \in 0 .. n - 1
    OBVIOUS
  <2>2. (ifreq * npol + q) * n + a = q * n + a + base
    BY <2>1, Channel
  <2> QED
    BY <2>2 DEF TermAt
<1>3. \A q \in 0 .. npol - 1 : a < n => terms[q * n + a + base] \in Int
  BY <1>2
<1>4. npol \in Nat
  OBVIOUS
<1>5. AddedUp(f, ifreq, it_l, terms) = SumOf(npol * n, Picked(S, npol, n, base, terms))
  BY DEF AddedUp
<1> HIDE DEF npol, base, S
<1>6. SumOf(npol * n, Picked(S, npol, n, base, terms)) = SumOf(npol, g)
  <2>1. \A it \in 0 .. n - 1 : it \in S <=> it = a
    BY DEF S
  <2>2. SumPicks(S, npol, n, a, base, terms)
    BY <1>1, <1>3, <1>4, <2>1, SumOfPicked
  <2> QED
    BY <2>2, Zenon DEF SumPicks
<1>7. \A q \in 0 .. npol - 1 : g[q] = h[q]
  BY <1>2
<1>8. SumOf(npol, g) = SumOf(npol, h)
  <2> HIDE DEF g, h
  <2> QED
    BY <1>4, <1>7, SumsEqual
<1>9. AddedUp(f, ifreq, it_l, terms) = SumOf(npol, h)
  BY <1>5, <1>6, <1>8
<1> QED
  BY <1>9, Zenon DEF npol, AddsUp

(* The weight and the product that file sample a of a channel contributes. *)
LEMMA TermsAre ==
  ASSUME NEW f, NEW p, NEW W, NEW n, Readable(f, p, W, n), LoadedFrom(f), Hdf5Values,
         NEW kk \in 0 .. Width - 1, NEW a \in 0 .. n - 1
  PROVE  /\ a + 1 <= W =>
              LET s == SampleOf(p[a + 1].k, p[a + 1].it)
                  c == appended[p[a + 1].k]
              IN  /\ f.weights[kk * n + a] = WeightOf(c.pattern, kk * c.nt + s.it)
                  /\ Products(f)[kk * n + a] =
                       WeightOf(c.pattern, kk * c.nt + s.it) * IntensityOf(kk, s.ipos)
                  /\ WeightOf(c.pattern, kk * c.nt + s.it) \in Int
                  /\ IntensityOf(kk, s.ipos) \in Int
         /\ ~(a + 1 <= W) => f.weights[kk * n + a] = 0
<1> DEFINE i == kk * n + a
<1>1. /\ W = curr_shape["weight"] /\ W \in Nat /\ n \in Nat \ {0} /\ Width \in Nat /\ Holds(p)
      /\ Len(file["weight"]) = n /\ Len(file["intensity"]) = n /\ Chained(appended)
      /\ \A j \in W + 1 .. n : file["weight"][j] = [k \in 0 .. Width - 1 |-> 0]
  BY DEF Readable, Names
<1>2. /\ i \in 0 .. Width * n - 1
      /\ f.weights[i] = file["weight"][a + 1][kk]
      /\ f.intensity[i] = file["intensity"][a + 1][kk]
      /\ DOMAIN f.weights = 0 .. Width * n - 1
  <2>1. /\ i \in 0 .. Width * n - 1
        /\ Flat(file["weight"])[i] = file["weight"][a + 1][kk]
        /\ Flat(file["intensity"])[i] = file["intensity"][a + 1][kk]
        /\ DOMAIN Flat(file["weight"]) = 0 .. Width * n - 1
    <3> DEFINE x == file["weight"]
               y == file["intensity"]
    <3>1. Len(x) = n /\ Len(y) = n /\ n \in Nat \ {0} /\ Width \in Nat
      BY <1>1
    <3> HIDE DEF x, y
    <3>2. Flat(x)[kk * n + a] = x[a + 1][kk]
      BY <3>1, FlatAt
    <3>4. kk * n + a \in 0 .. Width * n - 1
      BY <3>1, FlatAt
    <3>5. DOMAIN Flat(x) = 0 .. Width * n - 1
      BY <3>1, FlatAt
    <3>3. Flat(y)[kk * n + a] = y[a + 1][kk]
      BY <3>1, FlatAt
    <3> QED
      BY <3>2, <3>3, <3>4, <3>5 DEF x, y
  <2> QED
    BY <2>1 DEF LoadedFrom
<1>3. Products(f)[i] = f.intensity[i] * f.weights[i]
  BY <1>2 DEF Products
<1> HIDE DEF i
<1>4. ASSUME a + 1 <= W
      PROVE  LET s == SampleOf(p[a + 1].k, p[a + 1].it)
                 c == appended[p[a + 1].k]
             IN  /\ f.weights[i] = WeightOf(c.pattern, kk * c.nt + s.it)
                 /\ Products(f)[i] = WeightOf(c.pattern, kk * c.nt + s.it) * IntensityOf(kk, s.ipos)
                 /\ WeightOf(c.pattern, kk * c.nt + s.it) \in Int
                 /\ IntensityOf(kk, s.ipos) \in Int
  <2> DEFINE k == p[a + 1].k
             it == p[a + 1].it
             c == appended[k]
             s == SampleOf(k, it)
  <2>1. a + 1 \in 1 .. W
    BY <1>1, <1>4
  <2>2. k \in 1 .. Len(appended) /\ it \in Nat
    <3>1. p \in [1 .. W -> [k : 1 .. Len(appended), it : Nat]]
      BY <1>1 DEF Holds, Places
    <3> QED
      BY <2>1, <3>1
  <2>3. /\ file["weight"][a + 1] = Column(c, "weight", it)
        /\ file["intensity"][a + 1] = Column(c, "intensity", it)
    BY <1>1, <2>1 DEF Holds, Names
  <2>4. s.it = it /\ s.ipos = c.ipos + it
    BY DEF SampleOf
  <2> HIDE DEF k, it, s
  <2>5. c.nt \in Lengths /\ c.nt > 0 /\ c.ipos \in Int /\ c.pattern \in Patterns
    BY <1>1, <2>2 DEF Chained, ChunkOK
  <2>6. c.nt \in Nat
    <3>1. c.nt \in Int
      BY <2>5, Constants
    <3> QED
      BY <2>5, <3>1
  <2> HIDE DEF c
  <2>7. f.weights[i] = WeightOf(c.pattern, kk * c.nt + it) /\ f.intensity[i] = IntensityOf(kk, c.ipos + it)
    BY <1>2, <2>3, WeightColumn, IntensityColumn
  <2>8. kk * c.nt + it \in Nat /\ kk \in Nat /\ c.ipos + it \in Int
    <3>1. kk * c.nt \in Nat /\ kk \in Nat
      BY <1>1, <2>6
    <3> QED
      BY <2>2, <2>5, <3>1
  <2>9. WeightOf(c.pattern, kk * c.nt + it) \in Int /\ IntensityOf(kk, c.ipos + it) \in Int
    BY <2>5, <2>8 DEF Hdf5Values
  <2> DEFINE x == WeightOf(c.pattern, kk * c.nt + it)
             y == IntensityOf(kk, c.ipos + it)
  <2>10. Products(f)[i] = x * y
    <3> HIDE DEF x, y
    <3>1. x \in Int /\ y \in Int /\ Products(f)[i] = y * x
      BY <1>3, <2>7, <2>9 DEF x, y
    <3> QED
      BY <3>1
  <2>11. /\ f.weights[i] = WeightOf(c.pattern, kk * c.nt + s.it)
         /\ Products(f)[i] = WeightOf(c.pattern, kk * c.nt + s.it) * IntensityOf(kk, s.ipos)
         /\ WeightOf(c.pattern, kk * c.nt + s.it) \in Int
         /\ IntensityOf(kk, s.ipos) \in Int
    BY <2>4, <2>7, <2>9, <2>10
  <2> QED
    BY <2>11 DEF c, s, k, it
<1>5. ASSUME ~(a + 1 <= W) PROVE f.weights[i] = 0
  <2>1. a + 1 \in W + 1 .. n
    BY <1>1, <1>5
  <2>2. file["weight"][a + 1] = [k \in 0 .. Width - 1 |-> 0]
    BY <1>1, <2>1
  <2> QED
    BY <1>2, <2>2
<1> QED
  BY <1>4, <1>5 DEF i


(* The sample at file position i, of those appended. *)
PlacedSample(p, i) == SampleOf(p[i].k, p[i].it)

LEMMA PlacedIs ==
  ASSUME NEW f, NEW p, NEW W, NEW n, Readable(f, p, W, n), TypeInv
  PROVE  /\ \A i \in 1 .. W : /\ PlacedSample(p, i) \in Samples /\ Real(PlacedSample(p, i))
                              /\ file["time"][i] = PlacedSample(p, i).time
                              /\ p[i].k \in 1 .. Len(appended)
                              /\ p[i].it \in 0 .. appended[p[i].k].nt - 1
         /\ \A s \in Samples : Real(s) => \E i \in 1 .. W : s = PlacedSample(p, i)
<1>1. /\ W = curr_shape["weight"] /\ W \in Nat /\ Holds(p) /\ Chained(appended)
  BY DEF Readable
<1>2. /\ p \in [1 .. W -> [k : 1 .. Len(appended), it : Nat]]
      /\ \A i \in 1 .. W : p[i].it < appended[p[i].k].nt
      /\ \A k \in 1 .. Len(appended) : \A it \in 0 .. appended[k].nt - 1 :
           \E i \in 1 .. W : p[i].k = k /\ p[i].it = it
  BY <1>1 DEF Holds, Places
<1>3. ASSUME NEW i \in 1 .. W
      PROVE  /\ PlacedSample(p, i) \in Samples /\ Real(PlacedSample(p, i))
             /\ file["time"][i] = PlacedSample(p, i).time
             /\ p[i].k \in 1 .. Len(appended)
             /\ p[i].it \in 0 .. appended[p[i].k].nt - 1
  <2> DEFINE k == p[i].k
             it == p[i].it
  <2>1. k \in 1 .. Len(appended) /\ it \in Nat /\ it < appended[k].nt
    BY <1>2
  <2> HIDE DEF k, it
  <2>2. appended[k].nt \in Int
    BY <1>1, <2>1, Constants DEF Chained, ChunkOK
  <2>3. it \in 0 .. appended[k].nt - 1
    BY <2>1, <2>2
  <2>4. SampleOf(k, it) \in Samples /\ Real(SampleOf(k, it))
    BY <1>1, <2>1, <2>3, SamplesAre
  <2>5. file["time"][i] = Column(appended[k], "time", it)
    BY <1>1 DEF Holds, Names, k, it
  <2>6. file["time"][i] = SampleOf(k, it).time
    BY <2>5, TimeColumn DEF SampleOf
  <2> QED
    BY <2>1, <2>3, <2>4, <2>6 DEF PlacedSample, k, it
<1>4. ASSUME NEW s \in Samples, Real(s) PROVE \E i \in 1 .. W : s = PlacedSample(p, i)
  <2>0. PICK k \in 1 .. Len(appended) : \E it \in 0 .. appended[k].nt - 1 : s = SampleOf(k, it)
    BY <1>1, <1>4, SamplesAre
  <2>1. PICK it \in 0 .. appended[k].nt - 1 : s = SampleOf(k, it)
    BY <2>0
  <2>2. PICK i \in 1 .. W : p[i].k = k /\ p[i].it = it
    BY <1>2, <2>1
  <2> QED
    BY <2>1, <2>2 DEF PlacedSample
<1> QED
  BY <1>3, <1>4

(* What is read for one channel and one logical sample. *)
ReadHere(f, ifreq, it_l) ==
  LET npol == Len(args.pol)
      S == AppendedAt(f, it_l)
      weight(s) == SumOf(npol, [p \in 0 .. npol - 1 |-> WeightAt(s, ifreq, p)])
      sum(s) == SumOf(npol, [p \in 0 .. npol - 1 |->
                  WeightAt(s, ifreq, p) * IntensityOf(ifreq * npol + p, s.ipos)])
  IN  /\ Cardinality(S) <= 1
      /\ \A s \in S : /\ AddedUp(f, ifreq, it_l, f.weights) = weight(s)
                      /\ AddedUp(f, ifreq, it_l, Products(f)) = sum(s)
      /\ S = {} => AddedUp(f, ifreq, it_l, f.weights) = 0

LEMMA HereAsAppended ==
  ASSUME IInv, Hdf5Values, NEW f \in reader, NEW ifreq \in 0 .. args.nfreq - 1, NEW it_l
  PROVE  ReadHere(f, ifreq, it_l)
<1> DEFINE npol == Len(args.pol)
           times == file["time"]
           index == f.times.time_index_mapping
           S == AppendedAt(f, it_l)
           wsum == AddedUp(f, ifreq, it_l, f.weights)
           psum == AddedUp(f, ifreq, it_l, Products(f))
<1>1. TypeInv /\ LoadedFrom(f) /\ \E p : Readable(f, p, curr_shape["weight"], Len(file["time"]))
  BY ReadableIs
<1>2. PICK p, W, n : Readable(f, p, W, n)
  BY <1>1
<1>3. /\ n = Len(times) /\ W \in Nat /\ n \in Nat /\ W <= n
      /\ \A i \in 1 .. n : times[i] \in Int
      /\ Width \in Nat
  BY <1>2 DEF Readable
<1>4. npol \in Nat /\ args.nfreq \in Nat
  BY <1>1, Constants DEF LoadedFrom, TypeInv
<1>5. f.times.nt_file = n /\ Stepped(times, n, f.times.dt_p, index)
  <2>1. f.times = TimesOf(times) /\ TimesOf(times).valid
    BY <1>1 DEF LoadedFrom
  <2>2. /\ TimesOf(times).nt_file = Len(times)
        /\ Stepped(times, Len(times), TimesOf(times).dt_p, TimesOf(times).time_index_mapping)
    <3> HIDE DEF times
    <3> QED
      BY <1>3, <2>1, TimesAre
  <2> HIDE DEF times
  <2> QED
    BY <1>3, <2>1, <2>2
<1>6. n \in Nat \ {0}
  BY <1>5 DEF Stepped
<1>7. PICK a \in 0 .. n : \A it \in 0 .. n - 1 : it \in InFile(f, it_l) <=> it = a
  <2>1. Indexed(f, times, n)
    BY <1>3, <1>5 DEF Indexed
  <2> HIDE DEF times
  <2> QED
    BY <2>1, OneInFile
<1>8. \A i, j \in 1 .. n : i < j => times[i] < times[j]
  <2> HIDE DEF times
  <2> QED
    BY <1>3, <1>5, SteppedIncreases
<1>p. /\ \A i \in 1 .. W : /\ PlacedSample(p, i) \in Samples /\ Real(PlacedSample(p, i))
                           /\ times[i] = PlacedSample(p, i).time
      /\ \A s \in Samples : Real(s) => \E i \in 1 .. W : s = PlacedSample(p, i)
  BY <1>1, <1>2, PlacedIs
<1>s. \A s : s \in S <=> /\ s \in Samples /\ Real(s)
                         /\ \E it \in 0 .. n - 1 : index[it] = it_l /\ times[it + 1] = s.time
  BY <1>5 DEF AppendedAt
<1>i. \A it \in 0 .. n - 1 : index[it] = it_l <=> it = a
  BY <1>5, <1>7 DEF InFile
<1>q. \A q \in 0 .. npol - 1 : ifreq * npol + q \in 0 .. Width - 1
  <2> TAKE q \in 0 .. npol - 1
  <2>1. 0 \in 0 .. n - 1
    BY <1>6
  <2> QED
    BY <1>3, <1>4, <1>6, <2>1, Channel
<1> HIDE DEF S, wsum, psum, index, npol, times
<1>9. ASSUME NEW s, s \in S PROVE a + 1 \in 1 .. W /\ s = PlacedSample(p, a + 1)
  <2>1. PICK it \in 0 .. n - 1 : index[it] = it_l /\ times[it + 1] = s.time
    BY <1>9, <1>s
  <2>2. it = a
    BY <1>i, <2>1
  <2>3. PICK i \in 1 .. W : s = PlacedSample(p, i)
    BY <1>9, <1>s, <1>p
  <2>4. times[i] = times[a + 1]
    BY <1>p, <2>1, <2>2, <2>3
  <2>5. i \in 1 .. n /\ a + 1 \in 1 .. n
    BY <1>3, <2>2
  <2>6. times[i] \in Int
    BY <1>3, <2>5
  <2>7. ~(i < a + 1) /\ ~(a + 1 < i)
    BY <1>8, <2>4, <2>5, <2>6
  <2>8. i = a + 1
    BY <2>5, <2>7
  <2> QED
    BY <2>3, <2>8
<1>10. ASSUME a + 1 <= W PROVE PlacedSample(p, a + 1) \in S
  <2>1. a + 1 \in 1 .. W /\ a \in 0 .. n - 1
    BY <1>3, <1>10
  <2> QED
    BY <1>i, <1>p, <1>s, <2>1
<1> DEFINE Weights(q) == IF a < n THEN TermAt(npol, n, ifreq, a, f.weights, q) ELSE 0
           Prods(q) == IF a < n THEN TermAt(npol, n, ifreq, a, Products(f), q) ELSE 0
<1>11. ASSUME a + 1 <= W, NEW q \in 0 .. npol - 1
       PROVE  LET s == PlacedSample(p, a + 1) IN
                /\ TermAt(npol, n, ifreq, a, f.weights, q) = WeightAt(s, ifreq, q)
                /\ TermAt(npol, n, ifreq, a, Products(f), q) =
                     WeightAt(s, ifreq, q) * IntensityOf(ifreq * npol + q, s.ipos)
                /\ WeightAt(s, ifreq, q) \in Int
                /\ IntensityOf(ifreq * npol + q, s.ipos) \in Int
  <2> DEFINE kk == ifreq * npol + q
             s == SampleOf(p[a + 1].k, p[a + 1].it)
             c == appended[p[a + 1].k]
  <2>1. kk \in 0 .. Width - 1 /\ a \in 0 .. n - 1
    BY <1>3, <1>11, <1>q
  <2> HIDE DEF kk
  <2>2. /\ f.weights[kk * n + a] = WeightOf(c.pattern, kk * c.nt + s.it)
        /\ Products(f)[kk * n + a] = WeightOf(c.pattern, kk * c.nt + s.it) * IntensityOf(kk, s.ipos)
        /\ WeightOf(c.pattern, kk * c.nt + s.it) \in Int
        /\ IntensityOf(kk, s.ipos) \in Int
    BY <1>1, <1>2, <1>11, <2>1, TermsAre
  <2>3. WeightOf(c.pattern, kk * c.nt + s.it) = WeightAt(s, ifreq, q)
    <3>1. s.k = p[a + 1].k
      BY DEF SampleOf
    <3> QED
      BY <3>1 DEF WeightAt, kk, npol
  <2> QED
    BY <2>2, <2>3, Zenon DEF TermAt, kk, PlacedSample
<1>12. ASSUME ~(a + 1 <= W), a < n, NEW q \in 0 .. npol - 1
       PROVE  /\ TermAt(npol, n, ifreq, a, f.weights, q) = 0
  <2>1. a \in 0 .. n - 1 /\ ifreq * npol + q \in 0 .. Width - 1
    BY <1>3, <1>12, <1>q
  <2> QED
    BY <1>1, <1>2, <1>12, <2>1, TermsAre DEF TermAt
<1>13. wsum = SumOf(npol, [q \in 0 .. npol - 1 |-> Weights(q)])
  <2>1. \A q \in 0 .. npol - 1 : a < n => TermAt(npol, n, ifreq, a, f.weights, q) \in Int
    <3> SUFFICES ASSUME NEW q \in 0 .. npol - 1, a < n
                 PROVE  TermAt(npol, n, ifreq, a, f.weights, q) \in Int
      OBVIOUS
    <3> QED
      BY <1>11, <1>12
  <2>2. n = f.times.nt_file /\ Len(args.pol) \in Nat
    BY <1>4, <1>5 DEF npol
  <2>3. AddsUp(f, ifreq, it_l, n, a, f.weights)
    BY <1>3, <1>4, <1>6, <1>7, <2>1, <2>2, AddedUpIs DEF npol
  <2> QED
    BY <2>3, Zenon DEF wsum, npol, AddsUp
<1>14. CASE ~(a + 1 <= W)
  <2>1. S = {}
    <3> SUFFICES ASSUME NEW s \in S PROVE FALSE
      OBVIOUS
    <3> QED
      BY <1>3, <1>9, <1>14
  <2>2. wsum = 0
    <3> DEFINE g == [q \in 0 .. npol - 1 |-> Weights(q)]
    <3>1. \A q \in 0 .. npol - 1 : g[q] = 0
      BY <1>12, <1>14
    <3>2. npol \in 0 .. npol /\ ~(npol < npol) /\ \A q \in 0 .. npol - 1 : q # npol => g[q] = 0
      BY <1>4, <3>1
    <3> HIDE DEF g
    <3>3. SumOf(npol, g) = IF npol < npol THEN g[npol] ELSE 0
      BY <1>4, <3>2, SumOfOne
    <3> QED
      BY <1>13, <3>2, <3>3 DEF g
  <2>3. Cardinality(S) <= 1
    BY <2>1, FS_EmptySet
  <2> QED
    BY <2>1, <2>2, <2>3, Zenon DEF ReadHere, S, wsum
<1>15. CASE a + 1 <= W
  <2> DEFINE s == PlacedSample(p, a + 1)
  <2>1. S = {s}
    BY <1>9, <1>10, <1>15
  <2>2. Cardinality(S) <= 1
    <3>1. Cardinality({s}) = 1
      BY FS_Singleton
    <3> HIDE DEF s
    <3> QED
      BY <2>1, <3>1
  <2>3. a < n
    BY <1>3, <1>15
  <2>4. wsum = SumOf(npol, [q \in 0 .. npol - 1 |-> WeightAt(s, ifreq, q)])
    <3> DEFINE g == [q \in 0 .. npol - 1 |-> Weights(q)]
               h == [q \in 0 .. npol - 1 |-> WeightAt(s, ifreq, q)]
    <3>1. \A q \in 0 .. npol - 1 : g[q] = h[q]
      BY <1>11, <1>15, <2>3
    <3> HIDE DEF g, h
    <3>2. SumOf(npol, g) = SumOf(npol, h)
      BY <1>4, <3>1, SumsEqual
    <3> QED
      BY <1>13, <3>2 DEF g, h
  <2>5. psum = SumOf(npol, [q \in 0 .. npol - 1 |-> Prods(q)])
    <3>1. \A q \in 0 .. npol - 1 : a < n => TermAt(npol, n, ifreq, a, Products(f), q) \in Int
      <4> TAKE q \in 0 .. npol - 1
      <4> DEFINE x == WeightAt(s, ifreq, q)
                 y == IntensityOf(ifreq * npol + q, s.ipos)
      <4>1. TermAt(npol, n, ifreq, a, Products(f), q) = x * y /\ x \in Int /\ y \in Int
        BY <1>11, <1>15
      <4> HIDE DEF x, y
      <4> QED
        BY <4>1
    <3>2. n = f.times.nt_file /\ Len(args.pol) \in Nat
      BY <1>4, <1>5 DEF npol
    <3>3. AddsUp(f, ifreq, it_l, n, a, Products(f))
      BY <1>3, <1>4, <1>6, <1>7, <3>1, <3>2, AddedUpIs DEF npol
    <3> QED
      BY <3>3, Zenon DEF psum, npol, AddsUp
  <2>6. psum = SumOf(npol, [q \in 0 .. npol - 1 |->
                 WeightAt(s, ifreq, q) * IntensityOf(ifreq * npol + q, s.ipos)])
    <3> DEFINE g == [q \in 0 .. npol - 1 |-> Prods(q)]
               h == [q \in 0 .. npol - 1 |->
                       WeightAt(s, ifreq, q) * IntensityOf(ifreq * npol + q, s.ipos)]
    <3>1. \A q \in 0 .. npol - 1 : g[q] = h[q]
      BY <1>11, <1>15, <2>3
    <3> HIDE DEF g, h
    <3>2. SumOf(npol, g) = SumOf(npol, h)
      BY <1>4, <3>1, SumsEqual
    <3> QED
      BY <2>5, <3>2 DEF g, h
  <2> HIDE DEF s
  <2>7. S # {}
    BY <2>1
  <2>8. \A e \in S : /\ wsum = SumOf(npol, [q \in 0 .. npol - 1 |-> WeightAt(e, ifreq, q)])
                     /\ psum = SumOf(npol, [q \in 0 .. npol - 1 |->
                          WeightAt(e, ifreq, q) * IntensityOf(ifreq * npol + q, e.ipos)])
    <3> TAKE e \in S
    <3>1. e = s
      BY <2>1
    <3> QED
      BY <2>4, <2>6, <3>1, Zenon
  <2> QED
    BY <2>2, <2>7, <2>8, Zenon DEF ReadHere, S, wsum, psum, npol
<1> QED
  BY <1>14, <1>15

LEMMA StateAsAppended == ASSUME IInv, Hdf5Values PROVE ReadAsAppended
<1> SUFFICES ASSUME NEW f \in reader, NEW ifreq \in 0 .. args.nfreq - 1, NEW t0 \in 0 .. 1,
                    NEW it \in 0 .. f.times.nt_logical - t0 - 1
             PROVE
      LET nt == f.times.nt_logical - t0
          out == get_unpolarized_intensity(f, ifreq, t0, nt)
          npol == Len(args.pol)
          S == AppendedAt(f, t0 + it)
          weight(s) == SumOf(npol, [p \in 0 .. npol - 1 |-> WeightAt(s, ifreq, p)])
          sum(s) == SumOf(npol, [p \in 0 .. npol - 1 |->
                      WeightAt(s, ifreq, p) * IntensityOf(ifreq * npol + p, s.ipos)])
      IN  /\ Cardinality(S) <= 1
          /\ \A s \in S : out[it].weight = weight(s) /\ out[it].sum = sum(s)
          /\ S = {} => out[it].weight = 0
  BY Zenon DEF ReadAsAppended
<1>1. ReadHere(f, ifreq, t0 + it)
  BY HereAsAppended
<1> DEFINE nt == f.times.nt_logical - t0
           out == get_unpolarized_intensity(f, ifreq, t0, nt)
<1>2. /\ out[it].weight = AddedUp(f, ifreq, t0 + it, f.weights)
      /\ out[it].sum = AddedUp(f, ifreq, t0 + it, Products(f))
  BY UnpolarizedIs
<1> HIDE DEF out
<1> QED
  BY <1>1, <1>2, Zenon DEF ReadHere, out

(* A file that can be read is read as what was appended: whichever write of   *)
(* append_chunk() failed before, get_unpolarized_intensity()                  *)
(* (src/intensity_hdf5_file.cpp) gives each sample at its time, or masked.    *)
THEOREM FilesReadAsAppended == ASSUME Hdf5Values PROVE Spec => []ReadAsAppended
<1>1. IInv => ReadAsAppended
  BY StateAsAppended
<1> QED
  BY <1>1, Invariance, PTL


-----------------------------------------------------------------------------
(* Steps of the file and steps of samples.                                  *)

(* Times G and u samples apart, each off by a hundredth of a sample at most,  *)
(* are as many steps apart as the samples are, up to an error of a hundredth  *)
(* of the steps.                                                              *)
LEMMA StepsAreNear ==
  ASSUME NEW dt \in Nat \ {0}, NEW u \in Nat \ {0}, NEW g \in Nat \ {0}, NEW x \in Int, NEW y \in Int,
         100 * Abs(x - dt * u) <= dt, 100 * Abs(y - dt * g) <= dt,
         x \in Nat \ {0}, y >= x,
         100 * Abs(y - Steps(y, x) * x) <= x
  PROVE  100 * Abs(Steps(y, x) * u - g) <= Steps(y, x) + u + 1
<1> DEFINE k == Steps(y, x)
           A == dt * u
           B == dt * g
           d0 == x - A
           d == y - B
           K == k * dt
           D == dt * (k * u)
           z == k * d0
           h == k * u
<1>1. k \in Nat \ {0}
  BY StepsPositive
<1> HIDE DEF k
<1>2. A \in Nat /\ B \in Nat /\ d0 \in Int /\ d \in Int /\ h \in Nat
  <2>1. A \in Nat /\ B \in Nat
    OBVIOUS
  <2>2. h \in Nat
    BY <1>1
  <2> HIDE DEF A, B, h
  <2> QED
    BY <2>1, <2>2
<1>3. x = A + d0 /\ y = B + d
  <2> HIDE DEF A, B
  <2> QED
    BY <1>2
<1>4. 100 * d0 <= dt /\ -(100 * d0) <= dt /\ 100 * d <= dt /\ -(100 * d) <= dt
  <2> HIDE DEF A, B
  <2>1. 100 * Abs(d0) <= dt /\ 100 * Abs(d) <= dt
    BY DEF A, B
  <2> HIDE DEF d0, d
  <2> QED
    BY <1>2, <2>1 DEF Abs
<1>5. k * x = D + z /\ D \in Nat /\ K \in Nat /\ z \in Int
  <2>1. k * A = D
    BY <1>1
  <2>2. D \in Nat /\ K \in Nat
    BY <1>1
  <2> HIDE DEF A, D
  <2>3. k * (A + d0) = k * A + k * d0 /\ k * d0 \in Int
    <3> HIDE DEF d0
    <3> QED
      BY <1>1, <1>2
  <2> HIDE DEF d0
  <2> QED
    BY <1>3, <2>1, <2>2, <2>3
<1>6. 100 * z <= K /\ -(100 * z) <= K
  <2> HIDE DEF d0
  <2>1. k * (dt - 100 * d0) >= 0 /\ k * (dt + 100 * d0) >= 0
    <3>1. dt - 100 * d0 \in Nat /\ dt + 100 * d0 \in Nat
      BY <1>2, <1>4
    <3> QED
      BY <1>1, <3>1
  <2>2. k * (dt - 100 * d0) = K - 100 * z /\ k * (dt + 100 * d0) = K + 100 * z
    BY <1>1, <1>2
  <2> HIDE DEF z, K
  <2> QED
    BY <1>5, <2>1, <2>2
<1>7. 100 * (y - D - z) <= x /\ -(100 * (y - D - z)) <= x
  <2> DEFINE w == k * x
  <2>1. w = D + z
    BY <1>5
  <2>2. 100 * Abs(y - w) <= x
    BY DEF k
  <2> HIDE DEF w, D, z
  <2> QED
    BY <1>5, <2>1, <2>2 DEF Abs
<1> HIDE DEF A, B, D, K, z, d0, d
<1> DEFINE e == g - h
           r == 100 * (u + k) + 101
<1>8. 10000 * (B - D) <= 100 * A + 101 * dt + 100 * K /\ 10000 * (D - B) <= 100 * A + 101 * dt + 100 * K
  BY <1>2, <1>3, <1>4, <1>5, <1>6, <1>7
<1>9. 100 * A + 101 * dt + 100 * K = dt * r
  BY <1>1 DEF A, K
<1>10. B - D = dt * e
  BY <1>1 DEF B, D
<1>11. e \in Int /\ r \in Int
  BY <1>1, <1>2
<1>12. 10000 * (dt * e) = dt * (10000 * e) /\ 10000 * (-(dt * e)) = dt * (-(10000 * e))
  <2> HIDE DEF e
  <2> QED
    BY <1>11
<1>13. dt * (10000 * e) <= dt * r /\ dt * (-(10000 * e)) <= dt * r
  <2> DEFINE v == dt * e
             w == dt * r
  <2>1. v = B - D /\ v \in Int /\ w = 100 * A + 101 * dt + 100 * K
    BY <1>2, <1>5, <1>9, <1>10
  <2>2. 10000 * v <= w /\ 10000 * (-v) <= w
    <3> HIDE DEF v, w
    <3> QED
      BY <1>2, <1>5, <1>8, <2>1
  <2> QED
    BY <1>12, <2>2
<1> HIDE DEF e, r
<1>14. ASSUME NEW a \in Int, dt * a <= dt * r PROVE a <= r
  <2> SUFFICES ASSUME r < a PROVE FALSE
    BY <1>11
  <2>1. dt * r + dt <= dt * a
    BY <1>11, NoGap
  <2>2. dt * r \in Int /\ dt * a \in Int
    BY <1>11
  <2> QED
    BY <1>14, <2>1, <2>2
<1>15. 10000 * e <= r /\ -(10000 * e) <= r
  <2>1. 10000 * e \in Int /\ -(10000 * e) \in Int
    BY <1>11
  <2> QED
    BY <1>13, <1>14, <2>1
<1>16. 100 * Abs(h - g) <= k + u + 1
  <2> HIDE DEF h
  <2> QED
    BY <1>1, <1>2, <1>11, <1>15 DEF Abs, e, r
<1> QED
  BY <1>16 DEF k, h


(* The file that was read is laid out by the list L of chunks: that of the    *)
(* chunks appended, or with the one whose weights are masked.                 *)
Position(L, q, i) == L[q[i].k].ipos + q[i].it

Laid(L, q, n) ==
  /\ Chained(L) /\ Len(L) \in Nat
  /\ Places(L, q, n)
  /\ \A i \in 1 .. n : file["time"][i] = Column(L[q[i].k], "time", q[i].it)
  /\ appended # <<>> => L[1] = appended[1]
  /\ \A s \in Samples : Real(s) =>
       \E i \in 1 .. n : s.ipos = Position(L, q, i) /\ s.time = file["time"][i]

LEMMA FileLaid ==
  ASSUME IInv, NEW f \in reader
  PROVE  \E L, q : Laid(L, q, Len(file["time"]))
<1> DEFINE W == curr_shape["weight"]
           n == Len(file["time"])
<1>1. /\ step = <<"read">> /\ FileInv /\ TypeInv /\ LoadedFrom(f)
      /\ \E p : Readable(f, p, W, n)
  BY ReadableIs
<1>2. Stage = 0 /\ step # <<"write", 3>>
  BY <1>1 DEF Stage, Calls
<1>3. ShapeInv /\ Chained(appended) /\ WriterInv
  BY <1>1 DEF FileInv
<1>4. /\ W \in Nat /\ n \in Nat /\ W <= n /\ n >= curr_shape["time"] /\ curr_shape["time"] \in Nat
      /\ \A d \in Names : Len(file[d]) = n
  BY <1>1, <1>3 DEF ShapeInv, Names, LoadedFrom
<1>5. ~Displaced
  BY <1>2, <1>4 DEF Displaced, Names
<1>6. Len(appended) \in Nat
  BY <1>1 DEF TypeInv
<1>7. ASSUME NEW p, Holds(p)
      PROVE  \A s \in Samples : Real(s) =>
               \E i \in 1 .. W : s.ipos = Position(appended, p, i) /\ s.time = file["time"][i]
  <2> SUFFICES ASSUME NEW s \in Samples, Real(s)
               PROVE  \E i \in 1 .. W : s.ipos = Position(appended, p, i) /\ s.time = file["time"][i]
    OBVIOUS
  <2>1. PICK k \in 1 .. Len(appended) : \E it \in 0 .. appended[k].nt - 1 : s = SampleOf(k, it)
    BY <1>1, <1>3, SamplesAre
  <2>2. PICK it \in 0 .. appended[k].nt - 1 : s = SampleOf(k, it)
    BY <2>1
  <2>3. PICK i \in 1 .. W : p[i].k = k /\ p[i].it = it
    BY <1>7 DEF Holds, Places
  <2>4. s.ipos = appended[k].ipos + it /\ s.time = appended[k].t0 + it * Dt
    BY <2>2 DEF SampleOf
  <2>5. file["time"][i] = appended[k].t0 + it * Dt
    <3>1. file["time"][i] = Column(appended[p[i].k], "time", p[i].it)
      BY <1>7 DEF Holds, Names
    <3> QED
      BY <2>3, <3>1, TimeColumn
  <2> QED
    BY <2>3, <2>4, <2>5 DEF Position
<1>8. CASE Aligned
  <2>1. PICK p : Holds(p)
    BY <1>8 DEF Aligned
  <2>2. n = W
    BY <1>2, <1>4, <1>8 DEF Aligned, Names
  <2>3. /\ Places(appended, p, W)
        /\ \A i \in 1 .. W : file["time"][i] = Column(appended[p[i].k], "time", p[i].it)
    BY <2>1 DEF Holds, Names
  <2>4. Laid(appended, p, n)
    <3> HIDE DEF n, W
    <3> QED
      BY <1>3, <1>6, <1>7, <2>1, <2>2, <2>3 DEF Laid
  <2> QED
    BY <2>4
<1>9. CASE Masked
  <2>1. PICK c : /\ Comes(appended, c) /\ Len(file["weight"]) = W + c.nt
                 /\ GoesOn("time", c) /\ \E p : Holds(p)
    BY <1>9 DEF Masked
  <2>2. PICK p : Holds(p)
    BY <2>1
  <2>3. c.nt \in Lengths /\ c.nt > 0 /\ ChunkOK(c)
    BY <2>1 DEF Comes, ChunkOK
  <2>4. c.nt \in Nat \ {0}
    <3>1. c.nt \in Int
      BY <2>3, Constants
    <3> QED
      BY <2>3, <3>1
  <2>5. n = W + c.nt
    BY <1>4, <2>1 DEF Names
  <2>6. /\ Places(appended, p, W)
        /\ \A i \in 1 .. W : file["time"][i] = Column(appended[p[i].k], "time", p[i].it)
    BY <2>2 DEF Holds, Names
  <2> DEFINE T == [nt : Int, ipos : Int, t0 : Int, pattern : Patterns \cup {0}] \cup {c}
             L == Append(appended, c)
             q == Further(appended, p, W, c)
  <2>7. appended \in Seq(T) /\ c \in T
    <3>1. appended \in Seq([nt : Int, ipos : Int, t0 : Int, pattern : Patterns \cup {0}])
      BY <1>1 DEF TypeInv
    <3>2. \A A, B, s : A \subseteq B /\ s \in Seq(A) => s \in Seq(B)
      OBVIOUS
    <3> QED
      BY <3>1, <3>2
  <2>8. (appended = <<>>) <=> (W = 0)
    BY <1>3 DEF WriterInv
  <2>9. \A k \in 1 .. Len(appended) : appended[k].nt \in Nat
    <3> TAKE k \in 1 .. Len(appended)
    <3>1. appended[k].nt \in Lengths /\ appended[k].nt > 0
      BY <1>3 DEF Chained, ChunkOK
    <3>2. appended[k].nt \in Int
      BY <3>1, Constants
    <3> QED
      BY <3>1, <3>2
  <2>10. Places(L, q, W + c.nt)
    <3> HIDE DEF W, T
    <3> QED
      BY <1>4, <2>4, <2>6, <2>7, <2>8, <2>9, PlacesAppend DEF W
  <2>11. /\ Len(L) = Len(appended) + 1 /\ L[Len(appended) + 1] = c
         /\ \A k \in 1 .. Len(appended) : L[k] = appended[k]
    <3> HIDE DEF T
    <3> QED
      BY <2>7
  <2>12. Chained(L)
    <3> HIDE DEF L
    <3>1. \A k \in 1 .. Len(L) : ChunkOK(L[k])
      <4> TAKE k \in 1 .. Len(L)
      <4>1. k \in 1 .. Len(appended) \/ k = Len(appended) + 1
        BY <1>6, <2>11
      <4> QED
        BY <1>3, <2>3, <2>11, <4>1 DEF Chained
    <3>2. \A k \in 1 .. Len(L) - 1 : Succeeds(L[k], L[k + 1])
      <4> TAKE k \in 1 .. Len(L) - 1
      <4>1. k \in 1 .. Len(appended) - 1 \/ (k = Len(appended) /\ appended # <<>>)
        BY <1>6, <2>11
      <4>2. CASE k \in 1 .. Len(appended) - 1
        <5>1. k \in 1 .. Len(appended) /\ k + 1 \in 1 .. Len(appended)
          BY <1>6, <4>2
        <5>2. Succeeds(appended[k], appended[k + 1])
          BY <1>3, <4>2 DEF Chained
        <5> QED
          BY <2>11, <5>1, <5>2
      <4>3. CASE k = Len(appended) /\ appended # <<>>
        <5>1. k \in 1 .. Len(appended)
          BY <1>6, <2>11, <4>3
        <5>2. Succeeds(appended[k], c)
          BY <2>1, <4>3 DEF Comes
        <5> QED
          BY <2>11, <4>3, <5>1, <5>2
      <4> QED
        BY <4>1, <4>2, <4>3
    <3> QED
      BY <3>1, <3>2 DEF Chained
  <2>13. \A i \in 1 .. W : i \in 1 .. n /\ q[i] = p[i] /\ p[i].k \in 1 .. Len(appended) /\ L[q[i].k] = appended[p[i].k]
    <3> TAKE i \in 1 .. W
    <3>1. i \in 1 .. W + c.nt /\ i <= W
      BY <1>4, <2>4
    <3>2. q[i] = p[i]
      <4> HIDE DEF W
      <4> QED
        BY <3>1 DEF Further
    <3>3. p[i].k \in 1 .. Len(appended)
      <4>1. p \in [1 .. W -> [k : 1 .. Len(appended), it : Nat]]
        BY <2>6 DEF Places
      <4> QED
        BY <4>1
    <3> HIDE DEF L, q
    <3> QED
      BY <2>5, <2>11, <3>1, <3>2, <3>3
  <2>14. \A i \in W + 1 .. n : q[i].k = Len(appended) + 1 /\ q[i].it = i - W - 1
    <3> TAKE i \in W + 1 .. n
    <3>1. i \in 1 .. W + c.nt /\ ~(i <= W)
      BY <1>4, <2>4, <2>5
    <3> DEFINE e == i - W - 1
    <3>2. q[i] = [k |-> Len(appended) + 1, it |-> e]
      <4> HIDE DEF W
      <4> QED
        BY <3>1 DEF Further
    <3> HIDE DEF e, q
    <3>3. q[i].k = Len(appended) + 1 /\ q[i].it = e
      BY <3>2
    <3> QED
      BY <3>3 DEF e
  <2> HIDE DEF L, q, n, W
  <2>15. \A i \in 1 .. n : file["time"][i] = Column(L[q[i].k], "time", q[i].it)
    <3> TAKE i \in 1 .. n
    <3>1. CASE i <= W
      <4>1. i \in 1 .. W
        BY <1>4, <3>1
      <4> QED
        BY <2>6, <2>13, <4>1
    <3>2. CASE ~(i <= W)
      <4>1. i \in W + 1 .. n
        BY <1>4, <3>2
      <4> DEFINE e == i - W - 1
      <4>2. e \in 0 .. c.nt - 1 /\ W + e + 1 = i
        BY <1>4, <2>4, <2>5, <4>1
      <4>3. q[i].it = e /\ L[q[i].k] = c
        BY <2>11, <2>14, <4>1
      <4> HIDE DEF e
      <4>4. file["time"][W + e + 1] = Column(c, "time", e)
        BY <2>1, <4>2 DEF GoesOn, W
      <4> QED
        BY <4>2, <4>3, <4>4
    <3> QED
      BY <3>1, <3>2
  <2>16. appended # <<>> => L[1] = appended[1]
    <3> SUFFICES ASSUME appended # <<>> PROVE L[1] = appended[1]
      OBVIOUS
    <3>1. 1 \in 1 .. Len(appended)
      BY <2>7
    <3> QED
      BY <2>11, <3>1
  <2>17. \A s \in Samples : Real(s) =>
           \E i \in 1 .. n : s.ipos = Position(L, q, i) /\ s.time = file["time"][i]
    <3> SUFFICES ASSUME NEW s \in Samples, Real(s)
                 PROVE  \E i \in 1 .. n : s.ipos = Position(L, q, i) /\ s.time = file["time"][i]
      OBVIOUS
    <3>1. PICK i \in 1 .. W : s.ipos = Position(appended, p, i) /\ s.time = file["time"][i]
      BY <1>7, <2>2
    <3>2. Position(L, q, i) = Position(appended, p, i)
      BY <2>13 DEF Position
    <3> QED
      BY <2>13, <3>1, <3>2
  <2>18. Len(L) \in Nat
    BY <1>6, <2>11
  <2>19. Laid(L, q, n)
    BY <2>5, <2>10, <2>12, <2>15, <2>16, <2>17, <2>18 DEF Laid
  <2> QED
    BY <2>19 DEF n
<1> QED
  BY <1>1, <1>5, <1>8, <1>9 DEF FileInv


(* From one sample of the file to the next: the samples that were left out,   *)
(* and the time, which may be off by a hundredth of a sample.                 *)
LEMMA Apart ==
  ASSUME NEW L, NEW q, NEW n \in Nat, Laid(L, q, n), NEW i \in 1 .. n - 1
  PROVE  LET g == Position(L, q, i + 1) - Position(L, q, i)
             d == file["time"][i + 1] - file["time"][i]
         IN  /\ Position(L, q, i) \in Int /\ Position(L, q, i + 1) \in Int
             /\ file["time"][i] \in Int /\ file["time"][i + 1] \in Int
             /\ g \in Nat \ {0} /\ (g = 1 \/ g - 1 \in Gaps)
             /\ 100 * Abs(d - Dt * g) <= Dt
<1> DEFINE j == q[i].k
           m == q[i + 1].k
           a == q[i].it
           b == q[i + 1].it
<1>1. Places(L, q, n) /\ Chained(L) /\ Len(L) \in Nat
  BY DEF Laid
<1>2. i \in 1 .. n /\ i + 1 \in 1 .. n
  OBVIOUS
<1>3. j \in 1 .. Len(L) /\ m \in 1 .. Len(L) /\ a \in Nat /\ b \in Nat
  <2>1. q \in [1 .. n -> [k : 1 .. Len(L), it : Nat]]
    BY <1>1 DEF Places
  <2> QED
    BY <1>2, <2>1
<1>4. file["time"][i] = Column(L[j], "time", a) /\ file["time"][i + 1] = Column(L[m], "time", b)
  BY <1>2 DEF Laid
<1>5. Neighbours(L, q[i], q[i + 1])
  BY <1>1 DEF Places
<1>6. \/ m = j /\ b = a + 1
      \/ m = j + 1 /\ b = 0 /\ a = L[j].nt - 1
  BY <1>5 DEF Neighbours
<1>7. Position(L, q, i) = L[j].ipos + a /\ Position(L, q, i + 1) = L[m].ipos + b
  BY DEF Position
<1> HIDE DEF j, m, a, b
<1>8. \A k \in 1 .. Len(L) : L[k].ipos \in Int /\ L[k].t0 \in Int /\ L[k].nt \in Int
  <2>1. \A k \in 1 .. Len(L) : L[k].ipos \in Int /\ L[k].t0 \in Int /\ L[k].nt \in Lengths
    BY <1>1 DEF Chained, ChunkOK
  <2> QED
    BY <2>1, Constants
<1>9. Dt \in Nat \ {0}
  BY Constants
<1>10. file["time"][i] = L[j].t0 + a * Dt /\ file["time"][i + 1] = L[m].t0 + b * Dt
  BY <1>4, TimeColumn
<1> DEFINE x == L[j].ipos
           y == L[m].ipos
           s == L[j].t0
           t == L[m].t0
           u == L[j].nt
<1>11. x \in Int /\ y \in Int /\ s \in Int /\ t \in Int /\ u \in Int
  BY <1>3, <1>8
<1>12. m = j => x = y /\ s = t
  OBVIOUS
<1>13. m = j + 1 => y >= x + u /\ y - (x + u) \in Gaps /\ 100 * Abs(t - (s + Dt * (y - x))) <= Dt
  <2> SUFFICES ASSUME m = j + 1
               PROVE  y >= x + u /\ y - (x + u) \in Gaps /\ 100 * Abs(t - (s + Dt * (y - x))) <= Dt
    OBVIOUS
  <2>1. j \in 1 .. Len(L) - 1
    BY <1>1, <1>3
  <2>2. Succeeds(L[j], L[j + 1])
    BY <1>1, <2>1 DEF Chained
  <2> QED
    BY <2>2, Zenon DEF Succeeds
<1> HIDE DEF x, y, s, t, u
<1>14. CASE m = j /\ b = a + 1
  <2>1. (y + b) - (x + a) = 1
    BY <1>3, <1>11, <1>12, <1>14
  <2>2. (a + 1) * Dt = a * Dt + Dt /\ a * Dt \in Nat
    BY <1>3, <1>9
  <2> DEFINE v == a * Dt
             w == b * Dt
  <2>3. w = v + Dt /\ v \in Nat
    BY <1>14, <2>2
  <2> HIDE DEF v, w
  <2>4. (t + w) - (s + v) - Dt * 1 = 0
    BY <1>9, <1>11, <1>12, <1>14, <2>3
  <2>5. 100 * Abs((t + w) - (s + v) - Dt * 1) <= Dt
    <3>1. 100 * Abs(0) <= Dt
      BY <1>9 DEF Abs
    <3> QED
      BY <2>4, <3>1
  <2>6. x + a \in Int /\ y + b \in Int /\ s + v \in Int /\ t + w \in Int
    BY <1>3, <1>9, <1>11, <2>3
  <2> QED
    BY <1>7, <1>10, <2>1, <2>5, <2>6 DEF v, w, x, y, s, t
<1>15. CASE m = j + 1 /\ b = 0 /\ a = u - 1
  <2> DEFINE v == a * Dt
             w == b * Dt
             g == (y + b) - (x + a)
             e == t - (s + Dt * (y - x))
  <2>1. y >= x + u /\ y - (x + u) \in Gaps /\ 100 * Abs(e) <= Dt
    BY <1>13, <1>15
  <2>2. g \in Nat \ {0} /\ g - 1 = y - (x + u)
    BY <1>3, <1>11, <1>15, <2>1
  <2>3. w = 0 /\ v \in Nat
    BY <1>3, <1>9, <1>15
  <2>4. Dt * g + v = Dt * (y - x)
    <3>1. g = (y - x) - a
      BY <1>3, <1>11, <1>15
    <3> DEFINE z == y - x
    <3>2. z \in Int
      BY <1>11
    <3> HIDE DEF z, g
    <3>3. Dt * (z - a) + a * Dt = Dt * z
      BY <1>3, <1>9, <3>2
    <3> QED
      BY <3>1, <3>3 DEF z
  <2> DEFINE c == Dt * g
  <2>5. c \in Nat
    <3> HIDE DEF g
    <3> QED
      BY <1>9, <2>2
  <2>6. (t + w) - (s + v) - c = e
    <3> DEFINE z == Dt * (y - x)
    <3>1. z = c + v
      BY <2>4
    <3> HIDE DEF c, v, w, z
    <3> QED
      BY <1>11, <2>3, <2>5, <3>1 DEF z
  <2>7. 100 * Abs((t + w) - (s + v) - c) <= Dt
    <3> HIDE DEF e, v, w, c
    <3> QED
      BY <2>1, <2>6
  <2>8. x + a \in Int /\ y + b \in Int /\ s + v \in Int /\ t + w \in Int
    <3> HIDE DEF v, w
    <3> QED
      BY <1>3, <1>11, <2>3
  <2>9. g - 1 \in Gaps
    <3> HIDE DEF g
    <3> QED
      BY <2>1, <2>2
  <2>10. /\ Position(L, q, i) = x + a /\ Position(L, q, i + 1) = y + b
         /\ file["time"][i] = s + v /\ file["time"][i + 1] = t + w
    BY <1>7, <1>10 DEF x, y, s, t
  <2> HIDE DEF v, w
  <2> QED
    BY <2>2, <2>7, <2>8, <2>9, <2>10
<1> QED
  BY <1>6, <1>14, <1>15 DEF u

(* The steps that the reader counts from each sample of the file to the next  *)
(* are the positions between them in units of the smallest step, up to an     *)
(* error of a hundredth of them.                                              *)
Nearly(steps, unit, positions) == 100 * Abs(steps * unit - positions) <= steps + unit + 1

LEMMA StepUnit ==
  ASSUME NEW L, NEW q, NEW n, NEW u, NEW index, Laid(L, q, n), Stepped(file["time"], n, u, index),
         \A i \in 1 .. n : file["time"][i] \in Int
  PROVE  \E unit \in {1} \union {gap + 1 : gap \in Gaps} :
           /\ unit > 0
           /\ \A i \in 1 .. n - 1 :
                Nearly(index[i] - index[i - 1], unit, Position(L, q, i + 1) - Position(L, q, i))
<1> DEFINE a == file["time"]
           P(i) == Position(L, q, i)
           g(i) == P(i + 1) - P(i)
<1>1. /\ n \in Nat /\ n >= 2 /\ u \in Nat \ {0}
      /\ \E i \in 1 .. n - 1 : u = a[i + 1] - a[i]
      /\ \A i \in 1 .. n - 1 : a[i + 1] - a[i] >= u
      /\ \A i \in 1 .. n - 1 : 100 * Abs(a[i + 1] - a[i] - Steps(a[i + 1] - a[i], u) * u) <= u
      /\ index[0] = 0
      /\ \A i \in 1 .. n - 1 : index[i] = index[i - 1] + Steps(a[i + 1] - a[i], u)
  BY Zenon DEF Stepped
<1>2. \A i \in 1 .. n - 1 : /\ a[i] \in Int /\ a[i + 1] \in Int
                            /\ g(i) \in Nat \ {0} /\ (g(i) = 1 \/ g(i) - 1 \in Gaps)
                            /\ 100 * Abs(a[i + 1] - a[i] - Dt * g(i)) <= Dt
  BY <1>1, Apart
<1>3. \A i \in 0 .. n - 1 : index[i] \in Nat
  BY SteppedIncreases
<1> HIDE DEF a
<1>4. PICK m \in 1 .. n - 1 : u = a[m + 1] - a[m]
  BY <1>1
<1>5. PICK unit : unit = g(m)
  OBVIOUS
<1>6. unit \in Nat \ {0} /\ (unit = 1 \/ unit - 1 \in Gaps) /\ 100 * Abs(u - Dt * unit) <= Dt
  BY <1>2, <1>4, <1>5
<1>7. unit \in {1} \union {gap + 1 : gap \in Gaps} /\ unit > 0
  <2>1. unit = (unit - 1) + 1
    BY <1>6
  <2> QED
    BY <1>6, <2>1
<1>8. Dt \in Nat \ {0}
  BY Constants
<1>9. \A i \in 1 .. n - 1 : Nearly(index[i] - index[i - 1], unit, g(i))
  <2> TAKE i \in 1 .. n - 1
  <2> DEFINE y == a[i + 1] - a[i]
             h == g(i)
  <2>1. y \in Int /\ h \in Nat \ {0} /\ 100 * Abs(y - Dt * h) <= Dt
    BY <1>2
  <2>2. y >= u /\ 100 * Abs(y - Steps(y, u) * u) <= u /\ index[i] = index[i - 1] + Steps(y, u)
    BY <1>1
  <2> HIDE DEF y, h
  <2>3. u \in Int /\ u \in Nat \ {0} /\ unit \in Nat \ {0} /\ 100 * Abs(u - Dt * unit) <= Dt
    BY <1>1, <1>6
  <2>4. 100 * Abs(Steps(y, u) * unit - h) <= Steps(y, u) + unit + 1
    BY <1>8, <2>1, <2>2, <2>3, StepsAreNear
  <2>5. Steps(y, u) \in Nat
    BY <1>1, <2>1, <2>2, StepsPositive
  <2>6. index[i - 1] \in Nat /\ index[i] - index[i - 1] = Steps(y, u)
    <3>1. i - 1 \in 0 .. n - 1
      BY <1>1
    <3>2. index[i - 1] \in Nat
      BY <1>3, <3>1
    <3> QED
      BY <2>2, <2>5, <3>2
  <2> QED
    BY <2>4, <2>6 DEF Nearly, h
<1> QED
  BY <1>7, <1>9 DEF P

LEMMA StateIndexed == ASSUME IInv PROVE IndexIsPosition
<1> DEFINE S == {s \in Samples : Real(s)}
           times == file["time"]
<1> SUFFICES ASSUME NEW f \in reader
             PROVE  LET mapping == f.times.time_index_mapping
                    IN  /\ \A s \in S : \E it \in DOMAIN mapping : times[it + 1] = s.time
                        /\ \E unit \in {1} \union {gap + 1 : gap \in Gaps} :
                             /\ unit > 0
                             /\ \A it \in DOMAIN mapping \ {0}, s, t \in S :
                                  times[(it - 1) + 1] = s.time /\ times[it + 1] = t.time =>
                                    Nearly(mapping[it] - mapping[it - 1], unit, t.ipos - s.ipos)
  BY Zenon DEF IndexIsPosition, Nearly
<1> DEFINE n == Len(times)
           index == f.times.time_index_mapping
<1>1. TypeInv /\ FileInv /\ LoadedFrom(f) /\ \E p : Readable(f, p, curr_shape["weight"], n)
  BY ReadableIs
<1>2. PICK L, q : Laid(L, q, n)
  BY FileLaid
<1>3. n \in Nat /\ \A i \in 1 .. n : times[i] \in Int
  BY <1>1 DEF Readable
<1>4. Stepped(times, n, f.times.dt_p, index)
  <2>1. f.times = TimesOf(times) /\ TimesOf(times).valid
    BY <1>1 DEF LoadedFrom
  <2>2. Stepped(times, n, TimesOf(times).dt_p, TimesOf(times).time_index_mapping)
    <3> HIDE DEF times
    <3> QED
      BY <1>3, <2>1, TimesAre
  <2> HIDE DEF times
  <2> QED
    BY <2>1, <2>2
<1>5. n >= 2 /\ DOMAIN index = 0 .. n - 1
  BY <1>4 DEF Stepped
<1>6. PICK unit \in {1} \union {gap + 1 : gap \in Gaps} :
        /\ unit > 0
        /\ \A i \in 1 .. n - 1 :
             Nearly(index[i] - index[i - 1], unit, Position(L, q, i + 1) - Position(L, q, i))
  <2>1. /\ Laid(L, q, n) /\ Stepped(file["time"], n, f.times.dt_p, index)
        /\ \A i \in 1 .. n : file["time"][i] \in Int
    BY <1>2, <1>3, <1>4
  <2> HIDE DEF n, index, times
  <2> QED
    BY <2>1, StepUnit, Zenon
<1>7. \A i, j \in 1 .. n : i < j => times[i] < times[j]
  <2> HIDE DEF times, index, n
  <2> QED
    BY <1>3, <1>4, SteppedIncreases
<1>8. \A s \in S : \E i \in 1 .. n : s.ipos = Position(L, q, i) /\ s.time = times[i]
  BY <1>2 DEF Laid
<1> HIDE DEF index, n, times, S
<1>9. ASSUME NEW s \in S, NEW i \in 1 .. n, times[i] = s.time
      PROVE  s.ipos = Position(L, q, i)
  <2>1. PICK j \in 1 .. n : s.ipos = Position(L, q, j) /\ s.time = times[j]
    BY <1>8
  <2>2. i = j
    <3>1. times[i] = times[j] /\ times[i] \in Int /\ ~(i < j) /\ ~(j < i)
      BY <1>3, <1>7, <1>9, <2>1
    <3> QED
      BY <1>3, <3>1
  <2> QED
    BY <2>1, <2>2
<1>10. ASSUME NEW s \in S PROVE \E it \in DOMAIN index : times[it + 1] = s.time
  <2>1. PICK i \in 1 .. n : s.time = times[i]
    BY <1>8
  <2>2. i - 1 \in 0 .. n - 1 /\ (i - 1) + 1 = i
    BY <1>3
  <2> QED
    BY <1>5, <2>1, <2>2
<1>11. ASSUME NEW it \in DOMAIN index \ {0}, NEW s \in S, NEW t \in S,
              times[(it - 1) + 1] = s.time, times[it + 1] = t.time
       PROVE  Nearly(index[it] - index[it - 1], unit, t.ipos - s.ipos)
  <2>1. it \in 1 .. n - 1 /\ it \in 1 .. n /\ it + 1 \in 1 .. n /\ (it - 1) + 1 = it
    BY <1>3, <1>5
  <2>2. s.ipos = Position(L, q, it) /\ t.ipos = Position(L, q, it + 1)
    BY <1>9, <1>11, <2>1
  <2> QED
    BY <1>6, <2>1, <2>2
<1> QED
  BY <1>6, <1>10, <1>11, Zenon DEF index

(* The steps that the reader counts are the positions that samples were       *)
(* appended at, whatever the gaps and the drift: over any gap _init_times()   *)
(* of src/intensity_hdf5_file.cpp slips by one step in a hundred at most, and *)
(* by none below a hundred steps, or it refuses the file.                     *)
THEOREM IndicesArePositions == Spec => []IndexIsPosition
<1>1. IInv => IndexIsPosition
  BY StateIndexed
<1> QED
  BY <1>1, Invariance, PTL


-----------------------------------------------------------------------------
(* The books of the writer: what it counts as it goes.                      *)

(* The weights in the file, and those of chunk c. *)
FileSum ==
  SumOf(Width, [k \in 0 .. Width - 1 |->
    SumOf(curr_shape["weight"], [a \in 0 .. curr_shape["weight"] - 1 |-> file["weight"][a + 1][k]])])
FileWeights == {file["weight"][i][k] : i \in 1 .. curr_shape["weight"], k \in 0 .. Width - 1}

ChunkSum(c) ==
  SumOf(Width * c.nt, [i \in 0 .. Width * c.nt - 1 |-> WeightOf(c.pattern, i)])
ChunkWeights(c) == {WeightOf(c.pattern, i) : i \in 0 .. Width * c.nt - 1}

IsMax(m, S) == m \in S /\ \A x \in S : x <= m

(* As long as no write fails, the datasets differ by the chunk at most that   *)
(* is being written.                                                          *)
Clean ==
  /\ curr_shape["time"] = curr_shape["weight"] + (IF Stage > 1 THEN chunk.nt ELSE 0)
  /\ curr_shape["intensity"] = curr_shape["weight"] + (IF Stage > 2 THEN chunk.nt ELSE 0)
  /\ \A j \in 1 .. 3 : step # <<"write", j>> =>
       Len(file[Datasets[j]]) = curr_shape[Datasets[j]]

(* Once a write fails, or a chunk is refused, weights are counted that are    *)
(* not in the file.                                                           *)
Summed ==
  IF step \in Calls
  THEN /\ writer.wsum = FileSum + ChunkSum(chunk)
       /\ IsMax(writer.wmax, {0} \cup FileWeights \cup ChunkWeights(chunk))
  ELSE /\ writer.wsum = FileSum
       /\ IsMax(writer.wmax, {0} \cup FileWeights)

CountsInv ==
  /\ failures \in Nat /\ refused \in Nat
  /\ AppendedCount = writer.curr_nt
  /\ appended # <<>> => writer.initial_ipos = appended[1].ipos
  /\ step \in Calls /\ appended = <<>> => writer.initial_ipos = chunk.ipos
  /\ step = <<"new">> => writer.wsum = 0 /\ writer.wmax = 0

CleanInv == Open /\ failures = 0 => Clean
SummedInv == Open /\ failures = 0 /\ refused = 0 => Summed

BooksInv == CountsInv /\ CleanInv /\ SummedInv


Counts == [nt : Int, ipos : Int, t0 : Int, pattern : Patterns \cup {0}]

LEMMA CountOfAppend ==
  ASSUME NEW c \in Counts, appended \in Seq(Counts), appended' = Append(appended, c)
  PROVE  AppendedCount' = AppendedCount + c.nt
<1> DEFINE n == Len(appended)
           f == [k \in 0 .. n - 1 |-> appended[k + 1].nt]
           g == [k \in 0 .. n |-> appended'[k + 1].nt]
<1>1. /\ n \in Nat /\ Len(appended') = n + 1 /\ appended'[n + 1] = c
      /\ \A k \in 1 .. n : appended'[k] = appended[k]
  <2> HIDE DEF Counts
  <2> QED
    OBVIOUS
<1>2. AppendedCount = SumOf(n, f)
  BY DEF AppendedCount
<1>3. AppendedCount' = SumOf(n + 1, g)
  <2>1. AppendedCount' = SumOf(Len(appended'), [k \in 0 .. Len(appended') - 1 |-> appended'[k + 1].nt])
    BY DEF AppendedCount
  <2>2. Len(appended') - 1 = n
    BY <1>1
  <2> QED
    BY <1>1, <2>1, <2>2
<1>4. \A k \in 0 .. n - 1 : g[k] = f[k]
  <2> TAKE k \in 0 .. n - 1
  <2>1. k + 1 \in 1 .. n /\ k \in 0 .. n
    BY <1>1
  <2> QED
    BY <1>1, <2>1
<1>5. g[n] = c.nt
  BY <1>1
<1> HIDE DEF f, g, n
<1>6. SumOf(n + 1, g) = SumOf(n, g) + g[n]
  BY <1>1, SumRecursion
<1>7. SumOf(n, g) = SumOf(n, f)
  BY <1>1, <1>4, SumsEqual
<1> QED
  BY <1>2, <1>3, <1>5, <1>6, <1>7

LEMMA CountKept ==
  ASSUME appended' = appended PROVE AppendedCount' = AppendedCount
BY DEF AppendedCount

(* The three outcomes of append_chunk(). *)
LEMMA AppendCases ==
  ASSUME TypeInv, NEW nt, NEW ipos, NEW t0, NEW pattern, AppendChunk(nt, ipos, t0, pattern)
  PROVE  LET c == [nt |-> nt, ipos |-> ipos, t0 |-> t0, pattern |-> pattern]
         IN  /\ step = <<"ready">> /\ nt > 0
             /\ UNCHANGED <<args, file, curr_shape, reader, appended, failures>>
             /\ \/ UNCHANGED <<step, chunk, writer, refused>>
                \/ refused' = refused + 1 /\ writer' = WithWeights(writer, c) /\ UNCHANGED <<step, chunk>>
                \/ /\ writer' = WithWeights(writer, c) /\ chunk' = c /\ step' = <<"extend", 1>>
                   /\ UNCHANGED refused
             /\ writer' = WithWeights(writer, c) =>
                  /\ writer'.curr_nt = writer.curr_nt
                  /\ writer'.initial_ipos = IF writer.curr_nt = 0 THEN ipos ELSE writer.initial_ipos
                  /\ writer'.wsum = writer.wsum + ChunkSum(c)
                  /\ writer'.wmax = Max({writer.wmax} \cup ChunkWeights(c))
<1> DEFINE c == [nt |-> nt, ipos |-> ipos, t0 |-> t0, pattern |-> pattern]
<1>1. /\ step = <<"ready">> /\ nt > 0
      /\ UNCHANGED <<args, file, curr_shape, reader, appended, failures>>
      /\ \/ UNCHANGED <<step, chunk, writer, refused>>
         \/ refused' = refused + 1 /\ writer' = WithWeights(writer, c) /\ UNCHANGED <<step, chunk>>
         \/ /\ writer' = WithWeights(writer, c) /\ chunk' = c /\ step' = <<"extend", 1>>
            /\ UNCHANGED refused
  BY DEF AppendChunk, fileVars
<1>2. c.ipos = ipos
  OBVIOUS
<1> HIDE DEF c
<1>3. ASSUME writer' = WithWeights(writer, c)
      PROVE  /\ writer'.curr_nt = writer.curr_nt
             /\ writer'.initial_ipos = IF writer.curr_nt = 0 THEN ipos ELSE writer.initial_ipos
             /\ writer'.wsum = writer.wsum + ChunkSum(c)
             /\ writer'.wmax = Max({writer.wmax} \cup ChunkWeights(c))
  <2> DEFINE weights == [i \in 0 .. Width * c.nt - 1 |-> WeightOf(c.pattern, i)]
             total == SumOf(Width * c.nt, weights)
             S == {weights[i] : i \in 0 .. Width * c.nt - 1}
             ip == IF writer.curr_nt = 0 THEN c.ipos ELSE writer.initial_ipos
  <2>1. S = ChunkWeights(c)
    BY DEF ChunkWeights
  <2>2. total = ChunkSum(c)
    BY Zenon DEF ChunkSum
  <2>3. writer' = [writer EXCEPT !.initial_ipos = ip, !.wsum = @ + total,
                                 !.wmax = Max({@} \union S)]
    BY <1>3, Zenon DEF WithWeights, InitialIpos
  <2>4. DOMAIN writer = {"curr_nt", "curr_time", "curr_ipos", "initial_ipos", "wsum", "wmax"}
    BY DEF TypeInv
  <2> HIDE DEF S, total, ip, weights
  <2>5. /\ writer'.curr_nt = writer.curr_nt /\ writer'.initial_ipos = ip
        /\ writer'.wsum = writer.wsum + total /\ writer'.wmax = Max({writer.wmax} \cup S)
    BY <2>3, <2>4
  <2>6. ip = IF writer.curr_nt = 0 THEN ipos ELSE writer.initial_ipos
    BY <1>2 DEF ip
  <2> QED
    BY <2>1, <2>2, <2>5, <2>6
<1> QED
  BY <1>1, <1>3, Zenon DEF c

LEMMA AppendsCalled ==
  ASSUME NEW nt \in Lengths, NEW gap \in Gaps, NEW pattern \in Patterns,
         \/ AppendUntimed(nt, gap, pattern)
         \/ \E drift \in Drifts : AppendTimed(nt, gap, drift, pattern)
  PROVE  \E ipos, t0 : AppendChunk(nt, ipos, t0, pattern)
BY DEF AppendUntimed, AppendTimed

LEMMA CountsAppend ==
  ASSUME IInv, CountsInv, NEW nt, NEW ipos, NEW t0, NEW pattern, AppendChunk(nt, ipos, t0, pattern)
  PROVE  CountsInv'
<1> DEFINE c == [nt |-> nt, ipos |-> ipos, t0 |-> t0, pattern |-> pattern]
<1>1. TypeInv /\ c.ipos = ipos
  BY DEF IInv
<1> HIDE DEF c
<1>2. /\ step = <<"ready">>
      /\ UNCHANGED <<appended, failures>>
      /\ \/ UNCHANGED <<step, chunk, writer, refused>>
         \/ refused' = refused + 1 /\ writer' = WithWeights(writer, c) /\ UNCHANGED <<step, chunk>>
         \/ /\ writer' = WithWeights(writer, c) /\ chunk' = c /\ step' = <<"extend", 1>>
            /\ UNCHANGED refused
      /\ writer' = WithWeights(writer, c) =>
           /\ writer'.curr_nt = writer.curr_nt
           /\ writer'.initial_ipos = IF writer.curr_nt = 0 THEN ipos ELSE writer.initial_ipos
  BY <1>1, AppendCases DEF c
<1>3. (appended = <<>>) <=> (writer.curr_nt = 0)
  BY <1>2 DEF IInv, OpenInv, FileInv, WriterInv
<1>4. step \notin Calls /\ step # <<"new">> /\ <<"extend", 1>> # <<"new">>
  BY <1>2 DEF Calls
<1>5. AppendedCount' = AppendedCount
  BY <1>2, CountKept
<1>6. writer'.curr_nt = writer.curr_nt
  BY <1>2
<1>7. appended' # <<>> => writer'.initial_ipos = appended'[1].ipos
  BY <1>2, <1>3 DEF CountsInv
<1>8. step' \in Calls /\ appended' = <<>> => writer'.initial_ipos = chunk'.ipos
  BY <1>1, <1>2, <1>3, <1>4
<1>9. failures' \in Nat /\ refused' \in Nat /\ step' # <<"new">>
  BY <1>2, <1>4 DEF CountsInv
<1> QED
  BY <1>5, <1>6, <1>7, <1>8, <1>9 DEF CountsInv

LEMMA CountsNext == IInv /\ CountsInv /\ [Next]_vars => CountsInv'
<1> SUFFICES ASSUME IInv, CountsInv, [Next]_vars PROVE CountsInv'
  OBVIOUS
<1>1. ASSUME NEW nt \in Lengths, NEW gap \in Gaps, NEW pattern \in Patterns,
             \/ AppendUntimed(nt, gap, pattern)
             \/ \E drift \in Drifts : AppendTimed(nt, gap, drift, pattern)
      PROVE  CountsInv'
  <2>1. PICK ipos, t0 : AppendChunk(nt, ipos, t0, pattern)
    BY <1>1, AppendsCalled
  <2> QED
    BY <2>1, CountsAppend
<1>2. ASSUME UNCHANGED <<appended, writer>>, failures' \in Nat, refused' \in Nat,
             step' \in Calls => step \in Calls /\ chunk' = chunk,
             step' = <<"new">> => step = <<"new">>
      PROVE  CountsInv'
  BY <1>2, CountKept DEF CountsInv
<1>3. CASE Construct
  <2>1. UNCHANGED <<appended, writer, failures, refused>> /\ step' \in {<<"ready">>, <<"closed">>}
    <3>1. step' \in {<<"ready">>, <<"closed">>}
      BY <1>3 DEF Construct
    <3> QED
      BY <1>3, <3>1 DEF Construct, counters
  <2> QED
    BY <1>2, <2>1 DEF Calls, CountsInv
<1>4. CASE Extend
  <2>1. UNCHANGED <<appended, writer, failures, refused, chunk>> /\ step[1] = "extend" /\ step' = <<"write", step[2]>>
    BY <1>4 DEF Extend, counters
  <2>2. step \in Calls
    BY <2>1, StepKinds DEF IInv, TypeInv
  <2> QED
    BY <1>2, <2>1, <2>2 DEF CountsInv
<1>5. CASE Write /\ step[2] < 3
  <2>1. UNCHANGED <<appended, writer, failures, refused, chunk>> /\ step' = <<"extend", step[2] + 1>>
    BY <1>5 DEF Write, counters
  <2>2. step \in Calls
    BY <1>5, WriteWrites
  <2> QED
    BY <1>2, <2>1, <2>2 DEF CountsInv
<1>6. CASE Write /\ ~(step[2] < 3)
  <2>1. /\ UNCHANGED <<failures, refused>> /\ step' = <<"ready">>
        /\ writer' = [writer EXCEPT !.curr_nt = @ + chunk.nt, !.curr_ipos = chunk.ipos + chunk.nt,
                                    !.curr_time = chunk.t0 + chunk.nt * Dt]
        /\ appended' = Append(appended, chunk)
    BY <1>6 DEF Write, counters
  <2>2. step \in Calls /\ TypeInv
    BY <1>6, WriteWrites
  <2>3. appended \in Seq(Counts) /\ chunk \in Counts
    BY <2>2 DEF TypeInv, Counts
  <2>4. AppendedCount' = AppendedCount + chunk.nt
    BY <2>1, <2>3, CountOfAppend
  <2>5. writer'.curr_nt = writer.curr_nt + chunk.nt /\ writer'.initial_ipos = writer.initial_ipos
    BY <2>1, <2>2 DEF TypeInv
  <2>6. appended'[1] = IF appended = <<>> THEN chunk ELSE appended[1]
    <3> HIDE DEF Counts
    <3>1. CASE appended = <<>>
      BY <2>1, <3>1
    <3>2. CASE appended # <<>>
      <4>1. 1 \in 1 .. Len(appended)
        BY <2>3, <3>2
      <4> QED
        BY <2>1, <2>3, <3>2, <4>1
    <3> QED
      BY <3>1, <3>2
  <2>7. appended' # <<>> => writer'.initial_ipos = appended'[1].ipos
    BY <2>2, <2>5, <2>6 DEF CountsInv
  <2>8. step' \notin Calls /\ step' # <<"new">>
    BY <2>1 DEF Calls
  <2> QED
    BY <2>1, <2>4, <2>5, <2>7, <2>8 DEF CountsInv
<1>7. CASE CallFails
  <2>1. UNCHANGED <<appended, writer, refused>> /\ failures' = failures + 1 /\ step' = <<"ready">>
    BY <1>7 DEF CallFails
  <2> QED
    BY <1>2, <2>1 DEF CountsInv, Calls
<1>8. CASE Close \/ Read
  <2>1. UNCHANGED <<appended, writer, failures, refused>> /\ step' \in {<<"closed">>, <<"read">>}
    BY <1>8 DEF Close, Read, counters
  <2> QED
    BY <1>2, <2>1 DEF CountsInv, Calls
<1>9. CASE Done \/ UNCHANGED vars
  <2>1. UNCHANGED <<appended, writer, failures, refused, step, chunk>>
    BY <1>9 DEF Done, vars, counters
  <2> QED
    BY <1>2, <2>1 DEF CountsInv
<1> QED
  BY <1>1, <1>3, <1>4, <1>5, <1>6, <1>7, <1>8, <1>9 DEF Next


LEMMA CleanKept ==
  ASSUME UNCHANGED <<file, curr_shape>>, Clean, Stage < 2, Stage' < 2, Stage \in 0 .. 3, Stage' \in 0 .. 3,
         step[1] # "write", curr_shape["weight"] \in Nat
  PROVE  Clean'
<1>1. ~(Stage > 1) /\ ~(Stage > 2) /\ ~(Stage' > 1) /\ ~(Stage' > 2)
  OBVIOUS
<1>2. curr_shape["time"] = curr_shape["weight"] /\ curr_shape["intensity"] = curr_shape["weight"]
  BY <1>1 DEF Clean
<1>3. \A j \in 1 .. 3 : Len(file[Datasets[j]]) = curr_shape[Datasets[j]]
  <2>1. \A j \in 1 .. 3 : step # <<"write", j>>
    OBVIOUS
  <2> QED
    BY <2>1 DEF Clean
<1>4. Datasets' = Datasets
  BY DEF Datasets
<1> QED
  BY <1>1, <1>2, <1>3, <1>4 DEF Clean

LEMMA CleanNext == IInv /\ CountsInv /\ CleanInv /\ [Next]_vars => CleanInv'
<1> SUFFICES ASSUME IInv, CountsInv, CleanInv, [Next]_vars, Open', failures' = 0 PROVE Clean'
  BY DEF CleanInv
<1>1. TypeInv
  BY DEF IInv
<1>2. Datasets' = Datasets
  BY DEF Datasets
<1>3. ASSUME UNCHANGED <<file, curr_shape, failures>>, step \in Rests,
             step' \in Rests \cup {<<"extend", 1>>}
      PROVE  Clean'
  <2>1. Open /\ Clean
    BY <1>3 DEF CleanInv, Open
  <2>2. curr_shape["weight"] \in Nat
    BY <2>1 DEF IInv, OpenInv, FileInv, ShapeInv, Names
  <2>3. Stage = 0 /\ step[1] # "write"
    BY <1>1, <1>3, StepKinds DEF TypeInv
  <2>4. Stage' \in 0 .. 1
    BY <1>3 DEF Stage, Calls, Rests
  <2> QED
    BY <1>3, <2>1, <2>2, <2>3, <2>4, CleanKept
<1>4. ASSUME NEW nt \in Lengths, NEW gap \in Gaps, NEW pattern \in Patterns,
             \/ AppendUntimed(nt, gap, pattern)
             \/ \E drift \in Drifts : AppendTimed(nt, gap, drift, pattern)
      PROVE  Clean'
  <2>1. PICK ipos, t0 : AppendChunk(nt, ipos, t0, pattern)
    BY <1>4, AppendsCalled
  <2>2. /\ step = <<"ready">> /\ UNCHANGED <<file, curr_shape, failures>>
        /\ step' = step \/ step' = <<"extend", 1>>
    BY <2>1 DEF AppendChunk, fileVars
  <2> QED
    BY <1>3, <2>2 DEF Rests
<1>5. CASE Construct
  <2>1. PICK made : file' = [d \in made |-> <<>>] /\ curr_shape' = [d \in made |-> 0]
                    /\ step' \in {<<"ready">>, <<"closed">>}
    BY <1>5 DEF Construct
  <2>2. made = Names
    BY <2>1 DEF Open
  <2>3. \A d \in Names : file'[d] = <<>> /\ curr_shape'[d] = 0
    BY <2>1, <2>2
  <2>4. Stage' = 0
    BY <2>1 DEF Stage, Calls
  <2>5. \A j \in 1 .. 3 : Len(file'[Datasets[j]]) = curr_shape'[Datasets[j]]
    <3>1. Len(<<>>) = 0
      OBVIOUS
    <3> QED
      BY <2>3, <3>1, DatasetNames
  <2> QED
    BY <1>2, <2>3, <2>4, <2>5 DEF Clean, Names
<1>6. CASE Extend
  <2> DEFINE j == step[2]
             d == Datasets[j]
  <2>1. /\ step[1] = "extend" /\ step' = <<"write", j>> /\ UNCHANGED <<curr_shape, chunk, failures>>
        /\ \E longer : file' = [file EXCEPT ![d] = longer]
    BY <1>6 DEF Extend, counters
  <2>2. step \in Calls /\ Stage = j /\ j \in 1 .. 3 /\ step = <<"extend", j>>
    BY <1>1, <2>1, StepKinds DEF TypeInv
  <2>3. Open
    BY <2>2 DEF IInv, OpenInv
  <2>4. Clean
    BY <2>1, <2>3 DEF CleanInv
  <2>5. Stage' = j
    BY <2>1, <2>2 DEF Stage, Calls
  <2>6. \A i \in 1 .. 3 : step' # <<"write", i>> => Len(file'[Datasets[i]]) = curr_shape'[Datasets[i]]
    <3> SUFFICES ASSUME NEW i \in 1 .. 3, i # j
                 PROVE  Len(file'[Datasets[i]]) = curr_shape'[Datasets[i]]
      BY <2>1
    <3>1. Datasets[i] # d
      BY <2>2, DatasetNames
    <3>2. file'[Datasets[i]] = file[Datasets[i]]
      <4>1. Datasets[i] \in DOMAIN file
        BY <2>3, DatasetNames DEF Open
      <4> HIDE DEF d
      <4> QED
        BY <2>1, <3>1, <4>1
    <3>3. Len(file[Datasets[i]]) = curr_shape[Datasets[i]]
      BY <2>2, <2>4 DEF Clean
    <3> QED
      BY <2>1, <3>2, <3>3
  <2> QED
    BY <1>2, <2>1, <2>2, <2>4, <2>5, <2>6 DEF Clean
<1>7. CASE Write
  <2> DEFINE j == step[2]
             d == Datasets[j]
             nt == chunk.nt
             W == curr_shape["weight"]
  <2>1. /\ step \in Calls /\ j \in 1 .. 3 /\ Stage = j /\ step = <<"write", j>>
        /\ Open /\ FileInv /\ Written(j) /\ nt \in Nat
    BY <1>7, WriteWrites
  <2>2. failures' = failures
    BY <1>7 DEF Write, counters
  <2>3. Clean
    BY <2>1, <2>2 DEF CleanInv
  <2>4. /\ \A e \in Names : e # d => file'[e] = file[e] /\ curr_shape'[e] = curr_shape[e]
        /\ curr_shape'[d] = curr_shape[d] + nt
        /\ Len(file'[d]) = Len(file[d])
    BY <2>1 DEF Written
  <2>5. Len(file[d]) = curr_shape[d] + nt
    BY <2>1 DEF FileInv, ShapeInv
  <2>6. \A i \in 1 .. 3 : Len(file'[Datasets[i]]) = curr_shape'[Datasets[i]]
    <3> TAKE i \in 1 .. 3
    <3>1. CASE i = j
      BY <2>4, <2>5, <3>1
    <3>2. CASE i # j
      <4>1. Datasets[i] # d /\ Datasets[i] \in Names
        BY <2>1, <3>2, DatasetNames
      <4>2. Len(file[Datasets[i]]) = curr_shape[Datasets[i]]
        BY <2>1, <2>3, <3>2 DEF Clean
      <4> QED
        BY <2>4, <4>1, <4>2
    <3> QED
      BY <3>1, <3>2
  <2>7. /\ curr_shape["time"] = W + (IF j > 1 THEN nt ELSE 0)
        /\ curr_shape["intensity"] = W + (IF j > 2 THEN nt ELSE 0)
    BY <2>1, <2>3 DEF Clean
  <2>8. W \in Nat
    BY <2>1 DEF FileInv, ShapeInv, Names
  <2>9. "time" \in Names /\ "intensity" \in Names /\ "weight" \in Names
    BY DEF Names
  <2>10. CASE j = 1
    <3>1. Stage' = 2 /\ chunk' = chunk
      <4>1. step' = <<"extend", 2>> /\ chunk' = chunk
        BY <1>7, <2>10 DEF Write
      <4> QED
        BY <4>1 DEF Stage, Calls
    <3>2. d = "time"
      BY <2>10, DatasetNames
    <3>3. curr_shape'["time"] = W + nt /\ curr_shape'["intensity"] = W /\ curr_shape'["weight"] = W
      BY <2>4, <2>7, <2>8, <2>9, <2>10, <3>2
    <3> QED
      BY <1>2, <2>1, <2>6, <2>8, <3>1, <3>3 DEF Clean
  <2>11. CASE j = 2
    <3>1. Stage' = 3 /\ chunk' = chunk
      <4>1. step' = <<"extend", 3>> /\ chunk' = chunk
        BY <1>7, <2>11 DEF Write
      <4> QED
        BY <4>1 DEF Stage, Calls
    <3>2. d = "intensity"
      BY <2>11, DatasetNames
    <3>3. curr_shape'["time"] = W + nt /\ curr_shape'["intensity"] = W + nt /\ curr_shape'["weight"] = W
      BY <2>4, <2>7, <2>8, <2>9, <2>11, <3>2
    <3> QED
      BY <1>2, <2>1, <2>6, <3>1, <3>3 DEF Clean
  <2>12. CASE j = 3
    <3>1. Stage' = 0
      <4>1. step' = <<"ready">>
        BY <1>7, <2>12 DEF Write
      <4> QED
        BY <4>1 DEF Stage, Calls
    <3>2. d = "weight"
      BY <2>12, DatasetNames
    <3>3. curr_shape'["time"] = W + nt /\ curr_shape'["intensity"] = W + nt /\ curr_shape'["weight"] = W + nt
      BY <2>4, <2>7, <2>8, <2>9, <2>12, <3>2
    <3>4. W + nt = (W + nt) + 0
      BY <2>1, <2>8
    <3> QED
      BY <1>2, <2>6, <3>1, <3>3, <3>4 DEF Clean
  <2> QED
    BY <2>1, <2>10, <2>11, <2>12
<1>8. CASE CallFails
  <2>1. failures' = failures + 1 /\ failures \in Nat
    BY <1>8 DEF CallFails, CountsInv
  <2> QED
    BY <2>1
<1>9. CASE Close \/ Read
  <2>1. UNCHANGED <<file, curr_shape, failures>> /\ step \in {<<"ready">>, <<"closed">>}
        /\ step' \in {<<"closed">>, <<"read">>}
    BY <1>9 DEF Close, Read, counters, fileVars
  <2> QED
    BY <1>3, <2>1 DEF Rests
<1>10. CASE Done \/ UNCHANGED vars
  <2>1. UNCHANGED <<file, curr_shape, failures, step, chunk>>
    BY <1>10 DEF Done, vars, counters, fileVars
  <2>2. Open /\ Clean /\ Stage' = Stage
    BY <2>1 DEF CleanInv, Open, Stage
  <2> QED
    BY <1>2, <2>1, <2>2 DEF Clean
<1> QED
  BY <1>4, <1>5, <1>6, <1>7, <1>8, <1>9, <1>10 DEF Next


LEMMA WidthIs ==
  ASSUME TypeInv, ValidArguments
  PROVE  Width \in Nat \ {0}
<1> DEFINE x == args.nfreq
           y == Len(args.pol)
<1>1. x \in Int /\ args.pol \in Seq(STRING)
  BY Constants DEF TypeInv
<1>2. x > 0 /\ args.pol # <<>>
  BY DEF ValidArguments
<1>3. y \in Nat \ {0}
  BY <1>1, <1>2
<1> HIDE DEF x, y
<1>4. x \in Nat \ {0}
  BY <1>1, <1>2
<1>5. x * y \in Nat \ {0}
  <2>1. x * y \in Nat /\ x * y > 0
    BY <1>3, <1>4
  <2> QED
    BY <2>1
<1> QED
  BY <1>5 DEF Width, x, y

(* Where no write has failed, the weights in the file are numbers. *)
LEMMA FileWeightsInt ==
  ASSUME IInv, Open, Clean, Hdf5Values
  PROVE  /\ curr_shape["weight"] \in Nat /\ Width \in Nat \ {0}
         /\ \A i \in 1 .. curr_shape["weight"], k \in 0 .. Width - 1 :
              file["weight"][i][k] \in Int /\ file["weight"][i][k] >= 0
<1> DEFINE W == curr_shape["weight"]
<1>1. TypeInv /\ FileInv
  BY DEF IInv, OpenInv
<1>2. W \in Nat
  BY <1>1 DEF FileInv, ShapeInv, Names
<1>3. Width \in Nat \ {0}
  BY <1>1, WidthIs DEF FileInv
<1>4. ~Displaced
  <2> DEFINE X == W + (IF Stage > 1 THEN chunk.nt ELSE 0)
             T == curr_shape["time"]
  <2>1. T \in Nat
    BY <1>1 DEF FileInv, ShapeInv, Names
  <2>2. T = X
    BY DEF Clean
  <2>3. Displaced => X < T
    BY DEF Displaced
  <2> HIDE DEF X, T
  <2> QED
    BY <2>1, <2>2, <2>3
<1>5. PICK p : Holds(p)
  BY <1>1, <1>4 DEF FileInv, Aligned, Masked
<1>6. ASSUME NEW i \in 1 .. W, NEW k \in 0 .. Width - 1
      PROVE  file["weight"][i][k] \in Int /\ file["weight"][i][k] >= 0
  <2> DEFINE c == appended[p[i].k]
             it == p[i].it
             x == WeightOf(c.pattern, k * c.nt + it)
  <2>1. p[i].k \in 1 .. Len(appended) /\ it \in Nat /\ it < c.nt
    <3>1. /\ p \in [1 .. W -> [k : 1 .. Len(appended), it : Nat]]
          /\ \A j \in 1 .. W : p[j].it < appended[p[j].k].nt
      BY <1>5 DEF Holds, Places
    <3> QED
      BY <3>1
  <2>2. ChunkOK(c)
    BY <1>1, <2>1 DEF FileInv, Chained
  <2>3. file["weight"][i] = Column(c, "weight", it)
    BY <1>5 DEF Holds, Names
  <2> HIDE DEF c, it
  <2>4. file["weight"][i][k] = x
    BY <2>3, WeightColumn
  <2>5. c.nt \in Nat /\ c.pattern \in Patterns /\ \A m \in 0 .. Width * c.nt - 1 : ~(WeightOf(c.pattern, m) < 0)
    <3>1. c.nt \in Lengths /\ c.nt > 0 /\ c.pattern \in Patterns
          /\ \A m \in 0 .. Width * c.nt - 1 : ~(WeightOf(c.pattern, m) < 0)
      BY <2>2 DEF ChunkOK
    <3>2. c.nt \in Int
      BY <3>1, Constants
    <3> QED
      BY <3>1, <3>2
  <2>6. k * c.nt + it \in 0 .. Width * c.nt - 1
    <3> DEFINE w == Width
               nt == c.nt
    <3>1. w \in Nat /\ k \in 0 .. w - 1 /\ nt \in Nat /\ it \in Nat /\ it < nt
      BY <1>3, <2>1, <2>5 DEF c
    <3> HIDE DEF w, nt
    <3>2. k * nt \in Nat /\ w * nt \in Nat /\ k * nt + nt <= w * nt
      BY <3>1, RowBounds
    <3> DEFINE y == k * nt
               z == w * nt
    <3>3. y \in Nat /\ z \in Nat /\ y + nt <= z
      BY <3>2
    <3> HIDE DEF y, z
    <3>4. y + it \in 0 .. z - 1
      BY <3>1, <3>3
    <3> QED
      BY <3>4 DEF w, nt, y, z
  <2>7. k * c.nt + it \in Nat
    BY <2>6
  <2>8. x \in Int
    BY <2>5, <2>7 DEF Hdf5Values
  <2>9. ~(x < 0)
    BY <2>5, <2>6
  <2> HIDE DEF x
  <2> QED
    BY <2>4, <2>8, <2>9
<1> QED
  BY <1>2, <1>3, <1>6

LEMMA ChunkWeightsInt ==
  ASSUME NEW c, c.nt \in Nat, c.pattern \in Patterns, Hdf5Values, Width \in Nat
  PROVE  /\ Width * c.nt \in Nat
         /\ \A i \in 0 .. Width * c.nt - 1 : WeightOf(c.pattern, i) \in Int
<1>1. Width * c.nt \in Nat
  <2> DEFINE w == Width
             n == c.nt
  <2>1. w \in Nat /\ n \in Nat
    OBVIOUS
  <2> HIDE DEF w, n
  <2>2. w * n \in Nat
    BY <2>1
  <2> QED
    BY <2>2 DEF w, n
<1>2. \A i \in 0 .. Width * c.nt - 1 : i \in Nat
  BY <1>1
<1> QED
  BY <1>1, <1>2 DEF Hdf5Values

LEMMA MaxIs ==
  ASSUME NEW m \in Int, NEW n \in Nat, NEW a, \A i \in 0 .. n - 1 : a[i] \in Int
  PROVE  IsMax(Max({m} \cup {a[i] : i \in 0 .. n - 1}), {m} \cup {a[i] : i \in 0 .. n - 1})
<1> DEFINE S == {m} \cup {a[i] : i \in 0 .. n - 1}
           b == [i \in 1 .. n + 1 |-> IF i = n + 1 THEN -m ELSE -a[i - 1]]
<1>1. \A i \in 1 .. n + 1 : b[i] \in Int /\ (-b[i]) \in S
  <2> TAKE i \in 1 .. n + 1
  <2>1. CASE i = n + 1
    <3>1. b[i] = -m
      BY <2>1
    <3>2. -b[i] = m
      BY <3>1
    <3> HIDE DEF b
    <3> QED
      BY <3>1, <3>2
  <2>2. CASE i # n + 1
    <3>1. i - 1 \in 0 .. n - 1
      BY <2>2
    <3>2. b[i] = -a[i - 1] /\ a[i - 1] \in Int
      BY <2>2, <3>1
    <3> HIDE DEF b
    <3>3. -b[i] = a[i - 1]
      BY <3>2
    <3> QED
      BY <3>1, <3>2, <3>3
  <2> QED
    BY <2>1, <2>2
<1>2. \A x \in S : x \in Int /\ \E i \in 1 .. n + 1 : b[i] = -x
  <2> TAKE x \in S
  <2>1. CASE x = m
    <3>1. n + 1 \in 1 .. n + 1
      OBVIOUS
    <3>2. b[n + 1] = -m
      BY <3>1
    <3> HIDE DEF b
    <3> QED
      BY <2>1, <3>1, <3>2
  <2>2. CASE x \in {a[i] : i \in 0 .. n - 1}
    <3>1. PICK i \in 0 .. n - 1 : x = a[i]
      BY <2>2
    <3>2. i + 1 \in 1 .. n + 1 /\ i + 1 # n + 1 /\ (i + 1) - 1 = i
      OBVIOUS
    <3>3. b[i + 1] = -a[(i + 1) - 1]
      BY <3>2
    <3> HIDE DEF b
    <3> QED
      BY <3>1, <3>2, <3>3
  <2> QED
    BY <2>1, <2>2
<1>3. PICK i \in 1 .. n + 1 : \A j \in 1 .. n + 1 : b[i] <= b[j]
  <2>1. n + 1 \in Nat \ {0} /\ \A j \in 1 .. n + 1 : b[j] \in Int
    BY <1>1
  <2> HIDE DEF b
  <2> QED
    BY <2>1, MinExists
<1> HIDE DEF b
<1>4. (-b[i]) \in S /\ \A y \in S : -b[i] >= y
  <2> SUFFICES ASSUME NEW y \in S PROVE -b[i] >= y
    BY <1>1
  <2>1. PICK j \in 1 .. n + 1 : b[j] = -y
    BY <1>2
  <2>2. b[i] <= b[j] /\ b[i] \in Int /\ b[j] \in Int /\ y \in Int
    BY <1>1, <1>2, <1>3
  <2> QED
    BY <2>1, <2>2
<1> HIDE DEF S
<1>5. Max(S) = CHOOSE x \in S : \A y \in S : x >= y
  BY Zenon DEF Max
<1>6. Max(S) \in S /\ \A y \in S : Max(S) >= y
  <2>1. \E x \in S : \A y \in S : x >= y
    BY <1>4
  <2> QED
    BY <1>5, <2>1
<1>7. IsMax(Max(S), S)
  BY <1>2, <1>6 DEF IsMax
<1> QED
  BY <1>7 DEF S

(* Steps that leave the columns of weights, as far as they are written. *)
LEMMA SumsKept ==
  ASSUME args' = args, curr_shape'["weight"] = curr_shape["weight"], curr_shape["weight"] \in Nat,
         \A i \in 1 .. curr_shape["weight"] : file'["weight"][i] = file["weight"][i]
  PROVE  /\ FileSum' = FileSum /\ FileWeights' = FileWeights
         /\ \A c : ChunkSum(c)' = ChunkSum(c) /\ ChunkWeights(c)' = ChunkWeights(c)
<1> DEFINE W == curr_shape["weight"]
<1>1. Width' = Width
  BY DEF Width
<1>2. \A c : ChunkSum(c)' = ChunkSum(c) /\ ChunkWeights(c)' = ChunkWeights(c)
  BY <1>1, Zenon DEF ChunkSum, ChunkWeights
<1>3. FileWeights' = FileWeights
  <2>1. FileWeights' = {file'["weight"][i][k] : i \in 1 .. W, k \in 0 .. Width - 1}
    BY <1>1 DEF FileWeights
  <2>2. FileWeights = {file["weight"][i][k] : i \in 1 .. W, k \in 0 .. Width - 1}
    BY DEF FileWeights
  <2> HIDE DEF W
  <2>3. \A i \in 1 .. W : file'["weight"][i] = file["weight"][i]
    BY DEF W
  <2> QED
    BY <2>1, <2>2, <2>3
<1>4. FileSum' = FileSum
  <2> DEFINE g(k) == [a \in 0 .. W - 1 |-> file["weight"][a + 1][k]]
             h(k) == [a \in 0 .. W - 1 |-> file'["weight"][a + 1][k]]
  <2>1. FileSum = SumOf(Width, [k \in 0 .. Width - 1 |-> SumOf(W, g(k))])
    BY Zenon DEF FileSum
  <2>2. FileSum' = SumOf(Width, [k \in 0 .. Width - 1 |-> SumOf(W, h(k))])
    BY <1>1, Zenon DEF FileSum
  <2>3. \A k : g(k) = h(k)
    <3> TAKE k
    <3>1. \A a \in 0 .. W - 1 : file["weight"][a + 1] = file'["weight"][a + 1]
      <4>1. \A a \in 0 .. W - 1 : a + 1 \in 1 .. W
        OBVIOUS
      <4> QED
        BY <4>1
    <3> HIDE DEF W
    <3> QED
      BY <3>1
  <2> HIDE DEF g, h
  <2> QED
    BY <2>1, <2>2, <2>3
<1> QED
  BY <1>2, <1>3, <1>4

(* The columns of a dataset, summed channel by channel. *)
ColumnOf(m, k, n) == [a \in 0 .. n - 1 |-> m[a + 1][k]]
ColumnSums(m, w, n) == [k \in 0 .. w - 1 |-> SumOf(n, ColumnOf(m, k, n))]

(* Columns m2 are the W columns m and n more, whose channels are the rows of g. *)
Continues(m2, m, W, g, n, w) ==
  /\ \A k \in 0 .. w - 1 : \A i \in 1 .. W : m[i][k] \in Int /\ m2[i][k] = m[i][k]
  /\ \A k \in 0 .. w - 1 : \A t \in 0 .. n - 1 :
       g[k * n + t] \in Int /\ m2[W + t + 1][k] = g[k * n + t]
  /\ \A i \in 0 .. w * n - 1 : g[i] \in Int

LEMMA SumsExtend ==
  ASSUME NEW w \in Nat, NEW W \in Nat, NEW n \in Nat, NEW m, NEW m2, NEW g,
         Continues(m2, m, W, g, n, w)
  PROVE  SumOf(w, ColumnSums(m2, w, W + n)) = SumOf(w, ColumnSums(m, w, W)) + SumOf(w * n, g)
<1> DEFINE A == ColumnSums(m, w, W)
           B == RowSums(g, w, n)
           C == ColumnSums(m2, w, W + n)
<1>0. /\ \A k \in 0 .. w - 1 : \A i \in 1 .. W : m[i][k] \in Int /\ m2[i][k] = m[i][k]
      /\ \A k \in 0 .. w - 1 : \A t \in 0 .. n - 1 :
           g[k * n + t] \in Int /\ m2[W + t + 1][k] = g[k * n + t]
      /\ \A i \in 0 .. w * n - 1 : g[i] \in Int
  BY DEF Continues
<1>1. ASSUME NEW k \in 0 .. w - 1
      PROVE  A[k] \in Int /\ B[k] \in Int /\ C[k] = A[k] + B[k]
  <2> DEFINE old == ColumnOf(m, k, W)
             new == ColumnOf(m2, k, W + n)
             row == Row(g, k, n)
             rest == [t \in 0 .. n - 1 |-> new[W + t]]
  <2>1. \A a \in 0 .. W - 1 : old[a] = m[a + 1][k] /\ old[a] \in Int /\ new[a] = old[a]
    <3> TAKE a \in 0 .. W - 1
    <3>1. a + 1 \in 1 .. W /\ a \in 0 .. (W + n) - 1
      OBVIOUS
    <3>2. old[a] = m[a + 1][k] /\ new[a] = m2[a + 1][k]
      BY <3>1 DEF ColumnOf
    <3> HIDE DEF old, new
    <3> QED
      BY <1>0, <3>1, <3>2
  <2>2. \A t \in 0 .. n - 1 : row[t] \in Int /\ rest[t] = row[t] /\ new[W + t] = row[t]
    <3> TAKE t \in 0 .. n - 1
    <3>1. W + t \in 0 .. (W + n) - 1
      OBVIOUS
    <3>2. new[W + t] = m2[(W + t) + 1][k]
      BY <3>1 DEF ColumnOf
    <3>3. row[t] = g[k * n + t]
      BY DEF Row
    <3>4. rest[t] = new[W + t]
      OBVIOUS
    <3>5. m2[(W + t) + 1][k] = g[k * n + t] /\ g[k * n + t] \in Int
      BY <1>0
    <3> HIDE DEF new, row, rest
    <3> QED
      BY <3>2, <3>3, <3>4, <3>5
  <2>3. A[k] = SumOf(W, old) /\ B[k] = SumOf(n, row) /\ C[k] = SumOf(W + n, new)
    BY DEF ColumnSums, RowSums
  <2>4. SumOf(W, old) \in Int /\ SumOf(n, row) \in Int
    <3> HIDE DEF old, row, new, rest
    <3>1. SumOf(W, old) \in Int
      BY <2>1, SumIsInt
    <3>2. SumOf(n, row) \in Int
      BY <2>2, SumIsInt
    <3> QED
      BY <3>1, <3>2
  <2>5. \A i \in 0 .. W + n - 1 : new[i] \in Int
    <3> HIDE DEF old, row, new, rest
    <3> TAKE i \in 0 .. W + n - 1
    <3>1. CASE i < W
      <4>1. i \in 0 .. W - 1
        BY <3>1
      <4> QED
        BY <2>1, <4>1
    <3>2. CASE ~(i < W)
      <4>1. i - W \in 0 .. n - 1 /\ W + (i - W) = i
        BY <3>2
      <4>2. new[W + (i - W)] = row[i - W] /\ row[i - W] \in Int
        BY <2>2, <4>1
      <4> QED
        BY <4>1, <4>2
    <3> QED
      BY <3>1, <3>2
  <2>6. SumOf(W + n, new) = SumOf(W, new) + SumOf(n, rest)
    <3> HIDE DEF new
    <3> QED
      BY <2>5, SumSplits
  <2>7. SumOf(W, new) = SumOf(W, old)
    <3> HIDE DEF old, row, new, rest
    <3> QED
      BY <2>1, SumsEqual
  <2>8. SumOf(n, rest) = SumOf(n, row)
    <3> HIDE DEF old, row, new, rest
    <3> QED
      BY <2>2, SumsEqual
  <2> HIDE DEF A, B, C, old, new, row, rest
  <2> QED
    BY <2>3, <2>4, <2>6, <2>7, <2>8
<1> HIDE DEF A, B, C
<1>2. SumOf(w, C) = SumOf(w, A) + SumOf(w, B)
  BY <1>1, SumsAdd
<1>3. SumOf(w * n, g) = SumOf(w, B)
  BY <1>0, SumOfRows DEF B
<1> QED
  BY <1>2, <1>3 DEF A, C

LEMMA FileSumIs == FileSum = SumOf(Width, ColumnSums(file["weight"], Width, curr_shape["weight"]))
BY Zenon DEF FileSum, ColumnSums, ColumnOf

(* Any number below w * n is the number of a sample in a channel. *)
LEMMA NumberOf ==
  ASSUME NEW w \in Nat, NEW n \in Nat \ {0}, NEW i \in 0 .. w * n - 1
  PROVE  /\ i \div n \in 0 .. w - 1 /\ i % n \in 0 .. n - 1
         /\ i = (i \div n) * n + (i % n)
<1> DEFINE q == i \div n
           r == i % n
           z == w * n
<1>1. z \in Nat /\ i \in Nat
  OBVIOUS
<1>2. i = n * q + r /\ q \in Nat /\ r \in 0 .. n - 1
  BY <1>1, DivMod
<1> HIDE DEF q, r
<1>3. n * q = q * n /\ q * n \in Nat
  BY <1>2
<1>4. q < w
  <2>1. CASE q >= w
    <3>1. q - w \in Nat
      BY <1>2, <2>1
    <3>2. (q - w) * n \in Nat /\ q * n = w * n + (q - w) * n
      BY <1>2, <3>1
    <3> DEFINE x == q * n
               y == (q - w) * n
    <3>3. x = z + y /\ y \in Nat /\ x \in Nat /\ i = x + r
      BY <1>2, <1>3, <3>2
    <3> HIDE DEF x, y, z
    <3>4. i \in 0 .. z - 1
      BY DEF z
    <3> QED
      BY <1>1, <1>2, <3>3, <3>4
  <2> QED
    BY <1>2, <2>1
<1>5. q \in 0 .. w - 1
  BY <1>2, <1>4
<1> QED
  BY <1>2, <1>3, <1>5 DEF q, r

(* The last write of a chunk brings its weights into the file. *)
LEMMA WriteBooks ==
  ASSUME IInv, Write, step[2] = 3, Open, Clean, Hdf5Values
  PROVE  /\ FileSum' = FileSum + ChunkSum(chunk)
         /\ FileWeights' = FileWeights \cup ChunkWeights(chunk)
<1> DEFINE W == curr_shape["weight"]
           nt == chunk.nt
           m == file["weight"]
           m2 == file'["weight"]
           g == [i \in 0 .. Width * nt - 1 |-> WeightOf(chunk.pattern, i)]
<1>1. /\ nt \in Nat /\ nt > 0 /\ Comes(appended, chunk) /\ args' = args /\ Written(3)
  BY WriteWrites
<1>2. /\ W \in Nat /\ Width \in Nat \ {0}
      /\ \A i \in 1 .. W, k \in 0 .. Width - 1 : m[i][k] \in Int
  BY FileWeightsInt
<1>3. Width' = Width /\ \A c, e, it : Column(c, e, it)' = Column(c, e, it)
  BY <1>1, ColumnKept
<1>4. curr_shape'["weight"] = W + nt
  BY <1>1, DatasetNames DEF Written
<1>5. \A i \in 1 .. W : m2[i] = m[i]
  BY <1>1, DatasetNames DEF Written
<1>6. \A it \in 0 .. nt - 1 : m2[W + it + 1] = Column(chunk, "weight", it)
  BY <1>1, DatasetNames DEF Written
<1>7. chunk.pattern \in Patterns
  BY <1>1 DEF Comes, ChunkOK
<1>8. Width * nt \in Nat /\ \A i \in 0 .. Width * nt - 1 : WeightOf(chunk.pattern, i) \in Int
  BY <1>1, <1>2, <1>7, ChunkWeightsInt
<1>9. ASSUME NEW k \in 0 .. Width - 1, NEW t \in 0 .. nt - 1
      PROVE  /\ k * nt + t \in 0 .. Width * nt - 1
             /\ m2[W + t + 1][k] = WeightOf(chunk.pattern, k * nt + t)
             /\ WeightOf(chunk.pattern, k * nt + t) \in Int
             /\ g[k * nt + t] = WeightOf(chunk.pattern, k * nt + t)
  <2>1. k * nt + t \in 0 .. Width * nt - 1
    <3> DEFINE w == Width
               n == nt
               y == k * n
               z == w * n
    <3>1. w \in Nat /\ n \in Nat /\ k \in 0 .. w - 1 /\ t \in 0 .. n - 1
      BY <1>1, <1>2
    <3> HIDE DEF w, n
    <3>2. y \in Nat /\ z \in Nat /\ y + n <= z
      BY <3>1, RowBounds
    <3> HIDE DEF y, z
    <3>3. y + t \in 0 .. z - 1
      BY <3>1, <3>2
    <3> QED
      BY <3>3 DEF y, z, w, n
  <2>2. m2[W + t + 1] = Column(chunk, "weight", t)
    BY <1>6
  <2>3. Column(chunk, "weight", t)[k] = WeightOf(chunk.pattern, k * nt + t)
    BY WeightColumn
  <2>4. g[k * nt + t] = WeightOf(chunk.pattern, k * nt + t)
    BY <2>1
  <2>5. WeightOf(chunk.pattern, k * nt + t) \in Int
    BY <1>8, <2>1
  <2> HIDE DEF g, m2
  <2> QED
    BY <2>1, <2>2, <2>3, <2>4, <2>5
<1>10. FileSum' = FileSum + ChunkSum(chunk)
  <2>1. FileSum = SumOf(Width, ColumnSums(m, Width, W))
    BY FileSumIs
  <2>2. FileSum' = SumOf(Width, ColumnSums(m2, Width, W + nt))
    <3>1. FileSum' = SumOf(Width, ColumnSums(m2, Width, curr_shape'["weight"]))
      BY <1>3, Zenon DEF FileSum, ColumnSums, ColumnOf
    <3> QED
      BY <1>4, <3>1
  <2>3. ChunkSum(chunk) = SumOf(Width * nt, g)
    BY Zenon DEF ChunkSum
  <2>4. \A i \in 0 .. Width * nt - 1 : g[i] \in Int
    BY <1>8
  <2> HIDE DEF g, m, m2, W, nt
  <2>5. \A k \in 0 .. Width - 1 : \A i \in 1 .. W : m[i][k] \in Int /\ m2[i][k] = m[i][k]
    BY <1>2, <1>5
  <2>6. \A k \in 0 .. Width - 1 : \A t \in 0 .. nt - 1 :
          g[k * nt + t] \in Int /\ m2[W + t + 1][k] = g[k * nt + t]
    BY <1>9
  <2>7. Width \in Nat /\ W \in Nat /\ nt \in Nat
    BY <1>1, <1>2
  <2>8. SumOf(Width, ColumnSums(m2, Width, W + nt)) =
          SumOf(Width, ColumnSums(m, Width, W)) + SumOf(Width * nt, g)
    <3>1. Continues(m2, m, W, g, nt, Width)
      BY <2>4, <2>5, <2>6 DEF Continues
    <3> QED
      BY <2>7, <3>1, SumsExtend
  <2> QED
    BY <2>1, <2>2, <2>3, <2>8
<1>11. FileWeights' = FileWeights \cup ChunkWeights(chunk)
  <2>1. FileWeights' = {m2[i][k] : i \in 1 .. W + nt, k \in 0 .. Width - 1}
    BY <1>3, <1>4 DEF FileWeights
  <2>2. FileWeights = {m[i][k] : i \in 1 .. W, k \in 0 .. Width - 1}
    BY DEF FileWeights
  <2>3. ChunkWeights(chunk) = {WeightOf(chunk.pattern, i) : i \in 0 .. Width * nt - 1}
    BY DEF ChunkWeights
  <2> HIDE DEF m, m2, g, W, nt
  <2>4. \A x \in FileWeights' : x \in FileWeights \cup ChunkWeights(chunk)
    <3> TAKE x \in FileWeights'
    <3>1. PICK i \in 1 .. W + nt, k \in 0 .. Width - 1 : x = m2[i][k]
      BY <2>1
    <3>2. CASE i <= W
      <4>1. i \in 1 .. W
        BY <1>1, <1>2, <3>2 DEF W, nt
      <4>2. x = m[i][k]
        BY <1>5, <3>1, <4>1
      <4> QED
        BY <2>2, <4>1, <4>2
    <3>3. CASE ~(i <= W)
      <4> DEFINE t == i - W - 1
      <4>1. t \in 0 .. nt - 1 /\ W + t + 1 = i
        BY <1>1, <1>2, <3>3 DEF W, nt
      <4> HIDE DEF t
      <4>2. x = WeightOf(chunk.pattern, k * nt + t) /\ k * nt + t \in 0 .. Width * nt - 1
        BY <1>9, <3>1, <4>1
      <4> QED
        BY <2>3, <4>2
    <3> QED
      BY <3>2, <3>3
  <2>5. \A x \in FileWeights : x \in FileWeights'
    <3> TAKE x \in FileWeights
    <3>1. PICK i \in 1 .. W, k \in 0 .. Width - 1 : x = m[i][k]
      BY <2>2
    <3>2. i \in 1 .. W + nt
      BY <1>1, <1>2 DEF W, nt
    <3>3. x = m2[i][k]
      BY <1>5, <3>1
    <3> QED
      BY <2>1, <3>2, <3>3
  <2>6. \A x \in ChunkWeights(chunk) : x \in FileWeights'
    <3> TAKE x \in ChunkWeights(chunk)
    <3>1. PICK i \in 0 .. Width * nt - 1 : x = WeightOf(chunk.pattern, i)
      BY <2>3
    <3> DEFINE k == i \div nt
               t == i % nt
    <3>2. Width \in Nat /\ nt \in Nat \ {0}
      BY <1>1, <1>2 DEF nt
    <3>3. k \in 0 .. Width - 1 /\ t \in 0 .. nt - 1 /\ i = k * nt + t
      BY <3>2, NumberOf
    <3> HIDE DEF k, t
    <3>4. m2[W + t + 1][k] = WeightOf(chunk.pattern, i)
      BY <1>9, <3>3
    <3>5. W + t + 1 \in 1 .. W + nt
      BY <1>2, <3>2, <3>3 DEF W
    <3> QED
      BY <2>1, <3>1, <3>3, <3>4, <3>5
  <2> QED
    BY <2>4, <2>5, <2>6
<1> QED
  BY <1>10, <1>11

LEMMA MaxJoins ==
  ASSUME NEW S, NEW T, \A x \in S \cup T : x \in Int, NEW m, NEW m2, IsMax(m, S), IsMax(m2, {m} \cup T)
  PROVE  IsMax(m2, S \cup T)
<1>1. m \in S /\ \A x \in S : x <= m
  BY DEF IsMax
<1>2. m2 \in {m} \cup T /\ \A x \in {m} \cup T : x <= m2
  BY DEF IsMax
<1>3. m2 \in S \cup T /\ m2 \in Int /\ m \in Int
  BY <1>1, <1>2
<1>4. \A x \in S \cup T : x <= m2
  <2> TAKE x \in S \cup T
  <2>1. CASE x \in T
    BY <1>2, <2>1
  <2>2. CASE x \in S
    <3>1. x <= m /\ m <= m2 /\ x \in Int
      BY <1>1, <1>2, <2>2
    <3> QED
      BY <1>3, <3>1
  <2> QED
    BY <2>1, <2>2
<1> QED
  BY <1>3, <1>4 DEF IsMax

LEMMA SummedAppend ==
  ASSUME IInv, CountsInv, CleanInv, SummedInv, Hdf5Values,
         NEW nt \in Lengths, NEW ipos, NEW t0, NEW pattern \in Patterns,
         AppendChunk(nt, ipos, t0, pattern), Open', failures' = 0, refused' = 0
  PROVE  Summed'
<1> DEFINE c == [nt |-> nt, ipos |-> ipos, t0 |-> t0, pattern |-> pattern]
<1>1. TypeInv /\ c.pattern \in Patterns /\ c.nt = nt
  BY DEF IInv
<1> HIDE DEF c
<1>2. /\ step = <<"ready">> /\ nt > 0
      /\ UNCHANGED <<args, file, curr_shape, failures>>
      /\ \/ UNCHANGED <<step, chunk, writer, refused>>
         \/ refused' = refused + 1 /\ writer' = WithWeights(writer, c) /\ UNCHANGED <<step, chunk>>
         \/ /\ writer' = WithWeights(writer, c) /\ chunk' = c /\ step' = <<"extend", 1>>
            /\ UNCHANGED refused
      /\ writer' = WithWeights(writer, c) =>
           /\ writer'.wsum = writer.wsum + ChunkSum(c)
           /\ writer'.wmax = Max({writer.wmax} \cup ChunkWeights(c))
  BY <1>1, AppendCases DEF c
<1>3. step \notin Calls /\ <<"extend", 1>> \in Calls
  BY <1>2 DEF Calls
<1>4. Open /\ failures = 0
  BY <1>2 DEF Open
<1>5. refused = 0 /\ refused' # refused + 1
  BY <1>2 DEF CountsInv
<1>6. Clean /\ Summed
  BY <1>4, <1>5 DEF CleanInv, SummedInv
<1>7. /\ curr_shape["weight"] \in Nat /\ Width \in Nat
      /\ \A i \in 1 .. curr_shape["weight"], k \in 0 .. Width - 1 : file["weight"][i][k] \in Int
  BY <1>4, <1>6, FileWeightsInt
<1>8. /\ FileSum' = FileSum /\ FileWeights' = FileWeights
      /\ \A b : ChunkSum(b)' = ChunkSum(b) /\ ChunkWeights(b)' = ChunkWeights(b)
  BY <1>2, <1>7, SumsKept
<1>9. writer.wsum = FileSum /\ IsMax(writer.wmax, {0} \cup FileWeights)
  BY <1>3, <1>6 DEF Summed
<1>10. CASE UNCHANGED <<step, chunk, writer, refused>>
  <2>1. ~(step' \in Calls)
    BY <1>3, <1>10
  <2>2. writer'.wsum = FileSum' /\ IsMax(writer'.wmax, {0} \cup FileWeights')
    BY <1>8, <1>9, <1>10
  <2> QED
    BY <2>1, <2>2 DEF Summed
<1>11. CASE /\ writer' = WithWeights(writer, c) /\ chunk' = c /\ step' = <<"extend", 1>>
  <2>1. step' \in Calls
    BY <1>3, <1>11
  <2>2. ChunkSum(chunk)' = ChunkSum(c) /\ ChunkWeights(chunk)' = ChunkWeights(c)
    BY <1>8, <1>11
  <2>3. writer'.wsum = FileSum' + ChunkSum(chunk)'
    BY <1>2, <1>8, <1>9, <1>11, <2>2
  <2>4. IsMax(writer'.wmax, {0} \cup FileWeights' \cup ChunkWeights(chunk)')
    <3> DEFINE N == Width * c.nt
               a == [i \in 0 .. N - 1 |-> WeightOf(c.pattern, i)]
               S == {0} \cup FileWeights
               T == ChunkWeights(c)
               m == writer.wmax
    <3>1. nt \in Nat
      BY <1>2, Constants
    <3>2. N \in Nat /\ \A i \in 0 .. N - 1 : WeightOf(c.pattern, i) \in Int
      BY <1>1, <1>7, <3>1, ChunkWeightsInt
    <3>3. T = {a[i] : i \in 0 .. N - 1} /\ \A i \in 0 .. N - 1 : a[i] \in Int
      BY <3>2 DEF ChunkWeights
    <3>4. \A x \in S : x \in Int
      BY <1>7 DEF FileWeights
    <3>5. \A x \in T : x \in Int
      BY <3>2 DEF ChunkWeights
    <3>6. IsMax(m, S)
      BY <1>9
    <3>7. m \in Int
      BY <3>4, <3>6 DEF IsMax
    <3> HIDE DEF N, a, S, T, m
    <3>8. IsMax(Max({m} \cup T), {m} \cup T)
      <4>1. IsMax(Max({m} \cup {a[i] : i \in 0 .. N - 1}), {m} \cup {a[i] : i \in 0 .. N - 1})
        BY <3>2, <3>3, <3>7, MaxIs
      <4> QED
        BY <3>3, <4>1
    <3>9. IsMax(Max({m} \cup T), S \cup T)
      BY <3>4, <3>5, <3>6, <3>8, MaxJoins
    <3>10. writer'.wmax = Max({m} \cup T)
      BY <1>2, <1>11 DEF m, T
    <3> QED
      BY <1>8, <2>2, <3>9, <3>10 DEF S, T
  <2> QED
    BY <2>1, <2>3, <2>4 DEF Summed
<1> QED
  BY <1>2, <1>5, <1>10, <1>11

(* Steps that leave the books alone. *)
LEMMA SummedKept ==
  ASSUME args' = args, curr_shape'["weight"] = curr_shape["weight"], curr_shape["weight"] \in Nat,
         \A i \in 1 .. curr_shape["weight"] : file'["weight"][i] = file["weight"][i],
         writer' = writer, step' \in Calls <=> step \in Calls, step \in Calls => chunk' = chunk, Summed
  PROVE  Summed'
<1>1. /\ FileSum' = FileSum /\ FileWeights' = FileWeights
      /\ \A c : ChunkSum(c)' = ChunkSum(c) /\ ChunkWeights(c)' = ChunkWeights(c)
  BY SumsKept
<1>2. CASE step \in Calls
  <2>1. writer.wsum = FileSum + ChunkSum(chunk)
        /\ IsMax(writer.wmax, {0} \cup FileWeights \cup ChunkWeights(chunk))
    BY <1>2 DEF Summed
  <2>2. ChunkSum(chunk)' = ChunkSum(chunk) /\ ChunkWeights(chunk)' = ChunkWeights(chunk)
    BY <1>1, <1>2
  <2>3. writer'.wsum = FileSum' + ChunkSum(chunk)'
        /\ IsMax(writer'.wmax, {0} \cup FileWeights' \cup ChunkWeights(chunk)')
    BY <1>1, <2>1, <2>2
  <2> QED
    BY <1>2, <2>3 DEF Summed
<1>3. CASE step \notin Calls
  <2>1. writer'.wsum = FileSum' /\ IsMax(writer'.wmax, {0} \cup FileWeights') /\ step' \notin Calls
    BY <1>1, <1>3 DEF Summed
  <2> QED
    BY <2>1 DEF Summed
<1> QED
  BY <1>2, <1>3

LEMMA SummedNext ==
  ASSUME Hdf5Values
  PROVE  IInv /\ CountsInv /\ CleanInv /\ SummedInv /\ [Next]_vars => SummedInv'
<1> SUFFICES ASSUME IInv, CountsInv, CleanInv, SummedInv, [Next]_vars,
                    Open', failures' = 0, refused' = 0
             PROVE  Summed'
  BY DEF SummedInv
<1> DEFINE W == curr_shape["weight"]
<1>1. TypeInv
  BY DEF IInv
<1>2. ASSUME UNCHANGED <<args, curr_shape, writer, failures, refused>>, Open,
             \A i \in 1 .. W : file'["weight"][i] = file["weight"][i],
             step' \in Calls <=> step \in Calls, step \in Calls => chunk' = chunk
      PROVE  Summed'
  <2>1. W \in Nat
    BY <1>2 DEF IInv, OpenInv, FileInv, ShapeInv, Names
  <2>2. Summed
    BY <1>2 DEF SummedInv
  <2> QED
    BY <1>2, <2>1, <2>2, SummedKept
<1>3. ASSUME NEW nt \in Lengths, NEW gap \in Gaps, NEW pattern \in Patterns,
             \/ AppendUntimed(nt, gap, pattern)
             \/ \E drift \in Drifts : AppendTimed(nt, gap, drift, pattern)
      PROVE  Summed'
  <2>1. PICK ipos, t0 : AppendChunk(nt, ipos, t0, pattern)
    BY <1>3, AppendsCalled
  <2> QED
    BY <2>1, SummedAppend
<1>4. CASE Construct
  <2>1. /\ step = <<"new">> /\ writer' = writer
        /\ \E made : file' = [d \in made |-> <<>>] /\ curr_shape' = [d \in made |-> 0]
        /\ step' \in {<<"ready">>, <<"closed">>}
    BY <1>4 DEF Construct
  <2>2. PICK made : file' = [d \in made |-> <<>>] /\ curr_shape' = [d \in made |-> 0]
    BY <2>1
  <2>3. curr_shape'["weight"] = 0
    BY <2>2 DEF Open, Names
  <2>4. step' \notin Calls
    BY <2>1 DEF Calls
  <2>5. writer'.wsum = 0 /\ writer'.wmax = 0
    BY <2>1 DEF CountsInv
  <2>6. FileWeights' = {}
    BY <2>3 DEF FileWeights
  <2>7. FileSum' = 0
    <3> DEFINE f(k) == [a \in 0 .. 0 - 1 |-> file'["weight"][a + 1][k]]
               s == [k \in 0 .. Width' - 1 |-> SumOf(0, f(k))]
    <3>1. FileSum' = SumOf(Width', s)
      <4>1. FileSum' = SumOf(Width', [k \in 0 .. Width' - 1 |->
              SumOf(curr_shape'["weight"],
                    [a \in 0 .. curr_shape'["weight"] - 1 |-> file'["weight"][a + 1][k]])])
        BY Zenon DEF FileSum
      <4> QED
        BY <2>3, <4>1
    <3>2. \A k : SumOf(0, f(k)) = 0
      <4> HIDE DEF f
      <4> QED
        BY SumRecursion
    <3>3. \A k \in 0 .. Width' - 1 : s[k] = 0
      BY <3>2
    <3>4. Width' \in Nat
      <4>1. args' = args /\ ValidArguments
        <5>1. args' = args
          BY <1>4 DEF Construct
        <5>2. ~ValidArguments => file' = [d \in {} |-> <<>>]
          BY <1>4 DEF Construct
        <5>3. file' # [d \in {} |-> <<>>]
          <6>1. DOMAIN [d \in {} |-> <<>>] = {}
            OBVIOUS
          <6> QED
            BY <6>1 DEF Open, Names
        <5> QED
          BY <5>1, <5>2, <5>3
      <4>2. Width \in Nat
        BY <1>1, <4>1, WidthIs
      <4> QED
        BY <4>1, <4>2 DEF Width
    <3> HIDE DEF s
    <3>5. \E n : n = Width'
      OBVIOUS
    <3>6. PICK n : n = Width'
      BY <3>5
    <3>7. n \in Nat /\ \A k \in 0 .. n - 1 : k # n => s[k] = 0
      BY <3>3, <3>4, <3>6
    <3>8. SumOf(n, s) = IF n < n THEN s[n] ELSE 0
      <4>1. n \in 0 .. n /\ (n < n => s[n] \in Int)
        BY <3>7
      <4> QED
        BY <3>7, <4>1, SumOfOne
    <3>9. ~(n < n)
      BY <3>7
    <3> QED
      BY <3>1, <3>6, <3>8, <3>9
  <2> QED
    BY <2>4, <2>5, <2>6, <2>7 DEF Summed, IsMax
<1>5. CASE Extend
  <2> DEFINE d == Datasets[step[2]]
             n == LengthAfter(curr_shape[d])
  <2>1. /\ step[1] = "extend" /\ step' = <<"write", step[2]>>
        /\ UNCHANGED <<args, chunk, curr_shape, writer, failures, refused>>
        /\ file' = [file EXCEPT ![d] =
                      [i \in 1 .. n |-> IF i <= Len(file[d]) THEN file[d][i] ELSE FillValue(d)]]
    BY <1>5 DEF Extend, counters
  <2>2. step \in Calls /\ step[2] \in 1 .. 3 /\ step' \in Calls
    <3>1. step \in Calls /\ step[2] \in 1 .. 3
      BY <1>1, <2>1, StepKinds DEF TypeInv
    <3> QED
      BY <2>1, <3>1 DEF Calls
  <2>3. Open /\ FileInv
    BY <2>2 DEF IInv, OpenInv
  <2>4. \A i \in 1 .. W : file'["weight"][i] = file["weight"][i]
    <3>1. "weight" \in DOMAIN file
      BY <2>3 DEF Open, Names
    <3>2. CASE d # "weight"
      <4> HIDE DEF d, n
      <4>1. file'["weight"] = file["weight"]
        BY <2>1, <3>1, <3>2
      <4> QED
        BY <4>1
    <3>3. CASE d = "weight"
      <4>1. /\ W \in Nat /\ Len(file[d]) \in Nat /\ Len(file[d]) >= W
        BY <2>3, <3>3 DEF FileInv, ShapeInv, Names
      <4>2. chunk.nt \in Nat
        <5>1. ChunkOK(chunk)
          BY <2>2, <2>3 DEF FileInv, Comes
        <5>2. chunk.nt \in Lengths /\ chunk.nt > 0
          BY <5>1 DEF ChunkOK
        <5>3. chunk.nt \in Int
          BY <5>2, Constants
        <5> QED
          BY <5>2, <5>3
      <4>3. n = W + chunk.nt
        BY <3>3 DEF LengthAfter
      <4>4. file'["weight"] = [i \in 1 .. n |-> IF i <= Len(file[d]) THEN file[d][i] ELSE FillValue(d)]
        BY <2>1, <3>1, <3>3
      <4> HIDE DEF d, n, W
      <4>5. \A i \in 1 .. W : i \in 1 .. n /\ i <= Len(file[d])
        BY <4>1, <4>2, <4>3
      <4> QED
        BY <3>3, <4>4, <4>5 DEF W
    <3> QED
      BY <3>2, <3>3
  <2> QED
    BY <1>2, <2>1, <2>2, <2>3, <2>4
<1>6. CASE Write /\ step[2] < 3
  <2>1. /\ step \in Calls /\ step[2] \in 1 .. 3 /\ Open /\ Written(step[2])
    BY <1>6, WriteWrites
  <2>2. /\ step' = <<"extend", step[2] + 1>>
        /\ UNCHANGED <<args, chunk, writer, failures, refused>>
    BY <1>6 DEF Write, counters
  <2>3. step' \in Calls
    <3>1. step[2] + 1 \in 1 .. 3
      BY <1>6, <2>1
    <3> QED
      BY <2>2, <3>1 DEF Calls
  <2>4. Datasets[step[2]] # "weight"
    <3>1. step[2] = 1 \/ step[2] = 2
      BY <1>6, <2>1
    <3> QED
      BY <3>1, DatasetNames
  <2>5. curr_shape'["weight"] = W /\ file'["weight"] = file["weight"]
    BY <2>1, <2>4 DEF Written, Names
  <2>6. W \in Nat
    BY <2>1 DEF IInv, OpenInv, FileInv, ShapeInv, Names
  <2>7. Summed
    BY <2>1, <2>2 DEF SummedInv
  <2> QED
    BY <2>1, <2>2, <2>3, <2>5, <2>6, <2>7, SummedKept
<1>7. CASE Write /\ ~(step[2] < 3)
  <2>1. /\ step \in Calls /\ step[2] \in 1 .. 3 /\ Open /\ TypeInv
    BY <1>7, WriteWrites
  <2>2. step[2] = 3
    BY <1>7, <2>1
  <2>3. /\ step' = <<"ready">> /\ UNCHANGED <<failures, refused>>
        /\ writer' = [writer EXCEPT !.curr_nt = @ + chunk.nt, !.curr_ipos = chunk.ipos + chunk.nt,
                                    !.curr_time = chunk.t0 + chunk.nt * Dt]
    BY <1>7 DEF Write, counters
  <2>4. Clean /\ Summed
    BY <2>1, <2>3 DEF CleanInv, SummedInv
  <2>5. FileSum' = FileSum + ChunkSum(chunk) /\ FileWeights' = FileWeights \cup ChunkWeights(chunk)
    BY <1>7, <2>1, <2>2, <2>4, WriteBooks
  <2>6. writer'.wsum = writer.wsum /\ writer'.wmax = writer.wmax
    BY <2>1, <2>3 DEF TypeInv
  <2>7. step' \notin Calls
    BY <2>3 DEF Calls
  <2>8. {0} \cup FileWeights' = {0} \cup FileWeights \cup ChunkWeights(chunk)
    BY <2>5
  <2>9. writer.wsum = FileSum + ChunkSum(chunk)
        /\ IsMax(writer.wmax, {0} \cup FileWeights \cup ChunkWeights(chunk))
    BY <2>1, <2>4 DEF Summed
  <2>10. writer'.wsum = FileSum' /\ IsMax(writer'.wmax, {0} \cup FileWeights')
    BY <2>5, <2>6, <2>8, <2>9
  <2> QED
    BY <2>7, <2>10 DEF Summed
<1>8. CASE CallFails
  <2>1. failures' = failures + 1 /\ failures \in Nat
    BY <1>8 DEF CallFails, CountsInv
  <2> QED
    BY <2>1
<1>9. CASE Close \/ Read
  <2>1. /\ UNCHANGED <<args, file, curr_shape, writer, failures, refused>>
        /\ step \in {<<"ready">>, <<"closed">>} /\ step' \in {<<"closed">>, <<"read">>}
    BY <1>9 DEF Close, Read, counters, fileVars
  <2>2. step \notin Calls /\ step' \notin Calls /\ Open
    BY <2>1 DEF Calls, Open
  <2> QED
    BY <1>2, <2>1, <2>2
<1>10. CASE Done \/ UNCHANGED vars
  <2>1. UNCHANGED <<args, file, curr_shape, writer, failures, refused, step, chunk>>
    BY <1>10 DEF Done, vars, counters, fileVars
  <2>2. Open
    BY <2>1 DEF Open
  <2> QED
    BY <1>2, <2>1, <2>2
<1> QED
  BY <1>3, <1>4, <1>5, <1>6, <1>7, <1>8, <1>9, <1>10 DEF Next

LEMMA BooksKept == ASSUME Hdf5Values PROVE Spec => [](IInv /\ BooksInv)
<1>1. Init => IInv /\ BooksInv
  <2> SUFFICES ASSUME Init PROVE BooksInv
    BY InitIInv
  <2>1. /\ step = <<"new">> /\ appended = <<>> /\ DOMAIN file = {} /\ failures = 0 /\ refused = 0
        /\ writer.curr_nt = 0 /\ writer.wsum = 0 /\ writer.wmax = 0
    <3>1. DOMAIN [d \in {} |-> <<>>] = {}
      OBVIOUS
    <3> QED
      BY <3>1 DEF Init
  <2>2. ~Open /\ step \notin Calls
    BY <2>1 DEF Open, Names, Calls
  <2>3. AppendedCount = 0
    <3> DEFINE f == [k \in 0 .. Len(appended) - 1 |-> appended[k + 1].nt]
    <3>1. AppendedCount = SumOf(Len(appended), f) /\ Len(appended) = 0
      BY <2>1 DEF AppendedCount
    <3> HIDE DEF f
    <3>2. SumOf(0, f) = 0
      BY SumRecursion
    <3> QED
      BY <3>1, <3>2
  <2> QED
    BY <2>1, <2>2, <2>3 DEF BooksInv, CountsInv, CleanInv, SummedInv
<1>2. IInv /\ BooksInv /\ [Next]_vars => (IInv /\ BooksInv)'
  BY NextIInv, CountsNext, CleanNext, SummedNext DEF BooksInv
<1> QED
  BY <1>1, <1>2, PTL DEF Spec


-----------------------------------------------------------------------------
(* An undamaged file.                                                       *)

(* The file lies as the chunks that were appended, and is as long. *)
Whole(p, n) ==
  /\ n \in Nat /\ n = AppendedCount /\ n = writer.curr_nt /\ n = curr_shape["weight"]
  /\ \A d \in Names : Len(file[d]) = n
  /\ Laid(appended, p, n)

LEMMA FileWhole ==
  ASSUME IInv, BooksInv, step = <<"read">>, Open, failures = 0
  PROVE  \E p : Whole(p, curr_shape["weight"])
<1> DEFINE W == curr_shape["weight"]
<1>1. TypeInv /\ FileInv
  BY DEF IInv, OpenInv
<1>2. Stage = 0 /\ ~(Stage > 1) /\ ~(Stage > 2) /\ step # <<"write", 3>> /\ \A j \in 1 .. 3 : step # <<"write", j>>
  BY DEF Stage, Calls
<1>3. Clean /\ AppendedCount = writer.curr_nt
  BY DEF BooksInv, CleanInv, CountsInv
<1>4. ShapeInv /\ WriterInv /\ Chained(appended)
  BY <1>1 DEF FileInv
<1>5. W \in Nat /\ curr_shape["time"] \in Nat /\ curr_shape["intensity"] \in Nat
  BY <1>4 DEF ShapeInv, Names
<1>6. curr_shape["time"] = W /\ curr_shape["intensity"] = W
  BY <1>2, <1>3, <1>5 DEF Clean
<1>7. \A d \in Names : Len(file[d]) = W
  <2>1. \A j \in 1 .. 3 : Len(file[Datasets[j]]) = curr_shape[Datasets[j]]
    BY <1>2, <1>3 DEF Clean
  <2> QED
    BY <1>6, <2>1, DatasetNames DEF Names
<1>8. ~Displaced
  <2>1. Displaced => W < curr_shape["time"]
    BY <1>2, <1>5 DEF Displaced
  <2> QED
    BY <1>5, <1>6, <2>1
<1>9. PICK p : Holds(p)
  BY <1>1, <1>8 DEF FileInv, Aligned, Masked
<1>10. Len(appended) \in Nat
  BY <1>1 DEF TypeInv
<1>11. /\ Places(appended, p, W)
       /\ \A i \in 1 .. W : file["time"][i] = Column(appended[p[i].k], "time", p[i].it)
  BY <1>9 DEF Holds, Names
<1>12. \A s \in Samples : Real(s) =>
         \E i \in 1 .. W : s.ipos = Position(appended, p, i) /\ s.time = file["time"][i]
  <2> SUFFICES ASSUME NEW s \in Samples, Real(s)
               PROVE  \E i \in 1 .. W : s.ipos = Position(appended, p, i) /\ s.time = file["time"][i]
    OBVIOUS
  <2>1. PICK k \in 1 .. Len(appended) : \E it \in 0 .. appended[k].nt - 1 : s = SampleOf(k, it)
    BY <1>1, <1>4, SamplesAre
  <2>2. PICK it \in 0 .. appended[k].nt - 1 : s = SampleOf(k, it)
    BY <2>1
  <2>3. PICK i \in 1 .. W : p[i].k = k /\ p[i].it = it
    BY <1>11 DEF Places
  <2>4. s.ipos = appended[k].ipos + it /\ s.time = appended[k].t0 + it * Dt
    BY <2>2 DEF SampleOf
  <2>5. file["time"][i] = appended[k].t0 + it * Dt
    BY <1>11, <2>3, TimeColumn
  <2> QED
    BY <2>3, <2>4, <2>5 DEF Position
<1>13. Laid(appended, p, W)
  BY <1>4, <1>10, <1>11, <1>12 DEF Laid
<1>14. W = writer.curr_nt
  BY <1>4 DEF WriterInv
<1> QED
  BY <1>3, <1>5, <1>7, <1>13, <1>14 DEF Whole

(* The step from one chunk to the next. *)
StepTo(k) == appended[k + 1].ipos - (appended[k].ipos + appended[k].nt - 1)
Leap(p, i) == Position(appended, p, i + 1) - Position(appended, p, i)

LEMMA StepsApartAre ==
  /\ \A k \in 1 .. Len(appended) - 1 : StepTo(k) \in StepsApart
  /\ \A k \in DOMAIN appended : appended[k].nt > 1 => 1 \in StepsApart
  /\ \A s \in StepsApart : \/ s = 1 /\ \E k \in DOMAIN appended : appended[k].nt > 1
                           \/ \E k \in 1 .. Len(appended) - 1 : s = StepTo(k)
BY DEF StepsApart, StepTo

(* Without drift, samples are as far apart in time as in position. *)
LEMMA ExactSteps ==
  ASSUME NEW p, NEW n, Whole(p, n), Undamaged, TypeInv, NEW i \in 1 .. n - 1
  PROVE  /\ Leap(p, i) \in StepsApart /\ Leap(p, i) \in Nat \ {0}
         /\ file["time"][i] \in Int /\ file["time"][i + 1] \in Int
         /\ file["time"][i + 1] - file["time"][i] = Dt * Leap(p, i)
<1> DEFINE j == p[i].k
           m == p[i + 1].k
           a == p[i].it
           b == p[i + 1].it
<1>1. /\ n \in Nat /\ Laid(appended, p, n) /\ Places(appended, p, n) /\ Chained(appended)
      /\ Len(appended) \in Nat
  BY DEF Whole, Laid
<1>2. i \in 1 .. n /\ i + 1 \in 1 .. n
  BY <1>1
<1>3. j \in 1 .. Len(appended) /\ m \in 1 .. Len(appended) /\ a \in Nat /\ b \in Nat
  <2>1. p \in [1 .. n -> [k : 1 .. Len(appended), it : Nat]]
    BY <1>1 DEF Places
  <2> QED
    BY <1>2, <2>1
<1>4. b < appended[m].nt
  BY <1>1, <1>2 DEF Places
<1>5. file["time"][i] = Column(appended[j], "time", a) /\ file["time"][i + 1] = Column(appended[m], "time", b)
  BY <1>1, <1>2 DEF Laid
<1>6. \/ m = j /\ b = a + 1
      \/ m = j + 1 /\ b = 0 /\ a = appended[j].nt - 1
  <2>1. Neighbours(appended, p[i], p[i + 1])
    BY <1>1 DEF Places
  <2> QED
    BY <2>1 DEF Neighbours
<1>7. Leap(p, i) = (appended[m].ipos + b) - (appended[j].ipos + a)
  BY DEF Leap, Position
<1>8. /\ Leap(p, i) \in Nat \ {0} /\ file["time"][i] \in Int /\ file["time"][i + 1] \in Int
  <2>1. LET g == Position(appended, p, i + 1) - Position(appended, p, i)
        IN  g \in Nat \ {0} /\ file["time"][i] \in Int /\ file["time"][i + 1] \in Int
    BY <1>1, Apart
  <2> QED
    BY <2>1 DEF Leap
<1> HIDE DEF j, m, a, b
<1>9. \A k \in 1 .. Len(appended) : appended[k].ipos \in Int /\ appended[k].t0 \in Int /\ appended[k].nt \in Int
  <2>1. \A k \in 1 .. Len(appended) : appended[k].ipos \in Int /\ appended[k].t0 \in Int /\ appended[k].nt \in Lengths
    BY <1>1 DEF Chained, ChunkOK
  <2> QED
    BY <2>1, Constants
<1>10. Dt \in Nat \ {0}
  BY Constants
<1>11. file["time"][i] = appended[j].t0 + a * Dt /\ file["time"][i + 1] = appended[m].t0 + b * Dt
  BY <1>5, TimeColumn
<1> DEFINE x == appended[j].ipos
           y == appended[m].ipos
           s == appended[j].t0
           t == appended[m].t0
           u == appended[j].nt
<1>12. x \in Int /\ y \in Int /\ s \in Int /\ t \in Int /\ u \in Int
  BY <1>3, <1>9
<1>13. m = j => x = y /\ s = t /\ b < u
  BY <1>4
<1>14. m = j + 1 => t - s = Dt * (y - x)
  <2> SUFFICES ASSUME m = j + 1 PROVE t - s = Dt * (y - x)
    OBVIOUS
  <2>1. m \in 2 .. Len(appended) /\ m - 1 = j
    BY <1>1, <1>3
  <2>2. appended[m].t0 - appended[m - 1].t0 = Dt * (appended[m].ipos - appended[m - 1].ipos)
    BY <2>1 DEF Undamaged
  <2> QED
    BY <2>1, <2>2
<1>15. DOMAIN appended = 1 .. Len(appended)
  BY DEF TypeInv
<1> DEFINE g == Leap(p, i)
           v == a * Dt
           w == b * Dt
<1>16. g = (y + b) - (x + a) /\ file["time"][i] = s + v /\ file["time"][i + 1] = t + w
  BY <1>7, <1>11
<1>17. CASE m = j /\ b = a + 1
  <2>1. g = 1
    <3> HIDE DEF g, x, y, s, t, u, v, w
    <3> QED
      BY <1>3, <1>12, <1>13, <1>16, <1>17
  <2>2. (a + 1) * Dt = a * Dt + Dt /\ a * Dt \in Nat
    BY <1>3, <1>10
  <2>3. w = v + Dt /\ v \in Nat
    BY <1>17, <2>2
  <2>4. 1 \in StepsApart
    <3>1. u > 1
      <4> HIDE DEF x, y, s, t, u, v, w, g
      <4> QED
        BY <1>3, <1>12, <1>13, <1>17
    <3> QED
      BY <1>3, <1>15, <3>1, StepsApartAre
  <2> HIDE DEF g, x, y, s, t, u, v, w
  <2>5. (t + w) - (s + v) = Dt * g
    BY <1>10, <1>12, <1>13, <1>17, <2>1, <2>3
  <2> QED
    BY <1>8, <1>16, <2>1, <2>4, <2>5 DEF g
<1>18. CASE m = j + 1 /\ b = 0 /\ a = u - 1
  <2>1. g \in StepsApart
    <3>1. g = y - (x + u - 1)
      <4> HIDE DEF g, x, y, s, t, u, v, w
      <4> QED
        BY <1>3, <1>12, <1>16, <1>18
    <3>2. y - (x + u - 1) = StepTo(j)
      BY <1>18 DEF StepTo
    <3>3. j \in 1 .. Len(appended) - 1
      BY <1>1, <1>3, <1>18
    <3> HIDE DEF g, x, y, u
    <3> QED
      BY <3>1, <3>2, <3>3, StepsApartAre
  <2>2. w = 0 /\ v \in Nat
    BY <1>3, <1>10, <1>18
  <2>3. Dt * g + v = Dt * (y - x)
    <3>1. g = (y - x) - a
      <4> HIDE DEF g, x, y, s, t, u, v, w
      <4> QED
        BY <1>3, <1>12, <1>16, <1>18
    <3> DEFINE z == y - x
    <3>2. z \in Int
      BY <1>12
    <3> HIDE DEF z, g
    <3>3. Dt * (z - a) + a * Dt = Dt * z
      BY <1>3, <1>10, <3>2
    <3> QED
      BY <3>1, <3>3 DEF z
  <2> DEFINE c == Dt * g
             e == Dt * (y - x)
  <2>4. c \in Int /\ e = c + v /\ t - s = e
    <3>1. c \in Int
      <4>1. g \in Nat
        BY <1>8
      <4> HIDE DEF g
      <4> QED
        BY <1>10, <4>1
    <3>2. t - s = e
      BY <1>14, <1>18
    <3>3. e = c + v
      BY <2>3
    <3> QED
      BY <3>1, <3>2, <3>3
  <2> HIDE DEF g, x, y, s, t, u, v, w, c, e
  <2>5. (t + w) - (s + v) = c
    BY <1>12, <2>2, <2>4
  <2> QED
    BY <1>8, <1>16, <2>1, <2>5 DEF g, c
<1> QED
  BY <1>6, <1>17, <1>18 DEF u

(* Each step apart is somewhere in the file. *)
LEMMA StepsFound ==
  ASSUME NEW p, NEW n, Whole(p, n), TypeInv, NEW s \in StepsApart
  PROVE  \E i \in 1 .. n - 1 : Leap(p, i) = s
<1>1. /\ n \in Nat /\ Places(appended, p, n) /\ Chained(appended) /\ Len(appended) \in Nat
  BY DEF Whole, Laid
<1>2. DOMAIN appended = 1 .. Len(appended)
  BY DEF TypeInv
<1>3. /\ p \in [1 .. n -> [k : 1 .. Len(appended), it : Nat]]
      /\ \A i \in 1 .. n : p[i].it < appended[p[i].k].nt
      /\ \A k \in 1 .. Len(appended) : \A it \in 0 .. appended[k].nt - 1 :
           \E i \in 1 .. n : p[i].k = k /\ p[i].it = it
      /\ \A i \in 1 .. n - 1 : Neighbours(appended, p[i], p[i + 1])
      /\ n > 0 => p[n].k = Len(appended) /\ p[n].it = appended[Len(appended)].nt - 1
  BY <1>1 DEF Places
<1>4. \A k \in 1 .. Len(appended) : appended[k].ipos \in Int /\ appended[k].nt \in Nat \ {0}
  <2>1. \A k \in 1 .. Len(appended) : appended[k].ipos \in Int /\ appended[k].nt \in Lengths /\ appended[k].nt > 0
    BY <1>1 DEF Chained, ChunkOK
  <2> TAKE k \in 1 .. Len(appended)
  <2>2. appended[k].ipos \in Int /\ appended[k].nt \in Int /\ appended[k].nt > 0
    BY <2>1, Constants
  <2> QED
    BY <2>2
<1>5. CASE s = 1 /\ \E k \in DOMAIN appended : appended[k].nt > 1
  <2>1. PICK k \in 1 .. Len(appended) : appended[k].nt > 1
    BY <1>2, <1>5
  <2>2. 0 \in 0 .. appended[k].nt - 1
    BY <1>4, <2>1
  <2>3. PICK i \in 1 .. n : p[i].k = k /\ p[i].it = 0
    BY <1>3, <2>2
  <2>4. appended[k].nt \in Nat /\ appended[k].nt - 1 # 0
    BY <1>4, <2>1
  <2>5. i # n
    BY <1>1, <1>3, <2>3, <2>4
  <2>6. i \in 1 .. n - 1
    BY <1>1, <2>3, <2>5
  <2>7. Neighbours(appended, p[i], p[i + 1])
    BY <1>3, <2>6
  <2>8. p[i + 1].k = k /\ p[i + 1].it = 0 + 1
    BY <2>3, <2>4, <2>7 DEF Neighbours
  <2>9. Leap(p, i) = (appended[k].ipos + (0 + 1)) - (appended[k].ipos + 0)
    BY <2>3, <2>8 DEF Leap, Position
  <2>10. Leap(p, i) = 1
    BY <1>4, <2>9
  <2> QED
    BY <1>5, <2>6, <2>10
<1>6. CASE \E k \in 1 .. Len(appended) - 1 : s = StepTo(k)
  <2>1. PICK k \in 1 .. Len(appended) - 1 : s = StepTo(k)
    BY <1>6
  <2>2. k \in 1 .. Len(appended) /\ k + 1 \in 1 .. Len(appended) /\ k # Len(appended)
    BY <1>1
  <2> DEFINE e == appended[k].nt - 1
  <2>3. e \in 0 .. appended[k].nt - 1 /\ e \in Nat /\ ~(e + 1 < appended[k].nt)
    BY <1>4, <2>2
  <2>4. PICK i \in 1 .. n : p[i].k = k /\ p[i].it = e
    BY <1>3, <2>2, <2>3
  <2>5. i # n
    BY <1>1, <1>3, <2>2, <2>4
  <2>6. i \in 1 .. n - 1 /\ i + 1 \in 1 .. n
    BY <1>1, <2>4, <2>5
  <2>7. Neighbours(appended, p[i], p[i + 1])
    BY <1>3, <2>6
  <2>8. p[i + 1].it < appended[p[i + 1].k].nt
    BY <1>3, <2>6
  <2> HIDE DEF e
  <2>9. p[i + 1].k = k + 1 /\ p[i + 1].it = 0
    BY <2>3, <2>4, <2>7, <2>8 DEF Neighbours
  <2>10. Leap(p, i) = (appended[k + 1].ipos + 0) - (appended[k].ipos + e)
    BY <2>4, <2>9 DEF Leap, Position
  <2>11. Leap(p, i) = StepTo(k)
    <3>1. appended[k + 1].ipos \in Int /\ appended[k].ipos \in Int /\ appended[k].nt \in Int
      BY <1>4, <2>2
    <3> QED
      BY <2>10, <3>1 DEF StepTo, e
  <2> QED
    BY <2>1, <2>6, <2>11
<1> QED
  BY <1>5, <1>6, StepsApartAre

(* Times a whose differences are multiples of the smallest one, x. *)
Evenly(a, n, x) ==
  /\ \A i \in 1 .. n - 1 : \E k \in Nat \ {0} : a[i + 1] - a[i] = x * k
  /\ \E i \in 1 .. n - 1 : a[i + 1] - a[i] = x

LEMMA StepsExact ==
  ASSUME NEW x \in Nat \ {0}, NEW k \in Nat
  PROVE  Steps(x * k, x) = k
<1> DEFINE y == x * k
           z == 2 * x
<1>1. y \in Nat /\ z \in Nat \ {0} /\ x \in 0 .. z - 1
  OBVIOUS
<1>2. z * k = 2 * y
  OBVIOUS
<1>3. (z * k + x) \div z = k
  <2> HIDE DEF z, y
  <2> QED
    BY <1>1, Numbering
<1>4. Steps(y, x) = (2 * y + x) \div z
  BY DEF Steps
<1> HIDE DEF y, z
<1> QED
  BY <1>2, <1>3, <1>4 DEF y

LEMMA EvenTimes ==
  ASSUME NEW a, Len(a) \in Nat, Len(a) >= 2, NEW x \in Nat \ {0}, Evenly(a, Len(a), x)
  PROVE  TimesOf(a).valid /\ TimesOf(a).dt_p = x
<1> DEFINE n == Len(a)
           diff == [i \in 1 .. n - 1 |-> a[i + 1] - a[i]]
           u == Min({diff[i] : i \in DOMAIN diff})
           steps == [i \in 0 .. n - 2 |-> Steps(diff[i + 1], u)]
           even(i) == 100 * Abs(diff[i] - Steps(diff[i], u) * u) <= u
           index == [i \in 0 .. n - 1 |-> SumOf(i, steps)]
           t == [valid |-> TRUE, nt_file |-> n, dt_p |-> u,
                 time_index_mapping |-> index,
                 nt_logical |-> SumOf(n - 1, steps) + 1,
                 time_lo |-> a[1], time_hi |-> a[n] + u]
           few == n < 2
           still == u <= 0
           uneven == \E i \in DOMAIN diff : ~even(i)
           bad == few \/ still \/ uneven
<1>1. TimesOf(a) = IF bad THEN [valid |-> FALSE] ELSE t
  BY Zenon DEF TimesOf
<1>n. n \in Nat /\ n >= 2 /\ Evenly(a, n, x)
  OBVIOUS
<1> HIDE DEF n
<1>2. DOMAIN diff = 1 .. n - 1 /\ \A i \in 1 .. n - 1 : diff[i] = a[i + 1] - a[i]
  OBVIOUS
<1> HIDE DEF diff
<1>3. \A i \in 1 .. n - 1 : \E k \in Nat \ {0} : diff[i] = x * k
  BY <1>n, <1>2 DEF Evenly
<1>4. PICK m \in 1 .. n - 1 : diff[m] = x
  BY <1>n, <1>2 DEF Evenly
<1>5. u = x
  <2> DEFINE D == {diff[i] : i \in DOMAIN diff}
  <2>1. x \in D
    BY <1>2, <1>4
  <2>2. \A y \in D : y \in Nat /\ x <= y
    <3> TAKE y \in D
    <3>1. PICK i \in 1 .. n - 1 : y = diff[i]
      BY <1>2
    <3>2. PICK k \in Nat \ {0} : diff[i] = x * k
      BY <1>3
    <3>3. x * k \in Nat /\ x * k >= x
      <4>1. PICK r \in Nat : k = r + 1
        <5>1. k - 1 \in Nat /\ k = (k - 1) + 1
          OBVIOUS
        <5> QED
          BY <5>1
      <4>2. x * k = x * r + x /\ x * r \in Nat
        BY <4>1
      <4> QED
        BY <4>2
    <3> QED
      BY <3>1, <3>2, <3>3
  <2>3. u = CHOOSE y \in D : \A z \in D : y <= z
    BY Zenon DEF Min
  <2> HIDE DEF D, u
  <2>4. u \in D /\ \A z \in D : u <= z
    <3>1. \E y \in D : \A z \in D : y <= z
      BY <2>1, <2>2
    <3> QED
      BY <2>3, <3>1
  <2>5. u <= x /\ x <= u /\ u \in Nat
    BY <2>1, <2>2, <2>4
  <2> QED
    BY <2>5
<1> HIDE DEF u
<1>6. ~few /\ ~still
  BY <1>n, <1>5
<1>7. ~uneven
  <2> SUFFICES ASSUME NEW i \in 1 .. n - 1 PROVE even(i)
    BY <1>2
  <2>1. PICK k \in Nat \ {0} : diff[i] = x * k
    BY <1>3
  <2>2. Steps(diff[i], u) = k
    BY <1>5, <2>1, StepsExact
  <2>3. k * x = x * k /\ x * k \in Nat
    OBVIOUS
  <2> DEFINE y == x * k
             z == k * x
  <2>4. y = z /\ z \in Nat
    BY <2>3
  <2> HIDE DEF y, z
  <2>5. 100 * Abs(y - z) <= x
    <3>1. y - z = 0
      BY <2>4
    <3>2. 100 * Abs(0) <= x
      BY DEF Abs
    <3> QED
      BY <3>1, <3>2
  <2>6. diff[i] = y /\ Steps(diff[i], u) * u = z
    BY <1>5, <2>1, <2>2 DEF y, z
  <2> QED
    BY <1>5, <2>5, <2>6
<1> HIDE DEF few, still, uneven, t
<1>8. TimesOf(a) = t
  BY <1>1, <1>6, <1>7
<1>9. t.valid = TRUE /\ t.dt_p = u
  BY DEF t
<1> QED
  BY <1>5, <1>8, <1>9

(* The positions of an undamaged file are multiples of its smallest step. *)
LEMMA WholeEvenly ==
  ASSUME NEW p, NEW n, Whole(p, n), n >= 2, Undamaged, Commensurate, TypeInv
  PROVE  \E unit \in Nat \ {0} :
           /\ Dt * unit \in Nat \ {0}
           /\ Evenly(file["time"], n, Dt * unit)
<1>1. PICK unit \in StepsApart : \A steps \in StepsApart : steps % unit = 0
  BY DEF Commensurate
<1>2. n \in Nat
  BY DEF Whole
<1>3. Dt \in Nat \ {0}
  BY Constants
<1>4. PICK m \in 1 .. n - 1 : Leap(p, m) = unit
  BY StepsFound
<1>5. unit \in Nat \ {0} /\ file["time"][m + 1] - file["time"][m] = Dt * unit
  BY <1>4, ExactSteps
<1>6. Dt * unit \in Nat \ {0}
  <2>1. Dt * unit \in Nat /\ Dt * unit > 0
    BY <1>3, <1>5
  <2> QED
    BY <2>1
<1>7. ASSUME NEW i \in 1 .. n - 1
      PROVE  \E k \in Nat \ {0} : file["time"][i + 1] - file["time"][i] = (Dt * unit) * k
  <2> DEFINE g == Leap(p, i)
             k == g \div unit
  <2>1. g \in StepsApart /\ g \in Nat \ {0} /\ file["time"][i + 1] - file["time"][i] = Dt * g
    BY ExactSteps
  <2>2. g % unit = 0
    BY <1>1, <2>1
  <2> HIDE DEF g
  <2>3. g = unit * k + (g % unit) /\ k \in Nat
    BY <1>5, <2>1, DivMod
  <2> HIDE DEF k
  <2>4. g = unit * k
    <3> DEFINE y == unit * k
    <3>1. y \in Nat /\ g = y + (g % unit)
      BY <1>5, <2>3
    <3> HIDE DEF y
    <3>2. g = y
      BY <2>2, <3>1
    <3> QED
      BY <3>2 DEF y
  <2>5. k # 0
    <3>1. k = 0 => unit * k = 0
      BY <1>5
    <3> QED
      BY <2>1, <2>4, <3>1
  <2>6. Dt * (unit * k) = (Dt * unit) * k
    BY <1>3, <1>5, <2>3
  <2>7. k \in Nat \ {0}
    BY <2>3, <2>5
  <2>8. file["time"][i + 1] - file["time"][i] = (Dt * unit) * k
    BY <2>1, <2>4, <2>6
  <2> QED
    BY <2>7, <2>8
<1>8. Evenly(file["time"], n, Dt * unit)
  BY <1>4, <1>5, <1>7 DEF Evenly
<1> QED
  BY <1>5, <1>6, <1>8

LEMMA DivExact ==
  ASSUME NEW n \in Nat \ {0}, NEW q \in Int
  PROVE  (n * q) \div n = q
<1> DEFINE x == n * q
           r == x \div n
           j == x % n
<1>1. x \in Int
  OBVIOUS
<1>2. x = n * r + j /\ r \in Int /\ j \in 0 .. n - 1
  <2> HIDE DEF x
  <2> QED
    BY <1>1
<1>3. x = n * q
  OBVIOUS
<1> HIDE DEF x, r, j
<1> DEFINE y == n * r
           z == n * q
<1>4. y \in Int /\ z \in Int
  BY <1>2
<1>5. ~(q < r)
  <2>1. ASSUME q < r PROVE z + n <= y
    <3>1. n * q + n <= n * r
      BY <1>2, <2>1, NoGap
    <3> QED
      BY <3>1
  <2> HIDE DEF y, z
  <2> QED
    BY <1>2, <1>3, <1>4, <2>1 DEF y, z
<1>6. ~(r < q)
  <2>1. ASSUME r < q PROVE y + n <= z
    <3>1. n * r + n <= n * q
      BY <1>2, <2>1, NoGap
    <3> QED
      BY <3>1
  <2>2. x = y + j /\ x = z
    BY <1>2, <1>3
  <2> HIDE DEF y, z
  <2> QED
    BY <1>2, <1>4, <2>1, <2>2
<1> QED
  BY <1>2, <1>5, <1>6 DEF r, x

(* The frequencies the writer has given are those the reader expects. *)
LEMMA BandIs ==
  ASSUME args \in Arguments, args.nfreq >= 2, args.freq0 # args.freq1
  PROVE  LET band == BandOf(freq, args.nfreq)
         IN  /\ band.valid
             /\ band.increasing <=> args.freq0 < args.freq1
             /\ {band.lo, band.hi} = {args.freq0, args.freq1}
<1> DEFINE n == args.nfreq
           c == args.freq0
           d == args.freq1
           w == (d - c) \div n
<1>1. n \in Nat /\ n >= 2 /\ c \in Int /\ d \in Int /\ (d - c) % n = 0 /\ c # d
  <2>1. n \in Int /\ c \in Int /\ d \in Int /\ (n > 0 => (d - c) % n = 0)
    BY Constants
  <2> HIDE DEF n, c, d
  <2> QED
    BY <2>1 DEF n, c, d
<1>2. freq = [i \in 0 .. n - 1 |-> (i * d + (n - i) * c) \div n]
  BY Zenon DEF freq
<1> HIDE DEF n, c, d
<1>3. w \in Int /\ n * w \in Int /\ d = c + n * w
  <2> DEFINE x == d - c
             y == n * w
  <2>1. x \in Int
    BY <1>1
  <2>2. x = n * (x \div n) + (x % n) /\ x \div n \in Int
    <3> HIDE DEF x
    <3> QED
      BY <1>1, <2>1
  <2>3. x % n = 0 /\ w = x \div n
    BY <1>1
  <2> HIDE DEF w, x
  <2>4. w \in Int
    BY <2>2, <2>3
  <2>5. y \in Int
    BY <1>1, <2>4
  <2>6. x = y
    BY <2>2, <2>3, <2>5
  <2> HIDE DEF y
  <2>7. d = c + y
    BY <1>1, <2>5, <2>6 DEF x
  <2> QED
    BY <2>4, <2>5, <2>7 DEF y
<1> HIDE DEF w
<1>4. ASSUME NEW i \in 0 .. n - 1
      PROVE  /\ i * w \in Int /\ freq[i] = c + i * w
             /\ i * d + (n - i) * c = n * (c + i * w)
  <2>1. i * w \in Int /\ i \in Nat
    BY <1>1, <1>3
  <2>2. i * d + (n - i) * c = n * (c + i * w)
    <3>1. i * (c + n * w) + (n - i) * c = n * (c + i * w)
      BY <1>1, <1>3, <2>1
    <3> QED
      BY <1>3, <3>1
  <2>3. freq[i] = (i * d + (n - i) * c) \div n
    BY <1>2
  <2> DEFINE q == c + i * w
  <2>4. q \in Int
    BY <1>1, <2>1
  <2>5. freq[i] = (n * q) \div n
    BY <2>2, <2>3
  <2> HIDE DEF q
  <2>6. freq[i] = q
    BY <1>1, <2>4, <2>5, DivExact
  <2> QED
    BY <2>1, <2>2, <2>6 DEF q
<1> DEFINE span == freq[n - 1] - freq[0]
           lo == freq[0]
           hi == freq[n - 1] + span \div (n - 1)
           even == \A i \in 0 .. n - 1 : (n - i) * lo + i * hi = n * freq[i]
           band == [valid |-> lo # hi /\ even,
                    lo |-> IF lo < hi THEN lo ELSE hi,
                    hi |-> IF lo < hi THEN hi ELSE lo,
                    increasing |-> lo < hi]
<1>5. BandOf(freq, n) = band
  BY Zenon DEF BandOf
<1>6. lo = c
  <2>1. 0 \in 0 .. n - 1
    BY <1>1
  <2>2. freq[0] = c + 0 * w /\ 0 * w = 0
    BY <1>3, <1>4, <2>1
  <2> QED
    BY <1>1, <2>2
<1>7. hi = d
  <2> DEFINE m == n - 1
             y == m * w
  <2>1. m \in 0 .. n - 1 /\ m \in Nat \ {0}
    BY <1>1
  <2>2. freq[m] = c + y /\ y \in Int
    BY <1>4, <2>1
  <2>3. y \div m = w
    <3> HIDE DEF m
    <3>1. m * w = y
      OBVIOUS
    <3> QED
      BY <1>3, <2>1, DivExact
  <2>4. span = y
    <3> HIDE DEF y
    <3>1. freq[n - 1] = c + y
      BY <2>2
    <3> HIDE DEF lo
    <3>2. freq[n - 1] - lo = y
      BY <1>1, <1>6, <2>2, <3>1
    <3> QED
      BY <3>2 DEF lo
  <2>5. y + w = n * w
    <3>1. (n - 1) * w + w = n * w
      BY <1>1, <1>3
    <3> QED
      BY <3>1
  <2>6. hi = (c + y) + w
    <3> HIDE DEF y, span
    <3>1. freq[n - 1] = c + y /\ span \div (n - 1) = w
      BY <2>2, <2>3, <2>4
    <3> QED
      BY <3>1
  <2> DEFINE z == n * w
  <2>7. z \in Int /\ y + w = z /\ d = c + z
    BY <1>3, <2>5
  <2> HIDE DEF y, z, hi
  <2> QED
    BY <1>1, <1>3, <2>2, <2>6, <2>7
<1> HIDE DEF lo, hi
<1>8. even
  <2> TAKE i \in 0 .. n - 1
  <2>1. freq[i] = c + i * w /\ i * d + (n - i) * c = n * (c + i * w) /\ i \in Nat
    BY <1>4
  <2> DEFINE x == i * d
             y == (n - i) * c
  <2>2. x \in Int /\ y \in Int
    BY <1>1, <2>1
  <2>3. x + y = n * freq[i]
    BY <2>1
  <2> HIDE DEF x, y
  <2>4. y + x = n * freq[i]
    BY <2>2, <2>3
  <2> QED
    BY <1>6, <1>7, <2>4 DEF x, y
<1> HIDE DEF even
<1>9. /\ band.valid = (lo # hi /\ even) /\ band.increasing = (lo < hi)
      /\ band.lo = (IF lo < hi THEN lo ELSE hi) /\ band.hi = (IF lo < hi THEN hi ELSE lo)
  OBVIOUS
<1>10. lo # hi
  BY <1>1, <1>6, <1>7
<1>11. {band.lo, band.hi} = {c, d}
  <2>1. {band.lo, band.hi} = {lo, hi}
    <3> HIDE DEF band
    <3> QED
      BY <1>9
  <2> QED
    BY <1>6, <1>7, <2>1
<1>12. band.increasing <=> c < d
  <2> HIDE DEF band
  <2> QED
    BY <1>6, <1>7, <1>9
<1>13. band.valid
  <2> HIDE DEF band
  <2> QED
    BY <1>8, <1>9, <1>10, Zenon
<1> HIDE DEF band
<1> QED
  BY <1>5, <1>11, <1>12, <1>13 DEF n, c, d

LEMMA TwoPolarizations ==
  ASSUME args \in Arguments, ValidArguments
  PROVE  Len(args.pol) \in 1 .. 2
<1> DEFINE pol == args.pol
<1>1. pol \in Seq(STRING)
  BY Constants
<1>2. /\ pol # <<>>
      /\ \A i \in DOMAIN pol : pol[i] \in {"XX", "YY"} /\ \A j \in 1 .. i - 1 : pol[i] # pol[j]
  BY DEF ValidArguments
<1> HIDE DEF pol
<1>3. DOMAIN pol = 1 .. Len(pol) /\ Len(pol) \in Nat /\ Len(pol) # 0
  BY <1>1, <1>2
<1>4. ~(Len(pol) >= 3)
  <2> SUFFICES ASSUME Len(pol) >= 3 PROVE FALSE
    OBVIOUS
  <2>1. 1 \in DOMAIN pol /\ 2 \in DOMAIN pol /\ 3 \in DOMAIN pol
    BY <1>3
  <2>2. pol[1] \in {"XX", "YY"} /\ pol[2] \in {"XX", "YY"} /\ pol[3] \in {"XX", "YY"}
    BY <1>2, <2>1
  <2>3. 1 \in 1 .. 2 - 1 /\ 1 \in 1 .. 3 - 1 /\ 2 \in 1 .. 3 - 1
    OBVIOUS
  <2>4. pol[2] # pol[1] /\ pol[3] # pol[1] /\ pol[3] # pol[2]
    BY <1>2, <2>1, <2>3
  <2> QED
    BY <2>2, <2>4
<1>5. Len(pol) \in 1 .. 2
  BY <1>3, <1>4
<1> QED
  BY <1>5 DEF pol

(* The weights as they are read. *)
LEMMA WeightsRead ==
  ASSUME IInv, Open, Clean, Hdf5Values, NEW n \in Nat \ {0}, n = curr_shape["weight"],
         Len(file["weight"]) = n
  PROVE  LET weights == Flat(file["weight"])
             size == Width * n
         IN  /\ size \in Nat \ {0}
             /\ \A i \in 0 .. size - 1 : weights[i] \in Int /\ weights[i] >= 0
             /\ SumOf(size, weights) = FileSum
             /\ {weights[i] : i \in 0 .. size - 1} = FileWeights
<1> DEFINE w == Width
           m == file["weight"]
           weights == Flat(m)
           size == w * n
<1>1. /\ w \in Nat \ {0}
      /\ \A i \in 1 .. n, k \in 0 .. w - 1 : m[i][k] \in Int /\ m[i][k] >= 0
  BY FileWeightsInt
<1>2. ASSUME NEW k \in 0 .. w - 1, NEW a \in 0 .. n - 1
      PROVE  k * n + a \in 0 .. size - 1 /\ weights[k * n + a] = m[a + 1][k]
  <2>1. Width \in Nat /\ Len(m) = n /\ k \in 0 .. Width - 1
    BY <1>1
  <2> HIDE DEF m, w
  <2>2. k * n + a \in 0 .. Width * n - 1
    BY <2>1, FlatAt
  <2>3. Flat(m)[k * n + a] = m[a + 1][k]
    BY <2>1, FlatAt, SMTT(30)
  <2> QED
    BY <2>2, <2>3 DEF w
<1>3. FileSum = SumOf(w, ColumnSums(m, w, n))
  BY FileSumIs
<1>4. FileWeights = {m[i][k] : i \in 1 .. n, k \in 0 .. w - 1}
  BY DEF FileWeights
<1> HIDE DEF w, m, weights
<1>5. size \in Nat \ {0}
  <2>1. size \in Nat /\ size > 0
    BY <1>1
  <2> QED
    BY <2>1
<1>6. ASSUME NEW i \in 0 .. size - 1
      PROVE  \E a \in 0 .. n - 1 : \E k \in 0 .. w - 1 : i = k * n + a /\ weights[i] = m[a + 1][k]
  <2> DEFINE k == i \div n
             a == i % n
  <2>1. k \in 0 .. w - 1 /\ a \in 0 .. n - 1 /\ i = k * n + a
    BY <1>1, NumberOf
  <2> HIDE DEF k, a
  <2>2. weights[i] = m[a + 1][k]
    BY <1>2, <2>1
  <2> QED
    BY <2>1, <2>2
<1>7. \A i \in 0 .. size - 1 : weights[i] \in Int /\ weights[i] >= 0
  <2> TAKE i \in 0 .. size - 1
  <2>1. PICK a \in 0 .. n - 1 : \E k \in 0 .. w - 1 : weights[i] = m[a + 1][k]
    BY <1>6
  <2>2. PICK k \in 0 .. w - 1 : weights[i] = m[a + 1][k]
    BY <2>1
  <2>3. a + 1 \in 1 .. n
    OBVIOUS
  <2> QED
    BY <1>1, <2>2, <2>3
<1>8. SumOf(size, weights) = FileSum
  <2>1. SumOf(size, weights) = SumOf(w, RowSums(weights, w, n))
    BY <1>1, <1>7, SumOfRows
  <2>2. \A k \in 0 .. w - 1 : RowSums(weights, w, n)[k] = ColumnSums(m, w, n)[k]
    <3> TAKE k \in 0 .. w - 1
    <3>1. RowSums(weights, w, n)[k] = SumOf(n, Row(weights, k, n))
      BY DEF RowSums
    <3>2. ColumnSums(m, w, n)[k] = SumOf(n, ColumnOf(m, k, n))
      BY DEF ColumnSums
    <3>3. \A a \in 0 .. n - 1 : Row(weights, k, n)[a] = ColumnOf(m, k, n)[a]
      <4> TAKE a \in 0 .. n - 1
      <4>1. Row(weights, k, n)[a] = weights[k * n + a]
        BY DEF Row
      <4>2. ColumnOf(m, k, n)[a] = m[a + 1][k]
        BY DEF ColumnOf
      <4> QED
        BY <1>2, <4>1, <4>2
    <3>4. SumOf(n, Row(weights, k, n)) = SumOf(n, ColumnOf(m, k, n))
      BY <3>3, SumsEqual
    <3> QED
      BY <3>1, <3>2, <3>4
  <2>3. SumOf(w, RowSums(weights, w, n)) = SumOf(w, ColumnSums(m, w, n))
    BY <1>1, <2>2, SumsEqual
  <2> QED
    BY <1>3, <2>1, <2>3
<1>9. {weights[i] : i \in 0 .. size - 1} = FileWeights
  <2>1. \A i \in 0 .. size - 1 : weights[i] \in FileWeights
    <3> TAKE i \in 0 .. size - 1
    <3>1. PICK a \in 0 .. n - 1 : \E k \in 0 .. w - 1 : weights[i] = m[a + 1][k]
      BY <1>6
    <3>2. a + 1 \in 1 .. n
      OBVIOUS
    <3> QED
      BY <1>4, <3>1, <3>2
  <2>2. \A x \in FileWeights : \E i \in 0 .. size - 1 : x = weights[i]
    <3> TAKE x \in FileWeights
    <3>1. PICK i \in 1 .. n, k \in 0 .. w - 1 : x = m[i][k]
      BY <1>4
    <3> DEFINE a == i - 1
    <3>2. a \in 0 .. n - 1 /\ a + 1 = i
      OBVIOUS
    <3> HIDE DEF a
    <3>3. k * n + a \in 0 .. size - 1 /\ weights[k * n + a] = m[a + 1][k]
      BY <1>2, <3>2
    <3> QED
      BY <3>1, <3>2, <3>3
  <2> HIDE DEF size
  <2> QED
    BY <2>1, <2>2
<1> QED
  BY <1>5, <1>7, <1>8, <1>9 DEF w, m, weights

(* The maximum of the weights read is that of the writer, which starts at 0. *)
LEMMA MaximaAgree ==
  ASSUME NEW n \in Nat \ {0}, NEW a, \A i \in 0 .. n - 1 : a[i] \in Int /\ a[i] >= 0,
         NEW m, IsMax(m, {0} \cup {a[i] : i \in 0 .. n - 1})
  PROVE  Max({a[i] : i \in 0 .. n - 1}) = m
<1> DEFINE S == {a[i] : i \in 0 .. n - 1}
           x == a[0]
           M == Max({x} \cup S)
<1>1. x \in S /\ x \in Int
  <2>1. 0 \in 0 .. n - 1
    OBVIOUS
  <2> QED
    BY <2>1
<1>2. IsMax(M, {x} \cup S)
  <2>1. \A i \in 0 .. n - 1 : a[i] \in Int
    OBVIOUS
  <2> QED
    BY <1>1, <2>1, MaxIs
<1>3. \A y \in S : y \in Int /\ y >= 0
  OBVIOUS
<1>4. {x} \cup S = S
  BY <1>1
<1>5. m \in {0} \cup S /\ \A y \in {0} \cup S : y <= m
  BY DEF IsMax
<1> HIDE DEF S, x
<1>6. M = Max(S)
  BY <1>4
<1> HIDE DEF M
<1>7. M \in S /\ \A y \in S : y <= M
  BY <1>2, <1>4 DEF IsMax
<1>8. M <= m /\ M \in Int /\ M >= 0 /\ m \in Int /\ m <= M
  <2>1. M <= m /\ M \in Int /\ M >= 0
    BY <1>3, <1>5, <1>7
  <2>2. CASE m \in S
    BY <1>3, <1>7, <2>1, <2>2
  <2>3. CASE m = 0
    BY <2>1, <2>3
  <2> QED
    BY <1>5, <2>1, <2>2, <2>3
<1>9. M = m
  BY <1>8
<1> QED
  BY <1>6, <1>9 DEF S

(* Without drift, and with neighbouring samples, each index is a position. *)
LEMMA LeapsIndex ==
  ASSUME NEW p, NEW n, Whole(p, n), Undamaged, TypeInv, NEW index,
         Stepped(file["time"], n, Dt, index)
  PROVE  index[n - 1] = Position(appended, p, n) - Position(appended, p, 1)
<1> DEFINE a == file["time"]
           P(i) == Position(appended, p, i)
           S == {i \in Nat : i <= n - 1 => index[i] = P(i + 1) - P(1)}
<1>1. /\ n \in Nat /\ n >= 2 /\ index[0] = 0
      /\ \A i \in 1 .. n - 1 : index[i] = index[i - 1] + Steps(a[i + 1] - a[i], Dt)
  BY DEF Stepped
<1>2. Dt \in Nat \ {0}
  BY Constants
<1>3. \A i \in 1 .. n - 1 : P(i) \in Int /\ P(i + 1) \in Int
  <2> TAKE i \in 1 .. n - 1
  <2>1. n \in Nat /\ Laid(appended, p, n)
    BY DEF Whole
  <2> QED
    BY <2>1, Apart
<1>4. \A i \in 1 .. n - 1 : Steps(a[i + 1] - a[i], Dt) = P(i + 1) - P(i)
  <2> TAKE i \in 1 .. n - 1
  <2>1. Leap(p, i) \in Nat /\ a[i + 1] - a[i] = Dt * Leap(p, i)
    BY ExactSteps
  <2> HIDE DEF a
  <2>2. Steps(a[i + 1] - a[i], Dt) = Leap(p, i)
    BY <1>2, <2>1, StepsExact
  <2> QED
    BY <2>2 DEF Leap
<1> HIDE DEF P, a
<1>5. 0 \in S
  <2>1. P(1) \in Int /\ 0 + 1 = 1
    BY <1>1, <1>3
  <2>2. P(0 + 1) - P(1) = 0
    BY <2>1
  <2> QED
    BY <1>1, <2>2
<1>6. ASSUME NEW i \in Nat, i \in S PROVE i + 1 \in S
  <2> SUFFICES ASSUME i + 1 <= n - 1 PROVE index[i + 1] = P((i + 1) + 1) - P(1)
    OBVIOUS
  <2>1. i + 1 \in 1 .. n - 1 /\ (i + 1) - 1 = i /\ i <= n - 1 /\ 1 \in 1 .. n - 1
    BY <1>1
  <2>2. index[i + 1] = index[i] + (P((i + 1) + 1) - P(i + 1))
    BY <1>1, <1>4, <2>1
  <2>3. index[i] = P(i + 1) - P(1)
    BY <1>6, <2>1
  <2>4. P(i + 1) \in Int /\ P((i + 1) + 1) \in Int /\ P(1) \in Int
    BY <1>3, <2>1
  <2> QED
    BY <2>2, <2>3, <2>4
<1> HIDE DEF S
<1>7. n - 1 \in S
  BY <1>1, <1>5, <1>6, NatSetInduction
<1>8. (n - 1) + 1 = n
  BY <1>1
<1> QED
  BY <1>1, <1>7, <1>8 DEF S, P

(* What the reader makes of an undamaged file. *)
LEMMA WholeLoads ==
  ASSUME IInv, BooksInv, Hdf5Values, step = <<"read">>, Open, Undamaged, Commensurate,
         args.nfreq >= 2, args.freq0 # args.freq1, AppendedCount >= 2
  PROVE  \E f : reader = {f} /\ LoadedFrom(f)
<1> DEFINE n == curr_shape["weight"]
           times == file["time"]
           T == TimesOf(times)
           band == BandOf(freq, args.nfreq)
           weights == Flat(file["weight"])
           size == Width * Len(times)
           few == args.nfreq < 2
           odd == ~band.valid
           pols == Len(args.pol) \notin 1 .. 2
           short == DOMAIN file # {"time", "intensity", "weight"}
           uneven == ~T.valid
           ragged == Len(file["intensity"]) # Len(times) \/ Len(file["weight"]) # Len(times)
           negative == \E i \in 0 .. size - 1 : weights[i] < 0
           bad == few \/ odd \/ pols \/ short \/ uneven \/ ragged \/ negative
           f == [band |-> band, times |-> T,
                 intensity |-> Flat(file["intensity"]), weights |-> weights,
                 wsum |-> SumOf(size, weights),
                 wmax |-> Max({weights[i] : i \in 0 .. size - 1})]
<1>1. failures = 0 /\ TypeInv /\ FileInv
  BY DEF Undamaged, IInv, OpenInv
<1>2. PICK p : Whole(p, n)
  BY <1>1, FileWhole
<1>3. /\ n \in Nat /\ n >= 2 /\ \A d \in Names : Len(file[d]) = n
  BY <1>2 DEF Whole
<1>4. Len(times) = n /\ Len(file["intensity"]) = n /\ Len(file["weight"]) = n
  BY <1>3 DEF Names
<1>5. args \in Arguments /\ ValidArguments
  BY <1>1 DEF TypeInv, FileInv
<1>6. args.nfreq \in Int
  BY <1>5, Constants
<1>7. Loaded = IF bad THEN {} ELSE {f}
  <2>1. Loaded = IF \/ few \/ odd \/ pols \/ short \/ uneven
                    \/ Len(file["intensity"]) # Len(times) \/ Len(file["weight"]) # Len(times)
                    \/ negative
                 THEN {} ELSE {f}
    BY Zenon DEF Loaded
  <2> HIDE DEF few, odd, pols, short, uneven, negative, f
  <2> QED
    BY <2>1
<1>8. ~few
  BY <1>6
<1>9. ~odd
  BY <1>5, BandIs
<1>10. ~pols
  BY <1>5, TwoPolarizations
<1>11. ~short
  BY DEF Open, Names
<1>12. ~uneven
  <2>1. PICK unit \in Nat \ {0} : Dt * unit \in Nat \ {0} /\ Evenly(times, n, Dt * unit)
    BY <1>1, <1>2, <1>3, WholeEvenly
  <2> DEFINE x == Dt * unit
  <2>2. x \in Nat \ {0} /\ Evenly(times, Len(times), x) /\ Len(times) \in Nat /\ Len(times) >= 2
    BY <1>3, <1>4, <2>1
  <2> HIDE DEF x, times
  <2> QED
    BY <2>2, EvenTimes
<1>13. ~ragged
  BY <1>4
<1>14. ~negative
  <2>1. Clean
    BY <1>1 DEF BooksInv, CleanInv
  <2>2. n \in Nat \ {0}
    BY <1>3
  <2>3. \A i \in 0 .. Width * n - 1 : weights[i] \in Int /\ weights[i] >= 0
    BY <1>4, <2>1, <2>2, WeightsRead
  <2>4. size = Width * n
    BY <1>4
  <2> HIDE DEF size, weights
  <2>5. \A i \in 0 .. size - 1 : ~(weights[i] < 0)
    BY <2>3, <2>4
  <2> QED
    BY <2>5
<1>15. ~bad
  <2> HIDE DEF few, odd, pols, short, uneven, ragged, negative
  <2> QED
    BY <1>8, <1>9, <1>10, <1>11, <1>12, <1>13, <1>14
<1>16. reader = Loaded
  <2>1. reader = IF DOMAIN file = {} THEN {} ELSE Loaded
    BY DEF IInv, ReaderInv
  <2>2. DOMAIN file # {}
    BY DEF Open, Names
  <2> QED
    BY <2>1, <2>2
<1>17. reader = {f}
  <2> HIDE DEF bad, f
  <2> QED
    BY <1>7, <1>15, <1>16
<1>18. LoadedFrom(f)
  <2>1. f \in Loaded
    <3> HIDE DEF f
    <3> QED
      BY <1>16, <1>17
  <2> HIDE DEF f
  <2> QED
    BY <1>5, <2>1, LoadedIs
<1> HIDE DEF f
<1> QED
  BY <1>17, <1>18

LEMMA StateReadsBack == ASSUME IInv, BooksInv, Hdf5Values PROVE UndamagedReadsBack
<1> SUFFICES ASSUME step = <<"read">>, Undamaged, Commensurate, Open,
                    args.nfreq >= 2, args.freq0 # args.freq1, AppendedCount >= 2
             PROVE  \E f \in reader :
                      /\ f.times.nt_file = AppendedCount /\ AppendedCount = writer.curr_nt
                      /\ f.band.increasing <=> args.freq0 < args.freq1
                      /\ {f.band.lo, f.band.hi} = {args.freq0, args.freq1}
                      /\ f.times.dt_p = Dt =>
                           f.times.nt_logical = writer.curr_ipos - writer.initial_ipos
                      /\ refused = 0 => f.wsum = writer.wsum /\ f.wmax = writer.wmax
  BY Zenon DEF UndamagedReadsBack, Open, Names
<1> DEFINE n == curr_shape["weight"]
           times == file["time"]
<1>1. failures = 0 /\ TypeInv /\ FileInv
  BY DEF Undamaged, IInv, OpenInv
<1>2. PICK f : reader = {f} /\ LoadedFrom(f)
  BY WholeLoads
<1>3. PICK p : Whole(p, n)
  BY <1>1, FileWhole
<1>4. /\ n \in Nat \ {0} /\ n >= 2 /\ n = AppendedCount /\ n = writer.curr_nt
      /\ Len(times) = n /\ Len(file["weight"]) = n /\ Laid(appended, p, n)
  BY <1>3 DEF Whole, Names
<1>5. f.times = TimesOf(times) /\ TimesOf(times).valid /\ f.band = BandOf(freq, args.nfreq)
      /\ f.weights = Flat(file["weight"])
      /\ f.wsum = SumOf(FileSize, f.weights)
      /\ f.wmax = Max({f.weights[i] : i \in 0 .. FileSize - 1})
  BY <1>2 DEF LoadedFrom
<1>6. \A i \in 1 .. n : times[i] \in Int
  <2> TAKE i \in 1 .. n
  <2>1. CASE i < n
    <3>1. i \in 1 .. n - 1
      BY <1>4, <2>1
    <3> QED
      BY <1>1, <1>3, <3>1, ExactSteps
  <2>2. CASE ~(i < n)
    <3>1. i - 1 \in 1 .. n - 1 /\ (i - 1) + 1 = i
      BY <1>4, <2>2
    <3>2. times[(i - 1) + 1] \in Int
      BY <1>1, <1>3, <3>1, ExactSteps
    <3> QED
      BY <3>1, <3>2
  <2> QED
    BY <2>1, <2>2
<1>7. /\ f.times.nt_file = n
      /\ Stepped(times, n, f.times.dt_p, f.times.time_index_mapping)
      /\ f.times.nt_logical = f.times.time_index_mapping[n - 1] + 1
  <2>1. /\ Len(times) \in Nat /\ (\A i \in 1 .. Len(times) : times[i] \in Int)
        /\ TimesOf(times).valid
    BY <1>4, <1>5, <1>6
  <2> HIDE DEF times
  <2>2. /\ TimesOf(times).nt_file = Len(times)
        /\ Stepped(times, Len(times), TimesOf(times).dt_p, TimesOf(times).time_index_mapping)
        /\ TimesOf(times).nt_logical = TimesOf(times).time_index_mapping[Len(times) - 1] + 1
    BY <2>1, TimesAre
  <2> QED
    BY <1>4, <1>5, <2>2
<1>8. f.times.dt_p = Dt => f.times.nt_logical = writer.curr_ipos - writer.initial_ipos
  <2> SUFFICES ASSUME f.times.dt_p = Dt
               PROVE  f.times.nt_logical = writer.curr_ipos - writer.initial_ipos
    OBVIOUS
  <2> DEFINE index == f.times.time_index_mapping
             last == appended[Len(appended)]
  <2>1. Stepped(times, n, Dt, index)
    BY <1>7
  <2>2. index[n - 1] = Position(appended, p, n) - Position(appended, p, 1)
    <3> HIDE DEF index
    <3> QED
      BY <1>1, <1>3, <2>1, LeapsIndex
  <2>3. /\ p[1].k = 1 /\ p[1].it = 0 /\ p[n].k = Len(appended)
        /\ p[n].it = appended[Len(appended)].nt - 1
        /\ p \in [1 .. n -> [k : 1 .. Len(appended), it : Nat]]
    BY <1>4 DEF Laid, Places
  <2>4. 1 \in 1 .. Len(appended) /\ Len(appended) \in 1 .. Len(appended)
    <3>1. p[1] \in [k : 1 .. Len(appended), it : Nat] /\ p[n] \in [k : 1 .. Len(appended), it : Nat]
      BY <1>4, <2>3
    <3> QED
      BY <2>3, <3>1
  <2>5. /\ appended[1].ipos \in Int /\ last.ipos \in Int /\ last.nt \in Int
    <3>1. ChunkOK(appended[1]) /\ ChunkOK(last)
      BY <1>4, <2>4 DEF Laid, Chained
    <3>2. appended[1].ipos \in Int /\ last.ipos \in Int /\ last.nt \in Lengths
      BY <3>1 DEF ChunkOK
    <3> QED
      BY <3>2, Constants
  <2>6. appended # <<>>
    BY <2>4
  <2>7. writer.initial_ipos = appended[1].ipos
    BY <2>6 DEF BooksInv, CountsInv
  <2>8. writer.curr_ipos = last.ipos + last.nt
    BY <1>1, <2>6 DEF FileInv, WriterInv
  <2>9. Position(appended, p, n) = last.ipos + (last.nt - 1)
        /\ Position(appended, p, 1) = appended[1].ipos + 0
    BY <2>3 DEF Position
  <2> HIDE DEF last, index
  <2>10. index[n - 1] + 1 = writer.curr_ipos - writer.initial_ipos
    BY <2>2, <2>5, <2>7, <2>8, <2>9
  <2> QED
    BY <1>7, <2>10 DEF index
<1>9. refused = 0 => f.wsum = writer.wsum /\ f.wmax = writer.wmax
  <2> SUFFICES ASSUME refused = 0 PROVE f.wsum = writer.wsum /\ f.wmax = writer.wmax
    OBVIOUS
  <2>1. Clean /\ Summed
    BY <1>1 DEF BooksInv, CleanInv, SummedInv
  <2>2. step \notin Calls
    BY DEF Calls
  <2>3. writer.wsum = FileSum /\ IsMax(writer.wmax, {0} \cup FileWeights)
    BY <2>1, <2>2 DEF Summed
  <2> DEFINE weights == Flat(file["weight"])
             size == Width * n
  <2>4. /\ size \in Nat \ {0}
        /\ \A i \in 0 .. size - 1 : weights[i] \in Int /\ weights[i] >= 0
        /\ SumOf(size, weights) = FileSum
        /\ {weights[i] : i \in 0 .. size - 1} = FileWeights
    BY <1>4, <2>1, WeightsRead
  <2>5. FileSize = size
    BY <1>4 DEF FileSize
  <2> HIDE DEF weights, size
  <2>6. IsMax(writer.wmax, {0} \cup {weights[i] : i \in 0 .. size - 1})
    BY <2>3, <2>4
  <2>7. Max({weights[i] : i \in 0 .. size - 1}) = writer.wmax
    BY <2>4, <2>6, MaximaAgree
  <2>8. f.weights = weights
    BY <1>5 DEF weights
  <2> QED
    BY <1>5, <2>3, <2>4, <2>5, <2>7, <2>8
<1>10. /\ f.band.increasing <=> args.freq0 < args.freq1
       /\ {f.band.lo, f.band.hi} = {args.freq0, args.freq1}
  <2>1. args \in Arguments
    BY <1>1 DEF TypeInv
  <2> QED
    BY <1>5, <2>1, BandIs
<1> QED
  BY <1>2, <1>4, <1>7, <1>8, <1>9, <1>10

(* A file written without drift and without failure is readable, its samples  *)
(* are those appended, and the summary that the destructor of the writer logs *)
(* is the one the constructor of the reader computes.                         *)
THEOREM UndamagedIsReadBack == ASSUME Hdf5Values PROVE Spec => []UndamagedReadsBack
<1>1. IInv /\ BooksInv => UndamagedReadsBack
  BY StateReadsBack
<1> QED
  BY <1>1, BooksKept, PTL

===============================================================================
