---------------------------- MODULE DataPath_proofs ----------------------------
(***************************************************************************)
(* Proofs about the data path, for every geometry, header, order of        *)
(* arrival and content: where the arrays of a datagram and of a chunk lie, *)
(* that files read back as they were written, and that the AVX2 code       *)
(* computes what the reference code computes.                              *)
(***************************************************************************)
EXTENDS DataPath, SequenceTheorems, FiniteSetTheorems, WellFoundedInduction, TLAPS

Counts(h) == {h.nbeams, h.nfreq_coarse, h.nupfreq, h.ntsamp} \subseteq Nat

(* A datagram of the right size holds what its header announces and no     *)
(* more.                                                                   *)
LEMMA DataFillsPacket ==
  ASSUME NEW h, NEW nbytes, Counts(h), SizeMatches(h, nbytes)
  PROVE  /\ Pointers(h).scales = Pointers(h).coarse_freq_ids + 2 * h.nfreq_coarse
         /\ Pointers(h).offsets = Pointers(h).scales + 4 * h.nbeams * h.nfreq_coarse
         /\ Pointers(h).data = Pointers(h).offsets + 4 * h.nbeams * h.nfreq_coarse
         /\ Pointers(h).data + h.nbeams * h.nfreq_coarse * h.nupfreq * h.ntsamp = nbytes
<1> DEFINE nb == h.nbeams  nf == h.nfreq_coarse
<1>1. nb \in Nat /\ nf \in Nat /\ h.nupfreq \in Nat /\ h.ntsamp \in Nat
  BY DEF Counts
<1> HIDE DEF nb, nf
<1>2. 8 * nb * nf = 4 * nb * nf + 4 * nb * nf
  BY <1>1
<1>3. 4 * nb * nf \in Nat /\ 8 * nb * nf \in Nat
  BY <1>1
<1>4. Pointers(h).data = HeaderSize(h) /\ nbytes = HeaderSize(h) + DataSize(h)
  BY DEF Pointers, SizeMatches
<1> QED
  BY <1>1, <1>2, <1>3, <1>4 DEF Pointers, HeaderSize, DataSize, nb, nf

(* A list that is not full is below both limits, and what is in it comes   *)
(* from the sender or is a stray; what was accepted is a stray whose size  *)
(* matches its header.                                                     *)
ListInv ==
  /\ incoming.npackets \in Nat /\ incoming.nbytes \in Nat
  /\ incoming.npackets <= MaxNpackets
  /\ ~incoming.is_full => ~List!IsFull(incoming.npackets, incoming.nbytes)
  /\ \A x \in incoming.buf : x.what.slot = Stray => x.what.header \in {s.header : s \in Strays}

AcceptedInv ==
  \A s \in accepted : s.header \in {t.header : t \in Strays} /\ SizeMatches(s.header, s.nbytes)

ScheduleInv == schedule \in Seq(DOMAIN Sky)

(* What the sender sends has a size, and a slot that is no Stray. *)
LEMMA SlotsAreNumbers ==
  ASSUME NEW slot \in DOMAIN Sky
  PROVE  Wires[slot].nbytes \in Nat /\ slot # Stray
<1> DEFINE nb == Cardinality(DOMAIN BeamIds)
           nf == Cardinality(DOMAIN CoarseFreqIds)
<1>1. nb \in Nat /\ nf \in Nat
  BY DataPathAssumption, FS_CardinalityType
<1>2. Nupfreq \in Nat /\ NtPerPacket \in Nat
  BY DataPathAssumption, ChunkAssumption DEF ValidGeometry
<1>3. Header(slot).nbeams = nb /\ Header(slot).nfreq_coarse = nf
      /\ Header(slot).nupfreq = Nupfreq /\ Header(slot).ntsamp = NtPerPacket
  BY SMTT(30) DEF Header
<1>4. Wires[slot].nbytes = 24 + 2 * nb + 2 * nf + 8 * nb * nf + nb * nf * (Nupfreq * NtPerPacket)
  BY <1>3 DEF Wires, Encoded
<1> HIDE DEF nb, nf
<1>5. 8 * nb * nf \in Nat /\ nb * nf \in Nat /\ Nupfreq * NtPerPacket \in Nat
  BY <1>1, <1>2
<1>6. nb * nf * (Nupfreq * NtPerPacket) \in Nat
  BY <1>5
<1>7. Wires[slot].nbytes \in Nat
  BY <1>1, <1>4, <1>5, <1>6
<1>8. slot # Stray
  BY DataPathAssumption DEF Stray
<1> QED
  BY <1>7, <1>8

LEMMA ReceiveListInv ==
  ASSUME ListInv, NEW what, NEW nbytes \in Nat, Receive(what, nbytes),
         what.slot = Stray => what.header \in {s.header : s \in Strays}
  PROVE  ListInv'
<1>1. CASE failed'
  <2>1. incoming' = incoming
    BY <1>1 DEF Receive
  <2> QED
    BY <2>1 DEF ListInv
<1>2. CASE ~failed'
  <2> DEFINE new == [at |-> incoming.nbytes, nbytes |-> nbytes, what |-> what]
  <2>1. incoming' = List!AddPacket(incoming, what, nbytes) /\ ~incoming.is_full
    BY <1>2 DEF Receive
  <2>2. /\ incoming'.npackets = incoming.npackets + 1
        /\ incoming'.nbytes = incoming.nbytes + nbytes
        /\ incoming'.is_full = List!IsFull(incoming.npackets + 1, incoming.nbytes + nbytes)
        /\ incoming'.buf \subseteq incoming.buf \union {new}
    BY <2>1 DEF List!AddPacket, List!DataEnd
  <2>6. ~incoming'.is_full => ~List!IsFull(incoming'.npackets, incoming'.nbytes)
    BY <2>2
  <2>3. incoming.npackets < MaxNpackets
    <3>1. ~(incoming.npackets >= MaxNpackets)
      BY <2>1 DEF ListInv, List!IsFull
    <3> QED
      BY <3>1, DataPathAssumption DEF ListInv
  <2>4. incoming'.npackets \in Nat /\ incoming'.nbytes \in Nat /\ incoming'.npackets <= MaxNpackets
    BY <2>2, <2>3, DataPathAssumption, SMTT(30) DEF ListInv
  <2>5. \A x \in incoming'.buf : x.what.slot = Stray => x.what.header \in {s.header : s \in Strays}
    <3>1. new.what = what
      OBVIOUS
    <3> HIDE DEF new
    <3> QED
      BY <2>2, <3>1 DEF ListInv
  <2> QED
    BY <2>4, <2>5, <2>6 DEF ListInv
<1> QED
  BY <1>1, <1>2

(* The list of incoming packets leaves room for one more datagram while it *)
(* is not full; and every datagram decode() accepts has a size that        *)
(* matches its header, so the arrays it points at end where the datagram   *)
(* ends.  This holds for every limit of the lists, every geometry and      *)
(* whatever datagrams arrive.                                              *)
THEOREM NothingGoesOutside == Spec => []NothingOutside
<1> DEFINE IInv == ScheduleInv /\ ListInv /\ AcceptedInv
<1>1. Init => IInv
  <2> SUFFICES ASSUME Init PROVE IInv
    OBVIOUS
  <2>1. /\ incoming.npackets = 0 /\ incoming.nbytes = 0 /\ incoming.is_full = FALSE
        /\ incoming.buf = {}
    BY DEF Init, List!Empty
  <2>2. ListInv
    <3>1. ~(0 >= MaxNpackets) /\ ~(0 >= MaxNbytes) /\ 0 <= MaxNpackets
      BY DataPathAssumption
    <3> QED
      BY <2>1, <3>1 DEF ListInv, List!IsFull
  <2> QED
    BY <2>2, DataPathAssumption DEF Init, AcceptedInv, ScheduleInv
<1>2. IInv /\ [Next]_vars => IInv'
  <2> SUFFICES ASSUME IInv, [Next]_vars PROVE IInv'
    OBVIOUS
  <2>1. CASE Arrive
    <3> DEFINE slot == Head(schedule)
               what == [slot |-> slot, header |-> Header(slot)]
    <3>1. Receive(what, AtMostRoom(Wires[slot].nbytes)) /\ UNCHANGED accepted
      BY <2>1 DEF Arrive
    <3>2. slot \in DOMAIN Sky /\ schedule' \in Seq(DOMAIN Sky)
      BY <2>1, HeadTailProperties DEF Arrive, ScheduleInv
    <3>3. Wires[slot].nbytes \in Nat /\ slot # Stray
      BY <3>2, SlotsAreNumbers
    <3>4. AtMostRoom(Wires[slot].nbytes) \in Nat
      BY <3>3, DataPathAssumption, PacketAssumption DEF AtMostRoom
    <3>5. what.slot # Stray
      BY <3>3
    <3> HIDE DEF what, slot
    <3> QED
      BY <3>1, <3>2, <3>4, <3>5, ReceiveListInv DEF AcceptedInv, ScheduleInv
  <2>2. CASE StrayArrives
    <3>1. PICK s \in Strays : Receive([slot |-> Stray, header |-> s.header], AtMostRoom(s.nbytes))
      BY <2>2 DEF StrayArrives
    <3> DEFINE what == [slot |-> Stray, header |-> s.header]
    <3>2. Receive(what, AtMostRoom(s.nbytes)) /\ what.header \in {t.header : t \in Strays}
      BY <3>1
    <3>3. AtMostRoom(s.nbytes) \in Nat
      BY DataPathAssumption, PacketAssumption DEF AtMostRoom
    <3>4. UNCHANGED <<schedule, accepted>>
      BY <2>2 DEF StrayArrives
    <3> HIDE DEF what
    <3> QED
      BY <3>2, <3>3, <3>4, ReceiveListInv DEF AcceptedInv, ScheduleInv
  <2>3. CASE ProcessPackets
    <3>1. incoming' = List!Empty
      BY <2>3 DEF ProcessPackets
    <3>2. /\ incoming'.npackets = 0 /\ incoming'.nbytes = 0 /\ incoming'.is_full = FALSE
          /\ incoming'.buf = {}
      BY <3>1 DEF List!Empty
    <3>3. ListInv'
      <4>1. ~(0 >= MaxNpackets) /\ ~(0 >= MaxNbytes) /\ 0 <= MaxNpackets
        BY DataPathAssumption
      <4> QED
        BY <3>2, <4>1 DEF ListInv, List!IsFull
    <3>4. ASSUME NEW s \in accepted', s \notin accepted
          PROVE  s.header \in {t.header : t \in Strays} /\ SizeMatches(s.header, s.nbytes)
      <4>1. PICK i \in 0 .. incoming.npackets - 1 :
              \E x \in List!PacketAt(incoming, i) :
                /\ x.what.slot = Stray /\ Acceptable(x.what.header, x.nbytes)
                /\ s = [header |-> x.what.header, nbytes |-> x.nbytes]
        BY <2>3, <3>4 DEF ProcessPackets
      <4>2. PICK x \in incoming.buf :
                /\ x.what.slot = Stray /\ Acceptable(x.what.header, x.nbytes)
                /\ s = [header |-> x.what.header, nbytes |-> x.nbytes]
        BY <4>1 DEF List!PacketAt
      <4>3. SizeMatches(x.what.header, x.nbytes)
        BY <4>2 DEF Acceptable
      <4> QED
        BY <4>2, <4>3 DEF ListInv
    <3>5. UNCHANGED schedule
      BY <2>3 DEF ProcessPackets
    <3> QED
      BY <3>3, <3>4, <3>5 DEF AcceptedInv, ScheduleInv
  <2>4. CASE UNCHANGED <<schedule, incoming, accepted>>
    BY <2>4 DEF ListInv, AcceptedInv, ScheduleInv
  <2>5. \/ Arrive \/ StrayArrives \/ ProcessPackets
        \/ UNCHANGED <<schedule, incoming, accepted>>
    BY DEF Next, FillMask, StartDownsample, Downsample, WriteTemp, Rename, ReadFile,
           Done, vars, listVars, fileVars
  <2> QED
    BY <2>1, <2>2, <2>3, <2>4, <2>5
<1>3. ListInv => RoomToRead
  <2> SUFFICES ASSUME ListInv
               PROVE  ~incoming.is_full => incoming.nbytes + ReadSize + 1 <= MaxNbytes + MaxPacketSize
    BY DEF RoomToRead, ListInv, List!DataEnd, List!BufSize
  <2>1. ~incoming.is_full => ~(incoming.nbytes >= MaxNbytes)
    BY DEF ListInv, List!IsFull
  <2> QED
    BY <2>1, DataPathAssumption, PacketAssumption DEF ListInv
<1>4. AcceptedInv => ArraysInsidePacket
  <2> SUFFICES ASSUME AcceptedInv, NEW s \in accepted
               PROVE  /\ Pointers(s.header).coarse_freq_ids = 24 + 2 * s.header.nbeams
                      /\ Pointers(s.header).scales =
                           Pointers(s.header).coarse_freq_ids + 2 * s.header.nfreq_coarse
                      /\ Pointers(s.header).offsets =
                           Pointers(s.header).scales + 4 * s.header.nbeams * s.header.nfreq_coarse
                      /\ Pointers(s.header).data =
                           Pointers(s.header).offsets + 4 * s.header.nbeams * s.header.nfreq_coarse
                      /\ Pointers(s.header).data
                           + s.header.nbeams * s.header.nfreq_coarse * s.header.nupfreq * s.header.ntsamp
                           = s.nbytes
    BY DEF ArraysInsidePacket
  <2>1. Counts(s.header) /\ SizeMatches(s.header, s.nbytes)
    <3>1. PICK t \in Strays : s.header = t.header /\ SizeMatches(s.header, s.nbytes)
      BY DEF AcceptedInv
    <3> QED
      BY <3>1, DataPathAssumption DEF Counts
  <2>2. Pointers(s.header).coarse_freq_ids = 24 + 2 * s.header.nbeams
    BY SMTT(30) DEF Pointers
  <2> QED
    BY <2>1, <2>2, DataFillsPacket
<1> QED
  BY <1>1, <1>2, <1>3, <1>4, PTL DEF Spec, NothingOutside

-----------------------------------------------------------------------------
(* encode() and decode() compute the places of the arrays independently:   *)
(* the size of an encoded packet is the one decode() expects, and each     *)
(* array is found where it was put.                                        *)
FoundIn(w, h, beam_ids, coarse_freq_ids, intensity, weight, cutoff) ==
  LET n == h.nupfreq * h.ntsamp
      blocks == 0 .. h.nbeams * h.nfreq_coarse - 1
      block(k) == EncodedBlock(intensity[k], weight[k], n, cutoff)
  IN  /\ SizeMatches(h, w.nbytes)
      /\ Decoded(w).header = h
      /\ Decoded(w).beam_ids = beam_ids
      /\ Decoded(w).coarse_freq_ids = coarse_freq_ids
      /\ Decoded(w).scales  = [k \in blocks |-> block(k).scale]
      /\ Decoded(w).offsets = [k \in blocks |-> block(k).offset]
      /\ Decoded(w).data = [i \in 0 .. h.nbeams * h.nfreq_coarse * n - 1 |->
                             block(i \div n).bytes[i % n]]

LEMMA FoundArrays ==
  ASSUME NEW w, NEW h, NEW beams, NEW freqs, NEW sky, NEW weight, NEW cutoff, NEW m, NEW n,
         h.nbeams * h.nfreq_coarse = m, h.nupfreq * h.ntsamp = n,
         FoundIn(w, h, beams, freqs, sky, weight, cutoff)
  PROVE  /\ Decoded(w).scales = [k \in 0 .. m - 1 |-> EncodedBlock(sky[k], weight[k], n, cutoff).scale]
         /\ Decoded(w).offsets = [k \in 0 .. m - 1 |-> EncodedBlock(sky[k], weight[k], n, cutoff).offset]
         /\ Decoded(w).data = [i \in 0 .. m * n - 1 |->
              EncodedBlock(sky[i \div n], weight[i \div n], n, cutoff).bytes[i % n]]
BY ZenonT(30) DEF FoundIn

(* decode() of src/intensity_packet.cpp finds in a datagram what encode() put *)
(* there, and the datagram has the size that decode() tests.                  *)
THEOREM DecodedAsEncoded ==
  ASSUME NEW h, NEW beam_ids, NEW coarse_freq_ids, NEW intensity, NEW weight, NEW cutoff,
         Counts(h), h.nbeams > 0, h.nfreq_coarse > 0, h.data_nbytes = DataSize(h)
  PROVE  FoundIn(Encoded(h, beam_ids, coarse_freq_ids, intensity, weight, cutoff),
                 h, beam_ids, coarse_freq_ids, intensity, weight, cutoff)
<1> DEFINE nb == h.nbeams
           nf == h.nfreq_coarse
           n == h.nupfreq * h.ntsamp
           blocks == 0 .. h.nbeams * h.nfreq_coarse - 1
           block(k) == EncodedBlock(intensity[k], weight[k], n, cutoff)
           scales  == [k \in blocks |-> block(k).scale]
           offsets == [k \in blocks |-> block(k).offset]
           data == [i \in 0 .. nb * nf * n - 1 |-> block(i \div n).bytes[i % n]]
           w == Encoded(h, beam_ids, coarse_freq_ids, intensity, weight, cutoff)
           place == << 24, 24 + 2 * nb, 24 + 2 * nb + 2 * nf,
                       24 + 2 * nb + 2 * nf + 4 * nb * nf, 24 + 2 * nb + 2 * nf + 8 * nb * nf >>
<1>1. nb \in Nat \ {0} /\ nf \in Nat \ {0} /\ h.nupfreq \in Nat /\ h.ntsamp \in Nat
  BY DEF Counts
<1>2. w.header = h /\ w.nbytes = 24 + 2 * nb + 2 * nf + 8 * nb * nf + nb * nf * n
  BY DEF Encoded
<1>3. SizeMatches(h, w.nbytes)
  <2>1. nb * nf * n = nb * nf * h.nupfreq * h.ntsamp
    BY <1>1
  <2> QED
    BY <1>2, <2>1 DEF SizeMatches, HeaderSize, DataSize
<1>4. ASSUME NEW j \in 1 .. 5, NEW k \in 1 .. 5, place[j] = place[k] PROVE j = k
  <2> HIDE DEF nb, nf
  <2>1. 4 * nb * nf \in Nat /\ 4 * nb * nf > 0 /\ 8 * nb * nf = 4 * nb * nf + 4 * nb * nf
    BY <1>1
  <2>2. place[1] < place[2] /\ place[2] < place[3]
    BY <1>1
  <2>3. place[3] < place[4] /\ place[4] < place[5]
    BY <1>1, <2>1
  <2>4. place[1] \in Nat /\ place[2] \in Nat /\ place[3] \in Nat /\ place[4] \in Nat /\ place[5] \in Nat
    BY <1>1, <2>1
  <2> HIDE DEF place
  <2>5. (j = 1 \/ j = 2 \/ j = 3 \/ j = 4 \/ j = 5) /\ (k = 1 \/ k = 2 \/ k = 3 \/ k = 4 \/ k = 5)
    OBVIOUS
  <2> QED
    BY <1>4, <2>2, <2>3, <2>4, <2>5
<1>5. \A k \in 1 .. 5 : w.mem[place[k]] = << beam_ids, coarse_freq_ids, scales, offsets, data >>[k]
  <2> DEFINE blk == [k \in blocks |-> block(k)]
             d1 == [i \in 0 .. nb * nf * n - 1 |-> blk[i \div n].bytes[i % n]]
             array(s, o) == << beam_ids, coarse_freq_ids, s, o, d1 >>
             mem(a) == [b \in {place[k] : k \in 1 .. 5} |-> a[CHOOSE k \in 1 .. 5 : place[k] = b]]
             s1 == [k \in blocks |-> blk[k].scale]
             o1 == [k \in blocks |-> blk[k].offset]
  <2>1. w.mem = mem(array(s1, o1))
    BY DEF Encoded
  <2>5. s1 = scales /\ o1 = offsets
    OBVIOUS
  <2>6. d1 = data
    <3> DEFINE I == 0 .. nb * nf * n - 1
    <3> SUFFICES ASSUME NEW i \in I PROVE i \div n \in blocks
      OBVIOUS
    <3> DEFINE m == nb * nf
               q == i \div n
               e == q - m
    <3>1. m \in Nat /\ n \in Nat /\ blocks = 0 .. m - 1
      BY <1>1
    <3>2. i \in Nat /\ i < m * n
      <4> HIDE DEF m, n
      <4>1. m * n \in Nat
        BY <3>1
      <4>2. i \in 0 .. m * n - 1
        BY DEF m, n
      <4> QED
        BY <4>1, <4>2
    <3> HIDE DEF m, n
    <3>3. n # 0
      BY <3>1, <3>2
    <3>4. q \in Nat /\ n * q <= i
      BY <3>1, <3>2, <3>3
    <3> HIDE DEF q
    <3>5. q < m
      <4> SUFFICES ASSUME q >= m PROVE FALSE
        BY <3>1, <3>4
      <4>1. e \in Nat /\ q = m + e
        BY <3>1, <3>4
      <4> HIDE DEF e
      <4>2. n * e \in Nat /\ m * n \in Nat /\ n * q = m * n + n * e
        BY <3>1, <4>1
      <4> QED
        BY <3>2, <3>4, <4>2
    <3> HIDE DEF blocks
    <3>6. q \in blocks
      BY <3>1, <3>4, <3>5
    <3> QED
      BY <3>6 DEF q
  <2> HIDE DEF blk, d1, s1, o1
  <2> HIDE DEF place, scales, offsets, data, w
  <2> SUFFICES ASSUME NEW k \in 1 .. 5
               PROVE  w.mem[place[k]] = << beam_ids, coarse_freq_ids, scales, offsets, data >>[k]
    OBVIOUS
  <2>2. (CHOOSE j \in 1 .. 5 : place[j] = place[k]) = k
    BY <1>4
  <2>3. w.mem[place[k]] = << beam_ids, coarse_freq_ids, s1, o1, d1 >>[k]
    BY <2>1, <2>2, SMTT(30)
  <2> QED
    BY <2>3, <2>5, <2>6
<1>6. /\ Decoded(w).header = h
      /\ Decoded(w).beam_ids = w.mem[place[1]]
      /\ Decoded(w).coarse_freq_ids = w.mem[place[2]]
      /\ Decoded(w).scales = w.mem[place[3]]
      /\ Decoded(w).offsets = w.mem[place[4]]
      /\ Decoded(w).data = w.mem[place[5]]
  <2> HIDE DEF w
  <2> QED
    BY <1>2 DEF Decoded, Pointers, HeaderSize
<1> HIDE DEF place, w, scales, offsets, data
<1>7. /\ Decoded(w).beam_ids = beam_ids /\ Decoded(w).coarse_freq_ids = coarse_freq_ids
      /\ Decoded(w).scales = scales /\ Decoded(w).offsets = offsets /\ Decoded(w).data = data
  BY <1>5, <1>6
<1> QED
  BY <1>3, <1>6, <1>7 DEF w, scales, offsets, data, FoundIn

-----------------------------------------------------------------------------
(* Rounding up to a multiple of 64. *)
LEMMA AlignBounds ==
  ASSUME NEW n \in Nat
  PROVE  align(n) \in Nat /\ align(n) >= n /\ align(n) % 64 = 0
  BY DEF align

(* The arrays of a chunk follow each other in its slab without overlap,    *)
(* within the slab, each at a multiple of 64 bytes as the aligned loads of *)
(* the AVX2 kernels require, for every geometry the constructor accepts.   *)
THEOREM ArraysDisjoint ==
  ASSUME NEW nupfreq, NEW nt_per_packet, NEW nrfifreq \in Int,
         ValidGeometry(nupfreq, nt_per_packet, nrfifreq)
  PROVE  LET l == memory_slab_layout(nupfreq, nt_per_packet, nrfifreq)
         IN  /\ \A k \in 1 .. 7 : l.ib[Arrays[k]] % 64 = 0
             /\ \A k \in 1 .. 6 : l.ib[Arrays[k]] + l.nb[Arrays[k]] <= l.ib[Arrays[k + 1]]
             /\ l.ib["ds_w2"] + l.nb["ds_w2"] <= l.slab_size
<1> DEFINE l == memory_slab_layout(nupfreq, nt_per_packet, nrfifreq)
<1>1. nupfreq \in Nat /\ nt_per_packet \in Nat \ {0} /\ nrfifreq \in Nat
  BY ChunkAssumption DEF ValidGeometry
<1>2. /\ l.nb.data \in Nat /\ l.nb.scales \in Nat /\ l.nb.offsets \in Nat /\ l.nb.rfi_mask \in Nat
      /\ l.nb.ds_data \in Nat /\ l.nb.ds_mask \in Nat /\ l.nb.ds_w2 \in Nat
  <2> DEFINE nt_c == NtPerChunk \div nt_per_packet
  <2>1. nt_c \in Nat /\ NfreqCoarseTot \in Nat /\ NtPerChunk \in Nat
    BY <1>1, ChunkAssumption, PacketAssumption
  <2>2. l.nb = [data |-> NfreqCoarseTot * nupfreq * NtPerChunk,
                scales |-> 4 * (NfreqCoarseTot * nt_c), offsets |-> 4 * (NfreqCoarseTot * nt_c),
                rfi_mask |-> (nrfifreq * NtPerChunk) \div 8,
                ds_data |-> 4 * (nupfreq * (NtPerChunk \div 2)),
                ds_mask |-> 4 * (nupfreq * (NtPerChunk \div 2)), ds_w2 |-> 4 * (nt_c \div 2)]
    BY DEF memory_slab_layout
  <2> HIDE DEF nt_c, l
  <2>3. NfreqCoarseTot * nupfreq \in Nat /\ NfreqCoarseTot * nt_c \in Nat
        /\ nrfifreq * NtPerChunk \in Nat /\ nupfreq * (NtPerChunk \div 2) \in Nat
    BY <1>1, <2>1
  <2>4. NfreqCoarseTot * nupfreq * NtPerChunk \in Nat
    BY <2>1, <2>3, SMTT(30)
  <2> QED
    BY <2>1, <2>2, <2>3, <2>4
<1>3. /\ l.ib.data = 0
      /\ l.ib.scales = align(l.nb.data)
      /\ l.ib.offsets = align(l.ib.scales + l.nb.scales)
      /\ l.ib.rfi_mask = align(l.ib.offsets + l.nb.offsets)
      /\ l.ib.ds_data = align(l.ib.rfi_mask + l.nb.rfi_mask)
      /\ l.ib.ds_mask = align(l.ib.ds_data + l.nb.ds_data)
      /\ l.ib.ds_w2 = align(l.ib.ds_mask + l.nb.ds_mask)
      /\ l.slab_size = align(l.ib.ds_w2 + l.nb.ds_w2)
  BY DEF memory_slab_layout
<1> HIDE DEF l
<1>4. l.ib.scales \in Nat /\ l.ib.scales >= l.nb.data /\ l.ib.scales % 64 = 0
  BY <1>2, <1>3, AlignBounds
<1>5. l.ib.offsets \in Nat /\ l.ib.offsets >= l.ib.scales + l.nb.scales /\ l.ib.offsets % 64 = 0
  BY <1>2, <1>3, <1>4, AlignBounds
<1>6. l.ib.rfi_mask \in Nat /\ l.ib.rfi_mask >= l.ib.offsets + l.nb.offsets /\ l.ib.rfi_mask % 64 = 0
  BY <1>2, <1>3, <1>5, AlignBounds
<1>7. l.ib.ds_data \in Nat /\ l.ib.ds_data >= l.ib.rfi_mask + l.nb.rfi_mask /\ l.ib.ds_data % 64 = 0
  BY <1>2, <1>3, <1>6, AlignBounds
<1>8. l.ib.ds_mask \in Nat /\ l.ib.ds_mask >= l.ib.ds_data + l.nb.ds_data /\ l.ib.ds_mask % 64 = 0
  BY <1>2, <1>3, <1>7, AlignBounds
<1>9. l.ib.ds_w2 \in Nat /\ l.ib.ds_w2 >= l.ib.ds_mask + l.nb.ds_mask /\ l.ib.ds_w2 % 64 = 0
  BY <1>2, <1>3, <1>8, AlignBounds
<1>10. l.slab_size >= l.ib.ds_w2 + l.nb.ds_w2
  BY <1>2, <1>3, <1>9, AlignBounds
<1>11. \A k \in 1 .. 7 : l.ib[Arrays[k]] % 64 = 0
  BY <1>3, <1>4, <1>5, <1>6, <1>7, <1>8, <1>9 DEF Arrays
<1>12. \A k \in 1 .. 6 : l.ib[Arrays[k]] + l.nb[Arrays[k]] <= l.ib[Arrays[k + 1]]
  <2>1. /\ l.ib.data + l.nb.data <= l.ib.scales
        /\ l.ib.scales + l.nb.scales <= l.ib.offsets
        /\ l.ib.offsets + l.nb.offsets <= l.ib.rfi_mask
        /\ l.ib.rfi_mask + l.nb.rfi_mask <= l.ib.ds_data
        /\ l.ib.ds_data + l.nb.ds_data <= l.ib.ds_mask
        /\ l.ib.ds_mask + l.nb.ds_mask <= l.ib.ds_w2
    BY <1>2, <1>3, <1>4, <1>5, <1>6, <1>7, <1>8, <1>9
  <2>2. ASSUME NEW k \in 1 .. 6
        PROVE  k = 1 \/ k = 2 \/ k = 3 \/ k = 4 \/ k = 5 \/ k = 6
    OBVIOUS
  <2>3. /\ Arrays[1] = "data" /\ Arrays[2] = "scales" /\ Arrays[3] = "offsets"
        /\ Arrays[4] = "rfi_mask" /\ Arrays[5] = "ds_data" /\ Arrays[6] = "ds_mask"
        /\ Arrays[7] = "ds_w2"
    BY DEF Arrays
  <2> DEFINE Follows(k) == l.ib[Arrays[k]] + l.nb[Arrays[k]] <= l.ib[Arrays[k + 1]]
  <2>4. Follows(1) /\ Follows(2) /\ Follows(3) /\ Follows(4) /\ Follows(5) /\ Follows(6)
    BY <2>1, <2>3
  <2> HIDE DEF Follows
  <2>5. \A k \in 1 .. 6 : Follows(k)
    BY <2>2, <2>4
  <2> QED
    BY <2>5 DEF Follows
<1> QED
  BY <1>10, <1>11, <1>12 DEF l

LEMMA NatSetInduction ==
  ASSUME NEW S, 0 \in S, \A n \in Nat : n \in S => n + 1 \in S
  PROVE  Nat \subseteq S
<1> SUFFICES ASSUME Nat \ S # {} PROVE FALSE
  OBVIOUS
<1>1. IsWellFoundedOn(OpToRel(<, Nat), Nat)
  BY NatLessThanWellFounded
<1>2. PICK least \in Nat \ S : \A n \in Nat \ S : ~(<<n, least>> \in OpToRel(<, Nat))
  BY <1>1, WFMin
<1>3. \A n \in Nat : n < least => n \in S
  BY <1>2 DEF OpToRel
<1>4. least # 0 /\ least - 1 \in Nat /\ least - 1 < least
  OBVIOUS
<1>5. least - 1 \in S
  BY <1>3, <1>4
<1>6. (least - 1) + 1 = least
  OBVIOUS
<1> QED
  BY <1>4, <1>5, <1>6

(* An array that starts and ends where it should, whatever is in it. *)
IsArrayOn(a, D) == a = [i \in D |-> a[i]]

LEMMA MemcpyKeeps ==
  ASSUME NEW dst, NEW D, IsArrayOn(dst, D), NEW at, NEW src, NEW from, NEW n
  PROVE  IsArrayOn(Memcpy(dst, at, src, from, n), D)
<1>1. DOMAIN dst = D
  BY DEF IsArrayOn
<1> QED
  BY <1>1 DEF Memcpy, IsArrayOn

(* Two rows of a coarse frequency at a time: what iteration k of           *)
(* AddPacketKernel makes of the data.                                      *)
RowsCopied(data, k, at, src, from) ==
  LET x == Load(src, from + 32 * k, 32)
  IN  Memcpy(Memcpy(data, at + 2 * k * NtPerChunk, x, 0, 16), at + (2 * k + 1) * NtPerChunk, x, 16, 16)

LEMMA AddPacketKernelKeeps ==
  ASSUME NEW dst, NEW D, IsArrayOn(dst, D), NEW at, NEW src, NEW from, NEW nupfreq \in Nat
  PROVE  IsArrayOn(AddPacketKernel(dst, at, src, from, nupfreq), D)
<1> DEFINE step(f, k) == IF k = 0 THEN dst ELSE RowsCopied(f[k - 1], k - 1, at, src, from)
           S == {n \in Nat : \E f : f = [k \in 0 .. n |-> step(f, k)]}
           n == nupfreq \div 2
           after == CHOOSE f : f = [k \in 0 .. n |-> step(f, k)]
           T == {k \in Nat : k <= n => IsArrayOn(after[k], D)}
<1>1. AddPacketKernel(dst, at, src, from, nupfreq) = after[n]
  BY DEF AddPacketKernel, Loop, RowsCopied
<1>2. 0 \in S
  <2> DEFINE f == [k \in 0 .. 0 |-> dst]
  <2>1. f = [k \in 0 .. 0 |-> step(f, k)]
    OBVIOUS
  <2> QED
    BY <2>1
<1>3. ASSUME NEW m \in Nat, m \in S PROVE m + 1 \in S
  <2>1. PICK f : f = [k \in 0 .. m |-> step(f, k)]
    BY <1>3
  <2> DEFINE g == [k \in 0 .. m + 1 |-> IF k <= m THEN f[k] ELSE step(f, k)]
  <2>2. ASSUME NEW k \in 0 .. m + 1 PROVE g[k] = step(g, k)
    <3>1. step(g, k) = step(f, k)
      OBVIOUS
    <3>2. k <= m => f[k] = step(f, k)
      <4>1. k <= m => k \in 0 .. m
        OBVIOUS
      <4> QED
        BY <2>1, <4>1, Zenon
    <3> QED
      BY <3>1, <3>2
  <2>3. g = [k \in 0 .. m + 1 |-> step(g, k)]
    BY <2>2, Zenon
  <2> HIDE DEF g, step
  <2> QED
    BY <2>3
<1>4. n \in Nat
  OBVIOUS
<1>5. n \in S
  BY <1>2, <1>3, <1>4, NatSetInduction
<1>6. \A k \in 0 .. n : after[k] = step(after, k)
  <2>1. after = [k \in 0 .. n |-> step(after, k)]
    BY <1>5, Zenon
  <2> QED
    BY <2>1, Zenon
<1> HIDE DEF after, n
<1>7. 0 \in T
  BY <1>4, <1>6
<1>8. ASSUME NEW k \in Nat, k \in T PROVE k + 1 \in T
  <2> SUFFICES ASSUME k + 1 <= n PROVE IsArrayOn(after[k + 1], D)
    OBVIOUS
  <2>1. IsArrayOn(after[k], D) /\ k + 1 \in 0 .. n /\ k + 1 # 0 /\ (k + 1) - 1 = k
    BY <1>8, <1>4
  <2>2. after[k + 1] = RowsCopied(after[k], k, at, src, from)
    BY <1>6, <2>1
  <2> QED
    BY <2>1, <2>2, MemcpyKeeps DEF RowsCopied
<1>9. n \in T
  BY <1>4, <1>7, <1>8, NatSetInduction
<1> QED
  BY <1>1, <1>4, <1>9

-----------------------------------------------------------------------------
(* A chunk with the header and the arrays of the blank one, whatever is in *)
(* the arrays.                                                             *)
HeaderFields == {"beam_id", "nupfreq", "nt_per_packet", "nrfifreq", "fpga_counts_per_sample",
                 "binning", "ichunk", "frame0_nano", "fpga_begin", "fpga_end"}
ArrayFields == {"data", "scales", "offsets", "rfi_mask"}
OtherFields == {"has_rfi_mask", "packets_received", "ds_data", "ds_mask", "ds_w2"}

Shaped(c, blank) ==
  /\ c = [f \in HeaderFields \cup ArrayFields \cup OtherFields |-> c[f]]
  /\ \A f \in HeaderFields : c[f] = blank[f]
  /\ \A f \in ArrayFields : IsArrayOn(c[f], DOMAIN blank[f])
  /\ c.has_rfi_mask \in BOOLEAN

LEMMA BlankIsShaped ==
  ASSUME NEW binning, NEW ichunk
  PROVE  Shaped(BlankChunk(binning, ichunk), BlankChunk(binning, ichunk))
<1> DEFINE b == BlankChunk(binning, ichunk)
<1>1. b = [f \in HeaderFields \cup ArrayFields \cup OtherFields |-> b[f]]
  BY DEF BlankChunk, NewChunk, HeaderFields, ArrayFields, OtherFields
<1>2. \A f \in ArrayFields : IsArrayOn(b[f], DOMAIN b[f])
  <2>1. \A n : IsArrayOn(Zeros(n), DOMAIN Zeros(n))
    BY DEF IsArrayOn, Zeros
  <2>2. \A f \in ArrayFields : \E n : b[f] = Zeros(n)
    <3>1. /\ \E n : b.data = Zeros(n)
          /\ \E n : b.scales = Zeros(n)
          /\ \E n : b.offsets = Zeros(n)
          /\ \E n : b.rfi_mask = Zeros(n)
      BY DEF BlankChunk, NewChunk
    <3> HIDE DEF b
    <3> QED
      BY <3>1 DEF ArrayFields
  <2> HIDE DEF b
  <2> QED
    BY <2>1, <2>2, Zenon
<1>3. b.has_rfi_mask \in BOOLEAN
  BY DEF BlankChunk, NewChunk
<1> QED
  BY <1>1, <1>2, <1>3 DEF Shaped

(* Another array in place of one of a chunk. *)
LEMMA ArrayReplaced ==
  ASSUME NEW c, NEW blank, Shaped(c, blank), NEW g \in ArrayFields, NEW a,
         IsArrayOn(a, DOMAIN blank[g])
  PROVE  Shaped([c EXCEPT ![g] = a], blank)
<1> DEFINE d == [c EXCEPT ![g] = a]
<1>1. d = [f \in HeaderFields \cup ArrayFields \cup OtherFields |-> IF f = g THEN a ELSE c[f]]
  BY DEF Shaped
<1>2. g \notin HeaderFields /\ g # "has_rfi_mask"
  BY DEF HeaderFields, ArrayFields
<1>3. "has_rfi_mask" \in OtherFields
  BY DEF OtherFields
<1> HIDE DEF d
<1>4. d = [f \in HeaderFields \cup ArrayFields \cup OtherFields |-> d[f]]
  BY <1>1
<1>5. \A f \in HeaderFields : d[f] = blank[f]
  BY <1>1, <1>2 DEF Shaped
<1>6. \A f \in ArrayFields : IsArrayOn(d[f], DOMAIN blank[f])
  BY <1>1 DEF Shaped
<1>7. d.has_rfi_mask \in BOOLEAN
  BY <1>1, <1>2, <1>3 DEF Shaped
<1>8. Shaped(d, blank)
  BY <1>4, <1>5, <1>6, <1>7 DEF Shaped
<1> QED
  BY <1>8 DEF d

LEMMA EntryReplaced ==
  ASSUME NEW a, NEW D, IsArrayOn(a, D), NEW i, NEW x
  PROVE  IsArrayOn([a EXCEPT ![i] = x], D)
BY DEF IsArrayOn

LEMMA WithScalesKeeps ==
  ASSUME NEW c, NEW blank, Shaped(c, blank), NEW p, NEW f
  PROVE  Shaped(WithScales(c, p, f), blank)
<1> DEFINE d == p.coarse_freq_ids[f] * NtCoarse(c) + (PlaceInChunk(c, p) \div c.nt_per_packet)
           s == [c.scales EXCEPT ![d] = p.scales[f]]
           o == [c.offsets EXCEPT ![d] = p.offsets[f]]
           c1 == [c EXCEPT !["scales"] = s]
           c2 == [c1 EXCEPT !["offsets"] = o]
<1>1. "scales" \in ArrayFields /\ "offsets" \in ArrayFields
  BY DEF ArrayFields
<1>2. IsArrayOn(c.scales, DOMAIN blank["scales"]) /\ IsArrayOn(c.offsets, DOMAIN blank["offsets"])
  BY <1>1 DEF Shaped
<1>3. WithScales(c, p, f) = c2
  <2>1. c1.offsets = c.offsets
    BY <1>1 DEF Shaped
  <2>2. WithScales(c, p, f) = [c EXCEPT !.scales[d] = p.scales[f], !.offsets[d] = p.offsets[f]]
    BY DEF WithScales
  <2> HIDE DEF d
  <2> QED
    BY <2>1, <2>2
<1> HIDE DEF d
<1>4. IsArrayOn(s, DOMAIN blank["scales"]) /\ IsArrayOn(o, DOMAIN blank["offsets"])
  BY <1>2, EntryReplaced
<1> HIDE DEF s, o
<1>5. Shaped(c1, blank)
  BY <1>1, <1>4, ArrayReplaced
<1> HIDE DEF c1
<1>6. Shaped(c2, blank)
  BY <1>1, <1>4, <1>5, ArrayReplaced
<1> QED
  BY <1>3, <1>6

(* What fast_assembled_chunk::add_packet() does with coarse frequency f. *)
FreqCopied(c, acc, p, f) ==
  [WithScales(acc, p, f) EXCEPT
     !.data = AddPacketKernel(@, p.coarse_freq_ids[f] * c.nupfreq * NtPerChunk + PlaceInChunk(c, p),
                              p.data, f * c.nupfreq * 16, c.nupfreq)]

LEMMA FreqCopiedKeeps ==
  ASSUME NEW c, NEW acc, NEW blank, Shaped(acc, blank), c.nupfreq \in Nat, NEW p, NEW f
  PROVE  Shaped(FreqCopied(c, acc, p, f), blank)
<1> DEFINE w == WithScales(acc, p, f)
           at == p.coarse_freq_ids[f] * c.nupfreq * NtPerChunk + PlaceInChunk(c, p)
           from == f * c.nupfreq * 16
           a == AddPacketKernel(w.data, at, p.data, from, c.nupfreq)
<1>1. Shaped(w, blank) /\ "data" \in ArrayFields
  BY WithScalesKeeps DEF ArrayFields
<1>2. FreqCopied(c, acc, p, f) = [w EXCEPT !["data"] = a]
  BY <1>1 DEF FreqCopied, Shaped
<1> HIDE DEF w, at, from
<1>3. IsArrayOn(w.data, DOMAIN blank["data"])
  BY <1>1 DEF Shaped
<1>4. IsArrayOn(a, DOMAIN blank["data"])
  BY <1>3, AddPacketKernelKeeps
<1> HIDE DEF a
<1> DEFINE d == [w EXCEPT !["data"] = a]
<1>5. Shaped(d, blank)
  BY <1>1, <1>4, ArrayReplaced
<1>6. FreqCopied(c, acc, p, f) = d
  BY <1>2
<1> HIDE DEF d
<1> QED
  BY <1>5, <1>6

LEMMA FastAddPacketKeeps ==
  ASSUME NEW c, NEW blank, Shaped(c, blank), blank.nupfreq \in Nat,
         NEW p, p.header.nfreq_coarse \in Nat
  PROVE  Shaped(FastAddPacket(c, p), blank)
<1> DEFINE step(f, k) == IF k = 0 THEN c ELSE FreqCopied(c, f[k - 1], p, k - 1)
           S == {n \in Nat : \E f : f = [k \in 0 .. n |-> step(f, k)]}
           n == p.header.nfreq_coarse
           after == CHOOSE f : f = [k \in 0 .. n |-> step(f, k)]
           T == {k \in Nat : k <= n => Shaped(after[k], blank)}
<1>1. FastAddPacket(c, p) = after[n]
  BY DEF FastAddPacket, Loop, FreqCopied
<1>2. 0 \in S
  <2> DEFINE f == [k \in 0 .. 0 |-> c]
  <2>1. f = [k \in 0 .. 0 |-> step(f, k)]
    OBVIOUS
  <2> QED
    BY <2>1
<1>3. ASSUME NEW m \in Nat, m \in S PROVE m + 1 \in S
  <2>1. PICK f : f = [k \in 0 .. m |-> step(f, k)]
    BY <1>3
  <2> DEFINE g == [k \in 0 .. m + 1 |-> IF k <= m THEN f[k] ELSE step(f, k)]
  <2>2. ASSUME NEW k \in 0 .. m + 1 PROVE g[k] = step(g, k)
    <3>1. step(g, k) = step(f, k)
      OBVIOUS
    <3>2. k <= m => f[k] = step(f, k)
      <4>1. k <= m => k \in 0 .. m
        OBVIOUS
      <4> QED
        BY <2>1, <4>1, Zenon
    <3> QED
      BY <3>1, <3>2
  <2>3. g = [k \in 0 .. m + 1 |-> step(g, k)]
    BY <2>2, Zenon
  <2> HIDE DEF g, step
  <2> QED
    BY <2>3
<1>4. n \in Nat
  OBVIOUS
<1>5. n \in S
  BY <1>2, <1>3, <1>4, NatSetInduction
<1>6. \A k \in 0 .. n : after[k] = step(after, k)
  <2>1. after = [k \in 0 .. n |-> step(after, k)]
    BY <1>5, Zenon
  <2> QED
    BY <2>1, Zenon
<1> HIDE DEF after, n
<1>7. c.nupfreq \in Nat
  BY DEF Shaped, HeaderFields
<1>8. 0 \in T
  BY <1>4, <1>6
<1>9. ASSUME NEW k \in Nat, k \in T PROVE k + 1 \in T
  <2> SUFFICES ASSUME k + 1 <= n PROVE Shaped(after[k + 1], blank)
    OBVIOUS
  <2>1. Shaped(after[k], blank) /\ k + 1 \in 0 .. n /\ k + 1 # 0 /\ (k + 1) - 1 = k
    BY <1>9, <1>4
  <2>2. after[k + 1] = FreqCopied(c, after[k], p, k)
    BY <1>6, <2>1
  <2> QED
    BY <1>7, <2>1, <2>2, FreqCopiedKeeps
<1>10. n \in T
  BY <1>4, <1>8, <1>9, NatSetInduction
<1> QED
  BY <1>1, <1>4, <1>10

-----------------------------------------------------------------------------
(* The two chunks of the beam that fast_assembled_chunk keeps. *)
PairShaped(cs) ==
  /\ cs = [h \in Halves |-> cs[h]]
  /\ \A h \in Halves : Shaped(cs[h], BlankChunk(1, FirstIchunk + h))

(* What the assembler does with beam ib of a packet. *)
BeamPut(cs, ib, p) ==
  LET ichunk == (p.header.fpga_count \div FpgaPerSample) \div NtPerChunk
      q == OneBeam(p, ib)
  IN  IF q.beam_ids[0] # MyBeam THEN cs
      ELSE [cs EXCEPT ![ichunk - FirstIchunk] = Added1("fast", @, q)]

(* A packet with the header of one of the stream. *)
OfStream(p) ==
  /\ p = [f \in {"header", "beam_ids", "coarse_freq_ids", "scales", "offsets", "data"} |-> p[f]]
  /\ \E slot : p.header = Header(slot)

LEMMA BlankNupfreq ==
  ASSUME NEW binning, NEW ichunk
  PROVE  BlankChunk(binning, ichunk).nupfreq \in Nat
<1>1. BlankChunk(binning, ichunk).nupfreq = Nupfreq
  BY DEF BlankChunk, NewChunk
<1> QED
  BY <1>1, DataPathAssumption, ChunkAssumption DEF ValidGeometry

LEMMA BeamPutKeeps ==
  ASSUME NEW cs, PairShaped(cs), NEW ib, NEW p, OfStream(p)
  PROVE  PairShaped(BeamPut(cs, ib, p))
<1> DEFINE q == OneBeam(p, ib)
           j == ((p.header.fpga_count \div FpgaPerSample) \div NtPerChunk) - FirstIchunk
           ds == [cs EXCEPT ![j] = FastAddPacket(cs[j], q)]
<1>1. BeamPut(cs, ib, p) = cs \/ BeamPut(cs, ib, p) = ds
  <2>1. \A c : Added1("fast", c, q) = FastAddPacket(c, q)
    BY DEF Added1
  <2> QED
    BY <2>1 DEF BeamPut
<1>2. q.header.nfreq_coarse \in Nat
  <2>1. PICK slot : p.header = Header(slot)
    BY DEF OfStream
  <2>2. q.header.nfreq_coarse = Cardinality(DOMAIN CoarseFreqIds)
    <3> DEFINE hd == [[p.header EXCEPT !.data_nbytes = p.header.nfreq_coarse * p.header.nupfreq * p.header.ntsamp]
                        EXCEPT !.nbeams = 1]
    <3>1. q.header = hd
      BY DEF OfStream, OneBeam
    <3>2. hd.nfreq_coarse = p.header.nfreq_coarse
      BY <2>1 DEF Header
    <3>3. p.header.nfreq_coarse = Cardinality(DOMAIN CoarseFreqIds)
      BY <2>1 DEF Header
    <3> HIDE DEF hd, q
    <3> QED
      BY <3>1, <3>2, <3>3
  <2> QED
    BY <2>2, DataPathAssumption, FS_CardinalityType
<1> HIDE DEF q, j
<1>3. ds = [h \in Halves |-> ds[h]]
  BY DEF PairShaped
<1>4. ASSUME NEW h \in Halves PROVE Shaped(ds[h], BlankChunk(1, FirstIchunk + h))
  <2>1. Shaped(cs[h], BlankChunk(1, FirstIchunk + h))
    BY DEF PairShaped
  <2>2. Shaped(FastAddPacket(cs[h], q), BlankChunk(1, FirstIchunk + h))
    BY <1>2, <2>1, BlankNupfreq, FastAddPacketKeeps
  <2>3. ds[h] = IF h = j THEN FastAddPacket(cs[h], q) ELSE cs[h]
    BY DEF PairShaped
  <2> QED
    BY <2>1, <2>2, <2>3
<1> HIDE DEF ds
<1>5. PairShaped(ds)
  BY <1>3, <1>4 DEF PairShaped
<1> QED
  BY <1>1, <1>5

LEMMA PutPacketKeeps ==
  ASSUME NEW cs, PairShaped(cs), NEW p, OfStream(p)
  PROVE  PairShaped(PutPacket(cs, "fast", p))
<1> DEFINE step(f, k) == IF k = 0 THEN cs ELSE BeamPut(f[k - 1], k - 1, p)
           S == {n \in Nat : \E f : f = [k \in 0 .. n |-> step(f, k)]}
           n == p.header.nbeams
           after == CHOOSE f : f = [k \in 0 .. n |-> step(f, k)]
           T == {k \in Nat : k <= n => PairShaped(after[k])}
<1>1. PutPacket(cs, "fast", p) = after[n]
  BY DEF PutPacket, Loop, BeamPut
<1>2. 0 \in S
  <2> DEFINE f == [k \in 0 .. 0 |-> cs]
  <2>1. f = [k \in 0 .. 0 |-> step(f, k)]
    OBVIOUS
  <2> QED
    BY <2>1
<1>3. ASSUME NEW m \in Nat, m \in S PROVE m + 1 \in S
  <2>1. PICK f : f = [k \in 0 .. m |-> step(f, k)]
    BY <1>3
  <2> DEFINE g == [k \in 0 .. m + 1 |-> IF k <= m THEN f[k] ELSE step(f, k)]
  <2>2. ASSUME NEW k \in 0 .. m + 1 PROVE g[k] = step(g, k)
    <3>1. step(g, k) = step(f, k)
      OBVIOUS
    <3>2. k <= m => f[k] = step(f, k)
      <4>1. k <= m => k \in 0 .. m
        OBVIOUS
      <4> QED
        BY <2>1, <4>1, Zenon
    <3> QED
      BY <3>1, <3>2
  <2>3. g = [k \in 0 .. m + 1 |-> step(g, k)]
    BY <2>2, Zenon
  <2> HIDE DEF g, step
  <2> QED
    BY <2>3
<1>4. n \in Nat
  <2>1. n = Cardinality(DOMAIN BeamIds)
    BY DEF OfStream, Header
  <2> QED
    BY <2>1, DataPathAssumption, FS_CardinalityType
<1>5. n \in S
  BY <1>2, <1>3, <1>4, NatSetInduction
<1>6. \A k \in 0 .. n : after[k] = step(after, k)
  <2>1. after = [k \in 0 .. n |-> step(after, k)]
    BY <1>5, Zenon
  <2> QED
    BY <2>1, Zenon
<1> HIDE DEF after, n
<1>7. 0 \in T
  BY <1>4, <1>6
<1>8. ASSUME NEW k \in Nat, k \in T PROVE k + 1 \in T
  <2> SUFFICES ASSUME k + 1 <= n PROVE PairShaped(after[k + 1])
    OBVIOUS
  <2>1. PairShaped(after[k]) /\ k + 1 \in 0 .. n /\ k + 1 # 0 /\ (k + 1) - 1 = k
    BY <1>8, <1>4
  <2>2. after[k + 1] = BeamPut(after[k], k, p)
    BY <1>6, <2>1
  <2> QED
    BY <2>1, <2>2, BeamPutKeeps
<1>9. n \in T
  BY <1>4, <1>7, <1>8, NatSetInduction
<1> QED
  BY <1>1, <1>4, <1>9

-----------------------------------------------------------------------------
(* A file reads back as the chunk it was written from, whatever became of  *)
(* the compression: pack_assembled_chunk() and unpack_assembled_chunk()    *)
(* describe the same chunk, for every geometry, every chunk of it and      *)
(* whatever its arrays hold.  A stream with an RFI chain writes a chunk    *)
(* only with its mask.                                                     *)
THEOREM FileReadsBack ==
  ASSUME NEW binning \in Nat, NEW ichunk \in Nat,
         NEW c, Shaped(c, BlankChunk(binning, ichunk)), NrfiFreq > 0 => c.has_rfi_mask,
         NEW outcome
  PROVE  LET r == unpack_assembled_chunk(pack_assembled_chunk(c, outcome))
         IN  r # Unreadable /\ Stored(r) = Stored(c)
<1> DEFINE b == BlankChunk(binning, ichunk)
           arr == pack_assembled_chunk(c, outcome)
           r == unpack_assembled_chunk(arr)
           nt_c == NtPerChunk \div NtPerPacket
           compressed == outcome = "compressed"
           size == DataSizeInFile(c, outcome)
           All == HeaderFields \cup ArrayFields \cup OtherFields
<1>1. /\ NtPerChunk \in Nat \ {0} /\ NfreqCoarseTot \in Nat \ {0} /\ FpgaPerSample \in Nat \ {0}
      /\ NtPerPacket \in Nat \ {0} /\ Nupfreq \in Nat /\ NrfiFreq >= 0
  BY DataPathAssumption, ChunkAssumption, PacketAssumption, SMTT(30) DEF ValidGeometry
<1>2. /\ b.beam_id = MyBeam /\ b.nupfreq = Nupfreq /\ b.nt_per_packet = NtPerPacket
      /\ b.nrfifreq = NrfiFreq /\ b.fpga_counts_per_sample = FpgaPerSample
      /\ b.binning = binning /\ b.ichunk = ichunk /\ b.frame0_nano = 0
      /\ b.fpga_begin = ichunk * NtPerChunk * FpgaPerSample
      /\ b.fpga_end = (ichunk + binning) * NtPerChunk * FpgaPerSample
      /\ b.scales = Zeros(NfreqCoarseTot * nt_c) /\ b.offsets = Zeros(NfreqCoarseTot * nt_c)
      /\ b.rfi_mask = Zeros(NrfiFreq * NtPerChunk) /\ b.has_rfi_mask = FALSE
  BY DEF BlankChunk, NewChunk
<1>3. b = [f \in All |-> b[f]]
  BY BlankIsShaped DEF Shaped
<1> HIDE DEF b
<1>4. c = [f \in All |-> c[f]]
  BY DEF Shaped
<1>5. /\ c.beam_id = b.beam_id /\ c.nupfreq = b.nupfreq /\ c.nt_per_packet = b.nt_per_packet
      /\ c.nrfifreq = b.nrfifreq /\ c.fpga_counts_per_sample = b.fpga_counts_per_sample
      /\ c.binning = b.binning /\ c.ichunk = b.ichunk /\ c.frame0_nano = b.frame0_nano
      /\ c.fpga_begin = b.fpga_begin /\ c.fpga_end = b.fpga_end
  BY DEF Shaped, HeaderFields, b
<1>6. /\ IsArrayOn(c.data, DOMAIN b.data) /\ IsArrayOn(c.scales, DOMAIN b.scales)
      /\ IsArrayOn(c.offsets, DOMAIN b.offsets) /\ IsArrayOn(c.rfi_mask, DOMAIN b.rfi_mask)
  BY DEF Shaped, ArrayFields, b
<1>7. /\ DOMAIN c.data = DOMAIN b.data /\ DOMAIN c.scales = DOMAIN b.scales
      /\ DOMAIN c.offsets = DOMAIN b.offsets /\ DOMAIN c.rfi_mask = DOMAIN b.rfi_mask
  BY <1>6 DEF IsArrayOn
<1>8. c.has_rfi_mask \in BOOLEAN
  BY DEF Shaped
<1>9. /\ NtCoarse(c) = nt_c /\ NtCoarse(b) = nt_c
      /\ nscales(c) = NfreqCoarseTot * nt_c /\ nscales(b) = NfreqCoarseTot * nt_c
      /\ ndata(c) = ndata(b)
  BY <1>2, <1>5, <1>7 DEF NtCoarse, nscales, ndata
<1>10. Cardinality(DOMAIN c.scales) = nscales(c) /\ Cardinality(DOMAIN c.offsets) = nscales(c)
  <2>1. nt_c \in Nat /\ NfreqCoarseTot * nt_c \in Nat
    BY <1>1
  <2> HIDE DEF nt_c
  <2>2. \A n \in Nat : Cardinality(0 .. n - 1) = n
    BY FS_Interval
  <2>3. DOMAIN b.scales = 0 .. NfreqCoarseTot * nt_c - 1 /\ DOMAIN b.offsets = 0 .. NfreqCoarseTot * nt_c - 1
    BY <1>2 DEF Zeros
  <2> QED
    BY <1>7, <1>9, <2>1, <2>2, <2>3
(* The items of the file. *)
<1>11. /\ Len(arr) = 21
       /\ arr[3] = (IF compressed THEN "comp_bitshuffle" ELSE "comp_none")
       /\ arr[4] = size
       /\ arr[5] = c.beam_id /\ arr[6] = c.nupfreq /\ arr[7] = c.nt_per_packet
       /\ arr[8] = c.fpga_counts_per_sample
       /\ arr[9] = NtCoarse(c) /\ arr[10] = nscales(c) /\ arr[11] = ndata(c)
       /\ arr[12] = c.fpga_begin /\ arr[13] = c.fpga_end - c.fpga_begin /\ arr[14] = c.binning
       /\ arr[15] = c.scales /\ arr[16] = c.offsets
       /\ arr[17] = [bytes |-> IF compressed THEN Lz4(c.data) ELSE c.data, size |-> size]
       /\ arr[18] = c.frame0_nano /\ arr[19] = c.nrfifreq /\ arr[20] = c.has_rfi_mask
       /\ arr[21] = c.rfi_mask
  BY DEF pack_assembled_chunk
<1> HIDE DEF arr
<1>12. (arr[12] \div arr[8]) \div NtPerChunk = ichunk
  <2>1. arr[12] = (ichunk * NtPerChunk) * FpgaPerSample /\ arr[8] = FpgaPerSample
    BY <1>2, <1>5, <1>11
  <2>2. ichunk * NtPerChunk \in Nat
    BY <1>1
  <2>3. \A n \in Nat, m \in Nat \ {0} : (n * m) \div m = n
    OBVIOUS
  <2>4. arr[12] \div arr[8] = ichunk * NtPerChunk
    BY <1>1, <2>1, <2>2, <2>3
  <2> QED
    BY <1>1, <2>3, <2>4
<1>13. NewChunk(arr[5], arr[6], arr[7], arr[19], arr[8], arr[14],
                (arr[12] \div arr[8]) \div NtPerChunk, arr[18]) = b
  BY <1>2, <1>5, <1>11, <1>12 DEF b, BlankChunk
<1>14. b.fpga_begin = arr[12] /\ b.fpga_end = arr[12] + arr[13]
  <2>1. b.fpga_begin \in Int /\ b.fpga_end \in Int
    BY <1>1, <1>2
  <2>2. arr[12] = b.fpga_begin /\ arr[13] = b.fpga_end - b.fpga_begin
    BY <1>5, <1>11
  <2> QED
    BY <2>1, <2>2
<1>15. /\ NtCoarse(b) = arr[9] /\ nscales(b) = arr[10] /\ ndata(b) = arr[11]
       /\ Cardinality(DOMAIN arr[15]) = arr[10] /\ Cardinality(DOMAIN arr[16]) = arr[10]
       /\ Cardinality(DOMAIN arr[21]) = Cardinality(DOMAIN b.rfi_mask)
  BY <1>7, <1>9, <1>10, <1>11
<1>16. (arr[3] = "comp_bitshuffle") <=> compressed
  BY <1>11
<1>17. arr[17].size = IF compressed THEN arr[4] ELSE arr[11]
  BY <1>11 DEF DataSizeInFile
<1>18. r = [b EXCEPT !.scales = arr[15], !.offsets = arr[16],
                     !.data = IF compressed THEN arr[17].bytes.lz4 ELSE arr[17].bytes,
                     !.has_rfi_mask = arr[20],
                     !.rfi_mask = IF arr[20] THEN arr[21] ELSE @]
  <2> DEFINE comp == arr[3] = "comp_bitshuffle"
             consistent(ch) ==
               /\ NtCoarse(ch) = arr[9] /\ nscales(ch) = arr[10] /\ ndata(ch) = arr[11]
               /\ ch.fpga_begin = arr[12]
               /\ ch.fpga_end = arr[12] + arr[13]
               /\ arr[17].size = IF comp THEN arr[4] ELSE arr[11]
               /\ Cardinality(DOMAIN arr[15]) = arr[10] /\ Cardinality(DOMAIN arr[16]) = arr[10]
               /\ arr[20] => Cardinality(DOMAIN arr[21]) = Cardinality(DOMAIN ch.rfi_mask)
             filled(ch) ==
               [ch EXCEPT !.scales = arr[15], !.offsets = arr[16],
                          !.data = IF comp THEN arr[17].bytes.lz4 ELSE arr[17].bytes,
                          !.has_rfi_mask = arr[20],
                          !.rfi_mask = IF arr[20] THEN arr[21] ELSE @]
             new == NewChunk(arr[5], arr[6], arr[7], arr[19], arr[8], arr[14],
                             (arr[12] \div arr[8]) \div NtPerChunk, arr[18])
  <2>1. r = IF Len(arr) # 21 \/ ~consistent(new) THEN Unreadable ELSE filled(new)
    <3> HIDE DEF new
    <3> QED
      BY DEF unpack_assembled_chunk, new
  <2>2. new = b
    BY <1>13
  <2> HIDE DEF new, r
  <2>3. consistent(b)
    BY <1>14, <1>15, <1>16, <1>17
  <2> HIDE DEF consistent
  <2>4. r = filled(b)
    BY <1>11, <2>1, <2>2, <2>3
  <2> QED
    BY <1>16, <2>4
<1>19. (IF compressed THEN arr[17].bytes.lz4 ELSE arr[17].bytes) = c.data
  BY <1>11 DEF Lz4
<1>20. (IF arr[20] THEN arr[21] ELSE b.rfi_mask) = c.rfi_mask
  <2>1. CASE c.has_rfi_mask
    BY <1>11, <2>1
  <2>2. CASE ~c.has_rfi_mask
    <3>1. NrfiFreq = 0
      BY <1>1, <2>2, DataPathAssumption, SMTT(30) DEF ValidGeometry
    <3>2. b.rfi_mask = [i \in {} |-> 0]
      <4>1. NrfiFreq * NtPerChunk = 0
        BY <1>1, <3>1
      <4>2. 0 .. 0 - 1 = {}
        OBVIOUS
      <4> QED
        BY <1>2, <4>1, <4>2 DEF Zeros
    <3>3. c.rfi_mask = [i \in {} |-> c.rfi_mask[i]]
      BY <1>6, <3>2 DEF IsArrayOn
    <3>4. c.rfi_mask = b.rfi_mask
      BY <3>2, <3>3
    <3> QED
      BY <1>11, <2>2, <3>4
  <2> QED
    BY <2>1, <2>2
<1>21. r = [b EXCEPT !.scales = c.scales, !.offsets = c.offsets, !.data = c.data,
                     !.has_rfi_mask = c.has_rfi_mask, !.rfi_mask = c.rfi_mask]
  <2> DEFINE data == IF compressed THEN arr[17].bytes.lz4 ELSE arr[17].bytes
             mask == IF arr[20] THEN arr[21] ELSE b.rfi_mask
  <2>1. r = [b EXCEPT !.scales = arr[15], !.offsets = arr[16], !.data = data,
                      !.has_rfi_mask = arr[20], !.rfi_mask = mask]
    BY <1>18
  <2>2. data = c.data /\ mask = c.rfi_mask /\ arr[15] = c.scales /\ arr[16] = c.offsets
        /\ arr[20] = c.has_rfi_mask
    BY <1>11, <1>19, <1>20
  <2> HIDE DEF data, mask, r
  <2> QED
    BY <2>1, <2>2, Zenon
<1> HIDE DEF r
<1>22. r = [f \in All |->
              IF f \in ArrayFields \cup {"has_rfi_mask"} THEN c[f] ELSE b[f]]
  BY <1>3, <1>21 DEF ArrayFields, HeaderFields, OtherFields
<1>23. r # Unreadable
  <2>1. "beam_id" \in DOMAIN r
    BY <1>22 DEF HeaderFields
  <2>2. "beam_id" \notin DOMAIN Unreadable
    BY DEF Unreadable
  <2> QED
    BY <2>1, <2>2
<1>24. \A f \in HeaderFields \cup ArrayFields \cup {"has_rfi_mask"} : r[f] = c[f]
  <2>1. \A f \in HeaderFields : b[f] = c[f] /\ f \notin ArrayFields \cup {"has_rfi_mask"}
    BY DEF Shaped, HeaderFields, ArrayFields, b
  <2>2. "has_rfi_mask" \in OtherFields
    BY DEF OtherFields
  <2> QED
    BY <1>22, <2>1, <2>2
<1>25. Stored(r) = Stored(c)
  <2> DEFINE blanked(f) == IF f = "packets_received" THEN 0 ELSE <<>>
  <2>1. Stored(c) = [f \in All |-> IF f \in {"packets_received", "ds_data", "ds_mask", "ds_w2"}
                                  THEN blanked(f) ELSE c[f]]
    BY <1>4 DEF Stored, OtherFields
  <2>2. r = [f \in All |-> r[f]]
    BY <1>22
  <2>3. Stored(r) = [f \in All |-> IF f \in {"packets_received", "ds_data", "ds_mask", "ds_w2"}
                                  THEN blanked(f) ELSE r[f]]
    BY <2>2 DEF Stored, OtherFields
  <2>4. \A f \in All : f \notin {"packets_received", "ds_data", "ds_mask", "ds_w2"} => r[f] = c[f]
    BY <1>24 DEF OtherFields
  <2> HIDE DEF blanked, All
  <2> QED
    BY <2>1, <2>3, <2>4
<1> QED
  BY <1>23, <1>25 DEF r, arr

-----------------------------------------------------------------------------
(* Every kernel of downsample() writes into the arrays it is given, where  *)
(* they are.                                                               *)
LEMMA OtherReplaced ==
  ASSUME NEW c, NEW blank, Shaped(c, blank), NEW g \in OtherFields \ {"has_rfi_mask"}, NEW a
  PROVE  Shaped([c EXCEPT ![g] = a], blank)
<1> DEFINE d == [c EXCEPT ![g] = a]
<1>1. d = [f \in HeaderFields \cup ArrayFields \cup OtherFields |-> IF f = g THEN a ELSE c[f]]
  BY DEF Shaped
<1>2. g \notin HeaderFields /\ g \notin ArrayFields /\ g # "has_rfi_mask"
  BY DEF HeaderFields, ArrayFields, OtherFields
<1>3. "has_rfi_mask" \in OtherFields
  BY DEF OtherFields
<1> HIDE DEF d
<1>4. d = [f \in HeaderFields \cup ArrayFields \cup OtherFields |-> d[f]]
  BY <1>1
<1>5. \A f \in HeaderFields : d[f] = blank[f]
  BY <1>1, <1>2 DEF Shaped
<1>6. \A f \in ArrayFields : IsArrayOn(d[f], DOMAIN blank[f])
  BY <1>1, <1>2 DEF Shaped
<1>7. d.has_rfi_mask \in BOOLEAN
  BY <1>1, <1>2, <1>3 DEF Shaped
<1>8. Shaped(d, blank)
  BY <1>4, <1>5, <1>6, <1>7 DEF Shaped
<1> QED
  BY <1>8 DEF d

LEMMA MaskReplaced ==
  ASSUME NEW c, NEW blank, Shaped(c, blank), NEW a, IsArrayOn(a, DOMAIN blank["rfi_mask"]),
         NEW has \in BOOLEAN
  PROVE  Shaped([c EXCEPT !.rfi_mask = a, !.has_rfi_mask = has], blank)
<1> DEFINE d == [c EXCEPT !.rfi_mask = a, !.has_rfi_mask = has]
<1>1. d = [f \in HeaderFields \cup ArrayFields \cup OtherFields |->
             IF f = "rfi_mask" THEN a ELSE IF f = "has_rfi_mask" THEN has ELSE c[f]]
  BY DEF Shaped, HeaderFields, ArrayFields, OtherFields
<1>2. "rfi_mask" \notin HeaderFields /\ "has_rfi_mask" \notin HeaderFields \cup ArrayFields
      /\ "has_rfi_mask" \in OtherFields
  BY DEF HeaderFields, ArrayFields, OtherFields
<1> HIDE DEF d
<1>4. d = [f \in HeaderFields \cup ArrayFields \cup OtherFields |-> d[f]]
  BY <1>1
<1>5. \A f \in HeaderFields : d[f] = blank[f]
  BY <1>1, <1>2 DEF Shaped
<1>6. \A f \in ArrayFields : IsArrayOn(d[f], DOMAIN blank[f])
  BY <1>1, <1>2 DEF Shaped
<1>7. d.has_rfi_mask \in BOOLEAN
  BY <1>1, <1>2
<1>8. Shaped(d, blank)
  BY <1>4, <1>5, <1>6, <1>7 DEF Shaped
<1> QED
  BY <1>8 DEF d

(* Scales and offsets, of coarse channel f and half h. *)
LEMMA ScalesReplaced ==
  ASSUME NEW c, NEW blank, Shaped(c, blank), NEW at, NEW o, NEW s, NEW n
  PROVE  Shaped([c EXCEPT !.offsets = Memcpy(@, at, o, 0, n), !.scales = Memcpy(@, at, s, 0, n)],
                blank)
<1> DEFINE o1 == Memcpy(c.offsets, at, o, 0, n)
           s1 == Memcpy(c.scales, at, s, 0, n)
           c1 == [c EXCEPT !["offsets"] = o1]
           c2 == [c1 EXCEPT !["scales"] = s1]
<1>1. "scales" \in ArrayFields /\ "offsets" \in ArrayFields
  BY DEF ArrayFields
<1>2. IsArrayOn(o1, DOMAIN blank["offsets"]) /\ IsArrayOn(s1, DOMAIN blank["scales"])
  BY <1>1, MemcpyKeeps DEF Shaped
<1>3. [c EXCEPT !.offsets = Memcpy(@, at, o, 0, n), !.scales = Memcpy(@, at, s, 0, n)] = c2
  BY <1>1 DEF Shaped
<1> HIDE DEF o1, s1
<1>4. Shaped(c1, blank)
  BY <1>1, <1>2, ArrayReplaced
<1> HIDE DEF c1
<1>5. Shaped(c2, blank)
  BY <1>1, <1>2, <1>4, ArrayReplaced
<1> QED
  BY <1>3, <1>5

LEMMA Kernel1Keeps ==
  ASSUME NEW c, NEW blank, Shaped(c, blank), NEW src, NEW f, NEW h
  PROVE  Shaped(RunKernel1("fast", c, src, f, h), blank)
<1> DEFINE data    == Window(src.data, f * Nupfreq * NtPerChunk, Nupfreq * NtPerChunk)
           offsets == Window(src.offsets, f * SlotsPerChunk, SlotsPerChunk)
           scales  == Window(src.scales, f * SlotsPerChunk, SlotsPerChunk)
           k  == FastKernel1(data, offsets, scales, Nupfreq)
           c1 == [c EXCEPT !["ds_data"] = k.data]
           c2 == [c1 EXCEPT !["ds_mask"] = k.mask]
           c3 == [c2 EXCEPT !.offsets = Memcpy(@, OutAt(f, h), k.count, 0, HalfCoarse),
                            !.scales  = Memcpy(@, OutAt(f, h), k.mean, 0, HalfCoarse)]
<1>1. RunKernel1("fast", c, src, f, h) =
        [c EXCEPT !.ds_data = k.data, !.ds_mask = k.mask,
                  !.offsets = Memcpy(@, OutAt(f, h), k.count, 0, HalfCoarse),
                  !.scales  = Memcpy(@, OutAt(f, h), k.mean, 0, HalfCoarse)]
  BY DEF RunKernel1
<1> HIDE DEF k
<1>2. RunKernel1("fast", c, src, f, h) = c3
  BY <1>1
<1>3. "ds_data" \in OtherFields \ {"has_rfi_mask"} /\ "ds_mask" \in OtherFields \ {"has_rfi_mask"}
  BY DEF OtherFields
<1>4. Shaped(c1, blank)
  BY <1>3, OtherReplaced
<1> HIDE DEF c1
<1>5. Shaped(c2, blank)
  BY <1>3, <1>4, OtherReplaced
<1> HIDE DEF c2
<1>6. Shaped(c3, blank)
  BY <1>5, ScalesReplaced
<1> QED
  BY <1>2, <1>6

LEMMA Kernel2Keeps ==
  ASSUME NEW c, NEW blank, Shaped(c, blank), NEW f, NEW h
  PROVE  Shaped(RunKernel2("fast", c, f, h), blank)
<1> DEFINE count == Window(c.offsets, OutAt(f, h), HalfCoarse)
           mean  == Window(c.scales, OutAt(f, h), HalfCoarse)
           w == FastKernel2(c.ds_data, c.ds_mask, count, mean, Nupfreq)
           scale  == [p \in DOMAIN w |-> w[p].scale]
           offset == [p \in DOMAIN w |-> w[p].offset]
           c1 == [c EXCEPT !.offsets = Memcpy(@, OutAt(f, h), offset, 0, HalfCoarse),
                           !.scales  = Memcpy(@, OutAt(f, h), scale, 0, HalfCoarse)]
           c2 == [c1 EXCEPT !["ds_w2"] = scale]
<1>1. RunKernel2("fast", c, f, h) =
        [c EXCEPT !.offsets = Memcpy(@, OutAt(f, h), offset, 0, HalfCoarse),
                  !.scales  = Memcpy(@, OutAt(f, h), scale, 0, HalfCoarse),
                  !.ds_w2 = scale]
  BY DEF RunKernel2
<1> HIDE DEF scale, offset
<1>2. RunKernel2("fast", c, f, h) = c2
  BY <1>1
<1>3. "ds_w2" \in OtherFields \ {"has_rfi_mask"}
  BY DEF OtherFields
<1>4. Shaped(c1, blank)
  BY ScalesReplaced
<1> HIDE DEF c1
<1>5. Shaped(c2, blank)
  BY <1>3, <1>4, OtherReplaced
<1> QED
  BY <1>2, <1>5

(* The rows of a coarse frequency, one by one. *)
LEMMA Kernel3Keeps ==
  ASSUME NEW c, NEW blank, Shaped(c, blank), NEW f0, NEW h
  PROVE  Shaped(RunKernel3("fast", c, f0, h), blank)
<1> DEFINE off == Window(c.offsets, OutAt(f0, h), HalfCoarse)
           out == FastKernel3(c.ds_data, c.ds_mask, off, c.ds_w2, Nupfreq)
           D == DOMAIN blank["data"]
           row(data, u) == Memcpy(data, (f0 * Nupfreq + u) * NtPerChunk + h * HalfChunk,
                                  out, u * HalfChunk, HalfChunk)
           step(f, k) == IF k = 0 THEN c.data ELSE row(f[k - 1], k - 1)
           S == {n \in Nat : \E f : f = [k \in 0 .. n |-> step(f, k)]}
           n == Nupfreq
           after == CHOOSE f : f = [k \in 0 .. n |-> step(f, k)]
           T == {k \in Nat : k <= n => IsArrayOn(after[k], D)}
<1>1. RunKernel3("fast", c, f0, h) = [c EXCEPT !["data"] = after[n]]
  <2>1. RunKernel3("fast", c, f0, h) =
          [c EXCEPT !.data = Loop(Nupfreq, @, LAMBDA data, u :
             Memcpy(data, (f0 * Nupfreq + u) * NtPerChunk + h * HalfChunk, out, u * HalfChunk, HalfChunk))]
    BY DEF RunKernel3
  <2> HIDE DEF out
  <2>2. "data" \in ArrayFields
    BY DEF ArrayFields
  <2> QED
    BY <2>1, <2>2 DEF Loop, Shaped
<1> HIDE DEF out
<1>2. 0 \in S
  <2> DEFINE f == [k \in 0 .. 0 |-> c.data]
  <2>1. f = [k \in 0 .. 0 |-> step(f, k)]
    OBVIOUS
  <2> QED
    BY <2>1
<1>3. ASSUME NEW m \in Nat, m \in S PROVE m + 1 \in S
  <2>1. PICK f : f = [k \in 0 .. m |-> step(f, k)]
    BY <1>3
  <2> DEFINE g == [k \in 0 .. m + 1 |-> IF k <= m THEN f[k] ELSE step(f, k)]
  <2>2. ASSUME NEW k \in 0 .. m + 1 PROVE g[k] = step(g, k)
    <3>1. step(g, k) = step(f, k)
      OBVIOUS
    <3>2. k <= m => f[k] = step(f, k)
      <4>1. k <= m => k \in 0 .. m
        OBVIOUS
      <4> QED
        BY <2>1, <4>1, Zenon
    <3> QED
      BY <3>1, <3>2
  <2>3. g = [k \in 0 .. m + 1 |-> step(g, k)]
    BY <2>2, Zenon
  <2> HIDE DEF g, step
  <2> QED
    BY <2>3
<1>4. n \in Nat
  BY DataPathAssumption, ChunkAssumption DEF ValidGeometry
<1>5. n \in S
  BY <1>2, <1>3, <1>4, NatSetInduction
<1>6. \A k \in 0 .. n : after[k] = step(after, k)
  <2>1. after = [k \in 0 .. n |-> step(after, k)]
    BY <1>5, Zenon
  <2> QED
    BY <2>1, Zenon
<1> HIDE DEF after, n
<1>7. "data" \in ArrayFields /\ IsArrayOn(c.data, D)
  BY DEF ArrayFields, Shaped
<1>8. 0 \in T
  BY <1>4, <1>6, <1>7
<1>9. ASSUME NEW k \in Nat, k \in T PROVE k + 1 \in T
  <2> SUFFICES ASSUME k + 1 <= n PROVE IsArrayOn(after[k + 1], D)
    OBVIOUS
  <2>1. IsArrayOn(after[k], D) /\ k + 1 \in 0 .. n /\ k + 1 # 0 /\ (k + 1) - 1 = k
    BY <1>9, <1>4
  <2>2. after[k + 1] = row(after[k], k)
    BY <1>6, <2>1
  <2> QED
    BY <2>1, <2>2, MemcpyKeeps
<1>10. n \in T
  BY <1>4, <1>8, <1>9, NatSetInduction
<1>11. IsArrayOn(after[n], D)
  BY <1>4, <1>10
<1> DEFINE d == [c EXCEPT !["data"] = after[n]]
<1>12. Shaped(d, blank)
  BY <1>7, <1>11, ArrayReplaced
<1>13. RunKernel3("fast", c, f0, h) = d
  BY <1>1
<1> HIDE DEF d
<1> QED
  BY <1>12, <1>13

(* The rows of the RFI mask, one by one. *)
LEMMA RfiKernelKeeps ==
  ASSUME NEW c, NEW blank, Shaped(c, blank), NEW srcs
  PROVE  Shaped(RunRfiKernel("fast", c, srcs), blank)
<1> DEFINE bits(h, k) == FastRfiMask(Window(srcs[h].rfi_mask, k * NtPerChunk, NtPerChunk), NtPerChunk)
           D == DOMAIN blank["rfi_mask"]
           row(mask, k) == Memcpy(Memcpy(mask, k * NtPerChunk, bits(0, k), 0, HalfChunk),
                                  k * NtPerChunk + HalfChunk, bits(1, k), 0, HalfChunk)
           step(f, k) == IF k = 0 THEN c.rfi_mask ELSE row(f[k - 1], k - 1)
           S == {n \in Nat : \E f : f = [k \in 0 .. n |-> step(f, k)]}
           n == NrfiFreq
           after == CHOOSE f : f = [k \in 0 .. n |-> step(f, k)]
           T == {k \in Nat : k <= n => IsArrayOn(after[k], D)}
<1>1. RunRfiKernel("fast", c, srcs) = [c EXCEPT !.rfi_mask = after[n], !.has_rfi_mask = NrfiFreq > 0]
  <2>1. RunRfiKernel("fast", c, srcs) =
          [c EXCEPT !.rfi_mask = Loop(NrfiFreq, @, LAMBDA mask, k :
                      Memcpy(Memcpy(mask, k * NtPerChunk, bits(0, k), 0, HalfChunk),
                             k * NtPerChunk + HalfChunk, bits(1, k), 0, HalfChunk)),
                    !.has_rfi_mask = NrfiFreq > 0]
    BY DEF RunRfiKernel
  <2> HIDE DEF bits
  <2>2. "rfi_mask" \in ArrayFields
    BY DEF ArrayFields
  <2> QED
    BY <2>1, <2>2 DEF Loop, Shaped
<1> HIDE DEF bits
<1>2. 0 \in S
  <2> DEFINE f == [k \in 0 .. 0 |-> c.rfi_mask]
  <2>1. f = [k \in 0 .. 0 |-> step(f, k)]
    OBVIOUS
  <2> QED
    BY <2>1
<1>3. ASSUME NEW m \in Nat, m \in S PROVE m + 1 \in S
  <2>1. PICK f : f = [k \in 0 .. m |-> step(f, k)]
    BY <1>3
  <2> DEFINE g == [k \in 0 .. m + 1 |-> IF k <= m THEN f[k] ELSE step(f, k)]
  <2>2. ASSUME NEW k \in 0 .. m + 1 PROVE g[k] = step(g, k)
    <3>1. step(g, k) = step(f, k)
      OBVIOUS
    <3>2. k <= m => f[k] = step(f, k)
      <4>1. k <= m => k \in 0 .. m
        OBVIOUS
      <4> QED
        BY <2>1, <4>1, Zenon
    <3> QED
      BY <3>1, <3>2
  <2>3. g = [k \in 0 .. m + 1 |-> step(g, k)]
    BY <2>2, Zenon
  <2> HIDE DEF g, step
  <2> QED
    BY <2>3
<1>4. n \in Nat
  BY DataPathAssumption
<1>5. n \in S
  BY <1>2, <1>3, <1>4, NatSetInduction
<1>6. \A k \in 0 .. n : after[k] = step(after, k)
  <2>1. after = [k \in 0 .. n |-> step(after, k)]
    BY <1>5, Zenon
  <2> QED
    BY <2>1, Zenon
<1> HIDE DEF after
<1>7. IsArrayOn(c.rfi_mask, D)
  BY DEF ArrayFields, Shaped
<1>8. 0 \in T
  BY <1>4, <1>6, <1>7
<1>9. ASSUME NEW k \in Nat, k \in T PROVE k + 1 \in T
  <2> SUFFICES ASSUME k + 1 <= n PROVE IsArrayOn(after[k + 1], D)
    OBVIOUS
  <2>1. IsArrayOn(after[k], D) /\ k + 1 \in 0 .. n /\ k + 1 # 0 /\ (k + 1) - 1 = k
    BY <1>9, <1>4
  <2>2. after[k + 1] = row(after[k], k)
    BY <1>6, <2>1
  <2> QED
    BY <2>1, <2>2, MemcpyKeeps
<1>10. n \in T
  BY <1>4, <1>8, <1>9, NatSetInduction
<1>11. IsArrayOn(after[n], D)
  BY <1>4, <1>10
<1> DEFINE has == NrfiFreq > 0
           d == [c EXCEPT !.rfi_mask = after[n], !.has_rfi_mask = has]
<1>12. Shaped(d, blank)
  <2>1. has \in BOOLEAN
    BY <1>4
  <2> HIDE DEF has
  <2> QED
    BY <1>11, <2>1, MaskReplaced
<1>13. RunRfiKernel("fast", c, srcs) = d
  BY <1>1
<1> HIDE DEF d
<1> QED
  BY <1>12, <1>13

-----------------------------------------------------------------------------
(* What is in an incoming list comes from a slot of the sky or is a stray; *)
(* when the chunks are being downsampled, nothing is to come, so that no   *)
(* packet changes a chunk after its file was begun; and the kernels run    *)
(* over the coarse channels and the halves there are.                      *)
SlotsInv ==
  /\ schedule \in Seq(DOMAIN Sky)
  /\ incoming.npackets \in Nat
  /\ \A x \in incoming.buf : x.what.slot = Stray \/ x.what.slot \in DOMAIN Sky

StageInv ==
  /\ stage \in {Filling, Finished, Kernel(4, 0, 0)}
                 \cup {Kernel(k, f, h) : k \in 1 .. 3, f \in 0 .. NfreqCoarseTot - 1, h \in Halves}
  /\ stage # Filling => schedule = <<>> /\ incoming.npackets = 0

ShapeInv ==
  /\ chunk = [impl \in Impls |-> chunk[impl]] /\ PairShaped(chunk["fast"])
  /\ down = [impl \in Impls |-> down[impl]] /\ Shaped(down["fast"], BlankChunk(2, FirstIchunk))

(* What the assembler does with packet i of the list. *)
NthPut(cs, i) ==
  LET wire(x) == [Wires[x.what.slot] EXCEPT !.nbytes = x.nbytes]
      ours == {wire(x) : x \in {y \in List!PacketAt(incoming, i) : y.what.slot # Stray}}
  IN  IF \E w \in ours : Decodes(w) THEN PutPacket(cs, "fast", Decoded(CHOOSE w \in ours : TRUE))
      ELSE cs

LEMMA NthPutKeeps ==
  ASSUME SlotsInv, NEW cs, PairShaped(cs), NEW i
  PROVE  PairShaped(NthPut(cs, i))
<1> DEFINE wire(x) == [Wires[x.what.slot] EXCEPT !.nbytes = x.nbytes]
           ours == {wire(x) : x \in {y \in List!PacketAt(incoming, i) : y.what.slot # Stray}}
           w == CHOOSE u \in ours : TRUE
<1>1. NthPut(cs, i) = IF \E u \in ours : Decodes(u) THEN PutPacket(cs, "fast", Decoded(w)) ELSE cs
  BY DEF NthPut
<1>2. ASSUME NEW u \in ours PROVE OfStream(Decoded(u))
  <2>1. PICK x \in incoming.buf : x.what.slot \in DOMAIN Sky /\ u = wire(x)
    BY DEF SlotsInv, List!PacketAt
  <2>2. u.header = Header(x.what.slot)
    <3>1. Wires[x.what.slot].header = Header(x.what.slot) /\ "header" \in DOMAIN Wires[x.what.slot]
      BY <2>1 DEF Wires, Encoded
    <3> QED
      BY <2>1, <3>1, SMTT(30)
  <2>3. Decoded(u).header = u.header
    BY DEF Decoded
  <2>4. Decoded(u) = [f \in {"header", "beam_ids", "coarse_freq_ids", "scales", "offsets", "data"} |->
                        Decoded(u)[f]]
    BY DEF Decoded
  <2> QED
    BY <2>2, <2>3, <2>4 DEF OfStream
<1>3. ours # {} => w \in ours
  OBVIOUS
<1> HIDE DEF ours, w
<1> QED
  BY <1>1, <1>2, <1>3, PutPacketKeeps

LEMMA ListPut ==
  ASSUME SlotsInv, NEW cs, PairShaped(cs)
  PROVE  PairShaped(Loop(incoming.npackets, cs, NthPut))
<1> DEFINE step(f, k) == IF k = 0 THEN cs ELSE NthPut(f[k - 1], k - 1)
           S == {n \in Nat : \E f : f = [k \in 0 .. n |-> step(f, k)]}
           n == incoming.npackets
           after == CHOOSE f : f = [k \in 0 .. n |-> step(f, k)]
           T == {k \in Nat : k <= n => PairShaped(after[k])}
<1>1. Loop(incoming.npackets, cs, NthPut) = after[n]
  BY DEF Loop
<1>2. 0 \in S
  <2> DEFINE f == [k \in 0 .. 0 |-> cs]
  <2>1. f = [k \in 0 .. 0 |-> step(f, k)]
    OBVIOUS
  <2> QED
    BY <2>1
<1>3. ASSUME NEW m \in Nat, m \in S PROVE m + 1 \in S
  <2>1. PICK f : f = [k \in 0 .. m |-> step(f, k)]
    BY <1>3
  <2> DEFINE g == [k \in 0 .. m + 1 |-> IF k <= m THEN f[k] ELSE step(f, k)]
  <2>2. ASSUME NEW k \in 0 .. m + 1 PROVE g[k] = step(g, k)
    <3>1. step(g, k) = step(f, k)
      OBVIOUS
    <3>2. k <= m => f[k] = step(f, k)
      <4>1. k <= m => k \in 0 .. m
        OBVIOUS
      <4> QED
        BY <2>1, <4>1, Zenon
    <3> QED
      BY <3>1, <3>2
  <2>3. g = [k \in 0 .. m + 1 |-> step(g, k)]
    BY <2>2, Zenon
  <2> HIDE DEF g, step
  <2> QED
    BY <2>3
<1>4. n \in Nat
  BY DEF SlotsInv
<1>5. n \in S
  BY <1>2, <1>3, <1>4, NatSetInduction
<1>6. \A k \in 0 .. n : after[k] = step(after, k)
  <2>1. after = [k \in 0 .. n |-> step(after, k)]
    BY <1>5, Zenon
  <2> QED
    BY <2>1, Zenon
<1> HIDE DEF after, n
<1>7. 0 \in T
  BY <1>4, <1>6
<1>8. ASSUME NEW k \in Nat, k \in T PROVE k + 1 \in T
  <2> SUFFICES ASSUME k + 1 <= n PROVE PairShaped(after[k + 1])
    OBVIOUS
  <2>1. PairShaped(after[k]) /\ k + 1 \in 0 .. n /\ k + 1 # 0 /\ (k + 1) - 1 = k
    BY <1>8, <1>4
  <2>2. after[k + 1] = NthPut(after[k], k)
    BY <1>6, <2>1
  <2> QED
    BY <2>1, <2>2, NthPutKeeps
<1>9. n \in T
  BY <1>4, <1>7, <1>8, NatSetInduction
<1> QED
  BY <1>1, <1>4, <1>9

LEMMA ProcessPacketsKeeps ==
  ASSUME SlotsInv, ShapeInv, ProcessPackets
  PROVE  ShapeInv'
<1>1. chunk' = [impl \in Impls |-> chunk'[impl]] /\ UNCHANGED down
  BY DEF ProcessPackets
<1>2. chunk'["fast"] = Loop(incoming.npackets, chunk["fast"], NthPut)
  BY DEF ProcessPackets, NthPut, Impls
<1>3. PairShaped(Loop(incoming.npackets, chunk["fast"], NthPut))
  BY ListPut DEF ShapeInv
<1> QED
  BY <1>1, <1>2, <1>3 DEF ShapeInv, PairShaped

LEMMA SlotsKept ==
  ASSUME SlotsInv, [Next]_vars
  PROVE  SlotsInv'
<1>1. ASSUME NEW what, NEW nbytes \in Nat, Receive(what, nbytes),
             what.slot = Stray \/ what.slot \in DOMAIN Sky
      PROVE  /\ incoming'.npackets \in Nat
             /\ \A x \in incoming'.buf : x.what.slot = Stray \/ x.what.slot \in DOMAIN Sky
  <2>1. CASE failed'
    BY <1>1, <2>1 DEF Receive, SlotsInv
  <2>2. CASE ~failed'
    <3> DEFINE new == [at |-> incoming.nbytes, nbytes |-> nbytes, what |-> what]
    <3>1. incoming' = List!AddPacket(incoming, what, nbytes)
      BY <1>1, <2>2 DEF Receive
    <3>2. /\ incoming'.npackets = incoming.npackets + 1
          /\ incoming'.buf \subseteq incoming.buf \union {new}
      BY <3>1 DEF List!AddPacket, List!DataEnd
    <3>3. new.what = what
      OBVIOUS
    <3> HIDE DEF new
    <3> QED
      BY <1>1, <3>2, <3>3 DEF SlotsInv
  <2> QED
    BY <2>1, <2>2
<1>2. CASE Arrive
  <2> DEFINE slot == Head(schedule)
             what == [slot |-> slot, header |-> Header(slot)]
  <2>1. Receive(what, AtMostRoom(Wires[slot].nbytes)) /\ schedule' = Tail(schedule) /\ schedule # <<>>
    BY <1>2 DEF Arrive
  <2>2. slot \in DOMAIN Sky /\ schedule' \in Seq(DOMAIN Sky)
    BY <2>1, HeadTailProperties DEF SlotsInv
  <2>3. AtMostRoom(Wires[slot].nbytes) \in Nat
    BY <2>2, SlotsAreNumbers, DataPathAssumption, PacketAssumption DEF AtMostRoom
  <2>4. what.slot \in DOMAIN Sky
    BY <2>2
  <2> HIDE DEF what, slot
  <2> QED
    BY <1>1, <2>1, <2>2, <2>3, <2>4 DEF SlotsInv
<1>3. CASE StrayArrives
  <2>1. PICK s \in Strays : Receive([slot |-> Stray, header |-> s.header], AtMostRoom(s.nbytes))
    BY <1>3 DEF StrayArrives
  <2> DEFINE what == [slot |-> Stray, header |-> s.header]
  <2>2. Receive(what, AtMostRoom(s.nbytes)) /\ what.slot = Stray
    BY <2>1
  <2>3. AtMostRoom(s.nbytes) \in Nat
    BY DataPathAssumption, PacketAssumption DEF AtMostRoom
  <2>4. UNCHANGED schedule
    BY <1>3 DEF StrayArrives
  <2> HIDE DEF what
  <2> QED
    BY <1>1, <2>2, <2>3, <2>4 DEF SlotsInv
<1>4. CASE ProcessPackets
  BY <1>4 DEF ProcessPackets, List!Empty, SlotsInv
<1>5. CASE UNCHANGED <<schedule, incoming>>
  BY <1>5 DEF SlotsInv
<1>6. \/ Arrive \/ StrayArrives \/ ProcessPackets
      \/ UNCHANGED <<schedule, incoming>>
  BY DEF Next, FillMask, StartDownsample, Downsample, WriteTemp, Rename, ReadFile,
         Done, vars, listVars, fileVars
<1> QED
  BY <1>2, <1>3, <1>4, <1>5, <1>6

LEMMA StageKept ==
  ASSUME StageInv, SlotsInv, [Next]_vars
  PROVE  StageInv'
<1> DEFINE Kernels == {Kernel(k, f, h) : k \in 1 .. 3, f \in 0 .. NfreqCoarseTot - 1, h \in Halves}
<1>1. CASE Downsample
  <2>1. stage \notin {Filling, Finished} /\ stage' = NextStage(stage) /\ UNCHANGED <<schedule, incoming>>
    BY <1>1 DEF Downsample, listVars
  <2>2. CASE stage = Kernel(4, 0, 0)
    <3>1. stage' = Finished
      BY <2>1, <2>2 DEF NextStage, Kernel
    <3> QED
      BY <2>1, <3>1 DEF StageInv
  <2>3. CASE stage \in Kernels
    <3>1. PICK k \in 1 .. 3, f \in 0 .. NfreqCoarseTot - 1, h \in Halves : stage = Kernel(k, f, h)
      BY <2>3
    <3>2. stage.kernel = k /\ stage.freq = f /\ stage.half = h
      BY <3>1 DEF Kernel
    <3>3. NfreqCoarseTot \in Nat /\ (h = 0 \/ h = 1) /\ 1 \in Halves /\ 0 \in Halves
      BY PacketAssumption DEF Halves
    <3>4. CASE k < 3
      <4>1. stage' = Kernel(k + 1, f, h)
        BY <2>1, <3>2, <3>4 DEF NextStage
      <4>2. k + 1 \in 1 .. 3
        BY <3>4
      <4> QED
        BY <2>1, <4>1, <4>2 DEF StageInv
    <3>5. CASE k = 3 /\ h = 0
      <4>1. stage' = Kernel(1, f, 1)
        BY <2>1, <3>2, <3>5 DEF NextStage
      <4> QED
        BY <2>1, <3>3, <4>1 DEF StageInv
    <3>6. CASE k = 3 /\ h = 1 /\ f + 1 < NfreqCoarseTot
      <4>1. stage' = Kernel(1, f + 1, 0)
        BY <2>1, <3>2, <3>6 DEF NextStage
      <4>2. f + 1 \in 0 .. NfreqCoarseTot - 1
        BY <3>3, <3>6
      <4> QED
        BY <2>1, <3>3, <4>1, <4>2 DEF StageInv
    <3>7. CASE k = 3 /\ h = 1 /\ f + 1 = NfreqCoarseTot
      <4>1. stage' = Kernel(4, 0, 0)
        BY <2>1, <3>2, <3>7, <3>3 DEF NextStage
      <4> QED
        BY <2>1, <4>1 DEF StageInv
    <3> QED
      BY <3>3, <3>4, <3>5, <3>6, <3>7
  <2> QED
    BY <2>1, <2>2, <2>3 DEF StageInv
<1>2. CASE StartDownsample
  <2>1. stage' = Kernel(1, 0, 0) /\ schedule' = <<>> /\ incoming'.npackets = 0
    BY <1>2 DEF StartDownsample, AllArrived, listVars
  <2>2. 0 \in 0 .. NfreqCoarseTot - 1 /\ 0 \in Halves
    BY PacketAssumption DEF Halves
  <2> QED
    BY <2>1, <2>2 DEF StageInv
<1>3. CASE Arrive \/ StrayArrives \/ ProcessPackets
  <2>1. stage = Filling /\ UNCHANGED stage
    <3>1. CASE Arrive
      BY <3>1 DEF Arrive, StageInv
    <3>2. CASE StrayArrives
      BY <3>2 DEF StrayArrives
    <3>3. CASE ProcessPackets
      <4>1. incoming.npackets > 0 /\ UNCHANGED stage
        BY <3>3 DEF ProcessPackets
      <4> QED
        BY <4>1 DEF StageInv
    <3> QED
      BY <1>3, <3>1, <3>2, <3>3
  <2> QED
    BY <2>1 DEF StageInv
<1>4. CASE UNCHANGED <<stage, schedule, incoming>>
  BY <1>4 DEF StageInv
<1>5. \/ Downsample \/ StartDownsample \/ (Arrive \/ StrayArrives \/ ProcessPackets)
      \/ UNCHANGED <<stage, schedule, incoming>>
  BY DEF Next, FillMask, WriteTemp, Rename, ReadFile, Done, vars, listVars, fileVars
<1> QED
  BY <1>1, <1>2, <1>3, <1>4, <1>5

LEMMA ShapeKept ==
  ASSUME ShapeInv, SlotsInv, StageInv, [Next]_vars
  PROVE  ShapeInv'
<1>1. CASE ProcessPackets
  BY <1>1, ProcessPacketsKeeps
<1>2. CASE FillMask
  <2>1. PICK h \in Halves, m \in RfiMasks :
          chunk' = [impl \in Impls |-> [chunk[impl] EXCEPT ![h].rfi_mask = m, ![h].has_rfi_mask = TRUE]]
    BY <1>2 DEF FillMask
  <2> DEFINE cs == chunk["fast"]
             ds == [g \in Halves |-> IF g = h THEN [cs[h] EXCEPT !.rfi_mask = m, !.has_rfi_mask = TRUE]
                                     ELSE cs[g]]
  <2>2. cs = [g \in Halves |-> cs[g]] /\ \A g \in Halves : Shaped(cs[g], BlankChunk(1, FirstIchunk + g))
    BY DEF ShapeInv, PairShaped
  <2>3. chunk'["fast"] = [chunk["fast"] EXCEPT ![h].rfi_mask = m, ![h].has_rfi_mask = TRUE]
    BY <2>1 DEF Impls
  <2> HIDE DEF cs
  <2>4. chunk'["fast"] = ds
    BY <2>2, <2>3 DEF cs
  <2>5. IsArrayOn(m, DOMAIN BlankChunk(1, FirstIchunk + h)["rfi_mask"])
    <3>1. DOMAIN BlankChunk(1, FirstIchunk + h).rfi_mask = 0 .. NrfiFreq * NtPerChunk - 1
      BY DEF BlankChunk, NewChunk, Zeros
    <3>2. m \in [0 .. NrfiFreq * NtPerChunk - 1 -> {0, 1}]
      BY DataPathAssumption
    <3> QED
      BY <3>1, <3>2 DEF IsArrayOn
  <2>6. Shaped([cs[h] EXCEPT !.rfi_mask = m, !.has_rfi_mask = TRUE], BlankChunk(1, FirstIchunk + h))
    BY <2>2, <2>5, MaskReplaced
  <2>7. PairShaped(ds)
    <3>1. \A g \in Halves : Shaped(ds[g], BlankChunk(1, FirstIchunk + g))
      BY <2>2, <2>6
    <3> QED
      BY <3>1 DEF PairShaped
  <2>8. chunk' = [impl \in Impls |-> chunk'[impl]]
    BY <2>1
  <2>9. UNCHANGED down
    BY <1>2 DEF FillMask
  <2> HIDE DEF ds
  <2>10. PairShaped(chunk["fast"])'
    BY <2>4, <2>7 DEF PairShaped
  <2> QED
    BY <2>8, <2>9, <2>10 DEF ShapeInv
<1>3. CASE Downsample
  <2>1. down' = [impl \in Impls |-> RunKernel(impl, stage)] /\ UNCHANGED chunk
    BY <1>3 DEF Downsample
  <2>2. stage.kernel \in 1 .. 4
    BY <1>3 DEF Downsample, StageInv, Kernel
  <2> DEFINE blank == BlankChunk(2, FirstIchunk)
  <2>3. Shaped(down["fast"], blank)
    BY DEF ShapeInv
  <2> HIDE DEF blank
  <2>4. Shaped(RunKernel("fast", stage), blank)
    <3>1. stage.kernel = 1 \/ stage.kernel = 2 \/ stage.kernel = 3 \/ stage.kernel = 4
      BY <2>2
    <3>2. CASE stage.kernel = 1
      <4>1. RunKernel("fast", stage) =
              RunKernel1("fast", down["fast"], chunk["fast"][stage.half], stage.freq, stage.half)
        BY <3>2 DEF RunKernel
      <4> QED
        BY <2>3, <4>1, Kernel1Keeps
    <3>3. CASE stage.kernel = 2
      <4>1. RunKernel("fast", stage) = RunKernel2("fast", down["fast"], stage.freq, stage.half)
        BY <3>3 DEF RunKernel
      <4> QED
        BY <2>3, <4>1, Kernel2Keeps
    <3>4. CASE stage.kernel = 3
      <4>1. RunKernel("fast", stage) = RunKernel3("fast", down["fast"], stage.freq, stage.half)
        BY <3>4 DEF RunKernel
      <4> QED
        BY <2>3, <4>1, Kernel3Keeps
    <3>5. CASE stage.kernel = 4
      <4>1. RunKernel("fast", stage) = RunRfiKernel("fast", down["fast"], chunk["fast"])
        BY <3>5 DEF RunKernel
      <4> QED
        BY <2>3, <4>1, RfiKernelKeeps
    <3> QED
      BY <3>1, <3>2, <3>3, <3>4, <3>5
  <2>5. down' = [impl \in Impls |-> down'[impl]] /\ down'["fast"] = RunKernel("fast", stage)
    BY <2>1 DEF Impls
  <2> QED
    BY <2>1, <2>4, <2>5 DEF ShapeInv, PairShaped, blank
<1>4. CASE UNCHANGED <<chunk, down>>
  BY <1>4 DEF ShapeInv, PairShaped
<1>5. \/ ProcessPackets \/ FillMask \/ Downsample \/ UNCHANGED <<chunk, down>>
  BY DEF Next, Arrive, StrayArrives, StartDownsample, WriteTemp, Rename, ReadFile,
         Done, vars, listVars, fileVars
<1> QED
  BY <1>1, <1>2, <1>3, <1>4, <1>5

-----------------------------------------------------------------------------
(* A file is written of chunks that do not change any more, and what is in *)
(* it, under either name, is the chunk packed.                             *)
PackedFrom(items) ==
  \E outcome \in Outcomes : items = pack_assembled_chunk(ChunkNamed(saved), outcome)

FileInv ==
  /\ saved \in {"none", "first", "second", "down"}
  /\ saved = "none" => temp = <<>> /\ named = <<>> /\ loaded = {}
  /\ saved # "none" =>
       /\ stage = Finished
       /\ NrfiFreq > 0 => ChunkNamed(saved).has_rfi_mask
       /\ temp # <<>> => PackedFrom(temp)
       /\ named # <<>> => PackedFrom(named)
       /\ \A c \in loaded : \E items : PackedFrom(items) /\ c = unpack_assembled_chunk(items)

LEMMA FileKept ==
  ASSUME FileInv, StageInv, SlotsInv, [Next]_vars
  PROVE  FileInv'
<1>1. CASE WriteTemp
  <2>1. PICK s \in {"first", "second", "down"}, outcome \in Outcomes :
          /\ NrfiFreq > 0 => ChunkNamed(s).has_rfi_mask
          /\ saved' = s
          /\ temp' = pack_assembled_chunk(ChunkNamed(s), outcome)
    BY <1>1 DEF WriteTemp
  <2>2. stage = Finished /\ saved = "none" /\ UNCHANGED <<chunk, down, stage, named, loaded>>
    BY <1>1 DEF WriteTemp
  <2>3. ChunkNamed(s)' = ChunkNamed(s)
    BY <2>2 DEF ChunkNamed
  <2>4. ChunkNamed(saved)' = ChunkNamed(s)
    BY <2>1, <2>2 DEF ChunkNamed
  <2>5. PackedFrom(temp)'
    BY <2>1, <2>4 DEF PackedFrom
  <2>6. NrfiFreq > 0 => ChunkNamed(saved)'.has_rfi_mask
    BY <2>1, <2>4
  <2>7. named' = <<>> /\ loaded' = {} /\ stage' = Finished
    BY <2>2 DEF FileInv
  <2>8. saved' \in {"first", "second", "down"}
    BY <2>1
  <2> QED
    BY <2>5, <2>6, <2>7, <2>8 DEF FileInv
<1>2. CASE Rename
  <2>1. /\ temp # <<>> /\ named' = temp /\ temp' = <<>>
        /\ UNCHANGED <<chunk, down, stage, saved, loaded>>
    BY <1>2 DEF Rename
  <2>2. saved # "none"
    BY <2>1 DEF FileInv
  <2>3. ChunkNamed(saved)' = ChunkNamed(saved)
    BY <2>1 DEF ChunkNamed
  <2>4. \A items : PackedFrom(items) => PackedFrom(items)'
    BY <2>3 DEF PackedFrom
  <2>5. PackedFrom(named)'
    BY <2>1, <2>2, <2>3 DEF FileInv, PackedFrom
  <2> QED
    BY <2>1, <2>2, <2>3, <2>4, <2>5 DEF FileInv
<1>3. CASE ReadFile
  <2>1. /\ named # <<>> /\ loaded' = {unpack_assembled_chunk(named)}
        /\ UNCHANGED <<chunk, down, stage, saved, temp, named>>
    BY <1>3 DEF ReadFile
  <2>2. saved # "none"
    BY <2>1 DEF FileInv
  <2>3. ChunkNamed(saved)' = ChunkNamed(saved)
    BY <2>1 DEF ChunkNamed
  <2>4. PackedFrom(named)' /\ (temp' # <<>> => PackedFrom(temp)')
    BY <2>1, <2>2, <2>3 DEF FileInv, PackedFrom
  <2>5. \A c \in loaded' : \E items : PackedFrom(items)' /\ c = unpack_assembled_chunk(items)
    <3>1. PackedFrom(named)
      BY <2>1, <2>2 DEF FileInv
    <3>2. \A items : PackedFrom(items) => PackedFrom(items)'
      BY <2>1, <2>3 DEF PackedFrom
    <3> QED
      BY <2>1, <3>1, <3>2
  <2> QED
    BY <2>1, <2>2, <2>3, <2>4, <2>5 DEF FileInv
<1>4. CASE UNCHANGED <<saved, temp, named, loaded>> /\ saved = "none"
  BY <1>4 DEF FileInv
<1>5. CASE UNCHANGED <<saved, temp, named, loaded, chunk, down, stage>> /\ saved # "none"
  <2>1. ChunkNamed(saved)' = ChunkNamed(saved)
    BY <1>5 DEF ChunkNamed
  <2>2. \A items : PackedFrom(items) => PackedFrom(items)'
    BY <1>5, <2>1 DEF PackedFrom
  <2>3. (temp' # <<>> => PackedFrom(temp)') /\ (named' # <<>> => PackedFrom(named)')
    BY <1>5, <2>1 DEF FileInv, PackedFrom
  <2> QED
    BY <1>5, <2>1, <2>2, <2>3 DEF FileInv
<1>6. \/ WriteTemp \/ Rename \/ ReadFile
      \/ UNCHANGED <<saved, temp, named, loaded>> /\ saved = "none"
      \/ UNCHANGED <<saved, temp, named, loaded, chunk, down, stage>> /\ saved # "none"
  <2>1. stage = Finished =>
          ~Arrive /\ ~StrayArrives /\ ~ProcessPackets /\ ~FillMask /\ ~StartDownsample /\ ~Downsample
    <3> SUFFICES ASSUME stage = Finished
                 PROVE  /\ ~Arrive /\ ~StrayArrives /\ ~ProcessPackets
                        /\ ~FillMask /\ ~StartDownsample /\ ~Downsample
      OBVIOUS
    <3>1. Finished # Filling
      BY DEF Finished, Filling, Kernel
    <3>2. schedule = <<>> /\ incoming.npackets = 0
      BY <3>1 DEF StageInv
    <3>3. ~Arrive /\ ~StrayArrives
      BY <3>1, <3>2 DEF Arrive, StrayArrives
    <3>4. ~ProcessPackets
      BY <3>2 DEF ProcessPackets
    <3>5. ~FillMask /\ ~StartDownsample /\ ~Downsample
      BY <3>1 DEF FillMask, StartDownsample, AllArrived, Downsample
    <3> QED
      BY <3>3, <3>4, <3>5
  <2>2. saved # "none" => stage = Finished
    BY DEF FileInv
  <2>3. Arrive \/ StrayArrives \/ ProcessPackets \/ FillMask \/ StartDownsample \/ Downsample
          => UNCHANGED <<saved, temp, named, loaded>>
    BY DEF Arrive, StrayArrives, ProcessPackets, FillMask, StartDownsample, Downsample, fileVars
  <2>4. UNCHANGED vars => UNCHANGED <<saved, temp, named, loaded, chunk, down, stage>>
    BY DEF vars, fileVars
  <2> QED
    BY <2>1, <2>2, <2>3, <2>4 DEF Next, Done
<1> QED
  BY <1>1, <1>2, <1>3, <1>4, <1>5, <1>6

(* A file that has its name reads back as the chunk that was written,      *)
(* whichever it was and whatever became of its compression, for every      *)
(* geometry, every sky and every order in which packets arrive, late,      *)
(* twice or not at all.                                                    *)
THEOREM FilesReadBack == Spec => []ReadBack
<1> DEFINE IInv == SlotsInv /\ StageInv /\ ShapeInv /\ FileInv
<1>1. Init => IInv
  <2> SUFFICES ASSUME Init PROVE IInv
    OBVIOUS
  <2>1. SlotsInv
    BY DataPathAssumption DEF Init, SlotsInv, List!Empty
  <2>2. StageInv
    BY DEF Init, StageInv
  <2>3. ShapeInv
    <3>1. chunk["fast"] = [h \in Halves |-> BlankChunk(1, FirstIchunk + h)]
          /\ down["fast"] = BlankChunk(2, FirstIchunk)
      BY DEF Init, Impls
    <3>2. PairShaped(chunk["fast"]) /\ Shaped(down["fast"], BlankChunk(2, FirstIchunk))
      BY <3>1, BlankIsShaped DEF PairShaped
    <3>3. chunk = [impl \in Impls |-> chunk[impl]] /\ down = [impl \in Impls |-> down[impl]]
      BY DEF Init
    <3> QED
      BY <3>2, <3>3 DEF ShapeInv
  <2>4. FileInv
    BY DEF Init, FileInv
  <2> QED
    BY <2>1, <2>2, <2>3, <2>4
<1>2. IInv /\ [Next]_vars => IInv'
  BY SlotsKept, StageKept, ShapeKept, FileKept
<1>3. IInv => ReadBack
  <2> SUFFICES ASSUME IInv, NEW r \in loaded
               PROVE  r # Unreadable /\ Stored(r) = Stored(ChunkNamed(saved))
    BY DEF ReadBack
  <2> DEFINE c == ChunkNamed(saved)
  <2>1. saved \in {"first", "second", "down"} /\ (NrfiFreq > 0 => c.has_rfi_mask)
    BY DEF FileInv
  <2>2. PICK outcome \in Outcomes : r = unpack_assembled_chunk(pack_assembled_chunk(c, outcome))
    BY <2>1 DEF FileInv, PackedFrom
  <2>3. \E binning \in Nat, ichunk \in Nat : Shaped(c, BlankChunk(binning, ichunk))
    <3>1. CASE saved = "first"
      <4>1. Shaped(c, BlankChunk(1, FirstIchunk + 0)) /\ FirstIchunk + 0 \in Nat
        BY <3>1, DataPathAssumption DEF ChunkNamed, ShapeInv, PairShaped, Halves
      <4> QED
        BY <4>1
    <3>2. CASE saved = "second"
      <4>1. Shaped(c, BlankChunk(1, FirstIchunk + 1)) /\ FirstIchunk + 1 \in Nat
        BY <3>2, DataPathAssumption DEF ChunkNamed, ShapeInv, PairShaped, Halves
      <4> QED
        BY <4>1
    <3>3. CASE saved = "down"
      <4>1. Shaped(c, BlankChunk(2, FirstIchunk)) /\ FirstIchunk \in Nat
        BY <3>3, DataPathAssumption DEF ChunkNamed, ShapeInv
      <4> QED
        BY <4>1
    <3> QED
      BY <2>1, <3>1, <3>2, <3>3
  <2> HIDE DEF c
  <2>4. r # Unreadable /\ Stored(r) = Stored(c)
    BY <2>1, <2>2, <2>3, FileReadsBack
  <2> QED
    BY <2>4 DEF c
<1> QED
  BY <1>1, <1>2, <1>3, PTL DEF Spec

-----------------------------------------------------------------------------
(* The AVX2 code and the reference code.  A register holds the bytes of    *)
(* its array in order; what the lanes of decode32 are is what the shuffles *)
(* make of them.                                                           *)

LEMMA Size32 ==
  Cardinality(0 .. 31) = 32 /\ Cardinality(0 .. 7) = 8 /\ Cardinality(0 .. 255) = 256
<1>1. \A n \in Nat : Cardinality(0 .. n) = n + 1
  BY FS_Interval
<1>2. 31 \in Nat /\ 7 \in Nat /\ 255 \in Nat
  OBVIOUS
<1>3. Cardinality(0 .. 31) = 31 + 1 /\ Cardinality(0 .. 7) = 7 + 1 /\ Cardinality(0 .. 255) = 255 + 1
  BY <1>1, <1>2, Zenon
<1> QED
  BY <1>3

(* What the instructions do to registers of 8, 32 and 256 lanes.           *)
LEMMA BlendIs ==
  ASSUME NEW a, NEW b, NEW S
  PROVE  /\ DOMAIN a = 0 .. 7 => /\ DOMAIN Blend(a, b, S) = 0 .. 7
                                 /\ \A i \in 0 .. 7 : Blend(a, b, S)[i] = IF i \in S THEN b[i] ELSE a[i]
         /\ DOMAIN a = 0 .. 31 => /\ DOMAIN Blend(a, b, S) = 0 .. 31
                                  /\ \A i \in 0 .. 31 :
                                       Blend(a, b, S)[i] = IF i \div 4 \in S THEN b[i] ELSE a[i]
         /\ DOMAIN a = 0 .. 255 => /\ DOMAIN Blend(a, b, S) = 0 .. 255
                                   /\ \A i \in 0 .. 255 :
                                        Blend(a, b, S)[i] = IF i \div 32 \in S THEN b[i] ELSE a[i]
<1>1. 8 \div 8 = 1 /\ 32 \div 8 = 4 /\ 256 \div 8 = 32
  OBVIOUS
<1>2. \A i \in Int : i \div 1 = i
  OBVIOUS
<1>3. DOMAIN Blend(a, b, S) = DOMAIN a
      /\ \A i \in DOMAIN a :
           Blend(a, b, S)[i] = IF i \div (Cardinality(DOMAIN a) \div 8) \in S THEN b[i] ELSE a[i]
  BY DEF Blend
<1>4. ASSUME DOMAIN a = 0 .. 7
      PROVE  /\ DOMAIN Blend(a, b, S) = 0 .. 7
             /\ \A i \in 0 .. 7 : Blend(a, b, S)[i] = IF i \in S THEN b[i] ELSE a[i]
  <2>1. Cardinality(DOMAIN a) \div 8 = 1
    BY <1>1, <1>4, Size32
  <2> QED
    BY <1>2, <1>3, <1>4, <2>1
<1>5. ASSUME DOMAIN a = 0 .. 31
      PROVE  /\ DOMAIN Blend(a, b, S) = 0 .. 31
             /\ \A i \in 0 .. 31 : Blend(a, b, S)[i] = IF i \div 4 \in S THEN b[i] ELSE a[i]
  <2>1. Cardinality(DOMAIN a) \div 8 = 4
    BY <1>1, <1>5, Size32
  <2> QED
    BY <1>3, <1>5, <2>1
<1>6. ASSUME DOMAIN a = 0 .. 255
      PROVE  /\ DOMAIN Blend(a, b, S) = 0 .. 255
             /\ \A i \in 0 .. 255 : Blend(a, b, S)[i] = IF i \div 32 \in S THEN b[i] ELSE a[i]
  <2>1. Cardinality(DOMAIN a) \div 8 = 32
    BY <1>1, <1>6, Size32
  <2>2. \A i \in 0 .. 255 : Blend(a, b, S)[i] = IF i \div 32 \in S THEN b[i] ELSE a[i]
    BY <1>3, <1>6, <2>1, Zenon
  <2> QED
    BY <1>3, <1>6, <2>2, Zenon
<1> QED
  BY <1>4, <1>5, <1>6

LEMMA Blend32Is ==
  ASSUME NEW a, NEW b, NEW S, DOMAIN a = 0 .. 31
  PROVE  /\ DOMAIN Blend(a, b, S) = 0 .. 31
         /\ \A i \in 0 .. 31 : Blend(a, b, S)[i] = IF i \div 4 \in S THEN b[i] ELSE a[i]
BY BlendIs

LEMMA Blend256Is ==
  ASSUME NEW a, NEW b, NEW S, DOMAIN a = 0 .. 255
  PROVE  /\ DOMAIN Blend(a, b, S) = 0 .. 255
         /\ \A i \in 0 .. 255 : Blend(a, b, S)[i] = IF i \div 32 \in S THEN b[i] ELSE a[i]
BY BlendIs

(* The lane that half h of two registers has at i. *)
HalfLane(a, b, h, half, i) == IF h < 2 THEN a[h * half + i] ELSE b[(h - 2) * half + i]

LEMMA PermuteIs ==
  ASSUME NEW a, NEW b, NEW low, NEW high, NEW half \in {4, 16, 128}, DOMAIN a = 0 .. 2 * half - 1
  PROVE  /\ DOMAIN Permute2x128(a, b, low, high) = 0 .. 2 * half - 1
         /\ \A i \in 0 .. 2 * half - 1 :
              Permute2x128(a, b, low, high)[i] =
                IF i < half THEN HalfLane(a, b, low, half, i) ELSE HalfLane(a, b, high, half, i - half)
<1>1. Cardinality(DOMAIN a) \div 2 = half
  <2>1. 8 \div 2 = 4 /\ 32 \div 2 = 16 /\ 256 \div 2 = 128
    OBVIOUS
  <2>2. half = 4 => DOMAIN a = 0 .. 7
    OBVIOUS
  <2>3. half = 16 => DOMAIN a = 0 .. 31
    OBVIOUS
  <2>4. half = 128 => DOMAIN a = 0 .. 255
    OBVIOUS
  <2>5. half = 4 \/ half = 16 \/ half = 128
    OBVIOUS
  <2>6. half = 4 => Cardinality(DOMAIN a) \div 2 = half
    BY <2>1, <2>2, Size32, Zenon
  <2>7. half = 16 => Cardinality(DOMAIN a) \div 2 = half
    BY <2>1, <2>3, Size32, Zenon
  <2>8. half = 128 => Cardinality(DOMAIN a) \div 2 = half
    BY <2>1, <2>4, Size32, ZenonT(60)
  <2> QED
    BY <2>5, <2>6, <2>7, <2>8
<1>2. /\ DOMAIN Permute2x128(a, b, low, high) = DOMAIN a
      /\ \A i \in DOMAIN a :
           Permute2x128(a, b, low, high)[i] =
             IF i < Cardinality(DOMAIN a) \div 2
             THEN HalfLane(a, b, low, Cardinality(DOMAIN a) \div 2, i)
             ELSE HalfLane(a, b, high, Cardinality(DOMAIN a) \div 2, i - (Cardinality(DOMAIN a) \div 2))
  BY Zenon DEF Permute2x128, HalfLane
<1> QED
  BY <1>1, <1>2

LEMMA Permute32Is ==
  ASSUME NEW a, NEW b, NEW low, NEW high, DOMAIN a = 0 .. 31
  PROVE  \A i \in 0 .. 31 : Permute2x128(a, b, low, high)[i] =
                             IF i < 16 THEN HalfLane(a, b, low, 16, i) ELSE HalfLane(a, b, high, 16, i - 16)
<1>1. 2 * 16 - 1 = 31 /\ 16 \in {4, 16, 128}
  OBVIOUS
<1> QED
  BY <1>1, PermuteIs

(* incremental_upsample8 puts one lane of a register of 8 into every lane. *)
LEMMA UpsampleIsLane ==
  ASSUME NEW r, DOMAIN r = 0 .. 7, NEW n \in 0 .. 7, NEW k \in 0 .. 7
  PROVE  Upsample8(r, n)[k] = r[n]
<1> DEFINE r10 == Permute2x128(r, r, 1, 0)
           r0 == Blend(r, r10, 4 .. 7)
           r1 == Blend(r, r10, 0 .. 3)
           s == [j \in 1 .. 4 |-> n % 4]
<1>1. r10 = [i \in 0 .. 7 |-> IF i < 4 THEN r[4 + i] ELSE r[i - 4]]
  BY Size32 DEF Permute2x128
<1>2. r0 = [i \in 0 .. 7 |-> IF i \in 4 .. 7 THEN r[i - 4] ELSE r[i]]
  BY <1>1, Size32 DEF Blend
<1>3. r1 = [i \in 0 .. 7 |-> IF i \in 0 .. 3 THEN r[4 + i] ELSE r[i]]
  BY <1>1, Size32 DEF Blend
<1>4. Upsample8(r, n) = IF n < 4 THEN ShufflePs(r0, r0, s) ELSE ShufflePs(r1, r1, s)
  BY DEF Upsample8
<1> HIDE DEF r0, r1
<1>5. \A x : ShufflePs(x, x, s)[k] = x[4 * (k \div 4) + (n % 4)]
  <2>1. (k % 4) + 1 \in 1 .. 4
    OBVIOUS
  <2> QED
    BY <2>1 DEF ShufflePs
<1>6. CASE n < 4
  <2>1. Upsample8(r, n)[k] = r0[4 * (k \div 4) + n]
    BY <1>4, <1>5, <1>6
  <2>2. k \div 4 = 0 \/ k \div 4 = 1
    OBVIOUS
  <2> QED
    BY <1>2, <1>6, <2>1, <2>2
<1>7. CASE n >= 4
  <2>1. Upsample8(r, n)[k] = r1[4 * (k \div 4) + (n - 4)]
    BY <1>4, <1>5, <1>7
  <2>2. k \div 4 = 0 \/ k \div 4 = 1
    OBVIOUS
  <2> QED
    BY <1>3, <1>7, <2>1, <2>2
<1> QED
  BY <1>6, <1>7

(* The 32-bit lanes that decode32 makes, of which byte b is taken to be    *)
(* sample 8 * b + l for lane l: the shuffles undo that order.              *)
Lanes32(x) ==
  ShuffleEpi8(Blend(ShuffleEpi32(x, <<1, 0, 3, 2>>), Permute2x128(x, x, 1, 0), {0, 2, 5, 7}), ctl)

LEMMA LanesAreBytes ==
  ASSUME NEW x, DOMAIN x = 0 .. 31, NEW j \in 0 .. 31
  PROVE  Lanes32(x)[4 * (j % 8) + (j \div 8)] = x[j]
<1> DEFINE y == ShuffleEpi32(x, <<1, 0, 3, 2>>)
           z == Permute2x128(x, x, 1, 0)
           b == Blend(y, z, {0, 2, 5, 7})
           m == 4 * (j % 8) + (j \div 8)
<1>1. \A i \in 0 .. 31 : z[i] = IF i < 16 THEN x[16 + i] ELSE x[i - 16]
  <2>1. \A i \in 0 .. 31 : z[i] = IF i < 16 THEN HalfLane(x, x, 1, 16, i) ELSE HalfLane(x, x, 0, 16, i - 16)
    BY PermuteIs
  <2> QED
    BY <2>1 DEF HalfLane
<1>2. /\ DOMAIN y = 0 .. 31
      /\ \A i \in 0 .. 31 : y[i] = x[16 * (i \div 16) + 4 * <<1, 0, 3, 2>>[((i % 16) \div 4) + 1] + (i % 4)]
  BY DEF ShuffleEpi32
<1>3. \A i \in 0 .. 31 : b[i] = IF i \div 4 \in {0, 2, 5, 7} THEN z[i] ELSE y[i]
  <2> HIDE DEF y, z
  <2> QED
    BY <1>2, Blend32Is
<1>4. \A i \in 0 .. 31 : Lanes32(x)[i] = b[16 * (i \div 16) + ctl[i + 1]]
  BY DEF Lanes32, ShuffleEpi8, ctl
<1> HIDE DEF y, z, b
<1>5. \/ j = 0 \/ j = 1 \/ j = 2 \/ j = 3 \/ j = 4 \/ j = 5 \/ j = 6 \/ j = 7
      \/ j = 8 \/ j = 9 \/ j = 10 \/ j = 11 \/ j = 12 \/ j = 13 \/ j = 14 \/ j = 15
      \/ j = 16 \/ j = 17 \/ j = 18 \/ j = 19 \/ j = 20 \/ j = 21 \/ j = 22 \/ j = 23
      \/ j = 24 \/ j = 25 \/ j = 26 \/ j = 27 \/ j = 28 \/ j = 29 \/ j = 30 \/ j = 31
  OBVIOUS
<1> QED
  BY <1>1, <1>2, <1>3, <1>4, <1>5 DEF ctl

(* A sample of a row, as the reference code decodes it. *)
RowSample(data, scales, offsets, prescale, it) ==
  [intensity |-> scales[it \div 16] * prescale * data[it] + offsets[it \div 16] * prescale,
   weight    |-> IF data[it] \in {0, 255} THEN 0 ELSE 1]

LEMMA DecodeRowIs ==
  ASSUME NEW data, NEW scales, NEW offsets, NEW prescale, NtPerChunk % 256 = 0,
         NEW it \in 0 .. NtPerChunk - 1
  PROVE  DecodeRow(data, scales, offsets, prescale)[it] = RowSample(data, scales, offsets, prescale, it)
<1> DEFINE i == it \div 128
           N == (it % 128) \div 32
           j == it % 32
           prescaled(a) == [k \in 0 .. 7 |-> a[8 * i + k] * prescale]
           block == Load(data, 128 * i, 128)
           x == Load(block, 32 * N, 32)
           n == 2 * N + (j \div 16)
<1>1. it \in Nat /\ NtPerChunk \in Nat
  BY ChunkAssumption
<1>2. /\ i \in Nat /\ N \in 0 .. 3 /\ j \in 0 .. 31 /\ n \in 0 .. 7
      /\ 128 * i + (32 * N + j) = it /\ 8 * i + n = it \div 16
      /\ 32 * N + j \in 0 .. 127
  BY <1>1
<1>3. DecodeRow(data, scales, offsets, prescale)[it] = decode32(N, block, prescaled(scales), prescaled(offsets))[j]
  BY DEF DecodeRow
<1> HIDE DEF i, N, j
<1>4. x[j] = data[it] /\ DOMAIN x = 0 .. 31
  <2>1. x[j] = block[32 * N + j]
    BY <1>2, SMTT(30) DEF Load, Window
  <2>2. block[32 * N + j] = data[128 * i + (32 * N + j)]
    BY <1>2 DEF Load, Window
  <2>3. DOMAIN x = 0 .. 31
    BY DEF Load, Window
  <2> QED
    BY <1>2, <2>1, <2>2, <2>3
<1> HIDE DEF block
<1>5. decode32(N, block, prescaled(scales), prescaled(offsets))[j] =
        [intensity |-> Upsample8(prescaled(scales), n)[j % 8] * Lanes32(x)[4 * (j % 8) + (j \div 8)]
                         + Upsample8(prescaled(offsets), n)[j % 8],
         weight |-> IF Lanes32(x)[4 * (j % 8) + (j \div 8)] \in {0, 255} THEN 0 ELSE 1]
  <2> HIDE DEF prescaled
  <2> QED
    BY <1>2 DEF decode32, Lanes32
<1> HIDE DEF x
<1>6. Lanes32(x)[4 * (j % 8) + (j \div 8)] = data[it]
  BY <1>2, <1>4, LanesAreBytes
<1>7. \A a : Upsample8(prescaled(a), n)[j % 8] = a[it \div 16] * prescale
  <2> SUFFICES ASSUME NEW a PROVE Upsample8(prescaled(a), n)[j % 8] = a[it \div 16] * prescale
    OBVIOUS
  <2> DEFINE r == prescaled(a)
  <2>1. DOMAIN r = 0 .. 7 /\ r[n] = a[8 * i + n] * prescale
    BY <1>2
  <2>2. j % 8 \in 0 .. 7
    BY <1>2
  <2> HIDE DEF r
  <2>3. Upsample8(r, n)[j % 8] = r[n]
    BY <1>2, <2>1, <2>2, UpsampleIsLane
  <2> QED
    BY <1>2, <2>1, <2>3 DEF r
<1> HIDE DEF prescaled, n
<1> QED
  BY <1>3, <1>5, <1>6, <1>7 DEF RowSample

(* decode() of fast_assembled_chunk gives what that of assembled_chunk     *)
(* gives, for every chunk and every prescale: each of its shuffles puts    *)
(* each byte, scale and offset into the lane where the reference code has  *)
(* it.                                                                     *)
THEOREM FastDecodes ==
  ASSUME NEW c, c.nt_per_packet = 16, c.nupfreq \in Nat \ {0}, NtPerChunk % 256 = 0, NEW prescale
  PROVE  FastDecodedChunk(c, prescale) = DecodedChunk(c, prescale)
<1>1. NfreqCoarseTot \in Nat /\ NtPerChunk \in Nat
  BY ChunkAssumption, PacketAssumption
<1>2. ASSUME NEW fine \in 0 .. NfreqCoarseTot * c.nupfreq - 1, NEW it \in 0 .. NtPerChunk - 1
      PROVE  FastDecodedChunk(c, prescale)[fine][it] = DecodedSample(c, fine, it, prescale)
  <2> DEFINE coarse == fine \div c.nupfreq
             data == Window(c.data, fine * NtPerChunk, NtPerChunk)
             scales == Window(c.scales, coarse * NtCoarse(c), NtCoarse(c))
             offsets == Window(c.offsets, coarse * NtCoarse(c), NtCoarse(c))
  <2>1. FastDecodedChunk(c, prescale)[fine] = DecodeRow(data, scales, offsets, prescale)
    BY DEF FastDecodedChunk
  <2>2. data[it] = c.data[fine * NtPerChunk + it]
    BY DEF Window
  <2>3. it \div 16 \in 0 .. NtCoarse(c) - 1
    BY <1>1 DEF NtCoarse
  <2>4. scales[it \div 16] = c.scales[coarse * NtCoarse(c) + (it \div 16)]
        /\ offsets[it \div 16] = c.offsets[coarse * NtCoarse(c) + (it \div 16)]
    BY <2>3 DEF Window
  <2> HIDE DEF data, scales, offsets
  <2>6. DecodeRow(data, scales, offsets, prescale)[it] = RowSample(data, scales, offsets, prescale, it)
    BY DecodeRowIs, SMTT(30)
  <2> QED
    BY <2>1, <2>2, <2>4, <2>6 DEF RowSample, DecodedSample, Masked
<1>3. /\ DOMAIN FastDecodedChunk(c, prescale) = 0 .. NfreqCoarseTot * c.nupfreq - 1
      /\ \A fine \in 0 .. NfreqCoarseTot * c.nupfreq - 1 :
           FastDecodedChunk(c, prescale)[fine] =
             [it \in 0 .. NtPerChunk - 1 |-> FastDecodedChunk(c, prescale)[fine][it]]
  BY DEF FastDecodedChunk, DecodeRow
<1>4. FastDecodedChunk(c, prescale) =
        [fine \in 0 .. NfreqCoarseTot * c.nupfreq - 1 |-> FastDecodedChunk(c, prescale)[fine]]
  BY DEF FastDecodedChunk
<1> QED
  BY <1>2, <1>3, <1>4 DEF DecodedChunk
-----------------------------------------------------------------------------
(* Sums and roots.                                                         *)
LEMMA SumStep ==
  ASSUME NEW f, NEW n \in Nat
  PROVE  SumTo(0, f) = 0 /\ SumTo(n + 1, f) = SumTo(n, f) + f[n]
<1> DEFINE step(s, i) == IF i = 0 THEN 0 ELSE s[i - 1] + f[i - 1]
           S == {m \in Nat : \E s : s = [i \in 0 .. m |-> step(s, i)]}
           sum(m) == CHOOSE s : s = [i \in 0 .. m |-> step(s, i)]
           a == sum(n)
           b == sum(n + 1)
           T == {i \in Nat : i <= n => a[i] = b[i]}
<1>1. \A m : SumTo(m, f) = sum(m)[m]
  BY DEF SumTo
<1>2. 0 \in S
  <2> DEFINE s == [i \in 0 .. 0 |-> 0]
  <2>1. s = [i \in 0 .. 0 |-> step(s, i)]
    OBVIOUS
  <2> QED
    BY <2>1
<1>3. ASSUME NEW m \in Nat, m \in S PROVE m + 1 \in S
  <2>1. PICK s : s = [i \in 0 .. m |-> step(s, i)]
    BY <1>3
  <2> DEFINE g == [i \in 0 .. m + 1 |-> IF i <= m THEN s[i] ELSE step(s, i)]
  <2>2. ASSUME NEW i \in 0 .. m + 1 PROVE g[i] = step(g, i)
    <3>1. step(g, i) = step(s, i)
      OBVIOUS
    <3>2. i <= m => s[i] = step(s, i)
      <4>1. i <= m => i \in 0 .. m
        OBVIOUS
      <4> QED
        BY <2>1, <4>1, Zenon
    <3> QED
      BY <3>1, <3>2
  <2>3. g = [i \in 0 .. m + 1 |-> step(g, i)]
    BY <2>2, Zenon
  <2> HIDE DEF g, step
  <2> QED
    BY <2>3
<1>4. \A m \in Nat : \A i \in 0 .. m : sum(m)[i] = step(sum(m), i)
  <2> SUFFICES ASSUME NEW m \in Nat PROVE \A i \in 0 .. m : sum(m)[i] = step(sum(m), i)
    OBVIOUS
  <2>1. m \in S
    BY <1>2, <1>3, NatSetInduction
  <2>2. sum(m) = [i \in 0 .. m |-> step(sum(m), i)]
    BY <2>1, Zenon
  <2> QED
    BY <2>2, Zenon
<1> HIDE DEF sum
<1>5. n + 1 \in Nat
  OBVIOUS
<1>6. (\A i \in 0 .. n : a[i] = step(a, i)) /\ (\A i \in 0 .. n + 1 : b[i] = step(b, i))
  BY <1>4, <1>5, Zenon
<1>7. SumTo(n, f) = a[n] /\ SumTo(n + 1, f) = b[n + 1] /\ SumTo(0, f) = 0
  BY <1>1, <1>4
<1> HIDE DEF a, b
<1>8. 0 \in T
  BY <1>6
<1>9. ASSUME NEW i \in Nat, i \in T PROVE i + 1 \in T
  <2> SUFFICES ASSUME i + 1 <= n PROVE a[i + 1] = b[i + 1]
    OBVIOUS
  <2>1. a[i] = b[i] /\ i + 1 \in 0 .. n /\ i + 1 \in 0 .. n + 1 /\ i + 1 # 0 /\ (i + 1) - 1 = i
    BY <1>9
  <2> QED
    BY <1>6, <2>1
<1>10. a[n] = b[n]
  <2>1. n \in T
    BY <1>8, <1>9, NatSetInduction
  <2> QED
    BY <2>1
<1>11. n + 1 \in 0 .. n + 1 /\ n + 1 # 0 /\ (n + 1) - 1 = n
  OBVIOUS
<1> QED
  BY <1>6, <1>7, <1>10, <1>11

(* A sum of integers is an integer, and not negative if none of them is. *)
LEMMA SumIsInt ==
  ASSUME NEW f, NEW n \in Nat, \A i \in 0 .. n - 1 : f[i] \in Int
  PROVE  /\ SumTo(n, f) \in Int
         /\ (\A i \in 0 .. n - 1 : f[i] >= 0) => SumTo(n, f) >= 0
<1> DEFINE S == {m \in Nat : m <= n => /\ SumTo(m, f) \in Int
                                       /\ (\A i \in 0 .. n - 1 : f[i] >= 0) => SumTo(m, f) >= 0}
<1>1. 0 \in S
  BY SumStep
<1>2. ASSUME NEW m \in Nat, m \in S PROVE m + 1 \in S
  <2> SUFFICES ASSUME m + 1 <= n
               PROVE  /\ SumTo(m + 1, f) \in Int
                      /\ (\A i \in 0 .. n - 1 : f[i] >= 0) => SumTo(m + 1, f) >= 0
    OBVIOUS
  <2>1. m \in 0 .. n - 1 /\ f[m] \in Int
    OBVIOUS
  <2>2. SumTo(m + 1, f) = SumTo(m, f) + f[m]
    BY SumStep
  <2> QED
    BY <1>2, <2>1, <2>2
<1>3. n \in S
  BY <1>1, <1>2, NatSetInduction
<1> QED
  BY <1>3

LEMMA SumsAgree ==
  ASSUME NEW f, NEW g, NEW n \in Nat, \A i \in 0 .. n - 1 : f[i] = g[i]
  PROVE  SumTo(n, f) = SumTo(n, g)
<1> DEFINE S == {m \in Nat : m <= n => SumTo(m, f) = SumTo(m, g)}
<1>1. 0 \in S
  BY SumStep
<1>2. ASSUME NEW m \in Nat, m \in S PROVE m + 1 \in S
  <2> SUFFICES ASSUME m + 1 <= n PROVE SumTo(m + 1, f) = SumTo(m + 1, g)
    OBVIOUS
  <2>1. m \in 0 .. n - 1 /\ SumTo(m, f) = SumTo(m, g)
    BY <1>2
  <2>2. f[m] = g[m]
    BY <2>1
  <2> QED
    BY <2>1, <2>2, SumStep
<1>3. n \in S
  BY <1>1, <1>2, NatSetInduction
<1> QED
  BY <1>3

(* A sum in blocks of 16. *)
Sixteen(f, k) ==
  f[k] + f[k + 1] + f[k + 2] + f[k + 3] + f[k + 4] + f[k + 5] + f[k + 6] + f[k + 7]
    + f[k + 8] + f[k + 9] + f[k + 10] + f[k + 11] + f[k + 12] + f[k + 13] + f[k + 14] + f[k + 15]

LEMMA SumInBlocks ==
  ASSUME NEW f, NEW n \in Nat, \A i \in 0 .. n * 16 - 1 : f[i] \in Int,
         NEW g, \A u \in 0 .. n - 1 : g[u] = Sixteen(f, 16 * u)
  PROVE  SumTo(n * 16, f) = SumTo(n, g)
<1> DEFINE S == {m \in Nat : m <= n => SumTo(m * 16, f) = SumTo(m, g)}
<1>1. 0 \in S
  BY SumStep
<1>2. ASSUME NEW m \in Nat, m \in S PROVE m + 1 \in S
  <2> SUFFICES ASSUME m + 1 <= n PROVE SumTo((m + 1) * 16, f) = SumTo(m + 1, g)
    OBVIOUS
  <2> DEFINE k == 16 * m
  <2>1. k \in Nat /\ m * 16 = k /\ (m + 1) * 16 = k + 16 /\ SumTo(k, f) = SumTo(m, g) /\ k + 15 <= n * 16 - 1
    BY <1>2
  <2>2. \A i \in 0 .. k - 1 : f[i] \in Int
    BY <2>1
  <2>3. SumTo(k, f) \in Int
    BY <2>1, <2>2, SumIsInt
  <2>4. g[m] = Sixteen(f, k) /\ SumTo(m + 1, g) = SumTo(m, g) + g[m]
    BY SumStep
  <2>5. \A j \in 0 .. 15 : f[k + j] \in Int
    BY <2>1
  <2>6. \A j \in 0 .. 15 : SumTo((k + j) + 1, f) = SumTo(k + j, f) + f[k + j]
    BY <2>1, SumStep
  <2> HIDE DEF k
  <2>7. SumTo(k + 16, f) = SumTo(k, f) + Sixteen(f, k)
    <3> DEFINE s(j) == SumTo(k + j, f)
    <3>1. \A j \in 0 .. 15 : s(j + 1) = s(j) + f[k + j]
      <4>1. \A j \in 0 .. 15 : k + (j + 1) = (k + j) + 1
        BY <2>1
      <4> QED
        BY <2>6, <4>1
    <3>2. s(0) = SumTo(k, f) /\ s(16) = SumTo(k + 16, f) /\ f[k + 0] = f[k]
      BY <2>1
    <3> HIDE DEF s
    <3>3. s(0) \in Int
      BY <2>3, <3>2
    <3>4. s(1) = s(0) + f[k] /\ s(2) = s(1) + f[k + 1] /\ s(3) = s(2) + f[k + 2] /\ s(4) = s(3) + f[k + 3]
          /\ s(5) = s(4) + f[k + 4] /\ s(6) = s(5) + f[k + 5] /\ s(7) = s(6) + f[k + 6]
          /\ s(8) = s(7) + f[k + 7] /\ s(9) = s(8) + f[k + 8] /\ s(10) = s(9) + f[k + 9]
          /\ s(11) = s(10) + f[k + 10] /\ s(12) = s(11) + f[k + 11] /\ s(13) = s(12) + f[k + 12]
          /\ s(14) = s(13) + f[k + 13] /\ s(15) = s(14) + f[k + 14] /\ s(16) = s(15) + f[k + 15]
      BY <3>1, <3>2
    <3>5. /\ f[k] \in Int /\ f[k + 1] \in Int /\ f[k + 2] \in Int /\ f[k + 3] \in Int
          /\ f[k + 4] \in Int /\ f[k + 5] \in Int /\ f[k + 6] \in Int /\ f[k + 7] \in Int
          /\ f[k + 8] \in Int /\ f[k + 9] \in Int /\ f[k + 10] \in Int /\ f[k + 11] \in Int
          /\ f[k + 12] \in Int /\ f[k + 13] \in Int /\ f[k + 14] \in Int /\ f[k + 15] \in Int
      BY <2>5, <3>2
    <3> DEFINE q0 == f[k] + f[k + 1] + f[k + 2] + f[k + 3]
               q1 == f[k + 4] + f[k + 5] + f[k + 6] + f[k + 7]
               q2 == f[k + 8] + f[k + 9] + f[k + 10] + f[k + 11]
               q3 == f[k + 12] + f[k + 13] + f[k + 14] + f[k + 15]
    <3>6. s(4) = s(0) + q0 /\ s(4) \in Int /\ q0 \in Int
      BY <3>3, <3>4, <3>5
    <3>7. s(8) = s(4) + q1 /\ s(8) \in Int /\ q1 \in Int
      BY <3>4, <3>5, <3>6
    <3>8. s(12) = s(8) + q2 /\ s(12) \in Int /\ q2 \in Int
      BY <3>4, <3>5, <3>7
    <3>9. s(16) = s(12) + q3 /\ s(16) \in Int /\ q3 \in Int
      BY <3>4, <3>5, <3>8
    <3>10. Sixteen(f, k) = ((q0 + q1) + q2) + q3
      <4>1. Sixteen(f, k) = q0 + f[k + 4] + f[k + 5] + f[k + 6] + f[k + 7]
              + f[k + 8] + f[k + 9] + f[k + 10] + f[k + 11] + f[k + 12] + f[k + 13] + f[k + 14] + f[k + 15]
        BY DEF Sixteen
      <4> HIDE DEF q0
      <4>2. q0 + f[k + 4] + f[k + 5] + f[k + 6] + f[k + 7] = q0 + q1 /\ q0 + q1 \in Int
        BY <3>5, <3>6
      <4> DEFINE r1 == q0 + q1
      <4>3. r1 + f[k + 8] + f[k + 9] + f[k + 10] + f[k + 11] = r1 + q2 /\ r1 + q2 \in Int
        BY <3>5, <3>7, <4>2
      <4> DEFINE r2 == r1 + q2
      <4>4. r2 + f[k + 12] + f[k + 13] + f[k + 14] + f[k + 15] = r2 + q3
        BY <3>5, <4>3
      <4> QED
        BY <4>1, <4>2, <4>3, <4>4
    <3> HIDE DEF q0, q1, q2, q3
    <3>11. s(16) = s(0) + Sixteen(f, k)
      BY <3>3, <3>6, <3>7, <3>8, <3>9, <3>10
    <3> QED
      BY <3>2, <3>11
  <2> QED
    BY <2>1, <2>4, <2>7
<1>3. n \in S
  BY <1>1, <1>2, NatSetInduction
<1> QED
  BY <1>3

LEMMA SqrtIsNat == \A x : Sqrt(x) \in Nat
<1> SUFFICES ASSUME NEW x PROVE Sqrt(x) \in Nat
  OBVIOUS
<1> DEFINE step(r, k) == IF k = 0 THEN 0
                         ELSE LET low  == r[k - 1]
                                  high == low + Bits[k]
                              IN  IF high * high <= x THEN high ELSE low
           S == {m \in Nat : \E r : r = [k \in 0 .. m |-> step(r, k)]}
           root == CHOOSE r : r = [k \in 0 .. 15 |-> step(r, k)]
           T == {k \in Nat : k <= 15 => root[k] \in Nat}
<1>1. Sqrt(x) = root[15]
  BY DEF Sqrt
<1>2. 0 \in S
  <2> DEFINE r == [k \in 0 .. 0 |-> 0]
  <2>1. r = [k \in 0 .. 0 |-> step(r, k)]
    OBVIOUS
  <2> QED
    BY <2>1
<1>3. ASSUME NEW m \in Nat, m \in S PROVE m + 1 \in S
  <2>1. PICK r : r = [k \in 0 .. m |-> step(r, k)]
    BY <1>3
  <2> DEFINE g == [k \in 0 .. m + 1 |-> IF k <= m THEN r[k] ELSE step(r, k)]
  <2>2. ASSUME NEW k \in 0 .. m + 1 PROVE g[k] = step(g, k)
    <3>1. step(g, k) = step(r, k)
      <4>1. k # 0 => g[k - 1] = r[k - 1]
        OBVIOUS
      <4> HIDE DEF g
      <4> QED
        BY <4>1
    <3>2. k <= m => r[k] = step(r, k)
      <4>1. k <= m => k \in 0 .. m
        OBVIOUS
      <4> QED
        BY <2>1, <4>1, Zenon
    <3> HIDE DEF step
    <3> QED
      BY <3>1, <3>2
  <2>3. g = [k \in 0 .. m + 1 |-> step(g, k)]
    BY <2>2, Zenon
  <2> HIDE DEF g, step
  <2> QED
    BY <2>3
<1>4. 15 \in S
  BY <1>2, <1>3, NatSetInduction
<1>5. \A k \in 0 .. 15 : root[k] = step(root, k)
  <2>1. root = [k \in 0 .. 15 |-> step(root, k)]
    BY <1>4, Zenon
  <2> QED
    BY <2>1, Zenon
<1> HIDE DEF root
<1>6. 0 \in T
  BY <1>5
<1>7. ASSUME NEW k \in Nat, k \in T PROVE k + 1 \in T
  <2> SUFFICES ASSUME k + 1 <= 15 PROVE root[k + 1] \in Nat
    OBVIOUS
  <2>1. root[k] \in Nat /\ k + 1 \in 0 .. 15 /\ k + 1 \in 1 .. 15 /\ (k + 1) - 1 = k
    BY <1>7
  <2>2. Bits[k + 1] \in Nat
    BY <2>1 DEF Bits
  <2>3. root[k + 1] = root[k] + Bits[k + 1] \/ root[k + 1] = root[k]
    BY <1>5, <2>1
  <2> QED
    BY <2>1, <2>2, <2>3
<1>8. 15 \in T
  BY <1>6, <1>7, NatSetInduction
<1> QED
  BY <1>1, <1>8

-----------------------------------------------------------------------------
(* incremental_downsample8 puts the sum of the lanes of register q in lane *)
(* q, whatever way they take through the halves.                           *)
Half4(r, h) == (r[4 * h] + r[4 * h + 1]) + (r[4 * h + 2] + r[4 * h + 3])

LEMMA PairSumsAre ==
  ASSUME NEW a, NEW b, NEW h \in 0 .. 1
  PROVE  /\ DOMAIN PairSums(a, b) = 0 .. 7
         /\ PairSums(a, b)[4 * h] = a[4 * h] + a[4 * h + 1]
         /\ PairSums(a, b)[4 * h + 1] = a[4 * h + 2] + a[4 * h + 3]
         /\ PairSums(a, b)[4 * h + 2] = b[4 * h] + b[4 * h + 1]
         /\ PairSums(a, b)[4 * h + 3] = b[4 * h + 2] + b[4 * h + 3]
<1> DEFINE even == ShufflePs(a, b, <<0, 2, 0, 2>>)
           odd  == ShufflePs(a, b, <<1, 3, 1, 3>>)
<1>1. /\ DOMAIN even = 0 .. 7
      /\ even[4 * h] = a[4 * h] /\ even[4 * h + 1] = a[4 * h + 2]
      /\ even[4 * h + 2] = b[4 * h] /\ even[4 * h + 3] = b[4 * h + 2]
  <2>1. CASE h = 0
    BY <2>1 DEF ShufflePs
  <2>2. CASE h = 1
    BY <2>2 DEF ShufflePs
  <2> QED
    BY <2>1, <2>2
<1>2. /\ odd[4 * h] = a[4 * h + 1] /\ odd[4 * h + 1] = a[4 * h + 3]
      /\ odd[4 * h + 2] = b[4 * h + 1] /\ odd[4 * h + 3] = b[4 * h + 3]
  <2>1. CASE h = 0
    BY <2>1 DEF ShufflePs
  <2>2. CASE h = 1
    BY <2>2 DEF ShufflePs
  <2> QED
    BY <2>1, <2>2
<1>3. PairSums(a, b) = [i \in DOMAIN even |-> even[i] + odd[i]]
  BY DEF PairSums, Added
<1>4. {4 * h, 4 * h + 1, 4 * h + 2, 4 * h + 3} \subseteq 0 .. 7
  OBVIOUS
<1> HIDE DEF even, odd
<1> QED
  BY <1>1, <1>2, <1>3, <1>4

LEMMA DownsampleIsSum ==
  ASSUME NEW x, \A N \in 0 .. 7, l \in 0 .. 7 : x[N][l] \in Int, NEW q \in 0 .. 7
  PROVE  incremental_downsample8(x)[q] = Half4(x[q], 0) + Half4(x[q], 1)
<1> DEFINE quad(a, b, c, d) == PairSums(PairSums(a, b), PairSums(c, d))
           lower == quad(x[0], x[1], x[2], x[3])
           upper == quad(x[4], x[5], x[6], x[7])
<1>1. ASSUME NEW a, NEW b, NEW c, NEW d, NEW h \in 0 .. 1
      PROVE  /\ DOMAIN quad(a, b, c, d) = 0 .. 7
             /\ quad(a, b, c, d)[4 * h] = Half4(a, h)
             /\ quad(a, b, c, d)[4 * h + 1] = Half4(b, h)
             /\ quad(a, b, c, d)[4 * h + 2] = Half4(c, h)
             /\ quad(a, b, c, d)[4 * h + 3] = Half4(d, h)
  <2> DEFINE ab == PairSums(a, b)
             cd == PairSums(c, d)
  <2>1. /\ ab[4 * h] = a[4 * h] + a[4 * h + 1] /\ ab[4 * h + 1] = a[4 * h + 2] + a[4 * h + 3]
        /\ ab[4 * h + 2] = b[4 * h] + b[4 * h + 1] /\ ab[4 * h + 3] = b[4 * h + 2] + b[4 * h + 3]
    BY PairSumsAre
  <2>2. /\ cd[4 * h] = c[4 * h] + c[4 * h + 1] /\ cd[4 * h + 1] = c[4 * h + 2] + c[4 * h + 3]
        /\ cd[4 * h + 2] = d[4 * h] + d[4 * h + 1] /\ cd[4 * h + 3] = d[4 * h + 2] + d[4 * h + 3]
    BY PairSumsAre
  <2> HIDE DEF ab, cd
  <2>3. /\ DOMAIN PairSums(ab, cd) = 0 .. 7
        /\ PairSums(ab, cd)[4 * h] = ab[4 * h] + ab[4 * h + 1]
        /\ PairSums(ab, cd)[4 * h + 1] = ab[4 * h + 2] + ab[4 * h + 3]
        /\ PairSums(ab, cd)[4 * h + 2] = cd[4 * h] + cd[4 * h + 1]
        /\ PairSums(ab, cd)[4 * h + 3] = cd[4 * h + 2] + cd[4 * h + 3]
    BY PairSumsAre
  <2>4. quad(a, b, c, d) = PairSums(ab, cd)
    BY DEF ab, cd
  <2> HIDE DEF quad
  <2> QED
    BY <2>1, <2>2, <2>3, <2>4, Zenon DEF Half4
<1>2. 0 \in 0 .. 1 /\ 1 \in 0 .. 1
  OBVIOUS
<1>3. /\ DOMAIN lower = 0 .. 7 /\ DOMAIN upper = 0 .. 7
      /\ lower[0] = Half4(x[0], 0) /\ lower[1] = Half4(x[1], 0)
      /\ lower[2] = Half4(x[2], 0) /\ lower[3] = Half4(x[3], 0)
      /\ upper[0] = Half4(x[4], 0) /\ upper[1] = Half4(x[5], 0)
      /\ upper[2] = Half4(x[6], 0) /\ upper[3] = Half4(x[7], 0)
  <2> HIDE DEF quad
  <2>1. 4 * 0 = 0 /\ 4 * 0 + 1 = 1 /\ 4 * 0 + 2 = 2 /\ 4 * 0 + 3 = 3
    OBVIOUS
  <2> QED
    BY <1>1, <1>2, <2>1
<1>4. /\ lower[4] = Half4(x[0], 1) /\ lower[5] = Half4(x[1], 1)
      /\ lower[6] = Half4(x[2], 1) /\ lower[7] = Half4(x[3], 1)
      /\ upper[4] = Half4(x[4], 1) /\ upper[5] = Half4(x[5], 1)
      /\ upper[6] = Half4(x[6], 1) /\ upper[7] = Half4(x[7], 1)
  <2> HIDE DEF quad
  <2>1. 4 * 1 = 4 /\ 4 * 1 + 1 = 5 /\ 4 * 1 + 2 = 6 /\ 4 * 1 + 3 = 7
    OBVIOUS
  <2> QED
    BY <1>1, <1>2, <2>1
<1>5. incremental_downsample8(x) = HalvesJoined(lower, upper)
  BY DEF incremental_downsample8
<1> HIDE DEF lower, upper
<1> DEFINE blend == Blend(lower, upper, 4 .. 7)
           cross == Permute2x128(lower, upper, 1, 2)
<1>6. DOMAIN blend = 0 .. 7 /\ \A i \in 0 .. 7 : blend[i] = IF i \in 4 .. 7 THEN upper[i] ELSE lower[i]
  BY <1>3, BlendIs
<1>7. \A i \in 0 .. 7 : cross[i] = IF i < 4 THEN lower[4 + i] ELSE upper[i - 4]
  <2>1. \A i \in 0 .. 7 : cross[i] = IF i < 4 THEN HalfLane(lower, upper, 1, 4, i)
                                     ELSE HalfLane(lower, upper, 2, 4, i - 4)
    BY <1>3, PermuteIs
  <2> QED
    BY <2>1 DEF HalfLane
<1>8. incremental_downsample8(x)[q] = blend[q] + cross[q]
  BY <1>5, <1>6 DEF HalvesJoined, Added
<1> HIDE DEF blend, cross
<1>9. Half4(x[q], 0) \in Int /\ Half4(x[q], 1) \in Int
  <2>1. \A l \in 0 .. 7 : x[q][l] \in Int
    OBVIOUS
  <2> QED
    BY <2>1 DEF Half4
<1>10. q = 0 \/ q = 1 \/ q = 2 \/ q = 3 \/ q = 4 \/ q = 5 \/ q = 6 \/ q = 7
  OBVIOUS
<1>11. CASE q \in 0 .. 3
  <2>1. blend[q] = Half4(x[q], 0) /\ cross[q] = Half4(x[q], 1)
    BY <1>3, <1>4, <1>6, <1>7, <1>10, <1>11
  <2> QED
    BY <1>8, <2>1
<1>12. CASE q \in 4 .. 7
  <2>1. blend[q] = Half4(x[q], 1) /\ cross[q] = Half4(x[q], 0)
    BY <1>3, <1>4, <1>6, <1>7, <1>10, <1>12
  <2> QED
    BY <1>8, <1>9, <2>1
<1> QED
  BY <1>11, <1>12

-----------------------------------------------------------------------------
(* Places in arrays of rows. *)
LEMMA InRow ==
  ASSUME NEW n \in Nat, NEW H \in Nat, NEW u \in 0 .. n - 1, NEW r \in 0 .. H - 1
  PROVE  u * H + r \in 0 .. n * H - 1 /\ u * H \in Nat
<1>1. u * H \in Nat /\ n * H \in Nat /\ (u + 1) * H = u * H + H
  OBVIOUS
<1>2. n = (u + 1) + (n - (u + 1)) /\ n - (u + 1) \in Nat
  OBVIOUS
<1>3. n * H = (u + 1) * H + (n - (u + 1)) * H
  BY <1>2
<1>4. (n - (u + 1)) * H \in Nat
  BY <1>2
<1>5. u * H + H <= n * H
  BY <1>1, <1>3, <1>4
<1> QED
  BY <1>1, <1>5

LEMMA RowOf ==
  ASSUME NEW H \in Nat \ {0}, NEW u \in Nat, NEW r \in 0 .. H - 1
  PROVE  (u * H + r) \div H = u /\ (u * H + r) % H = r
<1> DEFINE i == u * H + r
<1>1. i \in Nat /\ i \div H \in Nat /\ i % H \in 0 .. H - 1 /\ i = H * (i \div H) + (i % H)
  OBVIOUS
<1> DEFINE q == i \div H
           s == i % H
<1>2. q * H + s = u * H + r /\ q \in Nat /\ s \in 0 .. H - 1 /\ q * H \in Nat /\ u * H \in Nat
  BY <1>1
<1> HIDE DEF q, s
<1>3. q = u
  <2>1. ASSUME q < u PROVE FALSE
    <3>1. u = q + (u - q) /\ u - q >= 1 /\ u - q \in Nat
      BY <1>2, <2>1
    <3> DEFINE d == u - q
    <3>2. u * H = q * H + d * H /\ d * H >= H /\ d * H \in Nat
      <4>1. d \in Nat /\ d >= 1 /\ u = q + d
        BY <3>1
      <4> HIDE DEF d
      <4>2. u * H = q * H + d * H
        BY <1>2, <4>1
      <4>3. d * H = (d - 1) * H + H /\ (d - 1) * H \in Nat
        BY <4>1
      <4> QED
        BY <4>2, <4>3
    <3> HIDE DEF d
    <3> QED
      BY <1>2, <3>2
  <2>2. ASSUME q > u PROVE FALSE
    <3>1. q = u + (q - u) /\ q - u >= 1 /\ q - u \in Nat
      BY <1>2, <2>2
    <3> DEFINE d == q - u
    <3>2. q * H = u * H + d * H /\ d * H >= H /\ d * H \in Nat
      <4>1. d \in Nat /\ d >= 1 /\ q = u + d
        BY <3>1
      <4> HIDE DEF d
      <4>2. q * H = u * H + d * H
        BY <1>2, <4>1
      <4>3. d * H = (d - 1) * H + H /\ (d - 1) * H \in Nat
        BY <4>1
      <4> QED
        BY <4>2, <4>3
    <3> HIDE DEF d
    <3> QED
      BY <1>2, <3>2
  <2> QED
    BY <1>2, <2>1, <2>2
<1>4. s = r
  BY <1>2, <1>3
<1> QED
  BY <1>3, <1>4 DEF q, s

(* What FastSums sums up: 16 samples of each row, from sample 16 * p. *)
SumSample(x, p, k) == x[(k \div 16) * HalfChunk + p * 16 + (k % 16)]

LEMMA FastSumsAre ==
  ASSUME NtPerChunk % 256 = 0, NEW nupfreq \in Nat, NEW x,
         \A i \in 0 .. nupfreq * HalfChunk - 1 : x[i] \in Int,
         NEW p \in 0 .. (HalfChunk \div 16) - 1
  PROVE  FastSums(nupfreq, x)[p] =
           SumTo(nupfreq * 16, [k \in 0 .. nupfreq * 16 - 1 |-> SumSample(x, p, k)])
<1> DEFINE H == HalfChunk
           from(u) == u * H + 128 * (p \div 8)
           reg(u) == [N \in 0 .. 7 |-> [l \in 0 .. 7 |-> x[from(u) + 16 * N + l] + x[from(u) + 16 * N + 8 + l]]]
           f == [k \in 0 .. nupfreq * 16 - 1 |-> SumSample(x, p, k)]
           g == [u \in 0 .. nupfreq - 1 |-> incremental_downsample8(reg(u))[p % 8]]
<1>1. H \in Nat /\ H % 128 = 0
  BY ChunkAssumption DEF HalfChunk
<1>2. FastSums(nupfreq, x)[p] = SumTo(nupfreq, g)
  BY DEF FastSums
<1>3. p \in Nat /\ p % 8 \in 0 .. 7 /\ p \div 8 \in Nat /\ 8 * (p \div 8) + (p % 8) = p
      /\ 16 * p + 15 <= H - 1 /\ 128 * (p \div 8) + 127 <= H - 1
  BY <1>1
<1> HIDE DEF H
<1>4. ASSUME NEW u \in 0 .. nupfreq - 1, NEW r \in 0 .. H - 1
      PROVE  x[u * H + r] \in Int /\ u * H \in Nat
  BY <1>1, <1>4, InRow DEF H
<1>5. ASSUME NEW i \in 0 .. nupfreq * 16 - 1
      PROVE  f[i] \in Int
  <2>1. i \div 16 \in 0 .. nupfreq - 1 /\ i % 16 \in 0 .. 15 /\ p * 16 + (i % 16) \in 0 .. H - 1
    BY <1>1, <1>3
  <2>2. f[i] = x[(i \div 16) * H + p * 16 + (i % 16)]
    BY DEF SumSample, H
  <2> DEFINE u == i \div 16
             r == p * 16 + (i % 16)
  <2>3. u * H \in Nat /\ x[u * H + r] \in Int
    BY <1>4, <2>1
  <2>4. f[i] = x[u * H + r]
    <3>1. u * H + p * 16 + (i % 16) = u * H + r
      BY <1>3, <2>1, <2>3
    <3> QED
      BY <2>2, <3>1
  <2> QED
    BY <2>3, <2>4
<1>6. ASSUME NEW u \in 0 .. nupfreq - 1
      PROVE  g[u] = Sixteen(f, 16 * u)
  <2> DEFINE k == 16 * u
             base == u * H + p * 16
             y(j) == x[base + j]
  <2>1. k \in Nat /\ u * H \in Nat /\ base \in Nat /\ k + 15 <= nupfreq * 16 - 1
    BY <1>1, <1>3, <1>4
  <2>2. ASSUME NEW j \in 0 .. 15 PROVE f[k + j] = y(j) /\ y(j) \in Int
    <3>1. k + j \in 0 .. nupfreq * 16 - 1 /\ (k + j) \div 16 = u /\ (k + j) % 16 = j
      BY <2>1
    <3>2. f[k + j] = x[u * H + p * 16 + j]
      <4> HIDE DEF k
      <4> QED
        BY <3>1 DEF SumSample, H
    <3>3. u * H + p * 16 + j = base + j
      BY <1>3, <2>1
    <3>4. f[k + j] \in Int
      BY <1>5, <3>1
    <3> QED
      BY <3>2, <3>3, <3>4
  <2>3. ASSUME NEW N \in 0 .. 7, NEW l \in 0 .. 7
        PROVE  reg(u)[N][l] \in Int
    <3>1. 128 * (p \div 8) + 16 * N + l \in 0 .. H - 1 /\ 128 * (p \div 8) + 16 * N + 8 + l \in 0 .. H - 1
      BY <1>1, <1>3
    <3>2. x[u * H + (128 * (p \div 8) + 16 * N + l)] \in Int
          /\ x[u * H + (128 * (p \div 8) + 16 * N + 8 + l)] \in Int
      BY <1>4, <3>1
    <3>3. from(u) + 16 * N + l = u * H + (128 * (p \div 8) + 16 * N + l)
          /\ from(u) + 16 * N + 8 + l = u * H + (128 * (p \div 8) + 16 * N + 8 + l)
      BY <1>3, <2>1
    <3>4. reg(u)[N][l] = x[from(u) + 16 * N + l] + x[from(u) + 16 * N + 8 + l]
      OBVIOUS
    <3> HIDE DEF reg, from
    <3> QED
      BY <3>2, <3>3, <3>4
  <2> DEFINE q == p % 8
  <2>4. ASSUME NEW l \in 0 .. 7 PROVE reg(u)[q][l] = y(l) + y(8 + l)
    <3>1. reg(u)[q][l] = x[from(u) + 16 * q + l] + x[from(u) + 16 * q + 8 + l]
      BY <1>3
    <3>2. from(u) + 16 * q + l = base + l /\ from(u) + 16 * q + 8 + l = base + (8 + l)
      BY <1>3, <2>1
    <3> HIDE DEF reg, from, base
    <3> QED
      BY <3>1, <3>2
  <2> HIDE DEF reg
  <2> DEFINE R == reg(u)
  <2>5. g[u] = incremental_downsample8(R)[q]
    OBVIOUS
  <2> HIDE DEF g, R
  <2>6. incremental_downsample8(R)[q] = Half4(R[q], 0) + Half4(R[q], 1)
    <3>1. q \in 0 .. 7
      BY <1>3
    <3>2. \A N \in 0 .. 7, l \in 0 .. 7 : R[N][l] \in Int
      BY <2>3 DEF R
    <3> HIDE DEF q
    <3> QED
      BY <3>1, <3>2, DownsampleIsSum
  <2>7. /\ R[q][0] = y(0) + y(8) /\ R[q][1] = y(1) + y(9) /\ R[q][2] = y(2) + y(10) /\ R[q][3] = y(3) + y(11)
        /\ R[q][4] = y(4) + y(12) /\ R[q][5] = y(5) + y(13) /\ R[q][6] = y(6) + y(14) /\ R[q][7] = y(7) + y(15)
    <3> HIDE DEF y, q
    <3> QED
      BY <2>4 DEF R
  <2> HIDE DEF q, base, y
  <2>8. Half4(R[q], 0) + Half4(R[q], 1) =
          ((y(0) + y(8)) + (y(1) + y(9))) + ((y(2) + y(10)) + (y(3) + y(11)))
            + (((y(4) + y(12)) + (y(5) + y(13))) + ((y(6) + y(14)) + (y(7) + y(15))))
    BY <2>7 DEF Half4
  <2>9. Sixteen(f, k) = y(0) + y(1) + y(2) + y(3) + y(4) + y(5) + y(6) + y(7)
                          + y(8) + y(9) + y(10) + y(11) + y(12) + y(13) + y(14) + y(15)
    <3>1. f[k] = y(0)
      <4>1. k + 0 = k
        BY <2>1
      <4> QED
        BY <2>2, <4>1
    <3> HIDE DEF f, k
    <3> QED
      BY <2>2, <3>1 DEF Sixteen
  <2>10. /\ y(0) \in Int /\ y(1) \in Int /\ y(2) \in Int /\ y(3) \in Int
         /\ y(4) \in Int /\ y(5) \in Int /\ y(6) \in Int /\ y(7) \in Int
         /\ y(8) \in Int /\ y(9) \in Int /\ y(10) \in Int /\ y(11) \in Int
         /\ y(12) \in Int /\ y(13) \in Int /\ y(14) \in Int /\ y(15) \in Int
    BY <2>2
  <2>11. Half4(R[q], 0) + Half4(R[q], 1) = Sixteen(f, k)
    <3>1. ((y(0) + y(8)) + (y(1) + y(9))) + ((y(2) + y(10)) + (y(3) + y(11)))
            + (((y(4) + y(12)) + (y(5) + y(13))) + ((y(6) + y(14)) + (y(7) + y(15))))
          = y(0) + y(1) + y(2) + y(3) + y(4) + y(5) + y(6) + y(7)
                          + y(8) + y(9) + y(10) + y(11) + y(12) + y(13) + y(14) + y(15)
      BY <2>10
    <3> QED
      BY <2>8, <2>9, <3>1, Zenon
  <2> QED
    BY <2>5, <2>6, <2>11
<1> HIDE DEF f, g
<1>7. SumTo(nupfreq * 16, f) = SumTo(nupfreq, g)
  BY <1>5, <1>6, SumInBlocks
<1> QED
  BY <1>2, <1>7 DEF f

-----------------------------------------------------------------------------
(* Kernel 1: decode and average pairs of samples. *)

(* Row i \div HalfChunk, block of 128 samples, register, lane. *)
LEMMA BlockOf ==
  ASSUME NtPerChunk % 256 = 0, NEW i \in Nat
  PROVE  LET block == (i % HalfChunk) \div 128
             N == (i % 128) \div 16
             k == i % 16
         IN  /\ HalfChunk \in Nat \ {0} /\ NtPerChunk = 2 * HalfChunk /\ HalfChunk % 128 = 0
             /\ block \in Nat /\ N \in 0 .. 7 /\ k \in 0 .. 15
             /\ i % HalfChunk = 128 * block + 16 * N + k
             /\ i = (i \div HalfChunk) * HalfChunk + (i % HalfChunk)
             /\ (i \div HalfChunk) * HalfChunk \in Nat
             /\ i \div HalfChunk \in Nat /\ i % HalfChunk \in 0 .. HalfChunk - 1
             /\ (i % HalfChunk) % 128 = i % 128
<1> DEFINE H == HalfChunk
           h == H \div 128
           q == i \div H
           r == i % H
           z == h * q
<1>1. H \in Nat \ {0} /\ NtPerChunk = 2 * H /\ H % 128 = 0
  BY ChunkAssumption DEF HalfChunk
<1>2. h \in Nat /\ H = 128 * h
  BY <1>1
<1> HIDE DEF H
<1>3. q \in Nat /\ r \in 0 .. H - 1 /\ i = H * q + r
  BY <1>1
<1> HIDE DEF q, r, h
<1>4. z \in Nat /\ H * q = 128 * z /\ q * H = H * q
  BY <1>1, <1>2, <1>3
<1> HIDE DEF z
<1>5. i = 128 * z + r /\ r \in Nat
  BY <1>1, <1>3, <1>4
<1>6. i % 128 = r % 128
  BY <1>4, <1>5
<1>7. i % 16 = r % 16
  BY <1>4, <1>5
<1>8. r = 128 * (r \div 128) + 16 * ((r % 128) \div 16) + (r % 16)
      /\ r \div 128 \in Nat /\ (r % 128) \div 16 \in 0 .. 7 /\ r % 16 \in 0 .. 15
  BY <1>5
<1> QED
  BY <1>1, <1>3, <1>4, <1>6, <1>7, <1>8 DEF H, q, r

(* What reference and AVX2 code make of samples 2 * i and 2 * i + 1. *)
PairValid(d, i) == ~Masked(d[2 * i]) /\ ~Masked(d[2 * i + 1])
PairMean(d, offsets, scales, i) ==
  LET p == (i % HalfChunk) \div 8
  IN  ((scales[p] * (d[2 * i] + d[2 * i + 1])) \div 2) + offsets[p]
PairSample(d, offsets, scales, i) ==
  [data |-> IF PairValid(d, i) THEN PairMean(d, offsets, scales, i) ELSE 0,
   mask |-> IF PairValid(d, i) THEN -1 ELSE 0]

FastSample(d, offsets, scales, i) ==
  LET block == (i % HalfChunk) \div 128
  IN  ds_kernel1b(d, (i \div HalfChunk) * NtPerChunk + 256 * block,
                  Load(offsets, 16 * block, 16), Load(scales, 16 * block, 16))
        [(i % 128) \div 16][i % 16]

LEMMA FastSampleIs ==
  ASSUME NtPerChunk % 256 = 0, NEW d, NEW offsets, NEW scales, NEW i \in Nat
  PROVE  FastSample(d, offsets, scales, i) = PairSample(d, offsets, scales, i)
<1> DEFINE H == HalfChunk
           block == (i % H) \div 128
           N == (i % 128) \div 16
           k == i % 16
           from == (i \div H) * NtPerChunk + 256 * block
           o16 == Load(offsets, 16 * block, 16)
           s16 == Load(scales, 16 * block, 16)
           d8 == Load(d, from + 32 * N, 32)
           o8 == Load(o16, 8 * (N \div 4), 8)
           s8 == Load(s16, 8 * (N \div 4), 8)
           N2 == (2 * N) % 8
           n == N2 + (k \div 8)
           p == (i % H) \div 8
<1>1. /\ H \in Nat \ {0} /\ NtPerChunk = 2 * H
      /\ block \in Nat /\ N \in 0 .. 7 /\ k \in 0 .. 15
      /\ i % H = 128 * block + 16 * N + k
      /\ i = (i \div H) * H + (i % H)
      /\ (i \div H) * H \in Nat /\ i \div H \in Nat
  BY BlockOf, ZenonT(60)
<1>2. /\ n \in 0 .. 7 /\ k % 8 \in 0 .. 7 /\ 8 * (N \div 4) + n \in 0 .. 15
      /\ 16 * block + (8 * (N \div 4) + n) = p /\ 8 * (N \div 4) \in Nat
  <2> DEFINE x == i % H
  <2>1. x = 128 * block + 16 * N + k
    BY <1>1
  <2> HIDE DEF block, N, k, x
  <2>2. x \div 8 = 16 * block + 2 * N + (k \div 8)
    BY <1>1, <2>1
  <2>3. 2 * N = 8 * (N \div 4) + N2
    BY <1>1
  <2>4. k \div 8 \in 0 .. 1 /\ N2 \in {0, 2, 4, 6} /\ N \div 4 \in 0 .. 1 /\ k % 8 \in 0 .. 7
    BY <1>1
  <2>5. p = x \div 8
    BY DEF x
  <2> HIDE DEF p, N2
  <2> QED
    BY <1>1, <2>2, <2>3, <2>4, <2>5
<1>3. (from + 32 * N) + 2 * k = 2 * i /\ (from + 32 * N) + (2 * k + 1) = 2 * i + 1
      /\ 2 * k \in 0 .. 31 /\ 2 * k + 1 \in 0 .. 31
  <2> DEFINE row == i \div H
             y == row * NtPerChunk
             z == row * H
  <2>1. y = 2 * z /\ z \in Nat /\ i = z + (128 * block + 16 * N + k)
    BY <1>1
  <2>2. from = y + 256 * block
    OBVIOUS
  <2>3. block \in Nat /\ N \in 0 .. 7 /\ k \in 0 .. 15
    BY <1>1
  <2> HIDE DEF y, z, block, N, k, from
  <2> QED
    BY <2>1, <2>2, <2>3
<1>4. FastSample(d, offsets, scales, i) = ds_kernel1a(N, d8, o8, s8)[k]
  <2> DEFINE ker == ds_kernel1b(d, from, o16, s16)
  <2>1. FastSample(d, offsets, scales, i) = ker[N][k]
    BY Zenon DEF FastSample
  <2>2. ker[N] = ds_kernel1a(N, d8, o8, s8)
    <3> HIDE DEF N, from, o16, s16
    <3> QED
      BY <1>1 DEF ds_kernel1b
  <2> HIDE DEF ker
  <2> QED
    BY <2>1, <2>2, Zenon
<1>5. d8[2 * k] = d[2 * i] /\ d8[2 * k + 1] = d[2 * i + 1]
  <2> DEFINE start == from + 32 * N
  <2>1. d8[2 * k] = d[start + 2 * k] /\ d8[2 * k + 1] = d[start + (2 * k + 1)]
    <3> HIDE DEF start, k
    <3>1. d8 = Load(d, start, 32)
      BY DEF start
    <3> HIDE DEF d8
    <3> QED
      BY <1>3, <3>1 DEF Load, Window
  <2> QED
    BY <1>3, <2>1
<1>6. ASSUME NEW a
      PROVE  /\ Load(Load(a, 16 * block, 16), 8 * (N \div 4), 8)[n] = a[p]
             /\ DOMAIN Load(Load(a, 16 * block, 16), 8 * (N \div 4), 8) = 0 .. 7
  <2> DEFINE m == 8 * (N \div 4)
             b == 16 * block
             inner == Load(a, b, 16)
  <2>1. n \in 0 .. 7 /\ m + n \in 0 .. 15 /\ b + (m + n) = p
    BY <1>2
  <2>2. inner[m + n] = a[p]
    <3> HIDE DEF m, b, n, p
    <3> QED
      BY <2>1 DEF Load, Window
  <2>3. Load(inner, m, 8)[n] = inner[m + n] /\ DOMAIN Load(inner, m, 8) = 0 .. 7
    <3> HIDE DEF inner, m, n
    <3> QED
      BY <2>1 DEF Load, Window
  <2> HIDE DEF inner
  <2> QED
    BY <2>2, <2>3 DEF inner
<1>7. Upsample8(o8, n)[k % 8] = offsets[p] /\ Upsample8(s8, n)[k % 8] = scales[p]
  <2>1. o8[n] = offsets[p] /\ DOMAIN o8 = 0 .. 7 /\ s8[n] = scales[p] /\ DOMAIN s8 = 0 .. 7
    BY <1>6
  <2> DEFINE l == k % 8
  <2>2. n \in 0 .. 7 /\ l \in 0 .. 7
    BY <1>2
  <2> HIDE DEF o8, s8, n, p, l
  <2>3. Upsample8(o8, n)[l] = o8[n] /\ Upsample8(s8, n)[l] = s8[n]
    BY <2>1, <2>2, UpsampleIsLane
  <2> QED
    BY <2>1, <2>3 DEF l
<1> HIDE DEF d8, o8, s8
<1>8. ds_kernel1a(N, d8, o8, s8)[k] =
        [data |-> IF (d8[2 * k] = 0 \/ d8[2 * k] = 255) \/ (d8[2 * k + 1] = 0 \/ d8[2 * k + 1] = 255) THEN 0
                  ELSE ((Upsample8(s8, n)[k % 8] * (d8[2 * k] + d8[2 * k + 1])) \div 2) + Upsample8(o8, n)[k % 8],
         mask |-> IF (d8[2 * k] = 0 \/ d8[2 * k] = 255) \/ (d8[2 * k + 1] = 0 \/ d8[2 * k + 1] = 255)
                  THEN 0 ELSE -1]
  <2> DEFINE m8  == [j \in 0 .. 31 |-> d8[j] = 0 \/ d8[j] = 255]
             d16 == [j \in 0 .. 15 |-> d8[2 * j] + d8[2 * j + 1]]
             m16 == [j \in 0 .. 15 |-> IF m8[2 * j] \/ m8[2 * j + 1] THEN 0 ELSE -1]
             get(r, j) == Upsample8(r, N2 + (j \div 8))[j % 8]
  <2>1. k \in 0 .. 15 /\ 2 * k \in 0 .. 31 /\ 2 * k + 1 \in 0 .. 31
    BY <1>1, <1>3
  <2>2. ds_kernel1a(N, d8, o8, s8) =
          [j \in 0 .. 15 |->
             [data |-> IF m16[j] = 0 THEN 0 ELSE ((get(s8, j) * d16[j]) \div 2) + get(o8, j),
              mask |-> m16[j]]]
    BY Zenon DEF ds_kernel1a
  <2>3. m16[k] = (IF m8[2 * k] \/ m8[2 * k + 1] THEN 0 ELSE -1) /\ d16[k] = d8[2 * k] + d8[2 * k + 1]
    <3> HIDE DEF k, m8
    <3> QED
      BY <2>1
  <2>4. /\ m8[2 * k] <=> (d8[2 * k] = 0 \/ d8[2 * k] = 255)
        /\ m8[2 * k + 1] <=> (d8[2 * k + 1] = 0 \/ d8[2 * k + 1] = 255)
    <3> HIDE DEF k
    <3> QED
      BY <2>1, Zenon
  <2>5. get(s8, k) = Upsample8(s8, n)[k % 8] /\ get(o8, k) = Upsample8(o8, n)[k % 8]
    BY Zenon
  <2> HIDE DEF N, k, n, m8, m16, d16, get
  <2>6. ds_kernel1a(N, d8, o8, s8)[k] =
          [data |-> IF m16[k] = 0 THEN 0 ELSE ((get(s8, k) * d16[k]) \div 2) + get(o8, k),
           mask |-> m16[k]]
    BY <2>1, <2>2, Zenon
  <2> QED
    BY <2>3, <2>4, <2>5, <2>6
<1>9. (d8[2 * k] = 0 \/ d8[2 * k] = 255) \/ (d8[2 * k + 1] = 0 \/ d8[2 * k + 1] = 255) <=> ~PairValid(d, i)
  BY <1>5 DEF PairValid, Masked
<1> HIDE DEF N, k, n, p
<1> QED
  BY <1>4, <1>5, <1>7, <1>8, <1>9 DEF PairSample, PairMean, p

(* What the AVX2 code adds up over rows is what the reference adds up. *)
LEMMA RowSumsAgree ==
  ASSUME NtPerChunk % 256 = 0, NEW n \in Nat, NEW x,
         \A i \in 0 .. n * HalfChunk - 1 : x[i] \in Int,
         NEW p \in 0 .. (HalfChunk \div 16) - 1,
         NEW f, \A k \in 0 .. n * 16 - 1 : f[k] = SumSample(x, p, k)
  PROVE  FastSums(n, x)[p] = SumTo(n * 16, f)
<1>1. \A k \in 0 .. n * 16 - 1 : f[k] = [j \in 0 .. n * 16 - 1 |-> SumSample(x, p, j)][k]
  OBVIOUS
<1>2. n * 16 \in Nat
  OBVIOUS
<1> HIDE DEF SumSample
<1>3. SumTo(n * 16, f) = SumTo(n * 16, [j \in 0 .. n * 16 - 1 |-> SumSample(x, p, j)])
  BY <1>1, <1>2, SumsAgree
<1> QED
  BY <1>3, FastSumsAre

(* Sample k of those that go into number p is one of the chunk. *)
SampleOf(p, k) == (k \div 16) * HalfChunk + p * 16 + (k % 16)

LEMMA SampleInChunk ==
  ASSUME NtPerChunk % 256 = 0, NEW n \in Nat, NEW p \in 0 .. (HalfChunk \div 16) - 1,
         NEW k \in 0 .. n * 16 - 1
  PROVE  SampleOf(p, k) \in 0 .. n * HalfChunk - 1 /\ (SampleOf(p, k) % HalfChunk) \div 16 = p
<1> DEFINE H == HalfChunk
           u == k \div 16
           r == p * 16 + (k % 16)
           y == u * H
<1>1. H \in Nat \ {0} /\ H % 128 = 0
  BY ChunkAssumption DEF HalfChunk
<1>2. u \in 0 .. n - 1 /\ r \in 0 .. H - 1 /\ r \div 16 = p /\ k % 16 \in 0 .. 15 /\ p \in Nat
  <2>1. k \in Nat /\ k < n * 16
    OBVIOUS
  <2>2. u \in 0 .. n - 1 /\ k % 16 \in 0 .. 15
    BY <2>1
  <2>3. p \in Nat /\ 16 * p + 15 <= H - 1
    BY <1>1
  <2> DEFINE l == k % 16
  <2>4. p * 16 + l \in 0 .. H - 1 /\ (p * 16 + l) \div 16 = p
    <3> HIDE DEF l, H
    <3> QED
      BY <1>1, <2>2, <2>3 DEF l
  <2> HIDE DEF u, H
  <2> QED
    BY <2>2, <2>3, <2>4
<1>3. y + r \in 0 .. n * H - 1 /\ y \in Nat
  <2> HIDE DEF u, r, H
  <2> QED
    BY <1>1, <1>2, InRow
<1>4. (y + r) % H = r
  <2>1. u \in Nat
    BY <1>2
  <2> HIDE DEF u, r, H
  <2> QED
    BY <1>1, <1>2, <2>1, RowOf
<1>5. SampleOf(p, k) = y + r
  <2>1. SampleOf(p, k) = y + p * 16 + (k % 16)
    BY DEF SampleOf
  <2>2. r = p * 16 + (k % 16)
    OBVIOUS
  <2> HIDE DEF y, r
  <2> QED
    BY <1>2, <1>3, <2>1, <2>2
<1> HIDE DEF y, r
<1> QED
  BY <1>2, <1>3, <1>4, <1>5 DEF H

Kernel1Count(d, p, n) ==
  SumTo(n * 16, [k \in 0 .. n * 16 - 1 |-> IF PairValid(d, SampleOf(p, k)) THEN 1 ELSE 0])
Kernel1Sum(d, o, s, p, n) ==
  SumTo(n * 16, [k \in 0 .. n * 16 - 1 |->
                   IF PairValid(d, SampleOf(p, k)) THEN PairMean(d, o, s, SampleOf(p, k)) ELSE 0])
Kernel1(d, o, s, n) ==
  [data  |-> [i \in 0 .. n * HalfChunk - 1 |-> PairSample(d, o, s, i).data],
   mask  |-> [i \in 0 .. n * HalfChunk - 1 |-> PairSample(d, o, s, i).mask],
   count |-> [p \in 0 .. (HalfChunk \div 16) - 1 |-> Kernel1Count(d, p, n)],
   mean  |-> [p \in 0 .. (HalfChunk \div 16) - 1 |->
                Kernel1Sum(d, o, s, p, n) \div AtLeast(Kernel1Count(d, p, n), 1)]]

LEMMA SlowKernel1Is ==
  ASSUME NEW d, NEW o, NEW s, NEW n
  PROVE  SlowKernel1(d, o, s, n, 16) = Kernel1(d, o, s, n)
<1>1. 16 \div 2 = 8
  OBVIOUS
<1> QED
  BY <1>1 DEF SlowKernel1, Kernel1, PairSample, PairMean, PairValid, Kernel1Count, Kernel1Sum, SampleOf, HalfChunk

LEMMA FastKernel1Is ==
  ASSUME NtPerChunk % 256 = 0, NEW n \in Nat, NEW d, NEW o, NEW s,
         \A i \in 0 .. n * HalfChunk - 1 : PairMean(d, o, s, i) \in Int
  PROVE  FastKernel1(d, o, s, n) = Kernel1(d, o, s, n)
<1> DEFINE I == 0 .. n * HalfChunk - 1
           P == 0 .. (HalfChunk \div 16) - 1
           sample == [i \in I |-> FastSample(d, o, s, i)]
           pair == [i \in I |-> PairSample(d, o, s, i)]
           count == FastSums(n, [i \in I |-> -pair[i].mask])
           sum == FastSums(n, [i \in I |-> pair[i].data])
<1>1. I \subseteq Nat
  OBVIOUS
<1>2. sample = pair
  <2>1. \A i \in I : FastSample(d, o, s, i) = PairSample(d, o, s, i)
    BY <1>1, FastSampleIs
  <2> QED
    BY <2>1, Zenon
<1>3. FastKernel1(d, o, s, n) =
        [data  |-> [i \in I |-> pair[i].data], mask  |-> [i \in I |-> pair[i].mask],
         count |-> count, mean |-> [p \in DOMAIN count |-> sum[p] \div AtLeast(count[p], 1)]]
  <2>1. FastKernel1(d, o, s, n) =
          [data  |-> [i \in DOMAIN sample |-> sample[i].data],
           mask  |-> [i \in DOMAIN sample |-> sample[i].mask],
           count |-> FastSums(n, [i \in DOMAIN sample |-> -sample[i].mask]),
           mean |-> [p \in DOMAIN FastSums(n, [i \in DOMAIN sample |-> -sample[i].mask]) |->
                       FastSums(n, [i \in DOMAIN sample |-> sample[i].data])[p]
                         \div AtLeast(FastSums(n, [i \in DOMAIN sample |-> -sample[i].mask])[p], 1)]]
    BY Zenon DEF FastKernel1, FastSample
  <2>2. DOMAIN pair = I
    BY Zenon
  <2> HIDE DEF sample, pair
  <2> QED
    BY <1>2, <2>1, <2>2, Zenon
<1>4. DOMAIN count = P
  BY DEF FastSums
<1>5. ASSUME NEW i \in I
      PROVE  /\ [j \in I |-> -pair[j].mask][i] = IF PairValid(d, i) THEN 1 ELSE 0
             /\ [j \in I |-> pair[j].data][i] = IF PairValid(d, i) THEN PairMean(d, o, s, i) ELSE 0
             /\ [j \in I |-> pair[j].data][i] \in Int
  BY DEF PairSample
<1>6. ASSUME NEW p \in P
      PROVE  count[p] = Kernel1Count(d, p, n) /\ sum[p] = Kernel1Sum(d, o, s, p, n)
  <2> DEFINE x == [i \in I |-> -pair[i].mask]
             y == [i \in I |-> pair[i].data]
             f == [k \in 0 .. n * 16 - 1 |-> IF PairValid(d, SampleOf(p, k)) THEN 1 ELSE 0]
             g == [k \in 0 .. n * 16 - 1 |-> IF PairValid(d, SampleOf(p, k))
                                             THEN PairMean(d, o, s, SampleOf(p, k)) ELSE 0]
  <2>1. \A i \in I : x[i] \in Int /\ y[i] \in Int
    BY <1>5
  <2>2. ASSUME NEW k \in 0 .. n * 16 - 1
        PROVE  f[k] = SumSample(x, p, k) /\ g[k] = SumSample(y, p, k)
    <3>1. SampleOf(p, k) \in I
      BY SampleInChunk
    <3>2. SumSample(x, p, k) = x[SampleOf(p, k)] /\ SumSample(y, p, k) = y[SampleOf(p, k)]
      BY Zenon DEF SumSample, SampleOf
    <3> QED
      BY <1>5, <3>1, <3>2
  <2>3. count[p] = SumTo(n * 16, f) /\ sum[p] = SumTo(n * 16, g)
    <3> HIDE DEF x, y, f, g
    <3>1. FastSums(n, x)[p] = SumTo(n * 16, f)
      BY <2>1, <2>2, RowSumsAgree
    <3>2. FastSums(n, y)[p] = SumTo(n * 16, g)
      BY <2>1, <2>2, RowSumsAgree
    <3> QED
      BY <3>1, <3>2, Zenon DEF x, y
  <2> QED
    BY <2>3, Zenon DEF Kernel1Count, Kernel1Sum
<1>7. /\ count = [p \in P |-> Kernel1Count(d, p, n)]
      /\ [p \in DOMAIN count |-> sum[p] \div AtLeast(count[p], 1)] =
           [p \in P |-> Kernel1Sum(d, o, s, p, n) \div AtLeast(Kernel1Count(d, p, n), 1)]
  <2>1. count = [p \in P |-> count[p]]
    BY DEF FastSums
  <2> HIDE DEF count, sum
  <2> QED
    BY <1>4, <1>6, <2>1, ZenonT(60)
<1>8. /\ [i \in I |-> pair[i].data] = [i \in I |-> PairSample(d, o, s, i).data]
      /\ [i \in I |-> pair[i].mask] = [i \in I |-> PairSample(d, o, s, i).mask]
  BY Zenon
<1> HIDE DEF count, sum, pair
<1> QED
  BY <1>3, <1>7, <1>8, Zenon DEF Kernel1

-----------------------------------------------------------------------------
(* Kernel 2: the mean is taken off each sample. *)

(* A register of one number per 16 samples, spread over them. *)
LEMMA LevelOf ==
  ASSUME NtPerChunk % 256 = 0, NEW r, NEW i \in Nat, NEW l \in 0 .. 7
  PROVE  Upsample8(Load(r, 8 * ((i % HalfChunk) \div 128), 8), (i % 128) \div 16)[l]
           = r[(i % HalfChunk) \div 16]
<1> DEFINE block == (i % HalfChunk) \div 128
           N == (i % 128) \div 16
           k == i % 16
           x == i % HalfChunk
           p == x \div 16
           r8 == Load(r, 8 * block, 8)
<1>1. block \in Nat /\ N \in 0 .. 7 /\ k \in 0 .. 15 /\ x = 128 * block + 16 * N + k
  BY BlockOf, ZenonT(60)
<1>2. 8 * block + N = p
  <2> HIDE DEF block, N, k, x
  <2> QED
    BY <1>1
<1>3. r8[N] = r[p] /\ DOMAIN r8 = 0 .. 7
  <2> HIDE DEF block, N, p
  <2> QED
    BY <1>1, <1>2 DEF Load, Window
<1> HIDE DEF r8, N, p
<1>4. Upsample8(r8, N)[l] = r8[N]
  BY <1>1, <1>3, UpsampleIsLane
<1> QED
  BY <1>3, <1>4 DEF r8, N, p

Deviation(data, mask, mean, i) ==
  IF mask[i] = 0 THEN 0 ELSE data[i] - mean[(i % HalfChunk) \div 16]

LEMMA FastKernel2Is ==
  ASSUME NtPerChunk % 256 = 0, NEW n \in Nat, NEW data, NEW mask, NEW count, NEW mean,
         \A i \in 0 .. n * HalfChunk - 1 : data[i] \in Int,
         \A p \in 0 .. (HalfChunk \div 16) - 1 : mean[p] \in Int
  PROVE  FastKernel2(data, mask, count, mean, n) = SlowKernel2(data, mask, count, mean, n, 16)
<1> DEFINE I == 0 .. n * HalfChunk - 1
           P == 0 .. (HalfChunk \div 16) - 1
           dev(i) == Deviation(data, mask, mean, i)
           x == [i \in I |-> dev(i) * dev(i)]
           sumsq == FastSums(n, x)
           f(p) == [k \in 0 .. n * 16 - 1 |->
                      IF mask[SampleOf(p, k)] # 0
                      THEN (data[SampleOf(p, k)] - mean[p]) * (data[SampleOf(p, k)] - mean[p]) ELSE 0]
<1>1. FastKernel2(data, mask, count, mean, n) = [p \in P |-> Scaling(count[p], mean[p], sumsq[p])]
  <2> DEFINE lane(i) == Upsample8(Load(mean, 8 * ((i % HalfChunk) \div 128), 8), (i % 128) \div 16)[i % 8]
             d2(i) == IF mask[i] = 0 THEN 0 ELSE data[i] - lane(i)
             y == [i \in I |-> d2(i) * d2(i)]
  <2>1. \A i \in I : lane(i) = mean[(i % HalfChunk) \div 16]
    <3> SUFFICES ASSUME NEW i \in I PROVE lane(i) = mean[(i % HalfChunk) \div 16]
      OBVIOUS
    <3>1. i \in Nat /\ i % 8 \in 0 .. 7
      OBVIOUS
    <3> QED
      BY <3>1, LevelOf
  <2>2. \A i \in I : d2(i) = dev(i)
    <3> HIDE DEF lane
    <3> QED
      BY <2>1, Zenon DEF Deviation
  <2>3. y = x
    <3> HIDE DEF d2, dev
    <3> QED
      BY <2>2, Zenon
  <2>4. FastKernel2(data, mask, count, mean, n) =
          [p \in DOMAIN FastSums(n, y) |-> Scaling(count[p], mean[p], FastSums(n, y)[p])]
    BY Zenon DEF FastKernel2
  <2>5. DOMAIN FastSums(n, x) = P
    BY DEF FastSums
  <2> HIDE DEF x, y
  <2> QED
    BY <2>3, <2>4, <2>5, Zenon
<1>2. SlowKernel2(data, mask, count, mean, n, 16) = [p \in P |-> Scaling(count[p], mean[p], SumTo(n * 16, f(p)))]
  BY Zenon DEF SlowKernel2, SampleOf, HalfChunk
<1>3. ASSUME NEW i \in I, NEW p \in P, (i % HalfChunk) \div 16 = p
      PROVE  x[i] \in Int /\ x[i] = IF mask[i] # 0 THEN (data[i] - mean[p]) * (data[i] - mean[p]) ELSE 0
  <2>1. dev(i) = (IF mask[i] = 0 THEN 0 ELSE data[i] - mean[p]) /\ dev(i) \in Int
    BY <1>3 DEF Deviation
  <2>2. x[i] = dev(i) * dev(i)
    BY Zenon
  <2> HIDE DEF x, dev
  <2> QED
    BY <2>1, <2>2
<1>4. ASSUME NEW i \in I
      PROVE  (i % HalfChunk) \div 16 \in P /\ i \in Nat
  BY ChunkAssumption DEF HalfChunk
<1>5. \A i \in I : x[i] \in Int
  <2> SUFFICES ASSUME NEW i \in I PROVE x[i] \in Int
    OBVIOUS
  <2> HIDE DEF x
  <2> QED
    BY <1>3, <1>4
<1>6. ASSUME NEW p \in P
      PROVE  sumsq[p] = SumTo(n * 16, f(p))
  <2>1. ASSUME NEW k \in 0 .. n * 16 - 1
        PROVE  f(p)[k] = SumSample(x, p, k)
    <3> DEFINE i == SampleOf(p, k)
    <3>1. i \in I /\ (i % HalfChunk) \div 16 = p
      BY SampleInChunk
    <3>2. SumSample(x, p, k) = x[i]
      BY Zenon DEF SumSample, SampleOf
    <3>3. f(p)[k] = IF mask[i] # 0 THEN (data[i] - mean[p]) * (data[i] - mean[p]) ELSE 0
      BY Zenon
    <3> HIDE DEF x, f, i
    <3>4. x[i] = IF mask[i] # 0 THEN (data[i] - mean[p]) * (data[i] - mean[p]) ELSE 0
      BY <1>3, <3>1, Zenon
    <3> QED
      BY <3>2, <3>3, <3>4, Zenon
  <2> DEFINE g == f(p)
  <2>2. \A k \in 0 .. n * 16 - 1 : g[k] = SumSample(x, p, k)
    BY <2>1, Zenon
  <2> HIDE DEF x, f, g
  <2>3. FastSums(n, x)[p] = SumTo(n * 16, g)
    BY <1>5, <2>2, RowSumsAgree
  <2> QED
    BY <2>3, Zenon DEF g
<1> HIDE DEF sumsq, f
<1> QED
  BY <1>1, <1>2, <1>6, Zenon

-----------------------------------------------------------------------------
(* Kernel 3: four registers of eight floats become 32 bytes in order. *)
Rounded(x) == RoundHalfEven(AtMost(AtLeast(x.num, 0), 255 * x.den), x.den)

LEMMA ExtractIsRounded ==
  ASSUME NEW a, NEW b, NEW c, NEW d, NEW m \in 0 .. 31
  PROVE  extract_32_8(a, b, c, d)[m] =
           IF m < 8 THEN Rounded(a[m]) ELSE IF m < 16 THEN Rounded(b[m - 8])
           ELSE IF m < 24 THEN Rounded(c[m - 16]) ELSE Rounded(d[m - 24])
<1> DEFINE from(x, y) == Blend(ShuffleEpi8(ToBytes(x), ctl0), ShuffleEpi8(ToBytes(y), ctl1), {2, 3, 6, 7})
           ab == from(a, b)
           cd == from(c, d)
           t  == Blend(ab, cd, {4, 5, 6, 7})
           u  == Blend(ab, cd, {0, 1, 2, 3})
           v  == Permute2x128(u, u, 1, 0)
           out == Blend(t, v, {1, 3, 4, 6})
<1>1. ASSUME NEW x PROVE \A k \in 0 .. 7 : ToBytes(x)[4 * k] = Rounded(x[k])
  <2> SUFFICES ASSUME NEW k \in 0 .. 7 PROVE ToBytes(x)[4 * k] = Rounded(x[k])
    OBVIOUS
  <2>1. 4 * k \in 0 .. 31 /\ (4 * k) % 4 = 0 /\ (4 * k) \div 4 = k
    OBVIOUS
  <2> DEFINE i == 4 * k
  <2> HIDE DEF i
  <2>2. ToBytes(x)[i] = IF i % 4 = 0 THEN Rounded(x[i \div 4]) ELSE 0
    BY <2>1, Zenon DEF ToBytes, Rounded, i
  <2> QED
    BY <2>1, <2>2, Zenon DEF i
<1>2. ASSUME NEW x, NEW y
      PROVE  /\ DOMAIN from(x, y) = 0 .. 31
             /\ \A i \in 0 .. 3 : /\ from(x, y)[i] = Rounded(x[i]) /\ from(x, y)[20 + i] = Rounded(x[4 + i])
                                  /\ from(x, y)[8 + i] = Rounded(y[i]) /\ from(x, y)[28 + i] = Rounded(y[4 + i])
  <2> DEFINE X == ToBytes(x)
             Y == ToBytes(y)
             p == ShuffleEpi8(X, ctl0)
             q == ShuffleEpi8(Y, ctl1)
  <2>1. DOMAIN p = 0 .. 31 /\ \A i \in 0 .. 31 : p[i] = IF ctl0[i + 1] = 255 THEN 0 ELSE X[16 * (i \div 16) + ctl0[i + 1]]
    BY DEF ShuffleEpi8
  <2>2. \A i \in 0 .. 31 : q[i] = IF ctl1[i + 1] = 255 THEN 0 ELSE Y[16 * (i \div 16) + ctl1[i + 1]]
    BY SMTT(30) DEF ShuffleEpi8
  <2>3. DOMAIN from(x, y) = 0 .. 31
        /\ \A i \in 0 .. 31 : from(x, y)[i] = IF i \div 4 \in {2, 3, 6, 7} THEN q[i] ELSE p[i]
    <3> DEFINE S == {2, 3, 6, 7}
    <3>1. from(x, y) = Blend(p, q, S)
      OBVIOUS
    <3> HIDE DEF p, q, from, S
    <3>2. /\ DOMAIN Blend(p, q, S) = 0 .. 31
          /\ \A i \in 0 .. 31 : Blend(p, q, S)[i] = IF i \div 4 \in S THEN q[i] ELSE p[i]
      BY <2>1, Blend32Is
    <3> QED
      BY <3>1, <3>2, Zenon DEF S
  <2>4. \A k \in 0 .. 7 : X[4 * k] = Rounded(x[k]) /\ Y[4 * k] = Rounded(y[k])
    BY <1>1
  <2>5. ASSUME NEW i \in 0 .. 3
        PROVE  /\ from(x, y)[i] = X[4 * i] /\ from(x, y)[20 + i] = X[4 * (4 + i)]
               /\ from(x, y)[8 + i] = Y[4 * i] /\ from(x, y)[28 + i] = Y[4 * (4 + i)]
    <3> HIDE DEF X, Y, p, q, from
    <3>1. i = 0 \/ i = 1 \/ i = 2 \/ i = 3
      OBVIOUS
    <3> QED
      BY <2>1, <2>2, <2>3, <3>1 DEF ctl0, ctl1, Z
  <2> HIDE DEF X, Y, from
  <2> QED
    BY <2>3, <2>4, <2>5
<1> HIDE DEF from
<1>3. DOMAIN ab = 0 .. 31 /\ DOMAIN cd = 0 .. 31
  BY <1>2
<1>4. DOMAIN t = 0 .. 31 /\ DOMAIN u = 0 .. 31
      /\ \A i \in 0 .. 31 : /\ t[i] = IF i \div 4 \in {4, 5, 6, 7} THEN cd[i] ELSE ab[i]
                            /\ u[i] = IF i \div 4 \in {0, 1, 2, 3} THEN cd[i] ELSE ab[i]
  <2> HIDE DEF ab, cd
  <2> QED
    BY <1>3, Blend32Is
<1>5. \A i \in 0 .. 31 : v[i] = IF i < 16 THEN u[16 + i] ELSE u[i - 16]
  <2>1. DOMAIN u = 0 .. 31
    BY <1>4, Zenon
  <2> HIDE DEF u
  <2>2. \A i \in 0 .. 31 : v[i] = IF i < 16 THEN HalfLane(u, u, 1, 16, i) ELSE HalfLane(u, u, 0, 16, i - 16)
    BY <2>1, Permute32Is, Zenon
  <2> QED
    BY <2>2 DEF HalfLane
<1>6. \A i \in 0 .. 31 : out[i] = IF i \div 4 \in {1, 3, 4, 6} THEN v[i] ELSE t[i]
  <2>1. DOMAIN t = 0 .. 31
    BY <1>4
  <2> HIDE DEF t, v
  <2> QED
    BY <2>1, Blend32Is
<1>7. extract_32_8(a, b, c, d) = out
  BY Zenon DEF extract_32_8, from
<1> HIDE DEF out, t, u, v
<1>8. ASSUME NEW i \in 0 .. 3
      PROVE  /\ out[i] = ab[i] /\ out[4 + i] = ab[20 + i] /\ out[8 + i] = ab[8 + i] /\ out[12 + i] = ab[28 + i]
             /\ out[16 + i] = cd[i] /\ out[20 + i] = cd[20 + i] /\ out[24 + i] = cd[8 + i]
             /\ out[28 + i] = cd[28 + i]
  <2> HIDE DEF ab, cd
  <2>1. i = 0 \/ i = 1 \/ i = 2 \/ i = 3
    OBVIOUS
  <2> QED
    BY <1>4, <1>5, <1>6, <2>1
<1>9. ASSUME NEW i \in 0 .. 3
      PROVE  /\ ab[i] = Rounded(a[i]) /\ ab[20 + i] = Rounded(a[4 + i])
             /\ ab[8 + i] = Rounded(b[i]) /\ ab[28 + i] = Rounded(b[4 + i])
             /\ cd[i] = Rounded(c[i]) /\ cd[20 + i] = Rounded(c[4 + i])
             /\ cd[8 + i] = Rounded(d[i]) /\ cd[28 + i] = Rounded(d[4 + i])
  <2>1. \A j \in 0 .. 3 : /\ from(a, b)[j] = Rounded(a[j]) /\ from(a, b)[20 + j] = Rounded(a[4 + j])
                         /\ from(a, b)[8 + j] = Rounded(b[j]) /\ from(a, b)[28 + j] = Rounded(b[4 + j])
    BY <1>2
  <2>2. \A j \in 0 .. 3 : /\ from(c, d)[j] = Rounded(c[j]) /\ from(c, d)[20 + j] = Rounded(c[4 + j])
                         /\ from(c, d)[8 + j] = Rounded(d[j]) /\ from(c, d)[28 + j] = Rounded(d[4 + j])
    BY <1>2
  <2> QED
    BY <2>1, <2>2, Zenon
<1> HIDE DEF ab, cd
<1>10. \E i \in 0 .. 3 : m = i \/ m = 4 + i \/ m = 8 + i \/ m = 12 + i \/ m = 16 + i
                         \/ m = 20 + i \/ m = 24 + i \/ m = 28 + i
  <2>1. m % 4 \in 0 .. 3 /\ m \div 4 \in 0 .. 7 /\ m = 4 * (m \div 4) + (m % 4)
    OBVIOUS
  <2> QED
    BY <2>1
<1>11. PICK i \in 0 .. 3 : m = i \/ m = 4 + i \/ m = 8 + i \/ m = 12 + i \/ m = 16 + i
                           \/ m = 20 + i \/ m = 24 + i \/ m = 28 + i
  BY <1>10
<1> QED
  BY <1>7, <1>8, <1>9, <1>11

(* Rounding to even is rounding up, or one less. *)
LEMMA RoundingsAreNear ==
  ASSUME NEW num \in Int, NEW den \in Nat \ {0}
  PROVE  /\ RoundHalfUp(num, den) \in Int /\ RoundHalfEven(num, den) \in Int
         /\ Distance(RoundHalfEven(num, den), RoundHalfUp(num, den)) <= 1
         /\ RoundHalfEven(0, den) = 0 /\ RoundHalfUp(0, den) = 0
<1>1. RoundHalfUp(num, den) \in Int
  BY DEF RoundHalfUp
<1>2. RoundHalfUp(0, den) = 0
  BY DEF RoundHalfUp
<1>3. \/ RoundHalfEven(num, den) = RoundHalfUp(num, den)
      \/ RoundHalfEven(num, den) = RoundHalfUp(num, den) - 1
  <2> HIDE DEF RoundHalfUp
  <2> QED
    BY Zenon DEF RoundHalfEven
<1>4. RoundHalfEven(0, den) = 0
  <2>1. 0 % 2 = 0
    OBVIOUS
  <2> QED
    BY <1>2, <2>1 DEF RoundHalfEven
<1> DEFINE up == RoundHalfUp(num, den)
           even == RoundHalfEven(num, den)
<1>5. up \in Int /\ (even = up \/ even = up - 1)
  BY <1>1, <1>3
<1> HIDE DEF up, even
<1>6. even \in Int /\ Distance(even, up) <= 1
  BY <1>5 DEF Distance
<1> QED
  BY <1>1, <1>2, <1>4, <1>6 DEF up, even

KernelLevel(data, mask, off, scal, i) ==
  LET p == (i % HalfChunk) \div 16
  IN  MaskedLevel(AtMost(AtLeast(data[i] - off[p], 0), 255 * scal[p]), mask[i])

LEMMA FastKernel3Is ==
  ASSUME NtPerChunk % 256 = 0, NEW n \in Nat, NEW data, NEW mask, NEW off, NEW scal,
         NEW i \in 0 .. n * HalfChunk - 1,
         data[i] \in Int, mask[i] \in {0, -1},
         off[(i % HalfChunk) \div 16] \in Int, scal[(i % HalfChunk) \div 16] \in Nat \ {0}
  PROVE  /\ FastKernel3(data, mask, off, scal, n)[i] \in Int
         /\ SlowKernel3(data, mask, off, scal, n, 16)[i] \in Int
         /\ Distance(FastKernel3(data, mask, off, scal, n)[i],
                     SlowKernel3(data, mask, off, scal, n, 16)[i]) <= 1
         /\ FastKernel3(data, mask, off, scal, n)[i] =
              RoundHalfEven(KernelLevel(data, mask, off, scal, i), scal[(i % HalfChunk) \div 16])
         /\ SlowKernel3(data, mask, off, scal, n, 16)[i] =
              RoundHalfUp(KernelLevel(data, mask, off, scal, i), scal[(i % HalfChunk) \div 16])
<1> DEFINE p == (i % HalfChunk) \div 16
           block == (i % HalfChunk) \div 128
           N == (i % 128) \div 32
           j0 == (i % 32) \div 8
           m == i % 32
           get(r, j) == Upsample8(Load(r, 8 * block, 8), 2 * N + (j \div 2))
           at(j, k) == 32 * (i \div 32) + 8 * j + k
           lane(j, k) == [num |-> IF mask[at(j, k)] = 0 THEN 0 ELSE data[at(j, k)] - get(off, j)[k],
                          den |-> get(scal, j)[k]]
           level(j) == [k \in 0 .. 7 |-> lane(j, k)]
           num == IF mask[i] = 0 THEN 0 ELSE data[i] - off[p]
           clipped == AtMost(AtLeast(num, 0), 255 * scal[p])
<1>1. i \in Nat /\ N \in 0 .. 3 /\ j0 \in 0 .. 3 /\ m \in 0 .. 31 /\ m % 8 \in 0 .. 7 /\ m = 8 * j0 + (m % 8)
      /\ 32 * (i \div 32) + 8 * j0 + (m % 8) = i /\ 2 * N + (j0 \div 2) = (i % 128) \div 16
  <2>1. i \in Nat
    OBVIOUS
  <2> QED
    BY <2>1
<1>2. FastKernel3(data, mask, off, scal, n)[i] = extract_32_8(level(0), level(1), level(2), level(3))[m]
  BY Zenon DEF FastKernel3
<1>3. extract_32_8(level(0), level(1), level(2), level(3))[m] = Rounded(level(j0)[m % 8])
  <2> DEFINE k == m % 8
  <2>1. \/ j0 = 0 /\ m < 8 /\ m = k
        \/ j0 = 1 /\ ~(m < 8) /\ m < 16 /\ m - 8 = k
        \/ j0 = 2 /\ ~(m < 8) /\ ~(m < 16) /\ m < 24 /\ m - 16 = k
        \/ j0 = 3 /\ ~(m < 8) /\ ~(m < 16) /\ ~(m < 24) /\ m - 24 = k
    <3>1. m \in 0 .. 31 /\ k \in 0 .. 7 /\ m = 8 * j0 + k /\ j0 \in 0 .. 3
      BY <1>1
    <3> HIDE DEF m, k, j0
    <3> QED
      BY <3>1
  <2> DEFINE out == extract_32_8(level(0), level(1), level(2), level(3))
  <2>2. out[m] = IF m < 8 THEN Rounded(level(0)[m]) ELSE IF m < 16 THEN Rounded(level(1)[m - 8])
                 ELSE IF m < 24 THEN Rounded(level(2)[m - 16]) ELSE Rounded(level(3)[m - 24])
    <3> HIDE DEF level
    <3> QED
      BY <1>1, ExtractIsRounded
  <2> HIDE DEF out, level, m, k, j0
  <2>3. out[m] = Rounded(level(j0)[k])
    BY <2>1, <2>2, Zenon
  <2> QED
    BY <2>3 DEF out, k
<1>4. level(j0)[m % 8] = [num |-> num, den |-> scal[p]]
  <2> DEFINE k == m % 8
  <2>1. k \in 0 .. 7 /\ at(j0, k) = i
    BY <1>1
  <2>2. \A r : get(r, j0)[k] = r[p]
    <3> SUFFICES ASSUME NEW r PROVE get(r, j0)[k] = r[p]
      OBVIOUS
    <3>1. Upsample8(Load(r, 8 * block, 8), (i % 128) \div 16)[k] = r[p]
      BY <1>1, <2>1, LevelOf
    <3> QED
      BY <1>1, <3>1, Zenon
  <2>3. level(j0)[k] = lane(j0, k)
    <3> HIDE DEF lane, k
    <3> QED
      BY <2>1, Zenon
  <2>4. get(off, j0)[k] = off[p] /\ get(scal, j0)[k] = scal[p]
    BY <2>2, Zenon
  <2>5. lane(j0, k) = [num |-> num, den |-> scal[p]]
    <3> HIDE DEF get, at, k, j0, p
    <3> QED
      BY <2>1, <2>4, Zenon
  <2> QED
    BY <2>3, <2>5, Zenon
<1>5. FastKernel3(data, mask, off, scal, n)[i] = RoundHalfEven(clipped, scal[p])
  <2> DEFINE q == [num |-> num, den |-> scal[p]]
  <2>1. q.num = num /\ q.den = scal[p]
    OBVIOUS
  <2>2. FastKernel3(data, mask, off, scal, n)[i] = Rounded(q)
    <3> HIDE DEF level, m, j0, num
    <3> QED
      BY <1>2, <1>3, <1>4, Zenon
  <2> HIDE DEF q, num
  <2> QED
    BY <2>1, <2>2, Zenon DEF Rounded
<1> HIDE DEF level
<1>6. SlowKernel3(data, mask, off, scal, n, 16)[i] =
        RoundHalfUp(MaskedLevel(AtMost(AtLeast(data[i] - off[p], 0), 255 * scal[p]), mask[i]), scal[p])
  BY Zenon DEF SlowKernel3, HalfChunk
<1>7. scal[p] \in Nat \ {0} /\ num \in Int /\ clipped \in Int
      /\ AtMost(AtLeast(data[i] - off[p], 0), 255 * scal[p]) \in Int
  BY DEF AtMost, AtLeast
<1>71. KernelLevel(data, mask, off, scal, i) =
         MaskedLevel(AtMost(AtLeast(data[i] - off[p], 0), 255 * scal[p]), mask[i])
  BY DEF KernelLevel
<1>8. clipped = MaskedLevel(AtMost(AtLeast(data[i] - off[p], 0), 255 * scal[p]), mask[i])
  <2>1. CASE mask[i] = 0
    <3>1. AtMost(AtLeast(0, 0), 255 * scal[p]) = 0
      BY <1>7 DEF AtMost, AtLeast
    <3>2. 0 # -1
      OBVIOUS
    <3> HIDE DEF p
    <3> QED
      BY <2>1, <3>1, <3>2, Zenon DEF MaskedLevel
  <2>2. CASE mask[i] = -1
    <3>1. -1 # 0
      OBVIOUS
    <3> HIDE DEF p
    <3> QED
      BY <2>2, <3>1, Zenon DEF MaskedLevel
  <2> QED
    BY <2>1, <2>2
<1> DEFINE den == scal[p]
<1> HIDE DEF clipped, den
<1>9. clipped \in Int /\ den \in Nat \ {0}
  BY <1>7 DEF den
<1>10. /\ RoundHalfUp(clipped, den) \in Int /\ RoundHalfEven(clipped, den) \in Int
       /\ Distance(RoundHalfEven(clipped, den), RoundHalfUp(clipped, den)) <= 1
  BY <1>9, RoundingsAreNear
<1>11. FastKernel3(data, mask, off, scal, n)[i] = RoundHalfEven(clipped, den)
       /\ SlowKernel3(data, mask, off, scal, n, 16)[i] = RoundHalfUp(clipped, den)
       /\ KernelLevel(data, mask, off, scal, i) = clipped
  BY <1>5, <1>6, <1>71, <1>8, Zenon DEF den
<1> QED
  BY <1>10, <1>11, Zenon DEF den

-----------------------------------------------------------------------------
(* The RFI mask: a register of bits is 8 * v + s for byte v and bit s. *)
Pair(x, i) == x[i] * x[i + 1]

LEMMA OrIs ==
  ASSUME NEW a, NEW b, NEW j \in 0 .. 255
  PROVE  BitOr(a, b)[j] = IF a[j] + b[j] > 0 THEN 1 ELSE 0
BY DEF BitOr

LEMMA AndIs ==
  ASSUME NEW a, NEW b, NEW j \in 0 .. 255
  PROVE  BitAnd(a, b)[j] = a[j] * b[j]
BY DEF BitAnd

LEMMA InEachByteIs ==
  ASSUME NEW a, NEW S, NEW j \in 0 .. 255
  PROVE  InEachByte(a, S)[j] = IF j % 8 \in S THEN a[j] ELSE 0
BY DEF InEachByte

LEMMA ShiftIs ==
  ASSUME NEW a, NEW k, NEW j \in 0 .. 255
  PROVE  Srl32(a, k)[j] = IF (j % 32) + k < 32 THEN a[j + k] ELSE 0
BY DEF Srl32

LEMMA PackedPairsIs ==
  ASSUME NEW x, \A i \in 0 .. 255 : x[i] \in {0, 1}, NEW i \in 0 .. 255
  PROVE  /\ PackedPairs(x)[i] = Pair(x, 128 * (i \div 128) + 2 * (i % 64))
         /\ DOMAIN PackedPairs(x) = 0 .. 255
<1> DEFINE S1 == {0, 2, 4, 6}
           S2 == {0, 1, 4, 5}
           S4 == {0, 1, 2, 3}
           and == BitAnd(x, Srl32(x, 1))
           pairs == InEachByte(and, S1)
           or2   == BitOr(pairs, Srl32(pairs, 1))
           twos  == InEachByte(or2, S2)
           or4   == BitOr(twos, Srl32(twos, 2))
           fours == InEachByte(or4, S4)
           bytes == BitOr(fours, Srl32(fours, 4))
           even  == [b \in 0 .. 31 |-> 16 * (b \div 16) + 2 * (b % 8)]
<1>1. ASSUME NEW v \in 0 .. 31, NEW s \in 0 .. 7
      PROVE  /\ 8 * v + s \in 0 .. 255 /\ (8 * v + s) % 8 = s /\ (8 * v + s) % 32 = 8 * (v % 4) + s
             /\ (8 * v + s) \div 8 = v
  OBVIOUS
<1>2. ASSUME NEW v \in 0 .. 31, NEW s \in 0 .. 7
      PROVE  /\ s \in {0, 2, 4, 6} => pairs[8 * v + s] = Pair(x, 8 * v + s)
             /\ s \notin {0, 2, 4, 6} => pairs[8 * v + s] = 0
             /\ pairs[8 * v + s] \in {0, 1}
  <2> DEFINE j == 8 * v + s
  <2>1. j \in 0 .. 255 /\ j % 8 = s /\ j % 32 = 8 * (v % 4) + s
    BY <1>1
  <2>2. s \in {0, 2, 4, 6} => (j % 32) + 1 < 32 /\ j + 1 \in 0 .. 255
    BY <2>1
  <2> HIDE DEF j
  <2>3. pairs[j] = IF s \in {0, 2, 4, 6} THEN x[j] * Srl32(x, 1)[j] ELSE 0
    <3>1. and[j] = x[j] * Srl32(x, 1)[j]
      BY <2>1, AndIs, SMTT(30)
    <3>2. pairs[j] = IF j % 8 \in {0, 2, 4, 6} THEN and[j] ELSE 0
      <4>1. pairs[j] = IF j % 8 \in S1 THEN and[j] ELSE 0
        <5>1. j \in 0 .. 255
          BY <2>1
        <5> HIDE DEF and, S1
        <5> QED
          BY <5>1 DEF InEachByte
      <4> QED
        BY <4>1, Zenon
    <3> HIDE DEF pairs, and
    <3> QED
      BY <2>1, <3>1, <3>2, Zenon
  <2>4. s \in {0, 2, 4, 6} => pairs[j] = Pair(x, j) /\ Pair(x, j) \in {0, 1}
    <3> SUFFICES ASSUME s \in {0, 2, 4, 6} PROVE pairs[j] = Pair(x, j) /\ Pair(x, j) \in {0, 1}
      BY SMTT(30)
    <3>1. Srl32(x, 1)[j] = x[j + 1]
      BY <2>1, <2>2, ShiftIs
    <3>2. x[j] \in {0, 1} /\ x[j + 1] \in {0, 1}
      BY <2>1, <2>2
    <3> HIDE DEF pairs
    <3> QED
      BY <2>3, <3>1, <3>2 DEF Pair
  <2> HIDE DEF pairs
  <2> QED
    BY <2>3, <2>4 DEF j
<1> HIDE DEF pairs
<1>3. ASSUME NEW v \in 0 .. 31
      PROVE  /\ twos[8 * v] = Pair(x, 8 * v) /\ twos[8 * v + 1] = Pair(x, 8 * v + 2)
             /\ twos[8 * v + 4] = Pair(x, 8 * v + 4) /\ twos[8 * v + 5] = Pair(x, 8 * v + 6)
             /\ twos[8 * v + 2] = 0 /\ twos[8 * v + 3] = 0
             /\ \A s \in {0, 2, 4, 6} : Pair(x, 8 * v + s) \in {0, 1}
  <2>1. \A s \in 0 .. 7 : twos[8 * v + s] = IF s \in {0, 1, 4, 5} THEN or2[8 * v + s] ELSE 0
    <3> SUFFICES ASSUME NEW s \in 0 .. 7
                 PROVE  twos[8 * v + s] = IF s \in {0, 1, 4, 5} THEN or2[8 * v + s] ELSE 0
      OBVIOUS
    <3> DEFINE j == 8 * v + s
    <3>1. j \in 0 .. 255 /\ j % 8 = s
      BY <1>1
    <3> HIDE DEF j, or2
    <3>2. twos[j] = IF s \in {0, 1, 4, 5} THEN or2[j] ELSE 0
      <4>1. twos[j] = IF j % 8 \in S2 THEN or2[j] ELSE 0
        <5>1. j \in 0 .. 255
          BY <3>1
        <5> HIDE DEF S2
        <5> QED
          BY <5>1 DEF InEachByte
      <4> QED
        BY <3>1, <4>1, Zenon
    <3> QED
      BY <3>2 DEF j
  <2>2. ASSUME NEW s \in 0 .. 6
        PROVE  or2[8 * v + s] = IF pairs[8 * v + s] + pairs[8 * v + (s + 1)] > 0 THEN 1 ELSE 0
    <3> DEFINE j == 8 * v + s
    <3>1. j \in 0 .. 255 /\ (j % 32) + 1 < 32 /\ j + 1 = 8 * v + (s + 1)
      BY <1>1
    <3> HIDE DEF j
    <3>2. or2[j] = IF pairs[j] + Srl32(pairs, 1)[j] > 0 THEN 1 ELSE 0
      BY <3>1, OrIs, Zenon
    <3>3. Srl32(pairs, 1)[j] = pairs[j + 1]
      BY <3>1, ShiftIs
    <3> HIDE DEF or2
    <3> QED
      BY <3>1, <3>2, <3>3 DEF j
  <2> HIDE DEF or2, twos
  <2>3. \A s \in {0, 2, 4, 6} : pairs[8 * v + s] = Pair(x, 8 * v + s) /\ Pair(x, 8 * v + s) \in {0, 1}
    BY <1>2
  <2>4. \A s \in {1, 3, 5, 7} : pairs[8 * v + s] = 0
    BY <1>2
  <2>5. /\ or2[8 * v + 0] = IF pairs[8 * v + 0] + pairs[8 * v + 1] > 0 THEN 1 ELSE 0
        /\ or2[8 * v + 1] = IF pairs[8 * v + 1] + pairs[8 * v + 2] > 0 THEN 1 ELSE 0
        /\ or2[8 * v + 4] = IF pairs[8 * v + 4] + pairs[8 * v + 5] > 0 THEN 1 ELSE 0
        /\ or2[8 * v + 5] = IF pairs[8 * v + 5] + pairs[8 * v + 6] > 0 THEN 1 ELSE 0
    BY <2>2
  <2>6. /\ pairs[8 * v + 0] = Pair(x, 8 * v + 0) /\ pairs[8 * v + 2] = Pair(x, 8 * v + 2)
        /\ pairs[8 * v + 4] = Pair(x, 8 * v + 4) /\ pairs[8 * v + 6] = Pair(x, 8 * v + 6)
        /\ pairs[8 * v + 1] = 0 /\ pairs[8 * v + 5] = 0
        /\ Pair(x, 8 * v + 0) \in {0, 1} /\ Pair(x, 8 * v + 2) \in {0, 1}
        /\ Pair(x, 8 * v + 4) \in {0, 1} /\ Pair(x, 8 * v + 6) \in {0, 1}
    BY <2>3, <2>4
  <2>7. /\ twos[8 * v + 0] = or2[8 * v + 0] /\ twos[8 * v + 1] = or2[8 * v + 1]
        /\ twos[8 * v + 4] = or2[8 * v + 4] /\ twos[8 * v + 5] = or2[8 * v + 5]
        /\ twos[8 * v + 2] = 0 /\ twos[8 * v + 3] = 0
    BY <2>1
  <2>8. 8 * v + 0 = 8 * v
    OBVIOUS
  <2>9. /\ or2[8 * v + 0] = Pair(x, 8 * v + 0) /\ or2[8 * v + 1] = Pair(x, 8 * v + 2)
        /\ or2[8 * v + 4] = Pair(x, 8 * v + 4) /\ or2[8 * v + 5] = Pair(x, 8 * v + 6)
    BY <2>5, <2>6
  <2> QED
    BY <2>3, <2>7, <2>8, <2>9
<1> HIDE DEF twos
<1>4. ASSUME NEW v \in 0 .. 31
      PROVE  /\ \A s \in 0 .. 3 : fours[8 * v + s] = Pair(x, 8 * v + 2 * s) /\ Pair(x, 8 * v + 2 * s) \in {0, 1}
             /\ \A s \in 4 .. 7 : fours[8 * v + s] = 0
  <2>1. ASSUME NEW s \in 0 .. 7
        PROVE  fours[8 * v + s] = IF s \in 0 .. 3
                                  THEN (IF twos[8 * v + s] + twos[8 * v + (s + 2)] > 0 THEN 1 ELSE 0) ELSE 0
    <3> DEFINE j == 8 * v + s
    <3>1. j \in 0 .. 255 /\ j % 8 = s /\ (s \in 0 .. 3 => (j % 32) + 2 < 32) /\ j + 2 = 8 * v + (s + 2)
      BY <1>1
    <3> HIDE DEF j
    <3>2. fours[j] = IF s \in {0, 1, 2, 3} THEN or4[j] ELSE 0
      <4>1. fours[j] = IF j % 8 \in S4 THEN or4[j] ELSE 0
        <5> HIDE DEF or4, S4
        <5> QED
          BY <3>1, InEachByteIs, SMTT(30)
      <4> QED
        BY <3>1, <4>1, Zenon
    <3>3. or4[j] = IF twos[j] + Srl32(twos, 2)[j] > 0 THEN 1 ELSE 0
      BY <3>1, OrIs, ZenonT(60)
    <3>4. s \in 0 .. 3 => Srl32(twos, 2)[j] = twos[j + 2]
      BY <3>1, ShiftIs
    <3> HIDE DEF fours, or4
    <3> QED
      BY <3>1, <3>2, <3>3, <3>4 DEF j
  <2> HIDE DEF fours
  <2>2. /\ fours[8 * v + 0] = IF twos[8 * v + 0] + twos[8 * v + 2] > 0 THEN 1 ELSE 0
        /\ fours[8 * v + 1] = IF twos[8 * v + 1] + twos[8 * v + 3] > 0 THEN 1 ELSE 0
        /\ fours[8 * v + 2] = IF twos[8 * v + 2] + twos[8 * v + 4] > 0 THEN 1 ELSE 0
        /\ fours[8 * v + 3] = IF twos[8 * v + 3] + twos[8 * v + 5] > 0 THEN 1 ELSE 0
    BY <2>1
  <2>3. /\ twos[8 * v + 0] = Pair(x, 8 * v + 0) /\ twos[8 * v + 1] = Pair(x, 8 * v + 2)
        /\ twos[8 * v + 4] = Pair(x, 8 * v + 4) /\ twos[8 * v + 5] = Pair(x, 8 * v + 6)
        /\ twos[8 * v + 2] = 0 /\ twos[8 * v + 3] = 0
        /\ Pair(x, 8 * v + 0) \in {0, 1} /\ Pair(x, 8 * v + 2) \in {0, 1}
        /\ Pair(x, 8 * v + 4) \in {0, 1} /\ Pair(x, 8 * v + 6) \in {0, 1}
    <3>1. 8 * v + 0 = 8 * v
      OBVIOUS
    <3> QED
      BY <1>3, <3>1
  <2>4. /\ fours[8 * v + 0] = Pair(x, 8 * v + 0) /\ fours[8 * v + 1] = Pair(x, 8 * v + 2)
        /\ fours[8 * v + 2] = Pair(x, 8 * v + 4) /\ fours[8 * v + 3] = Pair(x, 8 * v + 6)
    BY <2>2, <2>3
  <2>5. \A s \in 0 .. 3 : s = 0 \/ s = 1 \/ s = 2 \/ s = 3
    OBVIOUS
  <2>6. 2 * 0 = 0 /\ 2 * 1 = 2 /\ 2 * 2 = 4 /\ 2 * 3 = 6
    OBVIOUS
  <2> QED
    BY <2>1, <2>3, <2>4, <2>5, <2>6
<1> HIDE DEF fours
<1>5. ASSUME NEW v \in 0 .. 30, v % 2 = 0, NEW s \in 0 .. 7
      PROVE  bytes[8 * v + s] = Pair(x, 8 * v + 2 * s)
  <2> DEFINE j == 8 * v + s
  <2>1. j \in 0 .. 255 /\ (j % 32) + 4 < 32
    BY <1>5
  <2> HIDE DEF j
  <2>2. bytes[j] = IF fours[j] + Srl32(fours, 4)[j] > 0 THEN 1 ELSE 0
    BY <2>1, OrIs, Zenon
  <2>3. Srl32(fours, 4)[j] = fours[j + 4]
    BY <2>1, ShiftIs, ZenonT(60)
  <2> HIDE DEF bytes
  <2>4. CASE s \in 0 .. 3
    <3>1. j + 4 = 8 * v + (s + 4) /\ s + 4 \in 4 .. 7
      BY <2>4 DEF j
    <3>2. fours[j + 4] = 0 /\ fours[j] = Pair(x, 8 * v + 2 * s) /\ Pair(x, 8 * v + 2 * s) \in {0, 1}
      BY <1>4, <2>4, <3>1 DEF j
    <3> QED
      BY <2>2, <2>3, <3>2 DEF j
  <2>5. CASE s \in 4 .. 7
    <3> DEFINE w == v + 1
               t == s - 4
    <3>1. j + 4 = 8 * w + t /\ t \in 0 .. 3 /\ w \in 0 .. 31 /\ 8 * w + 2 * t = 8 * v + 2 * s
      BY <2>5 DEF j
    <3> HIDE DEF w, t
    <3>2. fours[j] = 0 /\ fours[j + 4] = Pair(x, 8 * v + 2 * s) /\ Pair(x, 8 * v + 2 * s) \in {0, 1}
      BY <1>4, <2>5, <3>1 DEF j
    <3> QED
      BY <2>2, <2>3, <3>2 DEF j
  <2>6. s \in 0 .. 3 \/ s \in 4 .. 7
    OBVIOUS
  <2> QED
    BY <2>4, <2>5, <2>6
<1>6. DOMAIN PackedPairs(x) = 0 .. 255
      /\ PackedPairs(x)[i] = bytes[8 * even[i \div 8] + (i % 8)]
  <2>1. PackedPairs(x) = [j \in 0 .. 255 |-> bytes[8 * even[j \div 8] + (j % 8)]]
    BY Zenon DEF PackedPairs, bytes, fours, twos, pairs
  <2> HIDE DEF bytes, even
  <2> QED
    BY <2>1, Zenon
<1>7. even[i \div 8] \in 0 .. 30 /\ even[i \div 8] % 2 = 0 /\ i % 8 \in 0 .. 7
      /\ 8 * even[i \div 8] + 2 * (i % 8) = 128 * (i \div 128) + 2 * (i % 64)
  <2> DEFINE b == i \div 8
  <2>1. b \in 0 .. 31 /\ b \div 16 = i \div 128 /\ i % 64 = 8 * (b % 8) + (i % 8)
    OBVIOUS
  <2>2. even[b] = 16 * (b \div 16) + 2 * (b % 8)
    <3> HIDE DEF b
    <3> QED
      BY <2>1
  <2>3. i % 8 \in 0 .. 7 /\ b \div 16 \in 0 .. 1 /\ b % 8 \in 0 .. 7
    BY <2>1
  <2> HIDE DEF b, even
  <2>4. even[b] \in 0 .. 30 /\ even[b] % 2 = 0 /\ 8 * even[b] + 2 * (i % 8) = 128 * (i \div 128) + 2 * (i % 64)
    BY <2>1, <2>2, <2>3
  <2> QED
    BY <2>3, <2>4 DEF b
<1> HIDE DEF bytes, even
<1> QED
  BY <1>5, <1>6, <1>7, ZenonT(60)

LEMMA FastRfiMaskIs ==
  ASSUME NEW m \in Nat, NEW src, \A i \in 0 .. 512 * m - 1 : src[i] \in {0, 1}
  PROVE  FastRfiMask(src, 512 * m) = SlowRfiMask(src, 512 * m)
<1> DEFINE I == 0 .. 256 * m - 1
<1>1. (512 * m) \div 2 = 256 * m
  OBVIOUS
<1>2. ASSUME NEW i \in I
      PROVE  FastRfiMask(src, 512 * m)[i] = SlowRfiMask(src, 512 * m)[i]
  <2> DEFINE from == 512 * (i \div 256)
             j == i % 256
             a == Load(src, from, 256)
             b == Load(src, from + 256, 256)
             x == PackedPairs(a)
             y == PackedPairs(b)
             z == Permute2x128(x, y, 1, 2)
             t == Blend(z, x, {0, 1})
             out == Blend(t, y, {6, 7})
  <2>1. from \in Nat /\ j \in 0 .. 255 /\ 2 * i = from + 2 * j /\ from + 511 <= 512 * m - 1 /\ i \in Nat
    OBVIOUS
  <2>2. FastRfiMask(src, 512 * m)[i] = out[j]
    <3> DEFINE bit(k) ==
                 LET f == 512 * (k \div 256)
                     p == PackedPairs(Load(src, f, 256))
                     q == PackedPairs(Load(src, f + 256, 256))
                     r == Permute2x128(p, q, 1, 2)
                 IN  Blend(Blend(r, p, {0, 1}), q, {6, 7})[k % 256]
    <3>1. FastRfiMask(src, 512 * m) = [k \in 0 .. ((512 * m) \div 2) - 1 |-> bit(k)]
      BY Zenon DEF FastRfiMask
    <3>2. bit(i) = out[j]
      BY Zenon
    <3> HIDE DEF bit, out, j
    <3>3. [k \in 0 .. ((512 * m) \div 2) - 1 |-> bit(k)] = [k \in I |-> bit(k)]
      BY <1>1, Zenon
    <3>4. [k \in I |-> bit(k)][i] = bit(i)
      <4> HIDE DEF I
      <4> QED
        BY Zenon
    <3> QED
      BY <3>1, <3>2, <3>3, <3>4, ZenonT(60)
  <2>3. SlowRfiMask(src, 512 * m)[i] = IF src[2 * i] = 1 /\ src[2 * i + 1] = 1 THEN 1 ELSE 0
    BY <1>1, Zenon DEF SlowRfiMask
  <2> HIDE DEF j, from
  <2>4. ASSUME NEW k \in 0 .. 255
        PROVE  /\ a[k] = src[from + k] /\ b[k] = src[from + 256 + k]
               /\ a[k] \in {0, 1} /\ b[k] \in {0, 1}
    BY <2>1 DEF Load, Window
  <2> HIDE DEF a, b
  <2>5. DOMAIN x = 0 .. 255 /\ DOMAIN y = 0 .. 255
    <3>1. (\A k \in 0 .. 255 : a[k] \in {0, 1}) /\ (\A k \in 0 .. 255 : b[k] \in {0, 1})
      BY <2>4, Zenon
    <3>2. 0 \in 0 .. 255
      OBVIOUS
    <3> QED
      BY <3>1, <3>2, PackedPairsIs, Zenon
  <2>6. ASSUME NEW k \in 0 .. 255
        PROVE  /\ x[k] = Pair(a, 128 * (k \div 128) + 2 * (k % 64))
               /\ y[k] = Pair(b, 128 * (k \div 128) + 2 * (k % 64))
    <3>1. (\A l \in 0 .. 255 : a[l] \in {0, 1}) /\ (\A l \in 0 .. 255 : b[l] \in {0, 1})
      BY <2>4
    <3> QED
      BY <3>1, PackedPairsIs, ZenonT(60)
  <2> HIDE DEF x, y
  <2>7. DOMAIN z = 0 .. 255 /\ \A k \in 0 .. 255 : z[k] = IF k < 128 THEN x[128 + k] ELSE y[k - 128]
    <3>1. DOMAIN x = 0 .. 2 * 128 - 1
      BY <2>5
    <3>2. DOMAIN z = 0 .. 2 * 128 - 1
          /\ \A k \in 0 .. 2 * 128 - 1 :
               z[k] = IF k < 128 THEN HalfLane(x, y, 1, 128, k) ELSE HalfLane(x, y, 2, 128, k - 128)
      BY <3>1, PermuteIs
    <3>3. \A k : HalfLane(x, y, 1, 128, k) = x[128 + k]
      BY DEF HalfLane
    <3>4. \A k \in 128 .. 255 : HalfLane(x, y, 2, 128, k - 128) = y[k - 128]
      BY DEF HalfLane
    <3> HIDE DEF z
    <3> QED
      BY <3>2, <3>3, <3>4
  <2> HIDE DEF z
  <2>8. DOMAIN t = 0 .. 255 /\ \A k \in 0 .. 255 : t[k] = IF k \div 32 \in {0, 1} THEN x[k] ELSE z[k]
    <3>1. DOMAIN z = 0 .. 255
      BY <2>7, SMTT(30)
    <3> QED
      BY <3>1, Blend256Is
  <2> HIDE DEF t
  <2>9. \A k \in 0 .. 255 : out[k] = IF k \div 32 \in {6, 7} THEN y[k] ELSE t[k]
    <3>1. DOMAIN t = 0 .. 255
      BY <2>8
    <3> QED
      BY <3>1, Blend256Is
  <2> HIDE DEF out
  <2>10. out[j] = IF j < 128 THEN Pair(a, 2 * j) ELSE Pair(b, 2 * (j - 128))
    <3>1. CASE j < 64
      <4>1. out[j] = x[j] /\ 128 * (j \div 128) + 2 * (j % 64) = 2 * j
        BY <2>1, <2>8, <2>9, <3>1, SMTT(30)
      <4> QED
        BY <2>1, <2>6, <3>1, <4>1, SMTT(30)
    <3>2. CASE 64 <= j /\ j < 128
      <4> DEFINE k == 128 + j
      <4>1. out[j] = x[k] /\ 128 * (k \div 128) + 2 * (k % 64) = 2 * j /\ k \in 0 .. 255
        <5>1. 128 * (k \div 128) + 2 * (k % 64) = 2 * j /\ k \in 0 .. 255
          BY <2>1, <3>2
        <5>2. j \div 32 \notin {6, 7} /\ j \div 32 \notin {0, 1} /\ j < 128
          BY <2>1, <3>2
        <5>3. out[j] = t[j] /\ t[j] = z[j]
          BY <2>1, <2>8, <2>9, <5>2, Zenon
        <5>4. z[j] = x[128 + j]
          BY <2>1, <2>7, <5>2, Zenon
        <5> QED
          BY <5>1, <5>3, <5>4, Zenon
      <4> HIDE DEF k
      <4>2. x[k] = Pair(a, 2 * j)
        BY <2>6, <4>1, Zenon
      <4> QED
        BY <2>1, <3>2, <4>1, <4>2, SMTT(30)
    <3>3. CASE 128 <= j /\ j < 192
      <4> DEFINE k == j - 128
      <4>1. out[j] = y[k] /\ 128 * (k \div 128) + 2 * (k % 64) = 2 * k /\ k \in 0 .. 255
        <5>1. 128 * (k \div 128) + 2 * (k % 64) = 2 * k /\ k \in 0 .. 255
          BY <2>1, <3>3
        <5>2. j \div 32 \notin {6, 7} /\ j \div 32 \notin {0, 1} /\ ~(j < 128)
          BY <2>1, <3>3
        <5>3. out[j] = t[j] /\ t[j] = z[j]
          BY <2>1, <2>8, <2>9, <5>2, Zenon
        <5>4. z[j] = y[j - 128]
          BY <2>1, <2>7, <5>2, Zenon
        <5> QED
          BY <5>1, <5>3, <5>4, Zenon
      <4> HIDE DEF k
      <4>2. y[k] = Pair(b, 2 * k)
        BY <2>6, <4>1, Zenon
      <4> QED
        BY <2>1, <3>3, <4>1, <4>2, SMTT(30) DEF k
    <3>4. CASE 192 <= j
      <4>1. out[j] = y[j] /\ 128 * (j \div 128) + 2 * (j % 64) = 2 * (j - 128)
        BY <2>1, <2>9, <3>4
      <4>2. y[j] = Pair(b, 2 * (j - 128))
        BY <2>1, <2>6, <4>1
      <4> QED
        BY <2>1, <3>4, <4>1, <4>2
    <3> QED
      BY <2>1, <3>1, <3>2, <3>3, <3>4
  <2>11. out[j] = src[2 * i] * src[2 * i + 1]
    <3>1. CASE j < 128
      <4>1. a[2 * j] = src[2 * i] /\ a[2 * j + 1] = src[2 * i + 1]
        BY <2>1, <2>4, <3>1, SMTT(30)
      <4> QED
        BY <2>10, <3>1, <4>1 DEF Pair
    <3>2. CASE j >= 128
      <4> DEFINE k == 2 * (j - 128)
      <4>1. k \in 0 .. 255 /\ k + 1 \in 0 .. 255 /\ from + 256 + k = 2 * i /\ from + 256 + (k + 1) = 2 * i + 1
        BY <2>1, <3>2
      <4> HIDE DEF k
      <4>2. b[k] = src[2 * i] /\ b[k + 1] = src[2 * i + 1]
        BY <2>4, <4>1
      <4>3. out[j] = Pair(b, k)
        BY <2>1, <2>10, <3>2 DEF k
      <4> QED
        BY <4>2, <4>3 DEF Pair
    <3> QED
      BY <2>1, <3>1, <3>2
  <2>12. src[2 * i] \in {0, 1} /\ src[2 * i + 1] \in {0, 1}
    BY <2>1
  <2> QED
    BY <2>2, <2>3, <2>11, <2>12
<1>3. /\ FastRfiMask(src, 512 * m) = [i \in I |-> FastRfiMask(src, 512 * m)[i]]
      /\ SlowRfiMask(src, 512 * m) = [i \in I |-> SlowRfiMask(src, 512 * m)[i]]
  BY <1>1 DEF FastRfiMask, SlowRfiMask
<1> DEFINE fast == FastRfiMask(src, 512 * m)
           slow == SlowRfiMask(src, 512 * m)
<1>4. \A i \in I : fast[i] = slow[i]
  BY <1>2
<1> HIDE DEF fast, slow, I
<1>5. [i \in I |-> fast[i]] = [i \in I |-> slow[i]]
  BY <1>4, Zenon
<1> QED
  BY <1>3, <1>5, SMTT(30) DEF fast, slow

-----------------------------------------------------------------------------
(* What the packets of the stream hold: numbers. *)
LEMMA EncodedNumbers ==
  ASSUME NEW x, NEW w, NEW n \in Nat, NEW cutoff, \A i \in 0 .. n - 1 : x[i] \in Int,
         \A i \in 0 .. n - 1 : NanBytes[i] \in {0, 255}
  PROVE  /\ EncodedBlock(x, w, n, cutoff).scale \in Int
         /\ EncodedBlock(x, w, n, cutoff).offset \in Int
         /\ \A i \in 0 .. n - 1 : EncodedBlock(x, w, n, cutoff).bytes[i] \in Int
<1> DEFINE on(i) == w[i] >= cutoff
           ones == [i \in 0 .. n - 1 |-> IF on(i) THEN 1 ELSE 0]
           xs   == [i \in 0 .. n - 1 |-> IF on(i) THEN x[i] ELSE 0]
           x2s  == [i \in 0 .. n - 1 |-> IF on(i) THEN x[i] * x[i] ELSE 0]
           acc0 == SumTo(n, ones)
           acc1 == SumTo(n, xs)
           acc2 == SumTo(n, x2s)
           mean == acc1 \div acc0
           var  == (acc2 \div acc0) - mean * mean
           rms  == Sqrt(AtLeast(var, (mean * mean) \div 100000))
           scale == IF acc2 = 0 THEN 0 ELSE AtLeast(rms \div 25, 1)
           offset == mean - 128 * scale
           level(i) == IF on(i) THEN x[i] - offset ELSE 0
           byte(i) == IF scale = 0 THEN NanBytes[i]
                      ELSE RoundHalfUp(AtLeast(AtMost(level(i), 255 * scale), 0), scale)
<1>1. EncodedBlock(x, w, n, cutoff) =
        IF acc0 = 0 THEN [scale |-> One, offset |-> 0, bytes |-> [i \in 0 .. n - 1 |-> 0]]
        ELSE [scale |-> scale, offset |-> offset, bytes |-> [i \in 0 .. n - 1 |-> byte(i)]]
  BY DEF EncodedBlock
<1> HIDE DEF byte, offset, scale, mean, var, rms
<1>2. \A i \in 0 .. n - 1 : ones[i] \in Int /\ ones[i] >= 0 /\ xs[i] \in Int /\ x2s[i] \in Int
  <2> SUFFICES ASSUME NEW i \in 0 .. n - 1
               PROVE  ones[i] \in Int /\ ones[i] >= 0 /\ xs[i] \in Int /\ x2s[i] \in Int
    OBVIOUS
  <2>1. x[i] \in Int /\ x[i] * x[i] \in Int
    OBVIOUS
  <2>2. ones[i] = (IF on(i) THEN 1 ELSE 0) /\ xs[i] = (IF on(i) THEN x[i] ELSE 0)
        /\ x2s[i] = (IF on(i) THEN x[i] * x[i] ELSE 0)
    BY Zenon
  <2> HIDE DEF on, ones, xs, x2s
  <2> QED
    BY <2>1, <2>2
<1> HIDE DEF ones, xs, x2s
<1>3. acc0 \in Int /\ acc0 >= 0 /\ acc1 \in Int /\ acc2 \in Int
  <2>1. /\ \A i \in 0 .. n - 1 : ones[i] \in Int
        /\ \A i \in 0 .. n - 1 : ones[i] >= 0
        /\ \A i \in 0 .. n - 1 : xs[i] \in Int
        /\ \A i \in 0 .. n - 1 : x2s[i] \in Int
    BY <1>2
  <2> QED
    BY <2>1, SumIsInt
<1> HIDE DEF acc0, acc1, acc2
<1>4. CASE acc0 = 0
  <2> DEFINE b == [scale |-> One, offset |-> 0, bytes |-> [i \in 0 .. n - 1 |-> 0]]
  <2>1. b.scale \in Int /\ b.offset \in Int /\ \A i \in 0 .. n - 1 : b.bytes[i] \in Int
    BY DEF One
  <2>2. EncodedBlock(x, w, n, cutoff) = b
    BY <1>1, <1>4, Zenon
  <2> QED
    BY <2>1, <2>2, Zenon
<1>5. CASE acc0 # 0
  <2>1. mean \in Int
    BY <1>3, <1>5 DEF mean
  <2>2. rms \in Nat
    BY SqrtIsNat DEF rms
  <2>3. scale \in Nat
    BY <2>2 DEF AtLeast, scale
  <2>4. offset \in Int
    BY <2>1, <2>3 DEF offset
  <2>5. ASSUME NEW i \in 0 .. n - 1 PROVE byte(i) \in Int
    <3>0. CASE scale = 0
      <4>1. byte(i) = NanBytes[i]
        BY <3>0, Zenon DEF byte
      <4> QED
        BY <4>1
    <3> SUFFICES ASSUME scale # 0 PROVE byte(i) \in Int
      BY <3>0
    <3> DEFINE l == level(i)
               num == AtLeast(AtMost(l, 255 * scale), 0)
    <3>1. l \in Int
      <4>1. x[i] - offset \in Int
        BY <2>4
      <4> HIDE DEF on
      <4> QED
        BY <4>1
    <3> HIDE DEF l
    <3>2. num \in Int
      BY <2>3, <3>1 DEF AtLeast, AtMost
    <3> HIDE DEF num
    <3>3. RoundHalfUp(num, scale) \in Int
      BY <2>3, <3>2 DEF RoundHalfUp
    <3> QED
      BY <3>3, Zenon DEF num, l, byte
  <2> DEFINE b == [scale |-> scale, offset |-> offset, bytes |-> [i \in 0 .. n - 1 |-> byte(i)]]
  <2>6. b.scale \in Int /\ b.offset \in Int /\ \A i \in 0 .. n - 1 : b.bytes[i] \in Int
    BY <2>3, <2>4, <2>5
  <2>7. EncodedBlock(x, w, n, cutoff) = b
    BY <1>1, <1>5, Zenon
  <2> QED
    BY <2>6, <2>7, Zenon
<1> QED
  BY <1>4, <1>5

(* i of m blocks of n. *)
LEMMA BlockNumber ==
  ASSUME NEW m \in Nat, NEW n \in Nat, NEW i \in 0 .. m * n - 1
  PROVE  n # 0 /\ i \div n \in 0 .. m - 1 /\ i % n \in 0 .. n - 1
<1>1. n # 0 /\ m * n \in Nat /\ i \in Nat /\ i < m * n
  OBVIOUS
<1> QED
  BY <1>1

(* A packet of the stream, as decode() gives it. *)
Sent(p) == \E slot \in DOMAIN Sky : p = Decoded(Wires[slot])

NumBeams == Cardinality(DOMAIN BeamIds)
NumFreqs == Cardinality(DOMAIN CoarseFreqIds)
PerBlock == Nupfreq * NtPerPacket

LEMMA Geometry ==
  /\ NumBeams \in Nat /\ NumFreqs \in Nat /\ PerBlock \in Nat
  /\ Nupfreq \in Nat \ {0} /\ NtPerPacket \in Nat \ {0} /\ NtPerChunk \in Nat \ {0}
  /\ NtPerChunk % NtPerPacket = 0 /\ NfreqCoarseTot \in Nat \ {0} /\ NrfiFreq \in Nat
  /\ FpgaPerSample \in Nat \ {0} /\ FirstIchunk \in Nat
  /\ DOMAIN Sky \subseteq Nat
<1>1. NumBeams \in Nat /\ NumFreqs \in Nat
  BY DataPathAssumption, FS_CardinalityType DEF NumBeams, NumFreqs
<1>2. Nupfreq \in Nat \ {0} /\ NtPerPacket \in Nat \ {0} /\ NtPerChunk \in Nat \ {0}
      /\ NtPerChunk % NtPerPacket = 0
  BY DataPathAssumption, ChunkAssumption DEF ValidGeometry
<1>3. PerBlock \in Nat
  BY <1>2 DEF PerBlock
<1> QED
  BY <1>1, <1>2, <1>3, DataPathAssumption, ChunkAssumption, PacketAssumption

LEMMA BytesOfNan == \A i \in 0 .. PerBlock - 1 : NanBytes[i] \in {0, 255}
BY NanAssumption DEF PerBlock

LEMMA SentIs ==
  ASSUME NEW p, Sent(p)
  PROVE  /\ p = [f \in {"header", "beam_ids", "coarse_freq_ids", "scales", "offsets", "data"} |-> p[f]]
         /\ \E slot \in DOMAIN Sky : p.header = Header(slot)
         /\ NumBeams > 0 /\ NumFreqs > 0 =>
              /\ p.coarse_freq_ids = CoarseFreqIds
              /\ \A k \in 0 .. NumBeams * NumFreqs - 1 : p.scales[k] \in Int /\ p.offsets[k] \in Int
              /\ \A i \in 0 .. NumBeams * NumFreqs * PerBlock - 1 : p.data[i] \in Int
<1>1. PICK slot \in DOMAIN Sky : p = Decoded(Wires[slot])
  BY DEF Sent
<1> DEFINE h == Header(slot)
           w == Encoded(h, BeamIds, CoarseFreqIds, Sky[slot], Weights[slot], WtCutoff)
           block(k) == EncodedBlock(Sky[slot][k], Weights[slot][k], PerBlock, WtCutoff)
           blocks == 0 .. NumBeams * NumFreqs - 1
<1>2. Wires[slot] = w /\ p = Decoded(w)
  BY <1>1 DEF Wires
<1>3. /\ h.nbeams = NumBeams /\ h.nfreq_coarse = NumFreqs /\ h.nupfreq = Nupfreq /\ h.ntsamp = NtPerPacket
      /\ h.data_nbytes = NumBeams * NumFreqs * Nupfreq * NtPerPacket
  BY DEF Header, NumBeams, NumFreqs
<1> HIDE DEF h
<1>4. p = [f \in {"header", "beam_ids", "coarse_freq_ids", "scales", "offsets", "data"} |-> p[f]]
  <2> HIDE DEF w
  <2> QED
    BY <1>2 DEF Decoded
<1>5. p.header = h
  <2>1. w.header = h
    BY SMTT(30) DEF Encoded
  <2> HIDE DEF w
  <2> QED
    BY <1>2, <2>1 DEF Decoded
<1>6. ASSUME NumBeams > 0, NumFreqs > 0
      PROVE  /\ p.coarse_freq_ids = CoarseFreqIds
             /\ p.scales = [k \in blocks |-> block(k).scale]
             /\ p.offsets = [k \in blocks |-> block(k).offset]
             /\ p.data = [i \in 0 .. NumBeams * NumFreqs * PerBlock - 1 |->
                            block(i \div PerBlock).bytes[i % PerBlock]]
  <2>1. Counts(h) /\ h.nbeams > 0 /\ h.nfreq_coarse > 0 /\ h.data_nbytes = DataSize(h)
    BY <1>3, <1>6, Geometry DEF Counts, DataSize
  <2>2. h.nupfreq * h.ntsamp = PerBlock
    BY <1>3 DEF PerBlock
  <2>3. FoundIn(w, h, BeamIds, CoarseFreqIds, Sky[slot], Weights[slot], WtCutoff)
    BY <2>1, DecodedAsEncoded
  <2> HIDE DEF w
  <2>4. h.nbeams * h.nfreq_coarse = NumBeams * NumFreqs
    BY <1>3, Zenon
  <2>5. p.coarse_freq_ids = CoarseFreqIds
    BY <1>2, <2>3, Zenon DEF FoundIn
  <2>6. /\ p.scales = [k \in blocks |-> block(k).scale]
        /\ p.offsets = [k \in blocks |-> block(k).offset]
        /\ p.data = [i \in 0 .. NumBeams * NumFreqs * PerBlock - 1 |-> block(i \div PerBlock).bytes[i % PerBlock]]
    BY <1>2, <2>2, <2>3, <2>4, FoundArrays, SMTT(30)
  <2> QED
    BY <2>5, <2>6, Zenon
<1>7. ASSUME NEW k \in blocks
      PROVE  /\ block(k).scale \in Int /\ block(k).offset \in Int
             /\ \A i \in 0 .. PerBlock - 1 : block(k).bytes[i] \in Int
  <2>1. Sky[slot] \in [blocks -> [0 .. PerBlock - 1 -> Int]]
    BY SkyAssumption DEF PerBlock, NumBeams, NumFreqs
  <2>2. \A i \in 0 .. PerBlock - 1 : Sky[slot][k][i] \in Int
    BY <2>1
  <2> QED
    BY <2>2, Geometry, EncodedNumbers, BytesOfNan
<1> HIDE DEF block, w
<1>8. ASSUME NumBeams > 0, NumFreqs > 0
      PROVE  /\ \A k \in 0 .. NumBeams * NumFreqs - 1 : p.scales[k] \in Int /\ p.offsets[k] \in Int
             /\ \A i \in 0 .. NumBeams * NumFreqs * PerBlock - 1 : p.data[i] \in Int
  <2>1. \A k \in blocks : p.scales[k] \in Int /\ p.offsets[k] \in Int
    BY <1>6, <1>7, <1>8
  <2>2. ASSUME NEW i \in 0 .. NumBeams * NumFreqs * PerBlock - 1
        PROVE  p.data[i] \in Int
    <3> DEFINE m == NumBeams * NumFreqs
               q == i \div PerBlock
               r == i % PerBlock
    <3>1. m \in Nat /\ PerBlock \in Nat
      BY Geometry
    <3>2. i \in 0 .. m * PerBlock - 1 /\ blocks = 0 .. m - 1
      OBVIOUS
    <3> HIDE DEF m, blocks
    <3>3. q \in blocks /\ r \in 0 .. PerBlock - 1
      BY <3>1, <3>2, BlockNumber
    <3>4. p.data[i] = block(q).bytes[r]
      BY <1>6, <1>8
    <3> HIDE DEF q, r
    <3> QED
      BY <1>7, <3>3, <3>4
  <2> QED
    BY <2>1, <2>2
<1> QED
  BY <1>4, <1>5, <1>6, <1>8 DEF h

-----------------------------------------------------------------------------
(* add_packet(): the AVX2 code copies two rows at a time, the reference    *)
(* one. *)
LEMMA MemcpySame ==
  ASSUME NEW dst, NEW at \in Int, NEW s1, NEW f1 \in Int, NEW s2, NEW f2 \in Int, NEW n \in Nat,
         \A j \in 0 .. n - 1 : s1[f1 + j] = s2[f2 + j]
  PROVE  Memcpy(dst, at, s1, f1, n) = Memcpy(dst, at, s2, f2, n)
<1>1. ASSUME NEW i \in at .. at + n - 1
      PROVE  s1[f1 + i - at] = s2[f2 + i - at]
  <2> DEFINE j == i - at
  <2>1. j \in 0 .. n - 1 /\ f1 + i - at = f1 + j /\ f2 + i - at = f2 + j
    OBVIOUS
  <2> HIDE DEF j
  <2> QED
    BY <2>1
<1> QED
  BY <1>1, Zenon DEF Memcpy

RowCopied(data, u, freq, nupfreq, t0, src, f) ==
  Memcpy(data, (freq * nupfreq + u) * NtPerChunk + t0, src, (f * nupfreq + u) * 16, 16)

LEMMA TwoRowsAreRows ==
  ASSUME NEW data, NEW k \in Nat, NEW freq \in Nat, NEW nupfreq \in Nat, NEW t0 \in Nat, NEW src, NEW f \in Nat
  PROVE  RowsCopied(data, k, freq * nupfreq * NtPerChunk + t0, src, f * nupfreq * 16)
           = RowCopied(RowCopied(data, 2 * k, freq, nupfreq, t0, src, f),
                       2 * k + 1, freq, nupfreq, t0, src, f)
<1> DEFINE Nt == NtPerChunk
           at == freq * nupfreq * Nt + t0
           from == f * nupfreq * 16
           x == Load(src, from + 32 * k, 32)
           y == freq * nupfreq
           z == f * nupfreq
<1>1. Nt \in Nat /\ y \in Nat /\ z \in Nat
  BY ChunkAssumption
<1>2. /\ (y + 2 * k) * Nt + t0 = at + 2 * k * Nt
      /\ (y + (2 * k + 1)) * Nt + t0 = at + (2 * k + 1) * Nt
      /\ (y + 2 * k) * Nt + t0 \in Int /\ (y + (2 * k + 1)) * Nt + t0 \in Int
  <2> DEFINE a == y * Nt
             b == k * Nt
  <2>1. a \in Nat /\ b \in Nat
    BY <1>1
  <2>2. 2 * k * Nt = 2 * b /\ (2 * k + 1) * Nt = 2 * b + Nt
    BY <1>1
  <2>3. (y + 2 * k) * Nt = a + 2 * k * Nt /\ (y + (2 * k + 1)) * Nt = a + (2 * k + 1) * Nt
    BY <1>1
  <2>4. at = a + t0
    OBVIOUS
  <2> HIDE DEF a, b, at
  <2> QED
    BY <1>1, <2>1, <2>2, <2>3, <2>4
<1>3. (z + 2 * k) * 16 = from + 32 * k /\ (z + (2 * k + 1)) * 16 = from + 32 * k + 16 /\ from \in Nat
  <2>1. from = z * 16
    OBVIOUS
  <2> HIDE DEF z, from
  <2> QED
    BY <1>1, <2>1
<1>4. \A j \in 0 .. 15 : x[0 + j] = src[from + 32 * k + j] /\ x[16 + j] = src[from + 32 * k + 16 + j]
  <2> SUFFICES ASSUME NEW j \in 0 .. 15
               PROVE  x[0 + j] = src[from + 32 * k + j] /\ x[16 + j] = src[from + 32 * k + 16 + j]
    OBVIOUS
  <2> HIDE DEF from
  <2>1. 0 + j \in 0 .. 31 /\ 16 + j \in 0 .. 31 /\ from + 32 * k + (0 + j) = from + 32 * k + j
        /\ from + 32 * k + (16 + j) = from + 32 * k + 16 + j
    BY <1>3
  <2> DEFINE start == from + 32 * k
             l == 0 + j
             m == 16 + j
  <2> HIDE DEF l, m
  <2>2. x[l] = src[start + l] /\ x[m] = src[start + m]
    <3>1. l \in 0 .. 31 /\ m \in 0 .. 31
      BY <2>1 DEF l, m
    <3> HIDE DEF start
    <3>2. x = [i \in 0 .. 31 |-> src[start + i]]
      BY DEF Load, Window, start
    <3> HIDE DEF x
    <3> QED
      BY <3>1, <3>2
  <2> HIDE DEF x
  <2> QED
    BY <2>1, <2>2 DEF l, m
<1> HIDE DEF x, at, from, y, z
<1>5. \A d : Memcpy(d, at + 2 * k * Nt, x, 0, 16) = RowCopied(d, 2 * k, freq, nupfreq, t0, src, f)
  <2> SUFFICES ASSUME NEW d
               PROVE  Memcpy(d, at + 2 * k * Nt, x, 0, 16) = RowCopied(d, 2 * k, freq, nupfreq, t0, src, f)
    OBVIOUS
  <2> DEFINE p == at + 2 * k * Nt
             q == from + 32 * k
  <2>1. p \in Int /\ q \in Int /\ 0 \in Int /\ 16 \in Nat /\ 16 - 1 = 15
    BY <1>2, <1>3
  <2>2. RowCopied(d, 2 * k, freq, nupfreq, t0, src, f) = Memcpy(d, p, src, q, 16)
    BY <1>2, <1>3, Zenon DEF RowCopied, y, z
  <2>3. \A j \in 0 .. 15 : x[0 + j] = src[q + j]
    BY <1>4, Zenon
  <2> HIDE DEF p, q
  <2>4. Memcpy(d, p, x, 0, 16) = Memcpy(d, p, src, q, 16)
    BY <2>1, <2>3, MemcpySame
  <2> QED
    BY <2>2, <2>4, Zenon DEF p
<1>6. \A d : Memcpy(d, at + (2 * k + 1) * Nt, x, 16, 16) = RowCopied(d, 2 * k + 1, freq, nupfreq, t0, src, f)
  <2> SUFFICES ASSUME NEW d
               PROVE  Memcpy(d, at + (2 * k + 1) * Nt, x, 16, 16)
                        = RowCopied(d, 2 * k + 1, freq, nupfreq, t0, src, f)
    OBVIOUS
  <2> DEFINE p == at + (2 * k + 1) * Nt
             q == from + 32 * k + 16
  <2>1. p \in Int /\ q \in Int /\ 16 \in Int /\ 16 \in Nat /\ 16 - 1 = 15
    BY <1>2, <1>3
  <2>2. RowCopied(d, 2 * k + 1, freq, nupfreq, t0, src, f) = Memcpy(d, p, src, q, 16)
    BY <1>2, <1>3, Zenon DEF RowCopied, y, z
  <2>3. \A j \in 0 .. 15 : x[16 + j] = src[q + j]
    BY <1>4, Zenon
  <2> HIDE DEF p, q
  <2>4. Memcpy(d, p, x, 16, 16) = Memcpy(d, p, src, q, 16)
    BY <2>1, <2>3, MemcpySame
  <2> QED
    BY <2>2, <2>4, Zenon DEF p
<1>7. RowsCopied(data, k, at, src, from)
        = Memcpy(Memcpy(data, at + 2 * k * Nt, x, 0, 16), at + (2 * k + 1) * Nt, x, 16, 16)
  BY Zenon DEF RowsCopied, x
<1> QED
  BY <1>5, <1>6, <1>7, Zenon DEF at, from

Ints(a) == \A i \in DOMAIN a : a[i] \in Int

LEMMA MemcpyInts ==
  ASSUME NEW dst, Ints(dst), NEW at \in Int, NEW src, NEW from \in Int, NEW n \in Nat,
         \A j \in 0 .. n - 1 : src[from + j] \in Int
  PROVE  Ints(Memcpy(dst, at, src, from, n))
<1>1. ASSUME NEW i \in at .. at + n - 1
      PROVE  src[from + i - at] \in Int
  <2> DEFINE j == i - at
  <2>1. j \in 0 .. n - 1 /\ from + i - at = from + j
    OBVIOUS
  <2> HIDE DEF j
  <2> QED
    BY <2>1
<1> QED
  BY <1>1, Zenon DEF Memcpy, Ints

(* The AVX2 code copies the rows that the reference code copies. *)
LEMMA RowsAlike ==
  ASSUME NEW dst, NEW freq \in Nat, NEW nupfreq \in Nat, nupfreq % 2 = 0, NEW t0 \in Nat, NEW src,
         NEW f \in Nat
  PROVE  /\ AddPacketKernel(dst, freq * nupfreq * NtPerChunk + t0, src, f * nupfreq * 16, nupfreq)
              = Loop(nupfreq, dst, LAMBDA data, u : RowCopied(data, u, freq, nupfreq, t0, src, f))
         /\ Ints(dst) /\ (\A j \in 0 .. 16 * nupfreq - 1 : src[f * nupfreq * 16 + j] \in Int) =>
              Ints(AddPacketKernel(dst, freq * nupfreq * NtPerChunk + t0, src, f * nupfreq * 16, nupfreq))
<1> DEFINE at == freq * nupfreq * NtPerChunk + t0
           from == f * nupfreq * 16
           fast(r, k) == IF k = 0 THEN dst ELSE RowsCopied(r[k - 1], k - 1, at, src, from)
           slow(r, k) == IF k = 0 THEN dst ELSE RowCopied(r[k - 1], k - 1, freq, nupfreq, t0, src, f)
           SF == {n \in Nat : \E r : r = [k \in 0 .. n |-> fast(r, k)]}
           SS == {n \in Nat : \E r : r = [k \in 0 .. n |-> slow(r, k)]}
           n == nupfreq \div 2
           two == CHOOSE r : r = [k \in 0 .. n |-> fast(r, k)]
           one == CHOOSE r : r = [k \in 0 .. nupfreq |-> slow(r, k)]
           T == {k \in Nat : k <= n => two[k] = one[2 * k]}
<1>1. /\ AddPacketKernel(dst, at, src, from, nupfreq) = two[n]
      /\ Loop(nupfreq, dst, LAMBDA data, u : RowCopied(data, u, freq, nupfreq, t0, src, f)) = one[nupfreq]
  BY DEF AddPacketKernel, Loop, RowsCopied
<1> HIDE DEF at, from
<1>2. 0 \in SF
  <2> DEFINE f0 == [k \in 0 .. 0 |-> dst]
  <2>1. f0 = [k \in 0 .. 0 |-> fast(f0, k)]
    OBVIOUS
  <2> QED
    BY <2>1
<1>3. ASSUME NEW m \in Nat, m \in SF PROVE m + 1 \in SF
  <2>1. PICK f1 : f1 = [k \in 0 .. m |-> fast(f1, k)]
    BY <1>3
  <2> DEFINE g == [k \in 0 .. m + 1 |-> IF k <= m THEN f1[k] ELSE fast(f1, k)]
  <2>2. ASSUME NEW k \in 0 .. m + 1 PROVE g[k] = fast(g, k)
    <3>1. fast(g, k) = fast(f1, k)
      OBVIOUS
    <3>2. k <= m => f1[k] = fast(f1, k)
      <4>1. k <= m => k \in 0 .. m
        OBVIOUS
      <4> QED
        BY <2>1, <4>1, Zenon
    <3> QED
      BY <3>1, <3>2
  <2>3. g = [k \in 0 .. m + 1 |-> fast(g, k)]
    BY <2>2, Zenon
  <2> HIDE DEF g, fast
  <2> QED
    BY <2>3
<1>4. 0 \in SS
  <2> DEFINE f0 == [k \in 0 .. 0 |-> dst]
  <2>1. f0 = [k \in 0 .. 0 |-> slow(f0, k)]
    OBVIOUS
  <2> QED
    BY <2>1
<1>5. ASSUME NEW m \in Nat, m \in SS PROVE m + 1 \in SS
  <2>1. PICK f1 : f1 = [k \in 0 .. m |-> slow(f1, k)]
    BY <1>5
  <2> DEFINE g == [k \in 0 .. m + 1 |-> IF k <= m THEN f1[k] ELSE slow(f1, k)]
  <2>2. ASSUME NEW k \in 0 .. m + 1 PROVE g[k] = slow(g, k)
    <3>1. slow(g, k) = slow(f1, k)
      OBVIOUS
    <3>2. k <= m => f1[k] = slow(f1, k)
      <4>1. k <= m => k \in 0 .. m
        OBVIOUS
      <4> QED
        BY <2>1, <4>1, Zenon
    <3> QED
      BY <3>1, <3>2
  <2>3. g = [k \in 0 .. m + 1 |-> slow(g, k)]
    BY <2>2, Zenon
  <2> HIDE DEF g, slow
  <2> QED
    BY <2>3
<1>6. n \in Nat /\ nupfreq = 2 * n
  OBVIOUS
<1>7. n \in SF
  BY <1>2, <1>3, <1>6, NatSetInduction
<1>8. \A k \in 0 .. n : two[k] = fast(two, k)
  <2>1. two = [k \in 0 .. n |-> fast(two, k)]
    BY <1>7, Zenon
  <2> QED
    BY <2>1, Zenon
<1>9. nupfreq \in SS
  BY <1>4, <1>5, <1>6, NatSetInduction
<1>10. \A k \in 0 .. nupfreq : one[k] = slow(one, k)
  <2>1. one = [k \in 0 .. nupfreq |-> slow(one, k)]
    BY <1>9, Zenon
  <2> QED
    BY <2>1, Zenon
<1> HIDE DEF two, one, n, SF, SS
<1>11. 0 \in T
  <2>1. 0 \in 0 .. n /\ 0 \in 0 .. nupfreq /\ 2 * 0 = 0
    BY <1>6
  <2> QED
    BY <1>8, <1>10, <2>1
<1>12. ASSUME NEW k \in Nat, k \in T PROVE k + 1 \in T
  <2> SUFFICES ASSUME k + 1 <= n PROVE two[k + 1] = one[2 * (k + 1)]
    OBVIOUS
  <2>1. /\ two[k] = one[2 * k] /\ k + 1 \in 0 .. n /\ k + 1 # 0 /\ (k + 1) - 1 = k
        /\ 2 * k + 1 \in 0 .. nupfreq /\ 2 * k + 1 # 0 /\ (2 * k + 1) - 1 = 2 * k
        /\ 2 * (k + 1) \in 0 .. nupfreq /\ 2 * (k + 1) # 0 /\ 2 * (k + 1) - 1 = 2 * k + 1
    BY <1>6, <1>12
  <2>2. two[k + 1] = RowsCopied(two[k], k, at, src, from)
    BY <1>8, <2>1
  <2>3. one[2 * k + 1] = RowCopied(one[2 * k], 2 * k, freq, nupfreq, t0, src, f)
    BY <1>10, <2>1
  <2>4. one[2 * (k + 1)] = RowCopied(one[2 * k + 1], 2 * k + 1, freq, nupfreq, t0, src, f)
    BY <1>10, <2>1
  <2>5. RowsCopied(two[k], k, at, src, from) =
          RowCopied(RowCopied(two[k], 2 * k, freq, nupfreq, t0, src, f), 2 * k + 1, freq, nupfreq, t0, src, f)
    BY TwoRowsAreRows DEF at, from
  <2> QED
    BY <2>1, <2>2, <2>3, <2>4, <2>5, Zenon
<1>13. n \in T
  BY <1>6, <1>11, <1>12, NatSetInduction
<1>14. two[n] = one[nupfreq]
  <2>1. n <= n
    BY <1>6
  <2> QED
    BY <1>6, <1>13, <2>1
<1>15. ASSUME Ints(dst), \A j \in 0 .. 16 * nupfreq - 1 : src[from + j] \in Int
       PROVE  Ints(two[n])
  <2> DEFINE N == {k \in Nat : k <= nupfreq => Ints(one[k])}
  <2>1. 0 \in N
    <3>1. 0 \in 0 .. nupfreq
      OBVIOUS
    <3> QED
      BY <1>10, <1>15, <3>1
  <2>2. ASSUME NEW k \in Nat, k \in N PROVE k + 1 \in N
    <3> SUFFICES ASSUME k + 1 <= nupfreq PROVE Ints(one[k + 1])
      OBVIOUS
    <3>1. Ints(one[k]) /\ k + 1 \in 0 .. nupfreq /\ k + 1 # 0 /\ (k + 1) - 1 = k
      BY <2>2
    <3>2. one[k + 1] = RowCopied(one[k], k, freq, nupfreq, t0, src, f)
      BY <1>10, <3>1
    <3> DEFINE y == freq * nupfreq
               z == f * nupfreq
               a == (y + k) * NtPerChunk + t0
               b == (z + k) * 16
    <3>3. y \in Nat /\ z \in Nat /\ NtPerChunk \in Nat
      BY ChunkAssumption
    <3>4. a \in Int /\ b \in Int /\ b = from + 16 * k /\ from \in Int
      <4>1. from = z * 16
        BY DEF from
      <4> HIDE DEF y, z
      <4>2. (y + k) * NtPerChunk \in Int
        BY <3>3
      <4> QED
        BY <3>3, <4>1, <4>2
    <3>5. ASSUME NEW j \in 0 .. 15 PROVE src[b + j] \in Int
      <4>1. 16 * k + j \in 0 .. 16 * nupfreq - 1 /\ b + j = from + (16 * k + j)
        <5> HIDE DEF b
        <5> QED
          BY <3>1, <3>4
      <4> HIDE DEF b
      <4> QED
        BY <1>15, <4>1
    <3>6. RowCopied(one[k], k, freq, nupfreq, t0, src, f) = Memcpy(one[k], a, src, b, 16)
      BY DEF RowCopied
    <3> HIDE DEF a, b
    <3>7. \A j \in 0 .. 16 - 1 : src[b + j] \in Int
      BY <3>5
    <3> QED
      BY <3>1, <3>2, <3>4, <3>6, <3>7, MemcpyInts
  <2>3. nupfreq \in N
    BY <2>1, <2>2, NatSetInduction
  <2> QED
    BY <1>14, <2>3
<1> QED
  BY <1>1, <1>14, <1>15, Zenon DEF at, from

-----------------------------------------------------------------------------
(* Two chunks that agree on all fields but those of F.                     *)
AllFields == HeaderFields \cup ArrayFields \cup OtherFields
Alike(c, d, F) ==
  /\ c = [f \in AllFields |-> c[f]] /\ d = [f \in AllFields |-> d[f]]
  /\ \A f \in AllFields \ F : c[f] = d[f]

(* x and y are alike and x is c with a in its field g. *)
AlikeWith(x, y, F, c, g, a) ==
  /\ Alike(x, y, F) /\ x[g] = a
  /\ \A f \in AllFields \ {g} : x[f] = c[f]

LEMMA AlikeReplaced ==
  ASSUME NEW c, NEW d, NEW F, Alike(c, d, F), NEW g \in AllFields, NEW a, NEW b, a = b \/ g \in F
  PROVE  AlikeWith([c EXCEPT ![g] = a], [d EXCEPT ![g] = b], F, c, g, a)
<1> DEFINE x == [c EXCEPT ![g] = a]
           y == [d EXCEPT ![g] = b]
<1>1. /\ x = [f \in AllFields |-> IF f = g THEN a ELSE c[f]]
      /\ y = [f \in AllFields |-> IF f = g THEN b ELSE d[f]]
  BY DEF Alike
<1> HIDE DEF x, y
<1>2. x = [f \in AllFields |-> x[f]] /\ y = [f \in AllFields |-> y[f]]
  BY <1>1
<1>3. \A f \in AllFields \ F : x[f] = y[f]
  BY <1>1 DEF Alike
<1>4. AlikeWith(x, y, F, c, g, a)
  BY <1>1, <1>2, <1>3 DEF Alike, AlikeWith
<1> QED
  BY <1>4 DEF x, y

LEMMA FieldNames ==
  /\ {"data", "scales", "offsets", "rfi_mask", "has_rfi_mask", "packets_received",
      "ds_data", "ds_mask", "ds_w2"} \subseteq AllFields
  /\ HeaderFields \subseteq AllFields
BY DEF AllFields, ArrayFields, OtherFields

(* What a chunk holds are numbers. *)
AreBits(a) == \A i \in DOMAIN a : a[i] \in {0, 1}
Numbers(c) == Ints(c.data) /\ Ints(c.scales) /\ Ints(c.offsets) /\ AreBits(c.rfi_mask)

LEMMA EntryInts ==
  ASSUME NEW a, Ints(a), NEW i, NEW x \in Int
  PROVE  Ints([a EXCEPT ![i] = x])
BY DEF Ints

Counted == {"packets_received"}

LEMMA WithScalesAlike ==
  ASSUME NEW c, NEW d, Alike(c, d, Counted), Numbers(c), NEW p, NEW f,
         p.scales[f] \in Int, p.offsets[f] \in Int
  PROVE  /\ Alike(WithScales(c, p, f), WithScales(d, p, f), Counted)
         /\ Numbers(WithScales(c, p, f))
         /\ WithScales(c, p, f).data = c.data
<1> DEFINE at(e) == p.coarse_freq_ids[f] * NtCoarse(e) + (PlaceInChunk(e, p) \div e.nt_per_packet)
           s(e) == [e.scales EXCEPT ![at(e)] = p.scales[f]]
           o(e) == [e.offsets EXCEPT ![at(e)] = p.offsets[f]]
           c1 == [c EXCEPT !["scales"] = s(c)]
           d1 == [d EXCEPT !["scales"] = s(d)]
           c2 == [c1 EXCEPT !["offsets"] = o(c)]
           d2 == [d1 EXCEPT !["offsets"] = o(d)]
<1>1. c.nt_per_packet = d.nt_per_packet /\ c.ichunk = d.ichunk
      /\ c.fpga_counts_per_sample = d.fpga_counts_per_sample
      /\ c.scales = d.scales /\ c.offsets = d.offsets
  BY DEF Alike, AllFields, HeaderFields, ArrayFields, OtherFields, Counted
<1>2. at(c) = at(d)
  BY <1>1 DEF PlaceInChunk, isample, NtCoarse
<1>3. ASSUME NEW e, e = [g \in AllFields |-> e[g]]
      PROVE  WithScales(e, p, f) =
               [[e EXCEPT !["scales"] = s(e)] EXCEPT !["offsets"] = o(e)]
  <2> DEFINE e1 == [e EXCEPT !["scales"] = s(e)]
  <2>1. e1.offsets = e.offsets
    BY <1>3, FieldNames
  <2>2. WithScales(e, p, f) = [e EXCEPT !.scales[at(e)] = p.scales[f], !.offsets[at(e)] = p.offsets[f]]
    BY DEF WithScales
  <2> HIDE DEF at
  <2> QED
    BY <2>1, <2>2
<1> HIDE DEF at
<1>4. s(c) = s(d) /\ o(c) = o(d)
  BY <1>1, <1>2
<1>5. Ints(s(c)) /\ Ints(o(c))
  BY EntryInts DEF Numbers
<1>6. WithScales(c, p, f) = c2 /\ WithScales(d, p, f) = d2
  BY <1>3 DEF Alike
<1> HIDE DEF s, o
<1>7. AlikeWith(c1, d1, Counted, c, "scales", s(c))
  BY <1>4, AlikeReplaced, FieldNames
<1> HIDE DEF c1, d1
<1>8. AlikeWith(c2, d2, Counted, c1, "offsets", o(c))
  <2>1. Alike(c1, d1, Counted)
    BY <1>7 DEF AlikeWith
  <2> QED
    BY <1>4, <2>1, AlikeReplaced, FieldNames
<1> HIDE DEF c2, d2
<1>9. c2.scales = s(c) /\ c2.data = c.data /\ c2.rfi_mask = c.rfi_mask
  BY <1>7, <1>8, FieldNames DEF AlikeWith
<1> QED
  BY <1>5, <1>6, <1>8, <1>9 DEF Numbers, AlikeWith

(* What assembled_chunk::add_packet() does with coarse frequency f. *)
ReferenceFreqCopied(c, acc, p, f) ==
  [WithScales(acc, p, f) EXCEPT
     !.data = Loop(c.nupfreq, @, LAMBDA data, u :
        Memcpy(data, (p.coarse_freq_ids[f] * c.nupfreq + u) * NtPerChunk + PlaceInChunk(c, p),
               p.data, (f * c.nupfreq + u) * c.nt_per_packet, c.nt_per_packet))]

ReferenceRows(dst, n, w, freq, t0, src, f) ==
  Loop(n, dst, LAMBDA data, u : Memcpy(data, (freq * n + u) * NtPerChunk + t0, src, (f * n + u) * w, w))

(* A packet of numbers, for nf coarse frequencies of nupfreq rows. *)
PacketNumbers(p, nf, nupfreq) ==
  /\ \A f \in 0 .. nf - 1 : /\ p.coarse_freq_ids[f] \in Nat
                            /\ p.scales[f] \in Int /\ p.offsets[f] \in Int
  /\ \A f \in 0 .. nf - 1, j \in 0 .. 16 * nupfreq - 1 : p.data[f * nupfreq * 16 + j] \in Int

LEMMA FreqCopiedAlike ==
  ASSUME NEW c, NEW d, Alike(c, d, Counted), c.nupfreq \in Nat, c.nupfreq % 2 = 0, c.nt_per_packet = 16,
         NEW p, PlaceInChunk(c, p) \in Nat, NEW nf \in Nat, PacketNumbers(p, nf, c.nupfreq),
         NEW a, NEW b, Alike(a, b, Counted), Numbers(a), NEW f \in 0 .. nf - 1
  PROVE  /\ Alike(FreqCopied(c, a, p, f), ReferenceFreqCopied(d, b, p, f), Counted)
         /\ Numbers(FreqCopied(c, a, p, f))
<1> DEFINE x == WithScales(a, p, f)
           y == WithScales(b, p, f)
           n == c.nupfreq
           freq == p.coarse_freq_ids[f]
           t0 == PlaceInChunk(c, p)
           fast == AddPacketKernel(x.data, freq * n * NtPerChunk + t0, p.data, f * n * 16, n)
           slow == Loop(n, x.data, LAMBDA data, u : RowCopied(data, u, freq, n, t0, p.data, f))
<1>1. freq \in Nat /\ p.scales[f] \in Int /\ p.offsets[f] \in Int
      /\ \A j \in 0 .. 16 * n - 1 : p.data[f * n * 16 + j] \in Int
  BY DEF PacketNumbers
<1>2. d.nupfreq = n /\ d.nt_per_packet = 16 /\ PlaceInChunk(d, p) = t0
  <2>1. c.nupfreq = d.nupfreq /\ c.nt_per_packet = d.nt_per_packet /\ c.ichunk = d.ichunk
        /\ c.fpga_counts_per_sample = d.fpga_counts_per_sample
    BY DEF Alike, AllFields, HeaderFields, ArrayFields, OtherFields, Counted
  <2> QED
    BY <2>1 DEF PlaceInChunk, isample
<1>3. Alike(x, y, Counted) /\ Numbers(x) /\ x.data = a.data
  BY <1>1, WithScalesAlike
<1>4. FreqCopied(c, a, p, f) = [x EXCEPT !["data"] = fast]
  BY <1>3 DEF FreqCopied
<1>5. x.data = y.data /\ Ints(x.data)
  BY <1>3, FieldNames DEF Alike, Counted, Numbers
<1>6. ReferenceFreqCopied(d, b, p, f) = [y EXCEPT !["data"] = slow]
  <2>1. ReferenceFreqCopied(d, b, p, f) =
          [y EXCEPT !["data"] = ReferenceRows(y.data, d.nupfreq, d.nt_per_packet, freq, PlaceInChunk(d, p),
                                              p.data, f)]
    BY DEF ReferenceFreqCopied, ReferenceRows
  <2>2. ReferenceRows(x.data, n, 16, freq, t0, p.data, f) = slow
    BY Zenon DEF ReferenceRows, RowCopied
  <2> HIDE DEF x, y, n, t0, freq, slow
  <2> QED
    BY <1>2, <1>5, <2>1, <2>2, Zenon
<1> HIDE DEF x, y, n, t0, freq
<1>7. fast = slow /\ Ints(fast)
  <2>1. n \in Nat /\ n % 2 = 0 /\ t0 \in Nat /\ f \in Nat
    BY DEF n, t0
  <2>2. /\ AddPacketKernel(x.data, freq * n * NtPerChunk + t0, p.data, f * n * 16, n)
              = Loop(n, x.data, LAMBDA data, u : RowCopied(data, u, freq, n, t0, p.data, f))
        /\ Ints(x.data) /\ (\A j \in 0 .. 16 * n - 1 : p.data[f * n * 16 + j] \in Int) =>
             Ints(AddPacketKernel(x.data, freq * n * NtPerChunk + t0, p.data, f * n * 16, n))
    BY <1>1, <2>1, RowsAlike, Zenon
  <2> HIDE DEF fast, slow
  <2> QED
    BY <1>1, <1>5, <2>1, <2>2, Zenon DEF fast, slow
<1> HIDE DEF fast, slow
<1> DEFINE u == [x EXCEPT !["data"] = fast]
           v == [y EXCEPT !["data"] = slow]
<1>8. AlikeWith(u, v, Counted, x, "data", fast)
  <2>1. "data" \in AllFields
    BY FieldNames
  <2> QED
    BY <1>3, <1>7, <2>1, AlikeReplaced
<1>9. FreqCopied(c, a, p, f) = u /\ ReferenceFreqCopied(d, b, p, f) = v
  BY <1>4, <1>6
<1> HIDE DEF u, v
<1>10. /\ u.scales = x.scales /\ u.offsets = x.offsets /\ u.rfi_mask = x.rfi_mask
       /\ u.data = fast /\ Alike(u, v, Counted)
  BY <1>8, FieldNames DEF AlikeWith
<1> QED
  BY <1>3, <1>7, <1>9, <1>10 DEF Numbers

-----------------------------------------------------------------------------
(* add_packet() of both classes stores the same.                           *)
LEMMA AddPacketAlike ==
  ASSUME NEW c, NEW d, Alike(c, d, Counted), Numbers(c),
         c.nupfreq \in Nat, c.nupfreq % 2 = 0, c.nt_per_packet = 16,
         NEW p, PlaceInChunk(c, p) \in Nat, p.header.nfreq_coarse \in Nat,
         PacketNumbers(p, p.header.nfreq_coarse, c.nupfreq)
  PROVE  Alike(FastAddPacket(c, p), AddPacket(d, p), Counted) /\ Numbers(FastAddPacket(c, p))
<1> DEFINE fast(r, k) == IF k = 0 THEN c ELSE FreqCopied(c, r[k - 1], p, k - 1)
           slow(r, k) == IF k = 0 THEN d ELSE ReferenceFreqCopied(d, r[k - 1], p, k - 1)
           SF == {m \in Nat : \E r : r = [k \in 0 .. m |-> fast(r, k)]}
           SS == {m \in Nat : \E r : r = [k \in 0 .. m |-> slow(r, k)]}
           n == p.header.nfreq_coarse
           two == CHOOSE r : r = [k \in 0 .. n |-> fast(r, k)]
           one == CHOOSE r : r = [k \in 0 .. n |-> slow(r, k)]
           T == {k \in Nat : k <= n => Alike(two[k], one[k], Counted) /\ Numbers(two[k])}
<1>1. /\ FastAddPacket(c, p) = two[n]
      /\ AddPacket(d, p) = [one[n] EXCEPT !["packets_received"] = one[n].packets_received + 1]
  BY DEF FastAddPacket, AddPacket, Loop, FreqCopied, ReferenceFreqCopied
<1>2. 0 \in SF
  <2> DEFINE f0 == [k \in 0 .. 0 |-> c]
  <2>1. f0 = [k \in 0 .. 0 |-> fast(f0, k)]
    OBVIOUS
  <2> QED
    BY <2>1
<1>3. ASSUME NEW m \in Nat, m \in SF PROVE m + 1 \in SF
  <2>1. PICK f1 : f1 = [k \in 0 .. m |-> fast(f1, k)]
    BY <1>3
  <2> DEFINE g == [k \in 0 .. m + 1 |-> IF k <= m THEN f1[k] ELSE fast(f1, k)]
  <2>2. ASSUME NEW k \in 0 .. m + 1 PROVE g[k] = fast(g, k)
    <3>1. fast(g, k) = fast(f1, k)
      OBVIOUS
    <3>2. k <= m => f1[k] = fast(f1, k)
      <4>1. k <= m => k \in 0 .. m
        OBVIOUS
      <4> QED
        BY <2>1, <4>1, Zenon
    <3> QED
      BY <3>1, <3>2
  <2>3. g = [k \in 0 .. m + 1 |-> fast(g, k)]
    BY <2>2, Zenon
  <2> HIDE DEF g, fast
  <2> QED
    BY <2>3
<1>4. 0 \in SS
  <2> DEFINE f0 == [k \in 0 .. 0 |-> d]
  <2>1. f0 = [k \in 0 .. 0 |-> slow(f0, k)]
    OBVIOUS
  <2> QED
    BY <2>1
<1>5. ASSUME NEW m \in Nat, m \in SS PROVE m + 1 \in SS
  <2>1. PICK f1 : f1 = [k \in 0 .. m |-> slow(f1, k)]
    BY <1>5
  <2> DEFINE g == [k \in 0 .. m + 1 |-> IF k <= m THEN f1[k] ELSE slow(f1, k)]
  <2>2. ASSUME NEW k \in 0 .. m + 1 PROVE g[k] = slow(g, k)
    <3>1. slow(g, k) = slow(f1, k)
      OBVIOUS
    <3>2. k <= m => f1[k] = slow(f1, k)
      <4>1. k <= m => k \in 0 .. m
        OBVIOUS
      <4> QED
        BY <2>1, <4>1, Zenon
    <3> QED
      BY <3>1, <3>2
  <2>3. g = [k \in 0 .. m + 1 |-> slow(g, k)]
    BY <2>2, Zenon
  <2> HIDE DEF g, slow
  <2> QED
    BY <2>3
<1>6. n \in Nat
  OBVIOUS
<1>7. n \in SF
  BY <1>2, <1>3, <1>6, NatSetInduction
<1>8. \A k \in 0 .. n : two[k] = fast(two, k)
  <2>1. two = [k \in 0 .. n |-> fast(two, k)]
    BY <1>7, Zenon
  <2> QED
    BY <2>1, Zenon
<1>9. n \in SS
  BY <1>4, <1>5, <1>6, NatSetInduction
<1>10. \A k \in 0 .. n : one[k] = slow(one, k)
  <2>1. one = [k \in 0 .. n |-> slow(one, k)]
    BY <1>9, Zenon
  <2> QED
    BY <2>1, Zenon
<1> HIDE DEF two, one, n, SF, SS
<1>11. 0 \in T
  <2>1. 0 \in 0 .. n
    BY <1>6
  <2> QED
    BY <1>8, <1>10, <2>1
<1>12. ASSUME NEW k \in Nat, k \in T PROVE k + 1 \in T
  <2> SUFFICES ASSUME k + 1 <= n PROVE Alike(two[k + 1], one[k + 1], Counted) /\ Numbers(two[k + 1])
    OBVIOUS
  <2>1. /\ Alike(two[k], one[k], Counted) /\ Numbers(two[k])
        /\ k + 1 \in 0 .. n /\ k + 1 # 0 /\ (k + 1) - 1 = k /\ k \in 0 .. n - 1
    BY <1>6, <1>12
  <2>2. two[k + 1] = FreqCopied(c, two[k], p, k)
    BY <1>8, <2>1
  <2>3. one[k + 1] = ReferenceFreqCopied(d, one[k], p, k)
    BY <1>10, <2>1
  <2>4. PacketNumbers(p, n, c.nupfreq)
    BY DEF n
  <2>5. Alike(FreqCopied(c, two[k], p, k), ReferenceFreqCopied(d, one[k], p, k), Counted)
        /\ Numbers(FreqCopied(c, two[k], p, k))
    BY <1>6, <2>1, <2>4, FreqCopiedAlike
  <2> QED
    BY <2>2, <2>3, <2>5
<1>13. n \in T
  BY <1>6, <1>11, <1>12, NatSetInduction
<1>14. Alike(two[n], one[n], Counted) /\ Numbers(two[n])
  <2>1. n <= n
    BY <1>6
  <2> QED
    BY <1>13, <2>1
<1> DEFINE a == two[n].packets_received
           b == one[n].packets_received + 1
           x == [two[n] EXCEPT !["packets_received"] = a]
           y == [one[n] EXCEPT !["packets_received"] = b]
<1>15. x = two[n]
  BY <1>14 DEF Alike
<1>16. AlikeWith(x, y, Counted, two[n], "packets_received", a)
  <2>1. "packets_received" \in AllFields /\ "packets_received" \in Counted
    BY FieldNames DEF Counted
  <2> QED
    BY <1>14, <2>1, AlikeReplaced
<1> QED
  BY <1>1, <1>14, <1>15, <1>16, SMTT(30) DEF AlikeWith

-----------------------------------------------------------------------------
(* The place of a packet in the chunk of its time: the checks that the     *)
(* reference code repeats hold for the packets of the stream.              *)
LEMMA SlotInChunk ==
  ASSUME NEW N \in Nat \ {0}, N % 256 = 0, NEW first \in Nat, NEW slot \in Nat, NEW F \in Nat \ {0}
  PROVE  LET T == first * N + slot * 16
         IN  /\ (T * F) \div F = T
             /\ (T * F) % (F * 16) = 0
             /\ T - (T \div N) * N \in 0 .. N - 16
<1> DEFINE T == first * N + slot * 16
           m == N \div 16
           x == first * m + slot
           q == T \div N
<1>1. m \in Nat \ {0} /\ N = 16 * m
  OBVIOUS
<1>2. T = 16 * x /\ x \in Nat /\ T \in Nat
  <2> DEFINE y == first * m
  <2>1. y \in Nat /\ first * N = 16 * y
    BY <1>1
  <2> HIDE DEF y, m
  <2>2. x = y + slot
    BY DEF y
  <2> QED
    BY <2>1, <2>2
<1> HIDE DEF x, m
<1>3. T * F = x * (F * 16) /\ x * (F * 16) \in Nat /\ F * 16 \in Nat \ {0}
  <2> HIDE DEF T
  <2> QED
    BY <1>2
<1>4. \A a \in Nat, b \in Nat \ {0} : (a * b) % b = 0 /\ (a * b) \div b = a
  <2> SUFFICES ASSUME NEW a \in Nat, NEW b \in Nat \ {0} PROVE (a * b) % b = 0 /\ (a * b) \div b = a
    OBVIOUS
  <2> DEFINE y == a * b
  <2>1. y \in Nat
    OBVIOUS
  <2>2. y = b * (y \div b) + (y % b) /\ y % b \in 0 .. b - 1 /\ y \div b \in Nat
    <3> HIDE DEF y
    <3> QED
      BY <2>1
  <2>3. ~ (y \div b < a)
    <3> SUFFICES ASSUME y \div b <= a - 1 PROVE FALSE
      BY <2>2
    <3>1. b * (y \div b) <= b * (a - 1)
      BY <2>2
    <3>2. b * (a - 1) = y - b
      OBVIOUS
    <3> HIDE DEF y
    <3> QED
      BY <2>1, <2>2, <3>1, <3>2
  <2>4. ~ (y \div b > a)
    <3> SUFFICES ASSUME y \div b >= a + 1 PROVE FALSE
      BY <2>2
    <3>1. b * (y \div b) >= b * (a + 1)
      BY <2>2
    <3>2. b * (a + 1) = y + b
      OBVIOUS
    <3> HIDE DEF y
    <3> QED
      BY <2>1, <2>2, <3>1, <3>2
  <2>5. y \div b = a
    BY <2>2, <2>3, <2>4
  <2> QED
    BY <2>1, <2>2, <2>5
<1>5. (T * F) % (F * 16) = 0
  <2>1. (x * (F * 16)) % (F * 16) = 0
    BY <1>2, <1>3, <1>4, Zenon
  <2> QED
    BY <1>3, <2>1, Zenon
<1>6. (T * F) \div F = T
  BY <1>2, <1>4
<1>7. T - q * N \in 0 .. N - 16
  <2> HIDE DEF T
  <2>1. q \in Nat /\ T = N * q + (T % N) /\ T % N \in 0 .. N - 1
    BY <1>2
  <2> DEFINE z == q * m
             r == T % N
  <2>2. z \in Nat /\ q * N = 16 * z /\ N * q = 16 * z
    <3>1. q \in Nat
      BY <2>1
    <3> HIDE DEF q, m
    <3> QED
      BY <1>1, <3>1
  <2> HIDE DEF z, q, r
  <2>3. r = 16 * (x - z) /\ T - q * N = r /\ r \in 0 .. N - 1
    BY <1>2, <2>1, <2>2 DEF r
  <2> QED
    BY <1>1, <1>2, <2>2, <2>3
<1> QED
  BY <1>5, <1>6, <1>7

(* What the constructor of fast_assembled_chunk accepts (avx2_kernels.cpp:    *)
(* 906-911), and a length of chunk the RFI kernel works on.                   *)
FastGeometry ==
  /\ NtPerPacket = 16 /\ Nupfreq % 2 = 0 /\ NtPerChunk % 256 = 0
  /\ NrfiFreq > 0 => NtPerChunk % 512 = 0

LEMMA OneBeamIs ==
  ASSUME FastGeometry, NEW p, Sent(p), NEW ib \in 0 .. NumBeams - 1
  PROVE  LET q == OneBeam(p, ib)
         IN  /\ \E slot \in Nat :
                  q.header = [Header(slot) EXCEPT !.data_nbytes = q.header.data_nbytes, !.nbeams = 1]
             /\ q.header.fpga_count = p.header.fpga_count
             /\ PacketNumbers(q, NumFreqs, Nupfreq)
<1> DEFINE q == OneBeam(p, ib)
           nf == NumFreqs
           nd == nf * Nupfreq * NtPerPacket
<1>1. PICK slot \in DOMAIN Sky : p.header = Header(slot)
  BY SentIs
<1>2. slot \in Nat /\ NumBeams \in Nat /\ nf \in Nat /\ ib \in Nat /\ Nupfreq \in Nat /\ NtPerPacket = 16
  BY Geometry DEF FastGeometry
<1>3. p.header.nfreq_coarse = nf /\ p.header.nupfreq = Nupfreq /\ p.header.ntsamp = NtPerPacket
  BY <1>1 DEF Header, NumFreqs
<1>4. p = [f \in {"header", "beam_ids", "coarse_freq_ids", "scales", "offsets", "data"} |-> p[f]]
  BY SentIs
<1>5. /\ q.header = [p.header EXCEPT !.data_nbytes = nd, !.nbeams = 1]
      /\ q.coarse_freq_ids = p.coarse_freq_ids
      /\ q.scales  = [i \in 0 .. nf - 1 |-> p.scales[ib * nf + i]]
      /\ q.offsets = [i \in 0 .. nf - 1 |-> p.offsets[ib * nf + i]]
      /\ q.data    = [i \in 0 .. nd - 1 |-> p.data[ib * nd + i]]
  <2> HIDE DEF nf
  <2> QED
    BY <1>3, <1>4 DEF OneBeam
<1> HIDE DEF q
<1>6. /\ q.header.fpga_count = p.header.fpga_count
      /\ q.header = [Header(slot) EXCEPT !.data_nbytes = q.header.data_nbytes, !.nbeams = 1]
  <2>1. DOMAIN p.header = {"protocol_version", "data_nbytes", "fpga_counts_per_sample", "fpga_count",
                           "nbeams", "nfreq_coarse", "nupfreq", "ntsamp"}
    BY <1>1 DEF Header
  <2> HIDE DEF nd
  <2>2. q.header.fpga_count = p.header.fpga_count /\ q.header.data_nbytes = nd
    BY <1>5, <2>1
  <2> QED
    BY <1>1, <1>5, <2>2
<1>7. ASSUME NEW f \in 0 .. nf - 1
      PROVE  /\ q.coarse_freq_ids[f] \in Nat /\ q.scales[f] \in Int /\ q.offsets[f] \in Int
             /\ \A j \in 0 .. 16 * Nupfreq - 1 : q.data[f * Nupfreq * 16 + j] \in Int
  <2>1. NumBeams > 0 /\ NumFreqs > 0
    BY <1>2
  <2>2. /\ p.coarse_freq_ids = CoarseFreqIds
        /\ \A k \in 0 .. NumBeams * NumFreqs - 1 : p.scales[k] \in Int /\ p.offsets[k] \in Int
        /\ \A i \in 0 .. NumBeams * NumFreqs * PerBlock - 1 : p.data[i] \in Int
    BY <2>1, SentIs
  <2>3. CoarseFreqIds[f] \in Nat
    BY SkyAssumption DEF NumFreqs
  <2>4. ib * nf + f \in 0 .. NumBeams * NumFreqs - 1
    <3> DEFINE a == ib * nf
    <3>1. a \in Nat /\ (ib + 1) * nf <= NumBeams * nf /\ (ib + 1) * nf = a + nf /\ NumBeams * nf \in Nat
      BY <1>2
    <3> HIDE DEF a, nf
    <3>2. a + f \in 0 .. NumBeams * nf - 1
      BY <1>2, <3>1
    <3> QED
      BY <3>2 DEF a, nf
  <2>5. q.scales[f] \in Int /\ q.offsets[f] \in Int
    BY <1>5, <2>2, <2>4
  <2>6. ASSUME NEW j \in 0 .. 16 * Nupfreq - 1
        PROVE  q.data[f * Nupfreq * 16 + j] \in Int
    <3> DEFINE P == Nupfreq * 16
               i == f * Nupfreq * 16 + j
               a == f * P
    <3>1. P \in Nat /\ a \in Nat /\ i = a + j /\ j \in 0 .. P - 1
      BY <1>2
    <3>2. nd = nf * P /\ PerBlock = P
      BY <1>2 DEF PerBlock
    <3>3. nd \in Nat /\ i \in 0 .. nd - 1
      <4>1. (f + 1) * P <= nf * P /\ (f + 1) * P = a + P /\ nf * P \in Nat
        BY <1>2, <3>1
      <4> HIDE DEF P, a, i, nd
      <4> QED
        BY <3>1, <3>2, <4>1
    <3>4. ib * nd + i \in 0 .. NumBeams * NumFreqs * PerBlock - 1
      <4> HIDE DEF P, a, i, nf
      <4> DEFINE b == ib * nd
      <4>1. NumBeams * nf * P = NumBeams * nd
        BY <1>2, <3>1, <3>2
      <4> HIDE DEF nd
      <4>2. b \in Nat /\ (ib + 1) * nd <= NumBeams * nd /\ (ib + 1) * nd = b + nd /\ NumBeams * nd \in Nat
        BY <1>2, <3>3
      <4> HIDE DEF b
      <4>3. b + i \in 0 .. NumBeams * nd - 1
        BY <3>3, <4>2
      <4>4. NumBeams * NumFreqs * PerBlock = NumBeams * nd
        BY <3>2, <4>1 DEF nf
      <4> QED
        BY <4>3, <4>4 DEF b
    <3>5. q.data[i] = p.data[ib * nd + i]
      BY <1>5, <3>3
    <3> QED
      BY <2>2, <3>4, <3>5
  <2> QED
    BY <1>5, <2>2, <2>3, <2>5, <2>6
<1>8. PacketNumbers(q, NumFreqs, Nupfreq)
  BY <1>7 DEF PacketNumbers
<1> QED
  BY <1>2, <1>6, <1>8 DEF q

-----------------------------------------------------------------------------
(* The two chunks of the beam, as either class has them.                   *)
PairAlike(cs, ds) ==
  /\ ds = [h \in Halves |-> ds[h]]
  /\ \A h \in Halves : Alike(cs[h], ds[h], Counted) /\ Numbers(cs[h])

ReferenceBeamPut(ds, ib, p) ==
  LET ichunk == (p.header.fpga_count \div FpgaPerSample) \div NtPerChunk
      q == OneBeam(p, ib)
  IN  IF q.beam_ids[0] # MyBeam THEN ds
      ELSE [ds EXCEPT ![ichunk - FirstIchunk] = Added1("reference", @, q)]

(* A beam of a packet of the stream fits the chunk of its time.            *)
LEMMA BeamFits ==
  ASSUME FastGeometry, NEW p, Sent(p), NEW ib \in 0 .. NumBeams - 1,
         NEW j \in Halves, j = ((p.header.fpga_count \div FpgaPerSample) \div NtPerChunk) - FirstIchunk,
         NEW c, Shaped(c, BlankChunk(1, FirstIchunk + j)),
         OneBeam(p, ib).beam_ids[0] = MyBeam
  PROVE  /\ Fits(c, OneBeam(p, ib))
         /\ PlaceInChunk(c, OneBeam(p, ib)) \in Nat
         /\ OneBeam(p, ib).header.nfreq_coarse = NumFreqs
         /\ PacketNumbers(OneBeam(p, ib), NumFreqs, Nupfreq)
         /\ c.nupfreq = Nupfreq /\ c.nt_per_packet = 16
<1> DEFINE q == OneBeam(p, ib)
           h == q.header
<1>1. PICK slot \in Nat : h = [Header(slot) EXCEPT !.data_nbytes = h.data_nbytes, !.nbeams = 1]
  BY OneBeamIs
<1>2. h.fpga_count = p.header.fpga_count /\ PacketNumbers(q, NumFreqs, Nupfreq)
  BY OneBeamIs
<1> HIDE DEF h
<1>3. /\ h.nbeams = 1 /\ h.nupfreq = Nupfreq /\ h.ntsamp = NtPerPacket
      /\ h.fpga_counts_per_sample = FpgaPerSample /\ h.nfreq_coarse = NumFreqs
      /\ h.fpga_count = (FirstIchunk * NtPerChunk + slot * NtPerPacket) * FpgaPerSample
  <2> DEFINE n == h.data_nbytes
  <2>1. h = [Header(slot) EXCEPT !.data_nbytes = n, !.nbeams = 1]
    BY <1>1
  <2> HIDE DEF n
  <2> QED
    BY <2>1 DEF Header, NumFreqs
<1>4. /\ c.nupfreq = Nupfreq /\ c.nt_per_packet = NtPerPacket /\ c.beam_id = MyBeam
      /\ c.fpga_counts_per_sample = FpgaPerSample /\ c.ichunk = FirstIchunk + j
  BY DEF Shaped, HeaderFields, BlankChunk, NewChunk
<1> DEFINE T == FirstIchunk * NtPerChunk + slot * 16
<1>5. /\ NtPerPacket = 16 /\ NtPerChunk \in Nat \ {0} /\ NtPerChunk % 256 = 0
      /\ FirstIchunk \in Nat /\ FpgaPerSample \in Nat \ {0}
  BY Geometry DEF FastGeometry
<1>6. /\ (T * FpgaPerSample) \div FpgaPerSample = T
      /\ (T * FpgaPerSample) % (FpgaPerSample * 16) = 0
      /\ T - (T \div NtPerChunk) * NtPerChunk \in 0 .. NtPerChunk - 16
  BY <1>5, SlotInChunk, ZenonT(60)
<1>7. h.fpga_count = T * FpgaPerSample
  BY <1>3, <1>5
<1> HIDE DEF T
<1>8. T \div NtPerChunk = FirstIchunk + j
  <2> DEFINE t == T \div NtPerChunk
  <2>1. j = t - FirstIchunk /\ t \in Int
    <3>1. T \in Nat
      BY <1>5 DEF T
    <3>2. t \in Int
      BY <1>5, <3>1
    <3>3. p.header.fpga_count \div FpgaPerSample = T
      BY <1>2, <1>6, <1>7
    <3> QED
      BY <3>2, <3>3
  <2> HIDE DEF t
  <2>2. t = FirstIchunk + j
    BY <1>5, <2>1 DEF Halves
  <2> QED
    BY <2>2 DEF t
<1>9. PlaceInChunk(c, q) = T - (T \div NtPerChunk) * NtPerChunk
  <2>1. q.header.fpga_count \div c.fpga_counts_per_sample = T
    BY <1>4, <1>6, <1>7 DEF h
  <2>2. isample(c) = (T \div NtPerChunk) * NtPerChunk
    BY <1>4, <1>8 DEF isample
  <2> QED
    BY <2>1, <2>2 DEF PlaceInChunk
<1>10. PlaceInChunk(c, q) \in 0 .. NtPerChunk - 16
  BY <1>6, <1>9, Zenon
<1>11. Fits(c, q)
  BY <1>3, <1>4, <1>5, <1>6, <1>7, <1>10 DEF Fits, h
<1>12. PlaceInChunk(c, q) \in Nat
  BY <1>5, <1>10
<1> QED
  BY <1>2, <1>3, <1>4, <1>5, <1>11, <1>12 DEF h

LEMMA BeamPutAlike ==
  ASSUME FastGeometry, NEW cs, NEW ds, PairShaped(cs), PairAlike(cs, ds), NEW p, Sent(p),
         NEW ib \in 0 .. NumBeams - 1
  PROVE  PairAlike(BeamPut(cs, ib, p), ReferenceBeamPut(ds, ib, p))
<1> DEFINE q == OneBeam(p, ib)
           j == ((p.header.fpga_count \div FpgaPerSample) \div NtPerChunk) - FirstIchunk
           fast == [cs EXCEPT ![j] = FastAddPacket(cs[j], q)]
           slow == [ds EXCEPT ![j] = Added1("reference", ds[j], q)]
<1>1. CASE q.beam_ids[0] # MyBeam
  BY <1>1 DEF BeamPut, ReferenceBeamPut
<1>2. CASE q.beam_ids[0] = MyBeam
  <2>1. BeamPut(cs, ib, p) = fast /\ ReferenceBeamPut(ds, ib, p) = slow
    <3>1. \A c : Added1("fast", c, q) = FastAddPacket(c, q)
      BY DEF Added1
    <3> QED
      BY <1>2, <3>1 DEF BeamPut, ReferenceBeamPut
  <2>2. DOMAIN cs = Halves /\ DOMAIN ds = Halves
    BY DEF PairShaped, PairAlike
  <2> HIDE DEF q
  <2>3. CASE j \notin Halves
    <3> HIDE DEF j
    <3>1. fast = cs /\ slow = ds
      BY <2>2, <2>3 DEF PairShaped, PairAlike
    <3> QED
      BY <2>1, <3>1
  <2>4. CASE j \in Halves
    <3> DEFINE c == cs[j]
               d == ds[j]
    <3>1. Shaped(c, BlankChunk(1, FirstIchunk + j)) /\ Alike(c, d, Counted) /\ Numbers(c)
      BY <2>4 DEF PairShaped, PairAlike
    <3>2. /\ Fits(c, q) /\ PlaceInChunk(c, q) \in Nat /\ q.header.nfreq_coarse = NumFreqs
          /\ PacketNumbers(q, NumFreqs, Nupfreq) /\ c.nupfreq = Nupfreq /\ c.nt_per_packet = 16
      BY <1>2, <2>4, <3>1, BeamFits, SMTT(30) DEF q
    <3>3. Fits(d, q)
      <4>1. /\ c.nupfreq = d.nupfreq /\ c.nt_per_packet = d.nt_per_packet /\ c.ichunk = d.ichunk
            /\ c.fpga_counts_per_sample = d.fpga_counts_per_sample /\ c.beam_id = d.beam_id
        BY <3>1 DEF Alike, AllFields, HeaderFields, ArrayFields, OtherFields, Counted
      <4> QED
        BY <3>2, <4>1, ZenonT(30) DEF Fits, PlaceInChunk, isample
    <3>4. Added1("reference", d, q) = AddPacket(d, q)
      BY <3>3 DEF Added1
    <3> HIDE DEF c, d
    <3>5. Alike(FastAddPacket(c, q), AddPacket(d, q), Counted) /\ Numbers(FastAddPacket(c, q))
      <4>1. c.nupfreq \in Nat /\ c.nupfreq % 2 = 0 /\ q.header.nfreq_coarse \in Nat
        BY <3>2, Geometry DEF FastGeometry
      <4>2. PacketNumbers(q, q.header.nfreq_coarse, c.nupfreq)
        BY <3>2
      <4> QED
        BY <3>1, <3>2, <4>1, <4>2, AddPacketAlike
    <3>6. fast[j] = FastAddPacket(c, q) /\ slow[j] = AddPacket(d, q)
          /\ slow = [h \in Halves |-> slow[h]]
          /\ \A h \in Halves \ {j} : fast[h] = cs[h] /\ slow[h] = ds[h]
      <4> HIDE DEF j
      <4> QED
        BY <2>2, <2>4, <3>4 DEF c, d
    <3> HIDE DEF fast, slow
    <3>7. PairAlike(fast, slow)
      <4>1. ASSUME NEW h \in Halves PROVE Alike(fast[h], slow[h], Counted) /\ Numbers(fast[h])
        <5>1. CASE h = j
          <6> HIDE DEF j
          <6> QED
            BY <3>5, <3>6, <5>1
        <5>2. CASE h # j
          <6> HIDE DEF j
          <6>1. Alike(cs[h], ds[h], Counted) /\ Numbers(cs[h])
            BY DEF PairAlike
          <6> QED
            BY <3>6, <5>2, <6>1
        <5> QED
          BY <5>1, <5>2
      <4> QED
        BY <3>6, <4>1 DEF PairAlike
    <3> QED
      BY <2>1, <3>7
  <2> QED
    BY <2>3, <2>4
<1> QED
  BY <1>1, <1>2

LEMMA PutPacketAlike ==
  ASSUME FastGeometry, NEW cs, NEW ds, PairShaped(cs), PairAlike(cs, ds), NEW p, Sent(p)
  PROVE  PairAlike(PutPacket(cs, "fast", p), PutPacket(ds, "reference", p))
<1> DEFINE fast(r, k) == IF k = 0 THEN cs ELSE BeamPut(r[k - 1], k - 1, p)
           slow(r, k) == IF k = 0 THEN ds ELSE ReferenceBeamPut(r[k - 1], k - 1, p)
           SF == {m \in Nat : \E r : r = [k \in 0 .. m |-> fast(r, k)]}
           SS == {m \in Nat : \E r : r = [k \in 0 .. m |-> slow(r, k)]}
           n == p.header.nbeams
           two == CHOOSE r : r = [k \in 0 .. n |-> fast(r, k)]
           one == CHOOSE r : r = [k \in 0 .. n |-> slow(r, k)]
           T == {k \in Nat : k <= n => PairAlike(two[k], one[k]) /\ PairShaped(two[k])}
<1>1. PutPacket(cs, "fast", p) = two[n] /\ PutPacket(ds, "reference", p) = one[n]
  BY DEF PutPacket, Loop, BeamPut, ReferenceBeamPut
<1>2. 0 \in SF
  <2> DEFINE f0 == [k \in 0 .. 0 |-> cs]
  <2>1. f0 = [k \in 0 .. 0 |-> fast(f0, k)]
    OBVIOUS
  <2> QED
    BY <2>1
<1>3. ASSUME NEW m \in Nat, m \in SF PROVE m + 1 \in SF
  <2>1. PICK f1 : f1 = [k \in 0 .. m |-> fast(f1, k)]
    BY <1>3
  <2> DEFINE g == [k \in 0 .. m + 1 |-> IF k <= m THEN f1[k] ELSE fast(f1, k)]
  <2>2. ASSUME NEW k \in 0 .. m + 1 PROVE g[k] = fast(g, k)
    <3>1. fast(g, k) = fast(f1, k)
      OBVIOUS
    <3>2. k <= m => f1[k] = fast(f1, k)
      <4>1. k <= m => k \in 0 .. m
        OBVIOUS
      <4> QED
        BY <2>1, <4>1, Zenon
    <3> QED
      BY <3>1, <3>2
  <2>3. g = [k \in 0 .. m + 1 |-> fast(g, k)]
    BY <2>2, Zenon
  <2> HIDE DEF g, fast
  <2> QED
    BY <2>3
<1>4. 0 \in SS
  <2> DEFINE f0 == [k \in 0 .. 0 |-> ds]
  <2>1. f0 = [k \in 0 .. 0 |-> slow(f0, k)]
    OBVIOUS
  <2> QED
    BY <2>1
<1>5. ASSUME NEW m \in Nat, m \in SS PROVE m + 1 \in SS
  <2>1. PICK f1 : f1 = [k \in 0 .. m |-> slow(f1, k)]
    BY <1>5
  <2> DEFINE g == [k \in 0 .. m + 1 |-> IF k <= m THEN f1[k] ELSE slow(f1, k)]
  <2>2. ASSUME NEW k \in 0 .. m + 1 PROVE g[k] = slow(g, k)
    <3>1. slow(g, k) = slow(f1, k)
      OBVIOUS
    <3>2. k <= m => f1[k] = slow(f1, k)
      <4>1. k <= m => k \in 0 .. m
        OBVIOUS
      <4> QED
        BY <2>1, <4>1, Zenon
    <3> QED
      BY <3>1, <3>2
  <2>3. g = [k \in 0 .. m + 1 |-> slow(g, k)]
    BY <2>2, Zenon
  <2> HIDE DEF g, slow
  <2> QED
    BY <2>3
<1>6. n \in Nat /\ n = NumBeams /\ OfStream(p)
  <2>1. OfStream(p)
    BY SentIs DEF OfStream
  <2>2. n = NumBeams
    BY <2>1 DEF OfStream, Header, NumBeams
  <2> QED
    BY <2>1, <2>2, Geometry
<1>7. n \in SF
  BY <1>2, <1>3, <1>6, NatSetInduction
<1>8. \A k \in 0 .. n : two[k] = fast(two, k)
  <2>1. two = [k \in 0 .. n |-> fast(two, k)]
    BY <1>7, Zenon
  <2> QED
    BY <2>1, Zenon
<1>9. n \in SS
  BY <1>4, <1>5, <1>6, NatSetInduction
<1>10. \A k \in 0 .. n : one[k] = slow(one, k)
  <2>1. one = [k \in 0 .. n |-> slow(one, k)]
    BY <1>9, Zenon
  <2> QED
    BY <2>1, Zenon
<1> HIDE DEF two, one, n, SF, SS
<1>11. 0 \in T
  <2>1. 0 \in 0 .. n
    BY <1>6
  <2> QED
    BY <1>8, <1>10, <2>1
<1>12. ASSUME NEW k \in Nat, k \in T PROVE k + 1 \in T
  <2> SUFFICES ASSUME k + 1 <= n PROVE PairAlike(two[k + 1], one[k + 1]) /\ PairShaped(two[k + 1])
    OBVIOUS
  <2>1. /\ PairAlike(two[k], one[k]) /\ PairShaped(two[k])
        /\ k + 1 \in 0 .. n /\ k + 1 # 0 /\ (k + 1) - 1 = k /\ k \in 0 .. NumBeams - 1
    BY <1>6, <1>12
  <2>2. two[k + 1] = BeamPut(two[k], k, p)
    BY <1>8, <2>1
  <2>3. one[k + 1] = ReferenceBeamPut(one[k], k, p)
    BY <1>10, <2>1
  <2>4. PairAlike(BeamPut(two[k], k, p), ReferenceBeamPut(one[k], k, p))
    BY <2>1, BeamPutAlike
  <2>5. PairShaped(BeamPut(two[k], k, p))
    BY <1>6, <2>1, BeamPutKeeps
  <2> QED
    BY <2>2, <2>3, <2>4, <2>5
<1>13. n \in T
  BY <1>6, <1>11, <1>12, NatSetInduction
<1>14. PairAlike(two[n], one[n])
  <2>1. n <= n
    BY <1>6
  <2> QED
    BY <1>13, <2>1
<1> QED
  BY <1>1, <1>14

ReferenceNthPut(cs, i) ==
  LET wire(x) == [Wires[x.what.slot] EXCEPT !.nbytes = x.nbytes]
      ours == {wire(x) : x \in {y \in List!PacketAt(incoming, i) : y.what.slot # Stray}}
  IN  IF \E w \in ours : Decodes(w) THEN PutPacket(cs, "reference", Decoded(CHOOSE w \in ours : TRUE))
      ELSE cs

LEMMA NthPutAlike ==
  ASSUME FastGeometry, SlotsInv, NEW cs, NEW ds, PairShaped(cs), PairAlike(cs, ds), NEW i
  PROVE  PairAlike(NthPut(cs, i), ReferenceNthPut(ds, i))
<1> DEFINE wire(x) == [Wires[x.what.slot] EXCEPT !.nbytes = x.nbytes]
           ours == {wire(x) : x \in {y \in List!PacketAt(incoming, i) : y.what.slot # Stray}}
           w == CHOOSE u \in ours : TRUE
<1>1. /\ NthPut(cs, i) = IF \E u \in ours : Decodes(u) THEN PutPacket(cs, "fast", Decoded(w)) ELSE cs
      /\ ReferenceNthPut(ds, i) =
           IF \E u \in ours : Decodes(u) THEN PutPacket(ds, "reference", Decoded(w)) ELSE ds
  BY DEF NthPut, ReferenceNthPut
<1>2. ASSUME NEW u \in ours PROVE Sent(Decoded(u))
  <2>1. PICK x \in incoming.buf : x.what.slot \in DOMAIN Sky /\ u = wire(x)
    BY SMTT(30) DEF SlotsInv, List!PacketAt
  <2> DEFINE v == Wires[x.what.slot]
  <2>2. v = [f \in {"nbytes", "header", "mem"} |-> v[f]]
    BY <2>1 DEF Wires, Encoded
  <2>3. u.header = v.header /\ u.mem = v.mem
    <3>1. u = [v EXCEPT !.nbytes = x.nbytes]
      BY <2>1
    <3> HIDE DEF v
    <3> QED
      BY <2>2, <3>1
  <2>4. Decoded(u) = Decoded(v)
    BY <2>3 DEF Decoded
  <2> QED
    BY <2>1, <2>4 DEF Sent
<1>3. ours # {} => w \in ours
  OBVIOUS
<1> HIDE DEF ours, w
<1> QED
  BY <1>1, <1>2, <1>3, PutPacketAlike

LEMMA ListPutAlike ==
  ASSUME FastGeometry, SlotsInv, NEW cs, NEW ds, PairShaped(cs), PairAlike(cs, ds)
  PROVE  PairAlike(Loop(incoming.npackets, cs, NthPut), Loop(incoming.npackets, ds, ReferenceNthPut))
<1> DEFINE fast(r, k) == IF k = 0 THEN cs ELSE NthPut(r[k - 1], k - 1)
           slow(r, k) == IF k = 0 THEN ds ELSE ReferenceNthPut(r[k - 1], k - 1)
           SF == {m \in Nat : \E r : r = [k \in 0 .. m |-> fast(r, k)]}
           SS == {m \in Nat : \E r : r = [k \in 0 .. m |-> slow(r, k)]}
           n == incoming.npackets
           two == CHOOSE r : r = [k \in 0 .. n |-> fast(r, k)]
           one == CHOOSE r : r = [k \in 0 .. n |-> slow(r, k)]
           T == {k \in Nat : k <= n => PairAlike(two[k], one[k]) /\ PairShaped(two[k])}
<1>1. Loop(incoming.npackets, cs, NthPut) = two[n] /\ Loop(incoming.npackets, ds, ReferenceNthPut) = one[n]
  BY DEF Loop
<1>2. 0 \in SF
  <2> DEFINE f0 == [k \in 0 .. 0 |-> cs]
  <2>1. f0 = [k \in 0 .. 0 |-> fast(f0, k)]
    OBVIOUS
  <2> QED
    BY <2>1
<1>3. ASSUME NEW m \in Nat, m \in SF PROVE m + 1 \in SF
  <2>1. PICK f1 : f1 = [k \in 0 .. m |-> fast(f1, k)]
    BY <1>3
  <2> DEFINE g == [k \in 0 .. m + 1 |-> IF k <= m THEN f1[k] ELSE fast(f1, k)]
  <2>2. ASSUME NEW k \in 0 .. m + 1 PROVE g[k] = fast(g, k)
    <3>1. fast(g, k) = fast(f1, k)
      OBVIOUS
    <3>2. k <= m => f1[k] = fast(f1, k)
      <4>1. k <= m => k \in 0 .. m
        OBVIOUS
      <4> QED
        BY <2>1, <4>1, Zenon
    <3> QED
      BY <3>1, <3>2
  <2>3. g = [k \in 0 .. m + 1 |-> fast(g, k)]
    BY <2>2, Zenon
  <2> HIDE DEF g, fast
  <2> QED
    BY <2>3
<1>4. 0 \in SS
  <2> DEFINE f0 == [k \in 0 .. 0 |-> ds]
  <2>1. f0 = [k \in 0 .. 0 |-> slow(f0, k)]
    OBVIOUS
  <2> QED
    BY <2>1
<1>5. ASSUME NEW m \in Nat, m \in SS PROVE m + 1 \in SS
  <2>1. PICK f1 : f1 = [k \in 0 .. m |-> slow(f1, k)]
    BY <1>5
  <2> DEFINE g == [k \in 0 .. m + 1 |-> IF k <= m THEN f1[k] ELSE slow(f1, k)]
  <2>2. ASSUME NEW k \in 0 .. m + 1 PROVE g[k] = slow(g, k)
    <3>1. slow(g, k) = slow(f1, k)
      OBVIOUS
    <3>2. k <= m => f1[k] = slow(f1, k)
      <4>1. k <= m => k \in 0 .. m
        OBVIOUS
      <4> QED
        BY <2>1, <4>1, Zenon
    <3> QED
      BY <3>1, <3>2
  <2>3. g = [k \in 0 .. m + 1 |-> slow(g, k)]
    BY <2>2, Zenon
  <2> HIDE DEF g, slow
  <2> QED
    BY <2>3
<1>6. n \in Nat
  BY DEF SlotsInv
<1>7. n \in SF
  BY <1>2, <1>3, <1>6, NatSetInduction
<1>8. \A k \in 0 .. n : two[k] = fast(two, k)
  <2>1. two = [k \in 0 .. n |-> fast(two, k)]
    BY <1>7, Zenon
  <2> QED
    BY <2>1, Zenon
<1>9. n \in SS
  BY <1>4, <1>5, <1>6, NatSetInduction
<1>10. \A k \in 0 .. n : one[k] = slow(one, k)
  <2>1. one = [k \in 0 .. n |-> slow(one, k)]
    BY <1>9, Zenon
  <2> QED
    BY <2>1, Zenon
<1> HIDE DEF two, one, n, SF, SS
<1>11. 0 \in T
  <2>1. 0 \in 0 .. n
    BY <1>6
  <2> QED
    BY <1>8, <1>10, <2>1
<1>12. ASSUME NEW k \in Nat, k \in T PROVE k + 1 \in T
  <2> SUFFICES ASSUME k + 1 <= n PROVE PairAlike(two[k + 1], one[k + 1]) /\ PairShaped(two[k + 1])
    OBVIOUS
  <2>1. /\ PairAlike(two[k], one[k]) /\ PairShaped(two[k])
        /\ k + 1 \in 0 .. n /\ k + 1 # 0 /\ (k + 1) - 1 = k
    BY <1>6, <1>12
  <2>2. two[k + 1] = NthPut(two[k], k)
    BY <1>8, <2>1
  <2>3. one[k + 1] = ReferenceNthPut(one[k], k)
    BY <1>10, <2>1
  <2>4. PairAlike(NthPut(two[k], k), ReferenceNthPut(one[k], k))
    BY <2>1, NthPutAlike
  <2>5. PairShaped(NthPut(two[k], k))
    BY <2>1, NthPutKeeps
  <2> QED
    BY <2>2, <2>3, <2>4, <2>5
<1>13. n \in T
  BY <1>6, <1>11, <1>12, NatSetInduction
<1>14. PairAlike(two[n], one[n])
  <2>1. n <= n
    BY <1>6
  <2> QED
    BY <1>13, <2>1
<1> QED
  BY <1>1, <1>14

-----------------------------------------------------------------------------
(* The arrays of a chunk, and the parts of them that the kernels of        *)
(* downsample() work on.                                                   *)
LEMMA Domains ==
  ASSUME NEW binning, NEW ichunk, NEW c, Shaped(c, BlankChunk(binning, ichunk))
  PROVE  /\ DOMAIN c.data = 0 .. NfreqCoarseTot * Nupfreq * NtPerChunk - 1
         /\ DOMAIN c.scales = 0 .. NfreqCoarseTot * SlotsPerChunk - 1
         /\ DOMAIN c.offsets = 0 .. NfreqCoarseTot * SlotsPerChunk - 1
         /\ DOMAIN c.rfi_mask = 0 .. NrfiFreq * NtPerChunk - 1
<1> DEFINE b == BlankChunk(binning, ichunk)
<1>1. /\ b.data = Zeros(NfreqCoarseTot * Nupfreq * NtPerChunk)
      /\ b.scales = Zeros(NfreqCoarseTot * SlotsPerChunk)
      /\ b.offsets = Zeros(NfreqCoarseTot * SlotsPerChunk)
      /\ b.rfi_mask = Zeros(NrfiFreq * NtPerChunk)
  BY DEF BlankChunk, NewChunk, SlotsPerChunk
<1>2. \A f \in ArrayFields : IsArrayOn(c[f], DOMAIN b[f])
  BY DEF Shaped
<1> HIDE DEF b
<1>3. \A a, D : IsArrayOn(a, D) => DOMAIN a = D
  BY DEF IsArrayOn
<1>4. \A n : DOMAIN Zeros(n) = 0 .. n - 1
  BY DEF Zeros
<1>5. \A f \in ArrayFields : DOMAIN c[f] = DOMAIN b[f]
  BY <1>2, <1>3
<1> QED
  BY <1>1, <1>4, <1>5 DEF ArrayFields

LEMMA Parts ==
  ASSUME FastGeometry
  PROVE  /\ HalfChunk \in Nat \ {0} /\ NtPerChunk = 2 * HalfChunk /\ HalfChunk % 128 = 0
         /\ HalfCoarse = HalfChunk \div 16 /\ HalfCoarse \in Nat /\ HalfChunk = 16 * HalfCoarse
         /\ SlotsPerChunk = 2 * HalfCoarse
<1>1. NtPerChunk \in Nat \ {0} /\ NtPerChunk % 256 = 0 /\ NtPerPacket = 16
  BY Geometry DEF FastGeometry
<1> QED
  BY <1>1 DEF HalfChunk, HalfCoarse, SlotsPerChunk

(* Part f of n parts of m entries each. *)
LEMMA InPart ==
  ASSUME NEW n \in Nat, NEW f \in 0 .. n - 1, NEW m \in Nat, NEW i \in 0 .. m - 1
  PROVE  f * m \in Nat /\ f * m + i \in 0 .. n * m - 1
<1> DEFINE a == f * m
<1>1. a \in Nat /\ (f + 1) * m <= n * m /\ (f + 1) * m = a + m /\ n * m \in Nat
  OBVIOUS
<1> HIDE DEF a
<1>2. a \in Nat /\ a + i \in 0 .. n * m - 1
  BY <1>1
<1> QED
  BY <1>2 DEF a

LEMMA PartInts ==
  ASSUME NEW a, Ints(a), NEW n \in Nat, NEW m \in Nat, DOMAIN a = 0 .. n * m - 1,
         NEW f \in 0 .. n - 1, NEW i \in 0 .. m - 1
  PROVE  Window(a, f * m, m)[i] \in Int
<1>1. f * m + i \in DOMAIN a
  BY InPart
<1>2. Window(a, f * m, m)[i] = a[f * m + i]
  BY DEF Window
<1> QED
  BY <1>1, <1>2 DEF Ints

(* The entries of half h of coarse channel f. *)
LEMMA HalfPart ==
  ASSUME FastGeometry, NEW f \in 0 .. NfreqCoarseTot - 1, NEW h \in Halves
  PROVE  /\ OutAt(f, h) \in Nat
         /\ \A p \in 0 .. HalfCoarse - 1 : OutAt(f, h) + p \in 0 .. NfreqCoarseTot * SlotsPerChunk - 1
<1>1. SlotsPerChunk \in Nat /\ SlotsPerChunk = 2 * HalfCoarse /\ HalfCoarse \in Nat /\ NfreqCoarseTot \in Nat
  <2>1. SlotsPerChunk = 2 * HalfCoarse /\ HalfCoarse \in Nat
    BY Parts, Zenon
  <2>2. NfreqCoarseTot \in Nat
    BY PacketAssumption
  <2> QED
    BY <2>1, <2>2
<1>2. ASSUME NEW p \in 0 .. HalfCoarse - 1
      PROVE  OutAt(f, h) + p \in 0 .. NfreqCoarseTot * SlotsPerChunk - 1
  <2>1. h * HalfCoarse \in {0, HalfCoarse}
    BY <1>1 DEF Halves
  <2> DEFINE i == h * HalfCoarse + p
  <2>2. i \in 0 .. SlotsPerChunk - 1 /\ OutAt(f, h) + p = f * SlotsPerChunk + i
    <3> DEFINE a == f * SlotsPerChunk
               b == h * HalfCoarse
    <3>1. a \in Nat /\ b \in {0, HalfCoarse} /\ OutAt(f, h) = a + b
      BY <1>1, <2>1 DEF OutAt
    <3> HIDE DEF a, b
    <3>2. b + p \in 0 .. SlotsPerChunk - 1 /\ OutAt(f, h) + p = a + (b + p)
      BY <1>1, <3>1
    <3> QED
      BY <3>2 DEF a, b
  <2> HIDE DEF i
  <2> QED
    BY <1>1, <2>2, InPart
<1>3. OutAt(f, h) \in Nat
  BY <1>1 DEF OutAt, Halves
<1> QED
  BY <1>2, <1>3

LEMMA HalfInts ==
  ASSUME FastGeometry, NEW f \in 0 .. NfreqCoarseTot - 1, NEW h \in Halves,
         NEW a, Ints(a), DOMAIN a = 0 .. NfreqCoarseTot * SlotsPerChunk - 1
  PROVE  \A p \in 0 .. HalfCoarse - 1 : Window(a, OutAt(f, h), HalfCoarse)[p] \in Int
<1> SUFFICES ASSUME NEW p \in 0 .. HalfCoarse - 1
             PROVE  Window(a, OutAt(f, h), HalfCoarse)[p] \in Int
  OBVIOUS
<1>1. OutAt(f, h) + p \in DOMAIN a
  BY HalfPart
<1>2. Window(a, OutAt(f, h), HalfCoarse)[p] = a[OutAt(f, h) + p]
  BY DEF Window
<1> QED
  BY <1>1, <1>2 DEF Ints

(* What half of a coarse channel is replaced by. *)
LEMMA HalfReplaced ==
  ASSUME FastGeometry, NEW f \in 0 .. NfreqCoarseTot - 1, NEW h \in Halves,
         NEW a, Ints(a), NEW s, \A p \in 0 .. HalfCoarse - 1 : s[p] \in Int
  PROVE  Ints(Memcpy(a, OutAt(f, h), s, 0, HalfCoarse))
<1>1. \A p \in 0 .. HalfCoarse - 1 : s[0 + p] \in Int
  OBVIOUS
<1>2. OutAt(f, h) \in Int /\ 0 \in Int /\ HalfCoarse \in Nat
  BY HalfPart, Parts
<1> QED
  BY <1>1, <1>2, MemcpyInts

-----------------------------------------------------------------------------
(* The kernels of downsample(), in both classes.  Of the downsampled       *)
(* chunks, the data may differ.                                            *)
DownFields == {"packets_received", "data"}

Levels(c) == Ints(c.scales) /\ Ints(c.offsets)

(* What kernel 1 leaves for kernels 2 and 3. *)
Averaged(c) ==
  \A i \in 0 .. Nupfreq * HalfChunk - 1 : c.ds_data[i] \in Int /\ c.ds_mask[i] \in {0, -1}

LEMMA PairMeanIsInt ==
  ASSUME FastGeometry, NEW binning, NEW ichunk, NEW src, Shaped(src, BlankChunk(binning, ichunk)),
         Numbers(src), NEW f \in 0 .. NfreqCoarseTot - 1, NEW i \in 0 .. Nupfreq * HalfChunk - 1
  PROVE  PairMean(Window(src.data, f * Nupfreq * NtPerChunk, Nupfreq * NtPerChunk),
                  Window(src.offsets, f * SlotsPerChunk, SlotsPerChunk),
                  Window(src.scales, f * SlotsPerChunk, SlotsPerChunk), i) \in Int
<1> DEFINE m == Nupfreq * NtPerChunk
           d == Window(src.data, f * m, m)
           o == Window(src.offsets, f * SlotsPerChunk, SlotsPerChunk)
           s == Window(src.scales, f * SlotsPerChunk, SlotsPerChunk)
           p == (i % HalfChunk) \div 8
           n == Nupfreq * HalfChunk
<1>1. HalfChunk \in Nat \ {0} /\ NtPerChunk = 2 * HalfChunk /\ HalfChunk = 16 * HalfCoarse
      /\ SlotsPerChunk = 2 * HalfCoarse /\ HalfCoarse \in Nat
  BY Parts, Zenon
<1>2. Nupfreq \in Nat /\ NfreqCoarseTot \in Nat
  BY Geometry
<1>3. n \in Nat /\ m = 2 * n /\ m \in Nat
  BY <1>1, <1>2
<1>4. p \in 0 .. SlotsPerChunk - 1
  <2>1. i \in Nat
    BY <1>3
  <2>2. i % HalfChunk \in 0 .. HalfChunk - 1
    BY <1>1, <2>1
  <2> QED
    BY <1>1, <2>2
<1>5. DOMAIN src.data = 0 .. NfreqCoarseTot * m - 1
  <2>1. DOMAIN src.data = 0 .. NfreqCoarseTot * Nupfreq * NtPerChunk - 1
    BY Domains
  <2>2. NfreqCoarseTot * Nupfreq * NtPerChunk = NfreqCoarseTot * m
    BY <1>1, <1>2
  <2> QED
    BY <2>1, <2>2
<1>6. f * Nupfreq * NtPerChunk = f * m
  BY <1>1, <1>2
<1>7. s[p] \in Int /\ o[p] \in Int
  <2>1. DOMAIN src.scales = 0 .. NfreqCoarseTot * SlotsPerChunk - 1
        /\ DOMAIN src.offsets = 0 .. NfreqCoarseTot * SlotsPerChunk - 1
    BY Domains
  <2>2. SlotsPerChunk \in Nat
    BY <1>1
  <2> HIDE DEF p
  <2> QED
    BY <1>2, <1>4, <2>1, <2>2, PartInts DEF Numbers
<1> HIDE DEF m
<1>8. d[2 * i] \in Int /\ d[2 * i + 1] \in Int
  <2>1. 2 * i \in 0 .. m - 1 /\ 2 * i + 1 \in 0 .. m - 1
    <3>1. i \in 0 .. n - 1
      OBVIOUS
    <3> HIDE DEF n
    <3> QED
      BY <1>3, <3>1
  <2>2. \A j \in 0 .. m - 1 : d[j] \in Int
    BY <1>2, <1>3, <1>5, PartInts DEF Numbers
  <2> QED
    BY <2>1, <2>2
<1> HIDE DEF d, o, s
<1>9. PairMean(d, o, s, i) \in Int
  <2>1. PairMean(d, o, s, i) = ((s[p] * (d[2 * i] + d[2 * i + 1])) \div 2) + o[p]
    BY DEF PairMean
  <2> DEFINE x == s[p] * (d[2 * i] + d[2 * i + 1])
  <2>2. x \in Int
    BY <1>7, <1>8
  <2> HIDE DEF x
  <2>3. (x \div 2) + o[p] \in Int
    BY <1>7, <2>2
  <2> QED
    BY <2>1, <2>3 DEF x
<1> QED
  BY <1>6, <1>9, Zenon DEF d, o, s, m

LEMMA Kernel1Ints ==
  ASSUME FastGeometry, NEW d, NEW o, NEW s,
         \A i \in 0 .. Nupfreq * HalfChunk - 1 : PairMean(d, o, s, i) \in Int
  PROVE  LET k == Kernel1(d, o, s, Nupfreq)
         IN  /\ \A i \in 0 .. Nupfreq * HalfChunk - 1 : k.data[i] \in Int /\ k.mask[i] \in {0, -1}
             /\ \A p \in 0 .. HalfCoarse - 1 : k.count[p] \in Int /\ k.mean[p] \in Int
<1> DEFINE k == Kernel1(d, o, s, Nupfreq)
           n == Nupfreq
<1>1. n \in Nat /\ HalfCoarse = HalfChunk \div 16 /\ NtPerChunk % 256 = 0
  BY Geometry, Parts DEF FastGeometry
<1>2. ASSUME NEW i \in 0 .. n * HalfChunk - 1 PROVE k.data[i] \in Int /\ k.mask[i] \in {0, -1}
  BY DEF Kernel1, PairSample
<1>3. ASSUME NEW p \in 0 .. HalfCoarse - 1 PROVE k.count[p] \in Int /\ k.mean[p] \in Int
  <2>1. p \in 0 .. (HalfChunk \div 16) - 1
    BY <1>1
  <2> DEFINE c == Kernel1Count(d, p, n)
             t == Kernel1Sum(d, o, s, p, n)
  <2>2. k.count[p] = c /\ k.mean[p] = t \div AtLeast(c, 1)
    BY <2>1 DEF Kernel1
  <2>3. c \in Int
    <3> DEFINE g == [j \in 0 .. n * 16 - 1 |-> IF PairValid(d, SampleOf(p, j)) THEN 1 ELSE 0]
    <3>1. \A j \in 0 .. n * 16 - 1 : g[j] \in Int
      OBVIOUS
    <3>2. n * 16 \in Nat /\ c = SumTo(n * 16, g)
      BY <1>1 DEF Kernel1Count
    <3> HIDE DEF g, c
    <3> QED
      BY <3>1, <3>2, SumIsInt
  <2>4. t \in Int
    <3> DEFINE g == [j \in 0 .. n * 16 - 1 |->
                       IF PairValid(d, SampleOf(p, j)) THEN PairMean(d, o, s, SampleOf(p, j)) ELSE 0]
    <3>1. ASSUME NEW j \in 0 .. n * 16 - 1 PROVE g[j] \in Int
      <4>1. SampleOf(p, j) \in 0 .. n * HalfChunk - 1
        BY <1>1, <2>1, SampleInChunk
      <4> QED
        BY <4>1
    <3>2. n * 16 \in Nat /\ t = SumTo(n * 16, g)
      BY <1>1 DEF Kernel1Sum
    <3> HIDE DEF g, t
    <3> QED
      BY <3>1, <3>2, SumIsInt
  <2> HIDE DEF c, t
  <2>5. AtLeast(c, 1) \in Nat \ {0}
    BY <2>3 DEF AtLeast
  <2>6. t \div AtLeast(c, 1) \in Int
    BY <2>4, <2>5
  <2> QED
    BY <2>2, <2>3, <2>6
<1> QED
  BY <1>2, <1>3

(* A chunk with four fields replaced, as kernel 1 replaces them. *)
Kernel1Put(e, data, mask, o, s) ==
  [e EXCEPT !.ds_data = data, !.ds_mask = mask, !.offsets = o, !.scales = s]

LEMMA Kernel1Fields ==
  ASSUME NEW c, NEW d, Alike(c, d, DownFields), NEW data, NEW mask, NEW o, NEW s,
         NEW x, x = Kernel1Put(c, data, mask, o, s), NEW y, y = Kernel1Put(d, data, mask, o, s)
  PROVE  /\ Alike(x, y, DownFields)
         /\ x.ds_data = data /\ x.ds_mask = mask /\ x.offsets = o /\ x.scales = s
         /\ x.data = c.data /\ y.data = d.data
<1> DEFINE put(e) == Kernel1Put(e, data, mask, o, s)
           names == {"ds_data", "ds_mask", "offsets", "scales"}
           new(e, f) == IF f = "ds_data" THEN data ELSE IF f = "ds_mask" THEN mask
                        ELSE IF f = "offsets" THEN o ELSE IF f = "scales" THEN s ELSE e[f]
<1>1. ASSUME NEW e, e = [f \in AllFields |-> e[f]]
      PROVE  put(e) = [f \in AllFields |-> new(e, f)]
  BY <1>1, FieldNames DEF Kernel1Put
<1>2. c = [f \in AllFields |-> c[f]] /\ d = [f \in AllFields |-> d[f]]
      /\ \A f \in AllFields \ DownFields : c[f] = d[f]
  BY DEF Alike
<1>3. put(c) = [f \in AllFields |-> new(c, f)] /\ put(d) = [f \in AllFields |-> new(d, f)]
  BY <1>1, <1>2
<1>4. \A f \in AllFields \ DownFields : new(c, f) = new(d, f)
  BY <1>2
<1>5. x = [f \in AllFields |-> new(c, f)] /\ y = [f \in AllFields |-> new(d, f)]
  BY <1>3
<1>6. x = [f \in AllFields |-> x[f]] /\ y = [f \in AllFields |-> y[f]]
  BY <1>5
<1>7. \A f \in AllFields \ DownFields : x[f] = y[f]
  BY <1>4, <1>5
<1>8. Alike(x, y, DownFields)
  BY <1>6, <1>7 DEF Alike
<1>9. /\ x.ds_data = data /\ x.ds_mask = mask /\ x.offsets = o /\ x.scales = s
      /\ x.data = c.data /\ y.data = d.data /\ x.rfi_mask = c.rfi_mask
  BY <1>5, FieldNames
<1> QED
  BY <1>8, <1>9

(* The numbers kernels 1 and 2 work with do not depend on the class. *)
LEMMA SameArrays ==
  ASSUME NEW c, NEW d, NEW F, Alike(c, d, F), F = Counted \/ F = DownFields
  PROVE  /\ c.offsets = d.offsets /\ c.scales = d.scales /\ c.ds_data = d.ds_data
         /\ c.ds_mask = d.ds_mask /\ c.ds_w2 = d.ds_w2 /\ c.rfi_mask = d.rfi_mask
         /\ F = Counted => c.data = d.data
BY FieldNames DEF Alike, Counted, DownFields

(* What a kernel stores of scales and offsets is in its own half.          *)
HalfStored(x, c, f, h) ==
  \E s, o : /\ x.scales = Memcpy(c.scales, OutAt(f, h), s, 0, HalfCoarse)
            /\ x.offsets = Memcpy(c.offsets, OutAt(f, h), o, 0, HalfCoarse)

(* What kernel 1 makes of half h of coarse channel f. *)
HalvedChannel(src, f) ==
  Kernel1(Window(src.data, f * Nupfreq * NtPerChunk, Nupfreq * NtPerChunk),
          Window(src.offsets, f * SlotsPerChunk, SlotsPerChunk),
          Window(src.scales, f * SlotsPerChunk, SlotsPerChunk), Nupfreq)

LEMMA Kernel1Alike ==
  ASSUME FastGeometry, NEW c, NEW d, Alike(c, d, DownFields), Levels(c),
         NEW binning, NEW ichunk, NEW src, Shaped(src, BlankChunk(binning, ichunk)),
         NEW ref, Alike(src, ref, Counted), Numbers(src),
         NEW f \in 0 .. NfreqCoarseTot - 1, NEW h \in Halves
  PROVE  LET x == RunKernel1("fast", c, src, f, h)
             y == RunKernel1("reference", d, ref, f, h)
         IN  /\ Alike(x, y, DownFields) /\ Levels(x) /\ Averaged(x)
             /\ x.data = c.data /\ y.data = d.data
             /\ x.ds_data = HalvedChannel(src, f).data /\ x.ds_mask = HalvedChannel(src, f).mask
             /\ HalfStored(x, c, f, h)
<1> DEFINE data    == Window(src.data, f * Nupfreq * NtPerChunk, Nupfreq * NtPerChunk)
           offsets == Window(src.offsets, f * SlotsPerChunk, SlotsPerChunk)
           scales  == Window(src.scales, f * SlotsPerChunk, SlotsPerChunk)
           k == Kernel1(data, offsets, scales, Nupfreq)
           o == Memcpy(c.offsets, OutAt(f, h), k.count, 0, HalfCoarse)
           s == Memcpy(c.scales, OutAt(f, h), k.mean, 0, HalfCoarse)
           x == RunKernel1("fast", c, src, f, h)
           y == RunKernel1("reference", d, ref, f, h)
<1>1. NtPerPacket = 16 /\ NtPerChunk % 256 = 0 /\ Nupfreq \in Nat
  BY Geometry DEF FastGeometry
<1>2. \A i \in 0 .. Nupfreq * HalfChunk - 1 : PairMean(data, offsets, scales, i) \in Int
  BY PairMeanIsInt
<1>3. src.data = ref.data /\ src.offsets = ref.offsets /\ src.scales = ref.scales
  BY SameArrays
<1>4. c.offsets = d.offsets /\ c.scales = d.scales
  BY SameArrays
<1>5. FastKernel1(data, offsets, scales, Nupfreq) = k
  <2> HIDE DEF data, offsets, scales
  <2> QED
    BY <1>1, <1>2, FastKernel1Is
<1>6. SlowKernel1(data, offsets, scales, Nupfreq, NtPerPacket) = k
  BY <1>1, SlowKernel1Is
<1>7. RunKernel1("fast", c, src, f, h) = Kernel1Put(c, k.data, k.mask, o, s)
  <2>1. RunKernel1("fast", c, src, f, h) =
          LET q == FastKernel1(data, offsets, scales, Nupfreq)
          IN  [c EXCEPT !.ds_data = q.data, !.ds_mask = q.mask,
                        !.offsets = Memcpy(c.offsets, OutAt(f, h), q.count, 0, HalfCoarse),
                        !.scales  = Memcpy(c.scales, OutAt(f, h), q.mean, 0, HalfCoarse)]
    BY DEF RunKernel1
  <2> HIDE DEF data, offsets, scales, k
  <2> QED
    BY <1>5, <2>1, Zenon DEF Kernel1Put
<1>8. RunKernel1("reference", d, ref, f, h) = Kernel1Put(d, k.data, k.mask, o, s)
  <2>1. RunKernel1("reference", d, ref, f, h) =
          LET q == SlowKernel1(data, offsets, scales, Nupfreq, NtPerPacket)
          IN  [d EXCEPT !.ds_data = q.data, !.ds_mask = q.mask,
                        !.offsets = Memcpy(c.offsets, OutAt(f, h), q.count, 0, HalfCoarse),
                        !.scales  = Memcpy(c.scales, OutAt(f, h), q.mean, 0, HalfCoarse)]
    BY <1>3, <1>4 DEF RunKernel1
  <2> HIDE DEF data, offsets, scales, k
  <2> QED
    BY <1>6, <2>1, Zenon DEF Kernel1Put
<1>9. /\ \A i \in 0 .. Nupfreq * HalfChunk - 1 : k.data[i] \in Int /\ k.mask[i] \in {0, -1}
      /\ \A p \in 0 .. HalfCoarse - 1 : k.count[p] \in Int /\ k.mean[p] \in Int
  <2> HIDE DEF data, offsets, scales
  <2> QED
    BY <1>2, Kernel1Ints
<1>91. k = HalvedChannel(src, f)
  BY DEF HalvedChannel
<1> HIDE DEF k
<1>10. Ints(o) /\ Ints(s)
  BY <1>9, HalfReplaced DEF Levels
<1> HIDE DEF x, y
<1>101. x.scales = s /\ x.offsets = o => HalfStored(x, c, f, h)
  BY DEF HalfStored
<1> HIDE DEF o, s
<1>11. x = Kernel1Put(c, k.data, k.mask, o, s) /\ y = Kernel1Put(d, k.data, k.mask, o, s)
  BY <1>7, <1>8 DEF x, y
<1>12. /\ Alike(x, y, DownFields) /\ x.data = c.data /\ y.data = d.data
       /\ x.ds_data = k.data /\ x.ds_mask = k.mask /\ x.offsets = o /\ x.scales = s
  BY <1>11, Kernel1Fields
<1>13. Levels(x) /\ Averaged(x)
  BY <1>9, <1>10, <1>12 DEF Levels, Averaged
<1> QED
  BY <1>91, <1>101, <1>12, <1>13 DEF x, y

(* What kernel 2 leaves for kernel 3. *)
Scaled(c) == Averaged(c) /\ \A p \in 0 .. HalfCoarse - 1 : c.ds_w2[p] \in Nat \ {0}

LEMMA ScalingNumbers ==
  ASSUME NEW count, NEW mean \in Int, NEW sumsq
  PROVE  Scaling(count, mean, sumsq).scale \in Nat \ {0} /\ Scaling(count, mean, sumsq).offset \in Int
<1> DEFINE regulator == AtLeast(mean, -mean) \div 100000
           var == sumsq \div AtLeast(count, 1) + regulator * regulator
           rms == IF var > 0 \/ mean # 0 THEN Sqrt(var) ELSE One
           z == AtLeast(rms \div 25, 1)
<1>1. Scaling(count, mean, sumsq) = [offset |-> mean - 128 * z, scale |-> z]
  BY DEF Scaling
<1>2. rms \in Nat
  <2>1. One \in Nat /\ Sqrt(var) \in Nat
    BY SqrtIsNat DEF One
  <2> HIDE DEF var
  <2> QED
    BY <2>1
<1> HIDE DEF rms
<1>3. z \in Nat \ {0}
  BY <1>2 DEF AtLeast
<1> HIDE DEF z
<1> QED
  BY <1>1, <1>3

Kernel2Put(e, o, s, w) == [e EXCEPT !.offsets = o, !.scales = s, !.ds_w2 = w]

LEMMA Kernel2Fields ==
  ASSUME NEW c, NEW d, Alike(c, d, DownFields), NEW o, NEW s, NEW w,
         NEW x, x = Kernel2Put(c, o, s, w), NEW y, y = Kernel2Put(d, o, s, w)
  PROVE  /\ Alike(x, y, DownFields)
         /\ x.offsets = o /\ x.scales = s /\ x.ds_w2 = w
         /\ x.data = c.data /\ y.data = d.data /\ x.ds_data = c.ds_data /\ x.ds_mask = c.ds_mask
<1> DEFINE new(e, f) == IF f = "offsets" THEN o ELSE IF f = "scales" THEN s
                        ELSE IF f = "ds_w2" THEN w ELSE e[f]
<1>1. ASSUME NEW e, e = [f \in AllFields |-> e[f]]
      PROVE  Kernel2Put(e, o, s, w) = [f \in AllFields |-> new(e, f)]
  BY <1>1, FieldNames DEF Kernel2Put
<1>2. c = [f \in AllFields |-> c[f]] /\ d = [f \in AllFields |-> d[f]]
      /\ \A f \in AllFields \ DownFields : c[f] = d[f]
  BY DEF Alike
<1>3. \A f \in AllFields \ DownFields : new(c, f) = new(d, f)
  BY <1>2
<1>4. x = [f \in AllFields |-> new(c, f)] /\ y = [f \in AllFields |-> new(d, f)]
  BY <1>1, <1>2
<1>5. x = [f \in AllFields |-> x[f]] /\ y = [f \in AllFields |-> y[f]]
  BY <1>4
<1>6. \A f \in AllFields \ DownFields : x[f] = y[f]
  BY <1>3, <1>4
<1>7. Alike(x, y, DownFields)
  BY <1>5, <1>6 DEF Alike
<1>8. /\ x.offsets = o /\ x.scales = s /\ x.ds_w2 = w
      /\ x.data = c.data /\ y.data = d.data /\ x.ds_data = c.ds_data /\ x.ds_mask = c.ds_mask
  BY <1>4, FieldNames
<1> QED
  BY <1>7, <1>8

LEMMA Kernel2Alike ==
  ASSUME FastGeometry, NEW c, NEW d, Alike(c, d, DownFields), Levels(c), Averaged(c),
         NEW binning, NEW ichunk, Shaped(c, BlankChunk(binning, ichunk)),
         NEW f \in 0 .. NfreqCoarseTot - 1, NEW h \in Halves
  PROVE  LET x == RunKernel2("fast", c, f, h)
             y == RunKernel2("reference", d, f, h)
         IN  /\ Alike(x, y, DownFields) /\ Levels(x) /\ Scaled(x)
             /\ x.data = c.data /\ y.data = d.data
             /\ x.ds_data = c.ds_data /\ x.ds_mask = c.ds_mask
             /\ x.scales = Memcpy(c.scales, OutAt(f, h), x.ds_w2, 0, HalfCoarse)
             /\ HalfStored(x, c, f, h)
<1> DEFINE x == RunKernel2("fast", c, f, h)
           y == RunKernel2("reference", d, f, h)
           count == Window(c.offsets, OutAt(f, h), HalfCoarse)
           mean == Window(c.scales, OutAt(f, h), HalfCoarse)
           w == SlowKernel2(c.ds_data, c.ds_mask, count, mean, Nupfreq, 16)
           scale == [p \in DOMAIN w |-> w[p].scale]
           offset == [p \in DOMAIN w |-> w[p].offset]
           o == Memcpy(c.offsets, OutAt(f, h), offset, 0, HalfCoarse)
           s == Memcpy(c.scales, OutAt(f, h), scale, 0, HalfCoarse)
<1>1. NtPerPacket = 16 /\ NtPerChunk % 256 = 0 /\ Nupfreq \in Nat /\ HalfCoarse = HalfChunk \div 16
  BY Geometry, Parts DEF FastGeometry
<1>2. c.offsets = d.offsets /\ c.scales = d.scales /\ c.ds_data = d.ds_data /\ c.ds_mask = d.ds_mask
  BY SameArrays
<1>3. \A p \in 0 .. HalfCoarse - 1 : mean[p] \in Int
  <2>1. DOMAIN c.scales = 0 .. NfreqCoarseTot * SlotsPerChunk - 1
    BY Domains
  <2> QED
    BY <2>1, HalfInts DEF Levels
<1> HIDE DEF count, mean
<1>4. FastKernel2(c.ds_data, c.ds_mask, count, mean, Nupfreq) = w
  <2>1. \A i \in 0 .. Nupfreq * HalfChunk - 1 : c.ds_data[i] \in Int
    BY DEF Averaged
  <2>2. \A p \in 0 .. (HalfChunk \div 16) - 1 : mean[p] \in Int
    BY <1>1, <1>3
  <2> QED
    BY <1>1, <2>1, <2>2, FastKernel2Is
<1>5. DOMAIN w = 0 .. HalfCoarse - 1
      /\ \A p \in 0 .. HalfCoarse - 1 : w[p].scale \in Nat \ {0} /\ w[p].offset \in Int
  <2>1. NtPerChunk \div 2 = HalfChunk
    BY DEF HalfChunk
  <2>2. DOMAIN w = 0 .. HalfCoarse - 1
        /\ \A p \in 0 .. HalfCoarse - 1 : \E q : w[p] = Scaling(count[p], mean[p], q)
    BY <1>1, <2>1 DEF SlowKernel2
  <2> HIDE DEF w
  <2> QED
    BY <1>3, <2>2, ScalingNumbers
<1>6. RunKernel2("fast", c, f, h) = Kernel2Put(c, o, s, scale)
  <2>1. RunKernel2("fast", c, f, h) =
        LET v == FastKernel2(c.ds_data, c.ds_mask, count, mean, Nupfreq)
            IN  [c EXCEPT !.offsets = Memcpy(c.offsets, OutAt(f, h), [p \in DOMAIN v |-> v[p].offset],
                                             0, HalfCoarse),
                          !.scales  = Memcpy(c.scales, OutAt(f, h), [p \in DOMAIN v |-> v[p].scale],
                                             0, HalfCoarse),
                          !.ds_w2   = [p \in DOMAIN v |-> v[p].scale]]
    BY DEF RunKernel2, count, mean
  <2> HIDE DEF w
  <2> QED
    BY <1>4, <2>1, Zenon DEF Kernel2Put
<1>7. RunKernel2("reference", d, f, h) = Kernel2Put(d, o, s, scale)
  <2>1. RunKernel2("reference", d, f, h) =
        LET v == SlowKernel2(c.ds_data, c.ds_mask, count, mean, Nupfreq, NtPerPacket)
            IN  [d EXCEPT !.offsets = Memcpy(c.offsets, OutAt(f, h), [p \in DOMAIN v |-> v[p].offset],
                                             0, HalfCoarse),
                          !.scales  = Memcpy(c.scales, OutAt(f, h), [p \in DOMAIN v |-> v[p].scale],
                                             0, HalfCoarse),
                          !.ds_w2   = [p \in DOMAIN v |-> v[p].scale]]
    BY <1>2 DEF RunKernel2, count, mean
  <2>2. SlowKernel2(c.ds_data, c.ds_mask, count, mean, Nupfreq, NtPerPacket) = w
    BY <1>1
  <2> HIDE DEF w
  <2> QED
    BY <2>1, <2>2, Zenon DEF Kernel2Put
<1> HIDE DEF w
<1>8. \A p \in 0 .. HalfCoarse - 1 : scale[p] \in Nat \ {0} /\ scale[p] \in Int /\ offset[p] \in Int
  BY <1>5
<1> HIDE DEF scale, offset
<1>9. Ints(o) /\ Ints(s)
  BY <1>8, HalfReplaced DEF Levels
<1> HIDE DEF x, y
<1>91. /\ x.scales = s /\ x.offsets = o => HalfStored(x, c, f, h)
       /\ s = Memcpy(c.scales, OutAt(f, h), scale, 0, HalfCoarse)
  BY DEF HalfStored
<1> HIDE DEF o, s
<1>10. x = Kernel2Put(c, o, s, scale) /\ y = Kernel2Put(d, o, s, scale)
  BY <1>6, <1>7 DEF x, y
<1>11. /\ Alike(x, y, DownFields)
       /\ x.offsets = o /\ x.scales = s /\ x.ds_w2 = scale
       /\ x.data = c.data /\ y.data = d.data /\ x.ds_data = c.ds_data /\ x.ds_mask = c.ds_mask
  BY <1>10, Kernel2Fields
<1>12. Levels(x) /\ Scaled(x)
  BY <1>8, <1>9, <1>11 DEF Levels, Scaled, Averaged
<1> QED
  BY <1>91, <1>11, <1>12 DEF x, y

-----------------------------------------------------------------------------
(* Kernel 3 may round a level that lies half-way between two bytes         *)
(* differently.                                                            *)
Near(a, b) == DOMAIN a = DOMAIN b /\ \A i \in DOMAIN a : Distance(a[i], b[i]) <= 1

LEMMA MemcpyNear ==
  ASSUME NEW a, NEW b, Near(a, b), NEW at \in Int, NEW s, NEW t, NEW from \in Int, NEW n \in Nat,
         \A j \in 0 .. n - 1 : Distance(s[from + j], t[from + j]) <= 1
  PROVE  Near(Memcpy(a, at, s, from, n), Memcpy(b, at, t, from, n))
<1> DEFINE x == Memcpy(a, at, s, from, n)
           y == Memcpy(b, at, t, from, n)
<1>1. DOMAIN x = DOMAIN a /\ DOMAIN y = DOMAIN a /\ DOMAIN b = DOMAIN a
  BY DEF Memcpy, Near
<1>2. ASSUME NEW i \in DOMAIN a PROVE Distance(x[i], y[i]) <= 1
  <2>1. /\ x[i] = IF i \in at .. at + n - 1 THEN s[from + i - at] ELSE a[i]
        /\ y[i] = IF i \in at .. at + n - 1 THEN t[from + i - at] ELSE b[i]
    BY <1>1, Zenon DEF Memcpy
  <2> HIDE DEF x, y
  <2>2. CASE i \in at .. at + n - 1
    <3> DEFINE j == i - at
    <3>1. j \in 0 .. n - 1 /\ from + i - at = from + j
      BY <2>2
    <3> HIDE DEF j
    <3>2. x[i] = s[from + j] /\ y[i] = t[from + j]
      BY <2>1, <2>2, <3>1
    <3> QED
      BY <3>1, <3>2
  <2>3. CASE i \notin at .. at + n - 1
    <3>1. x[i] = a[i] /\ y[i] = b[i]
      BY <2>1, <2>3
    <3> QED
      BY <3>1 DEF Near
  <2> QED
    BY <2>2, <2>3
<1> HIDE DEF x, y
<1>3. Near(x, y)
  BY <1>1, <1>2 DEF Near
<1> QED
  BY <1>3 DEF x, y

(* The rows of a coarse channel that kernel 3 stores. *)
LevelsStored(data, f, h, out) ==
  Loop(Nupfreq, data, LAMBDA r, u :
    Memcpy(r, (f * Nupfreq + u) * NtPerChunk + h * HalfChunk, out, u * HalfChunk, HalfChunk))

LevelRow(r, u, f, h, out) ==
  Memcpy(r, (f * Nupfreq + u) * NtPerChunk + h * HalfChunk, out, u * HalfChunk, HalfChunk)

LEMMA RowsNear ==
  ASSUME FastGeometry, NEW a, NEW b, Near(a, b), NEW s, NEW t,
         \A i \in 0 .. Nupfreq * HalfChunk - 1 : Distance(s[i], t[i]) <= 1,
         NEW f \in 0 .. NfreqCoarseTot - 1, NEW h \in Halves
  PROVE  Near(LevelsStored(a, f, h, s), LevelsStored(b, f, h, t))
<1> DEFINE fast(r, k) == IF k = 0 THEN a ELSE LevelRow(r[k - 1], k - 1, f, h, s)
           slow(r, k) == IF k = 0 THEN b ELSE LevelRow(r[k - 1], k - 1, f, h, t)
           SF == {m \in Nat : \E r : r = [k \in 0 .. m |-> fast(r, k)]}
           SS == {m \in Nat : \E r : r = [k \in 0 .. m |-> slow(r, k)]}
           n == Nupfreq
           two == CHOOSE r : r = [k \in 0 .. n |-> fast(r, k)]
           one == CHOOSE r : r = [k \in 0 .. n |-> slow(r, k)]
           T == {k \in Nat : k <= n => Near(two[k], one[k])}
<1>1. LevelsStored(a, f, h, s) = two[n] /\ LevelsStored(b, f, h, t) = one[n]
  BY DEF LevelsStored, Loop, LevelRow
<1>2. 0 \in SF
  <2> DEFINE f0 == [k \in 0 .. 0 |-> a]
  <2>1. f0 = [k \in 0 .. 0 |-> fast(f0, k)]
    OBVIOUS
  <2> QED
    BY <2>1
<1>3. ASSUME NEW m \in Nat, m \in SF PROVE m + 1 \in SF
  <2>1. PICK f1 : f1 = [k \in 0 .. m |-> fast(f1, k)]
    BY <1>3
  <2> DEFINE g == [k \in 0 .. m + 1 |-> IF k <= m THEN f1[k] ELSE fast(f1, k)]
  <2>2. ASSUME NEW k \in 0 .. m + 1 PROVE g[k] = fast(g, k)
    <3>1. fast(g, k) = fast(f1, k)
      OBVIOUS
    <3>2. k <= m => f1[k] = fast(f1, k)
      <4>1. k <= m => k \in 0 .. m
        OBVIOUS
      <4> QED
        BY <2>1, <4>1, Zenon
    <3> QED
      BY <3>1, <3>2
  <2>3. g = [k \in 0 .. m + 1 |-> fast(g, k)]
    BY <2>2, Zenon
  <2> HIDE DEF g, fast
  <2> QED
    BY <2>3
<1>4. 0 \in SS
  <2> DEFINE f0 == [k \in 0 .. 0 |-> b]
  <2>1. f0 = [k \in 0 .. 0 |-> slow(f0, k)]
    OBVIOUS
  <2> QED
    BY <2>1
<1>5. ASSUME NEW m \in Nat, m \in SS PROVE m + 1 \in SS
  <2>1. PICK f1 : f1 = [k \in 0 .. m |-> slow(f1, k)]
    BY <1>5
  <2> DEFINE g == [k \in 0 .. m + 1 |-> IF k <= m THEN f1[k] ELSE slow(f1, k)]
  <2>2. ASSUME NEW k \in 0 .. m + 1 PROVE g[k] = slow(g, k)
    <3>1. slow(g, k) = slow(f1, k)
      OBVIOUS
    <3>2. k <= m => f1[k] = slow(f1, k)
      <4>1. k <= m => k \in 0 .. m
        OBVIOUS
      <4> QED
        BY <2>1, <4>1, Zenon
    <3> QED
      BY <3>1, <3>2
  <2>3. g = [k \in 0 .. m + 1 |-> slow(g, k)]
    BY <2>2, Zenon
  <2> HIDE DEF g, slow
  <2> QED
    BY <2>3
<1>6. n \in Nat /\ f \in Nat /\ h \in Nat /\ HalfChunk \in Nat /\ NtPerChunk \in Nat
  <2>1. HalfChunk \in Nat \ {0} /\ NtPerChunk = 2 * HalfChunk
    BY Parts, Zenon
  <2>2. Nupfreq \in Nat /\ NfreqCoarseTot \in Nat
    BY Geometry
  <2> QED
    BY <2>1, <2>2 DEF Halves
<1>7. n \in SF
  BY <1>2, <1>3, <1>6, NatSetInduction
<1>8. \A k \in 0 .. n : two[k] = fast(two, k)
  <2>1. two = [k \in 0 .. n |-> fast(two, k)]
    BY <1>7, Zenon
  <2> QED
    BY <2>1, Zenon
<1>9. n \in SS
  BY <1>4, <1>5, <1>6, NatSetInduction
<1>10. \A k \in 0 .. n : one[k] = slow(one, k)
  <2>1. one = [k \in 0 .. n |-> slow(one, k)]
    BY <1>9, Zenon
  <2> QED
    BY <2>1, Zenon
<1> HIDE DEF two, one, SF, SS
<1>11. 0 \in T
  <2>1. 0 \in 0 .. n
    BY <1>6
  <2> QED
    BY <1>8, <1>10, <2>1
<1>12. ASSUME NEW k \in Nat, k \in T PROVE k + 1 \in T
  <2> SUFFICES ASSUME k + 1 <= n PROVE Near(two[k + 1], one[k + 1])
    OBVIOUS
  <2> DEFINE w == HalfChunk
             at == (f * Nupfreq + k) * NtPerChunk + h * w
             from == k * w
  <2>1. /\ Near(two[k], one[k])
        /\ k + 1 \in 0 .. n /\ k + 1 # 0 /\ (k + 1) - 1 = k /\ k \in 0 .. n - 1
    BY <1>6, <1>12
  <2>2. two[k + 1] = LevelRow(two[k], k, f, h, s)
    BY <1>8, <2>1
  <2>3. one[k + 1] = LevelRow(one[k], k, f, h, t)
    BY <1>10, <2>1
  <2>4. at \in Int /\ from \in Int /\ w \in Nat
    <3> DEFINE y == f * Nupfreq + k
    <3>1. y \in Nat /\ from \in Int /\ h * w \in Int
      BY <1>6
    <3>2. y * NtPerChunk \in Int
      <4> HIDE DEF y
      <4> QED
        BY <1>6, <3>1
    <3> QED
      BY <1>6, <3>1, <3>2
  <2>5. \A j \in 0 .. w - 1 : Distance(s[from + j], t[from + j]) <= 1
    <3> SUFFICES ASSUME NEW j \in 0 .. w - 1 PROVE Distance(s[from + j], t[from + j]) <= 1
      OBVIOUS
    <3>1. from + j \in 0 .. Nupfreq * HalfChunk - 1
      BY <1>6, <2>1, InPart
    <3> HIDE DEF from
    <3> QED
      BY <3>1
  <2> HIDE DEF at, from, w
  <2>6. Near(Memcpy(two[k], at, s, from, w), Memcpy(one[k], at, t, from, w))
    BY <2>1, <2>4, <2>5, MemcpyNear
  <2> QED
    BY <2>2, <2>3, <2>6, Zenon DEF LevelRow, at, from, w
<1>13. n \in T
  BY <1>6, <1>11, <1>12, NatSetInduction
<1>14. Near(two[n], one[n])
  <2>1. n <= n
    BY <1>6
  <2> QED
    BY <1>13, <2>1
<1> QED
  BY <1>1, <1>14

(* What kernel 3 makes of half a coarse channel, in either class. *)
FastLevels(c, f, h) ==
  FastKernel3(c.ds_data, c.ds_mask, Window(c.offsets, OutAt(f, h), HalfCoarse), c.ds_w2, Nupfreq)
SlowLevels(c, f, h) ==
  SlowKernel3(c.ds_data, c.ds_mask, Window(c.offsets, OutAt(f, h), HalfCoarse), c.ds_w2, Nupfreq, 16)

LEMMA Kernel3Alike ==
  ASSUME FastGeometry, NEW c, NEW d, Alike(c, d, DownFields), Near(c.data, d.data),
         Levels(c), Scaled(c), NEW binning, NEW ichunk, Shaped(c, BlankChunk(binning, ichunk)),
         NEW f \in 0 .. NfreqCoarseTot - 1, NEW h \in Halves
  PROVE  LET x == RunKernel3("fast", c, f, h)
             y == RunKernel3("reference", d, f, h)
         IN  /\ Alike(x, y, DownFields) /\ Levels(x) /\ Near(x.data, y.data)
             /\ x.scales = c.scales /\ x.offsets = c.offsets
             /\ x.data = LevelsStored(c.data, f, h, FastLevels(c, f, h))
             /\ y.data = LevelsStored(d.data, f, h, SlowLevels(c, f, h))
<1> DEFINE off == Window(c.offsets, OutAt(f, h), HalfCoarse)
           s == FastKernel3(c.ds_data, c.ds_mask, off, c.ds_w2, Nupfreq)
           t == SlowKernel3(c.ds_data, c.ds_mask, off, c.ds_w2, Nupfreq, 16)
           p == LevelsStored(c.data, f, h, s)
           q == LevelsStored(d.data, f, h, t)
           x == [c EXCEPT !["data"] = p]
           y == [d EXCEPT !["data"] = q]
<1>1. NtPerPacket = 16 /\ NtPerChunk % 256 = 0 /\ Nupfreq \in Nat
  BY Geometry DEF FastGeometry
<1>2. c.offsets = d.offsets /\ c.ds_data = d.ds_data /\ c.ds_mask = d.ds_mask /\ c.ds_w2 = d.ds_w2
  BY SameArrays
<1>3. HalfChunk \in Nat \ {0} /\ HalfCoarse \in Nat /\ HalfChunk = 16 * HalfCoarse
  BY Parts, Zenon
<1>4. \A i \in 0 .. HalfCoarse - 1 : off[i] \in Int
  <2>1. DOMAIN c.offsets = 0 .. NfreqCoarseTot * SlotsPerChunk - 1
    BY Domains
  <2> QED
    BY <2>1, HalfInts DEF Levels
<1>41. p = LevelsStored(c.data, f, h, FastLevels(c, f, h))
       /\ q = LevelsStored(d.data, f, h, SlowLevels(c, f, h))
  BY DEF FastLevels, SlowLevels
<1> HIDE DEF off
<1>5. \A i \in 0 .. Nupfreq * HalfChunk - 1 : Distance(s[i], t[i]) <= 1
  <2> SUFFICES ASSUME NEW i \in 0 .. Nupfreq * HalfChunk - 1 PROVE Distance(s[i], t[i]) <= 1
    OBVIOUS
  <2>1. (i % HalfChunk) \div 16 \in 0 .. HalfCoarse - 1
    <3>1. i \in Nat
      BY <1>1, <1>3
    <3>2. i % HalfChunk \in 0 .. HalfChunk - 1
      BY <1>3, <3>1
    <3> QED
      BY <1>3, <3>2
  <2>2. c.ds_data[i] \in Int /\ c.ds_mask[i] \in {0, -1}
    BY DEF Scaled, Averaged
  <2>3. off[(i % HalfChunk) \div 16] \in Int /\ c.ds_w2[(i % HalfChunk) \div 16] \in Nat \ {0}
    BY <1>4, <2>1 DEF Scaled
  <2> QED
    BY <1>1, <2>2, <2>3, FastKernel3Is
<1>6. RunKernel3("fast", c, f, h) = x
  <2>1. RunKernel3("fast", c, f, h) =
          [c EXCEPT !.data = Loop(Nupfreq, @, LAMBDA data, u :
             Memcpy(data, (f * Nupfreq + u) * NtPerChunk + h * HalfChunk, s, u * HalfChunk, HalfChunk))]
    BY DEF RunKernel3, off
  <2> HIDE DEF s
  <2> QED
    BY <2>1, Zenon DEF LevelsStored
<1>7. RunKernel3("reference", d, f, h) = y
  <2> DEFINE out == SlowKernel3(d.ds_data, d.ds_mask, Window(d.offsets, OutAt(f, h), HalfCoarse),
                                d.ds_w2, Nupfreq, NtPerPacket)
  <2>1. RunKernel3("reference", d, f, h) =
          [d EXCEPT !.data = Loop(Nupfreq, @, LAMBDA data, u :
             Memcpy(data, (f * Nupfreq + u) * NtPerChunk + h * HalfChunk, out, u * HalfChunk, HalfChunk))]
    BY DEF RunKernel3
  <2>2. out = t
    BY <1>1, <1>2, Zenon DEF off
  <2> HIDE DEF out, t
  <2>3. RunKernel3("reference", d, f, h) = [d EXCEPT !["data"] = LevelsStored(d.data, f, h, out)]
    BY <2>1, Zenon DEF LevelsStored
  <2> QED
    BY <2>2, <2>3, Zenon
<1> HIDE DEF s, t
<1>8. Near(p, q)
  BY <1>5, RowsNear
<1> HIDE DEF p, q
<1>9. AlikeWith(x, y, DownFields, c, "data", p)
  <2>1. "data" \in AllFields /\ "data" \in DownFields
    BY FieldNames DEF DownFields
  <2> QED
    BY <2>1, AlikeReplaced
<1>10. y.data = q
  BY FieldNames DEF Alike
<1> HIDE DEF x, y
<1>11. x.data = p /\ x.scales = c.scales /\ x.offsets = c.offsets /\ Alike(x, y, DownFields)
  BY <1>9, FieldNames DEF AlikeWith
<1>12. Levels(x)
  BY <1>11 DEF Levels
<1> QED
  BY <1>41, <1>6, <1>7, <1>8, <1>10, <1>11, <1>12

-----------------------------------------------------------------------------
(* The RFI masks of both classes.                                          *)
MaskPut(e, m, has) == [e EXCEPT !.rfi_mask = m, !.has_rfi_mask = has]

LEMMA MaskFields ==
  ASSUME NEW c, NEW d, NEW F, Alike(c, d, F), F = Counted \/ F = DownFields, NEW m, NEW has,
         NEW x, x = MaskPut(c, m, has), NEW y, y = MaskPut(d, m, has)
  PROVE  /\ Alike(x, y, F)
         /\ x.rfi_mask = m /\ x.scales = c.scales /\ x.offsets = c.offsets
         /\ x.data = c.data /\ y.data = d.data
<1> DEFINE new(e, f) == IF f = "rfi_mask" THEN m ELSE IF f = "has_rfi_mask" THEN has ELSE e[f]
<1>1. ASSUME NEW e, e = [f \in AllFields |-> e[f]]
      PROVE  MaskPut(e, m, has) = [f \in AllFields |-> new(e, f)]
  BY <1>1, FieldNames DEF MaskPut
<1>2. c = [f \in AllFields |-> c[f]] /\ d = [f \in AllFields |-> d[f]]
      /\ \A f \in AllFields \ F : c[f] = d[f]
  BY DEF Alike
<1>3. \A f \in AllFields \ F : new(c, f) = new(d, f)
  BY <1>2
<1>4. x = [f \in AllFields |-> new(c, f)] /\ y = [f \in AllFields |-> new(d, f)]
  BY <1>1, <1>2
<1>5. x = [f \in AllFields |-> x[f]] /\ y = [f \in AllFields |-> y[f]]
  BY <1>4
<1>6. \A f \in AllFields \ F : x[f] = y[f]
  BY <1>3, <1>4
<1>7. Alike(x, y, F)
  BY <1>5, <1>6 DEF Alike
<1>8. /\ x.rfi_mask = m /\ x.scales = c.scales /\ x.offsets = c.offsets
      /\ x.data = c.data /\ y.data = d.data
  BY <1>4, FieldNames
<1> QED
  BY <1>7, <1>8

FastBits(srcs, h, k) ==
  FastRfiMask(Window(srcs[h].rfi_mask, k * NtPerChunk, NtPerChunk), NtPerChunk)
SlowBits(srcs, h, k) ==
  SlowRfiMask(Window(srcs[h].rfi_mask, k * NtPerChunk, NtPerChunk), NtPerChunk)
MaskRow(mask, k, first, second) ==
  Memcpy(Memcpy(mask, k * NtPerChunk, first, 0, HalfChunk), k * NtPerChunk + HalfChunk, second, 0, HalfChunk)

LEMMA BitsAlike ==
  ASSUME FastGeometry, NEW srcs, NEW refs, NEW h, srcs[h].rfi_mask = refs[h].rfi_mask,
         AreBits(srcs[h].rfi_mask), DOMAIN srcs[h].rfi_mask = 0 .. NrfiFreq * NtPerChunk - 1,
         NEW k \in 0 .. NrfiFreq - 1
  PROVE  FastBits(srcs, h, k) = SlowBits(refs, h, k)
<1> DEFINE a == srcs[h].rfi_mask
           src == Window(a, k * NtPerChunk, NtPerChunk)
           m == NtPerChunk \div 512
<1>1. NrfiFreq \in Nat /\ NtPerChunk \in Nat /\ m \in Nat /\ NtPerChunk = 512 * m
  BY Geometry, DataPathAssumption DEF FastGeometry
<1>2. ASSUME NEW i \in 0 .. NtPerChunk - 1 PROVE src[i] \in {0, 1}
  <2>1. k * NtPerChunk + i \in DOMAIN a
    BY <1>1, InPart
  <2>2. src[i] = a[k * NtPerChunk + i]
    BY DEF Window
  <2> HIDE DEF a
  <2>3. AreBits(a)
    BY DEF a
  <2> QED
    BY <2>1, <2>2, <2>3 DEF AreBits
<1>3. FastBits(srcs, h, k) = FastRfiMask(src, NtPerChunk) /\ SlowBits(refs, h, k) = SlowRfiMask(src, NtPerChunk)
  BY DEF FastBits, SlowBits
<1> HIDE DEF src, m
<1>4. \A i \in 0 .. 512 * m - 1 : src[i] \in {0, 1}
  BY <1>1, <1>2
<1>5. FastRfiMask(src, 512 * m) = SlowRfiMask(src, 512 * m)
  BY <1>1, <1>4, FastRfiMaskIs
<1> QED
  BY <1>1, <1>3, <1>5

FastMasks(mask, srcs) ==
  Loop(NrfiFreq, mask, LAMBDA r, k : MaskRow(r, k, FastBits(srcs, 0, k), FastBits(srcs, 1, k)))
SlowMasks(mask, srcs) ==
  Loop(NrfiFreq, mask, LAMBDA r, k : MaskRow(r, k, SlowBits(srcs, 0, k), SlowBits(srcs, 1, k)))

LEMMA MasksAlike ==
  ASSUME FastGeometry, NEW srcs, NEW refs, NEW mask,
         \A h \in Halves : /\ srcs[h].rfi_mask = refs[h].rfi_mask /\ AreBits(srcs[h].rfi_mask)
                           /\ DOMAIN srcs[h].rfi_mask = 0 .. NrfiFreq * NtPerChunk - 1
  PROVE  FastMasks(mask, srcs) = SlowMasks(mask, refs)
<1> DEFINE fast(r, k) == IF k = 0 THEN mask
                         ELSE MaskRow(r[k - 1], k - 1, FastBits(srcs, 0, k - 1), FastBits(srcs, 1, k - 1))
           slow(r, k) == IF k = 0 THEN mask
                         ELSE MaskRow(r[k - 1], k - 1, SlowBits(refs, 0, k - 1), SlowBits(refs, 1, k - 1))
           SF == {m \in Nat : \E r : r = [k \in 0 .. m |-> fast(r, k)]}
           SS == {m \in Nat : \E r : r = [k \in 0 .. m |-> slow(r, k)]}
           n == NrfiFreq
           two == CHOOSE r : r = [k \in 0 .. n |-> fast(r, k)]
           one == CHOOSE r : r = [k \in 0 .. n |-> slow(r, k)]
           T == {k \in Nat : k <= n => two[k] = one[k]}
<1>1. FastMasks(mask, srcs) = two[n] /\ SlowMasks(mask, refs) = one[n]
  BY DEF FastMasks, SlowMasks, Loop
<1>2. 0 \in SF
  <2> DEFINE f0 == [k \in 0 .. 0 |-> mask]
  <2>1. f0 = [k \in 0 .. 0 |-> fast(f0, k)]
    OBVIOUS
  <2> QED
    BY <2>1
<1>3. ASSUME NEW m \in Nat, m \in SF PROVE m + 1 \in SF
  <2>1. PICK f1 : f1 = [k \in 0 .. m |-> fast(f1, k)]
    BY <1>3
  <2> DEFINE g == [k \in 0 .. m + 1 |-> IF k <= m THEN f1[k] ELSE fast(f1, k)]
  <2>2. ASSUME NEW k \in 0 .. m + 1 PROVE g[k] = fast(g, k)
    <3>1. fast(g, k) = fast(f1, k)
      OBVIOUS
    <3>2. k <= m => f1[k] = fast(f1, k)
      <4>1. k <= m => k \in 0 .. m
        OBVIOUS
      <4> QED
        BY <2>1, <4>1, Zenon
    <3> QED
      BY <3>1, <3>2
  <2>3. g = [k \in 0 .. m + 1 |-> fast(g, k)]
    BY <2>2, Zenon
  <2> HIDE DEF g, fast
  <2> QED
    BY <2>3
<1>4. 0 \in SS
  <2> DEFINE f0 == [k \in 0 .. 0 |-> mask]
  <2>1. f0 = [k \in 0 .. 0 |-> slow(f0, k)]
    OBVIOUS
  <2> QED
    BY <2>1
<1>5. ASSUME NEW m \in Nat, m \in SS PROVE m + 1 \in SS
  <2>1. PICK f1 : f1 = [k \in 0 .. m |-> slow(f1, k)]
    BY <1>5
  <2> DEFINE g == [k \in 0 .. m + 1 |-> IF k <= m THEN f1[k] ELSE slow(f1, k)]
  <2>2. ASSUME NEW k \in 0 .. m + 1 PROVE g[k] = slow(g, k)
    <3>1. slow(g, k) = slow(f1, k)
      OBVIOUS
    <3>2. k <= m => f1[k] = slow(f1, k)
      <4>1. k <= m => k \in 0 .. m
        OBVIOUS
      <4> QED
        BY <2>1, <4>1, Zenon
    <3> QED
      BY <3>1, <3>2
  <2>3. g = [k \in 0 .. m + 1 |-> slow(g, k)]
    BY <2>2, Zenon
  <2> HIDE DEF g, slow
  <2> QED
    BY <2>3
<1>6. n \in Nat
  BY DataPathAssumption
<1>7. n \in SF
  BY <1>2, <1>3, <1>6, NatSetInduction
<1>8. \A k \in 0 .. n : two[k] = fast(two, k)
  <2>1. two = [k \in 0 .. n |-> fast(two, k)]
    BY <1>7, Zenon
  <2> QED
    BY <2>1, Zenon
<1>9. n \in SS
  BY <1>4, <1>5, <1>6, NatSetInduction
<1>10. \A k \in 0 .. n : one[k] = slow(one, k)
  <2>1. one = [k \in 0 .. n |-> slow(one, k)]
    BY <1>9, Zenon
  <2> QED
    BY <2>1, Zenon
<1> HIDE DEF two, one, SF, SS
<1>11. 0 \in T
  <2>1. 0 \in 0 .. n
    BY <1>6
  <2> QED
    BY <1>8, <1>10, <2>1
<1>12. ASSUME NEW k \in Nat, k \in T PROVE k + 1 \in T
  <2> SUFFICES ASSUME k + 1 <= n PROVE two[k + 1] = one[k + 1]
    OBVIOUS
  <2>1. /\ two[k] = one[k]
        /\ k + 1 \in 0 .. n /\ k + 1 # 0 /\ (k + 1) - 1 = k /\ k \in 0 .. n - 1
    BY <1>6, <1>12
  <2>2. two[k + 1] = MaskRow(two[k], k, FastBits(srcs, 0, k), FastBits(srcs, 1, k))
    BY <1>8, <2>1
  <2>3. one[k + 1] = MaskRow(one[k], k, SlowBits(refs, 0, k), SlowBits(refs, 1, k))
    BY <1>10, <2>1
  <2>4. FastBits(srcs, 0, k) = SlowBits(refs, 0, k) /\ FastBits(srcs, 1, k) = SlowBits(refs, 1, k)
    BY <2>1, BitsAlike DEF Halves
  <2> QED
    BY <2>1, <2>2, <2>3, <2>4, Zenon
<1>13. n \in T
  BY <1>6, <1>11, <1>12, NatSetInduction
<1>14. two[n] = one[n]
  <2>1. n <= n
    BY <1>6
  <2> QED
    BY <1>13, <2>1
<1> QED
  BY <1>1, <1>14

LEMMA RfiKernelAlike ==
  ASSUME FastGeometry, NEW c, NEW d, Alike(c, d, DownFields), Levels(c),
         NEW srcs, NEW refs,
         \A h \in Halves : /\ srcs[h].rfi_mask = refs[h].rfi_mask /\ AreBits(srcs[h].rfi_mask)
                           /\ DOMAIN srcs[h].rfi_mask = 0 .. NrfiFreq * NtPerChunk - 1
  PROVE  LET x == RunRfiKernel("fast", c, srcs)
             y == RunRfiKernel("reference", d, refs)
         IN  /\ Alike(x, y, DownFields) /\ Levels(x)
             /\ x.data = c.data /\ y.data = d.data
             /\ x.scales = c.scales /\ x.offsets = c.offsets
             /\ x.rfi_mask = SlowMasks(c.rfi_mask, srcs)
<1> DEFINE m == FastMasks(c.rfi_mask, srcs)
           has == NrfiFreq > 0
           x == RunRfiKernel("fast", c, srcs)
           y == RunRfiKernel("reference", d, refs)
<1>1. RunRfiKernel("fast", c, srcs) = MaskPut(c, m, has)
  BY DEF RunRfiKernel, FastMasks, MaskRow, FastBits, MaskPut
<1>2. RunRfiKernel("reference", d, refs) = MaskPut(d, SlowMasks(d.rfi_mask, refs), has)
  BY DEF RunRfiKernel, SlowMasks, MaskRow, SlowBits, MaskPut
<1>3. SlowMasks(d.rfi_mask, refs) = m
  <2>1. c.rfi_mask = d.rfi_mask
    BY SameArrays
  <2>2. FastMasks(d.rfi_mask, srcs) = SlowMasks(d.rfi_mask, refs)
    BY MasksAlike
  <2> QED
    BY <2>1, <2>2, Zenon
<1>31. m = SlowMasks(c.rfi_mask, srcs)
  BY MasksAlike
<1> HIDE DEF m, has, x, y
<1>4. x = MaskPut(c, m, has) /\ y = MaskPut(d, m, has)
  BY <1>1, <1>2, <1>3, Zenon DEF x, y
<1>5. Alike(x, y, DownFields) /\ x.data = c.data /\ y.data = d.data
      /\ x.scales = c.scales /\ x.offsets = c.offsets /\ x.rfi_mask = m
  BY <1>4, MaskFields
<1>6. Levels(x)
  BY <1>5 DEF Levels
<1> QED
  BY <1>31, <1>5, <1>6 DEF x, y

-----------------------------------------------------------------------------
(* The chunks of the two classes, in every state.                          *)
ReferenceInv ==
  /\ PairAlike(chunk["fast"], chunk["reference"])
  /\ Alike(down["fast"], down["reference"], DownFields)
  /\ Near(down["fast"].data, down["reference"].data)
  /\ Levels(down["fast"])
  /\ stage.kernel = 2 => Averaged(down["fast"])
  /\ stage.kernel = 3 => Scaled(down["fast"])

LEMMA BlanksAlike ==
  ASSUME NEW binning, NEW ichunk, NEW F
  PROVE  LET b == BlankChunk(binning, ichunk)
         IN  Alike(b, b, F) /\ Numbers(b) /\ Levels(b) /\ Near(b.data, b.data)
<1> DEFINE b == BlankChunk(binning, ichunk)
<1>1. b = [f \in AllFields |-> b[f]]
  BY BlankIsShaped DEF Shaped, AllFields
<1>2. \E n : b.data = Zeros(n)
  BY DEF BlankChunk, NewChunk
<1>3. \E n : b.scales = Zeros(n)
  BY DEF BlankChunk, NewChunk
<1>4. \E n : b.offsets = Zeros(n)
  BY DEF BlankChunk, NewChunk
<1>5. \E n : b.rfi_mask = Zeros(n)
  BY DEF BlankChunk, NewChunk
<1>6. \A n : Ints(Zeros(n)) /\ AreBits(Zeros(n)) /\ Near(Zeros(n), Zeros(n))
  BY DEF Zeros, Ints, AreBits, Near, Distance
<1> HIDE DEF b
<1>7. Alike(b, b, F)
  BY <1>1 DEF Alike
<1>8. Numbers(b) /\ Levels(b) /\ Near(b.data, b.data)
  BY <1>2, <1>3, <1>4, <1>5, <1>6 DEF Numbers, Levels
<1> QED
  BY <1>7, <1>8 DEF b

LEMMA ReferenceInit ==
  ASSUME Init
  PROVE  ReferenceInv
<1>1. /\ chunk["fast"] = [h \in Halves |-> BlankChunk(1, FirstIchunk + h)]
      /\ chunk["reference"] = [h \in Halves |-> BlankChunk(1, FirstIchunk + h)]
      /\ down["fast"] = BlankChunk(2, FirstIchunk) /\ down["reference"] = BlankChunk(2, FirstIchunk)
      /\ stage.kernel = 0
  BY DEF Init, Impls, Filling, Kernel
<1>2. PairAlike(chunk["fast"], chunk["reference"])
  <2>1. ASSUME NEW h \in Halves
        PROVE  Alike(chunk["fast"][h], chunk["reference"][h], Counted) /\ Numbers(chunk["fast"][h])
    <3> DEFINE b == BlankChunk(1, FirstIchunk + h)
    <3>1. Alike(b, b, Counted) /\ Numbers(b)
      BY BlanksAlike
    <3>2. chunk["fast"][h] = b /\ chunk["reference"][h] = b
      BY <1>1
    <3> HIDE DEF b
    <3> QED
      BY <3>1, <3>2
  <2>2. chunk["reference"] = [h \in Halves |-> chunk["reference"][h]]
    BY <1>1
  <2> QED
    BY <2>1, <2>2 DEF PairAlike
<1>3. /\ Alike(down["fast"], down["reference"], DownFields)
      /\ Near(down["fast"].data, down["reference"].data) /\ Levels(down["fast"])
  <2> DEFINE b == BlankChunk(2, FirstIchunk)
  <2>1. Alike(b, b, DownFields) /\ Near(b.data, b.data) /\ Levels(b)
    BY BlanksAlike
  <2> HIDE DEF b
  <2> QED
    BY <1>1, <2>1 DEF b
<1> QED
  BY <1>1, <1>2, <1>3 DEF ReferenceInv

LEMMA ProcessPacketsAlike ==
  ASSUME FastGeometry, SlotsInv, ShapeInv, ReferenceInv, ProcessPackets
  PROVE  ReferenceInv'
<1>1. /\ chunk'["fast"] = Loop(incoming.npackets, chunk["fast"], NthPut)
      /\ chunk'["reference"] = Loop(incoming.npackets, chunk["reference"], ReferenceNthPut)
  <2>1. chunk'["fast"] = Loop(incoming.npackets, chunk["fast"], NthPut)
    BY DEF ProcessPackets, NthPut, Impls
  <2>2. chunk'["reference"] = Loop(incoming.npackets, chunk["reference"], ReferenceNthPut)
    BY DEF ProcessPackets, ReferenceNthPut, Impls
  <2> QED
    BY <2>1, <2>2
<1>2. PairAlike(Loop(incoming.npackets, chunk["fast"], NthPut),
                Loop(incoming.npackets, chunk["reference"], ReferenceNthPut))
  BY ListPutAlike DEF ShapeInv, ReferenceInv
<1>3. UNCHANGED <<down, stage>>
  BY DEF ProcessPackets
<1>4. PairAlike(chunk'["fast"], chunk'["reference"])
  BY <1>1, <1>2, Zenon
<1> QED
  BY <1>3, <1>4 DEF ReferenceInv, PairAlike, Alike, Numbers, Levels, Near, Averaged, Scaled

LEMMA FillMaskAlike ==
  ASSUME ShapeInv, ReferenceInv, FillMask
  PROVE  ReferenceInv'
<1>1. PICK g \in Halves, m \in RfiMasks :
        chunk' = [impl \in Impls |-> [chunk[impl] EXCEPT ![g].rfi_mask = m, ![g].has_rfi_mask = TRUE]]
  BY DEF FillMask
<1> DEFINE cs == chunk["fast"]
           ds == chunk["reference"]
<1>2. /\ cs = [h \in Halves |-> cs[h]] /\ ds = [h \in Halves |-> ds[h]]
      /\ \A h \in Halves : Alike(cs[h], ds[h], Counted) /\ Numbers(cs[h])
  BY DEF ShapeInv, PairShaped, ReferenceInv, PairAlike
<1>3. /\ chunk'["fast"] = [cs EXCEPT ![g].rfi_mask = m, ![g].has_rfi_mask = TRUE]
      /\ chunk'["reference"] = [ds EXCEPT ![g].rfi_mask = m, ![g].has_rfi_mask = TRUE]
  BY <1>1 DEF Impls
<1> HIDE DEF cs, ds
<1>4. /\ chunk'["fast"] = [h \in Halves |-> IF h = g THEN MaskPut(cs[h], m, TRUE) ELSE cs[h]]
      /\ chunk'["reference"] = [h \in Halves |-> IF h = g THEN MaskPut(ds[h], m, TRUE) ELSE ds[h]]
  BY <1>2, <1>3 DEF MaskPut
<1>5. AreBits(m)
  BY DataPathAssumption DEF AreBits
<1>6. ASSUME NEW h \in Halves
      PROVE  Alike(chunk'["fast"][h], chunk'["reference"][h], Counted) /\ Numbers(chunk'["fast"][h])
  <2>1. CASE h # g
    <3>1. chunk'["fast"][h] = cs[h] /\ chunk'["reference"][h] = ds[h]
      BY <1>4, <2>1
    <3> QED
      BY <1>2, <3>1
  <2>2. CASE h = g
    <3> DEFINE has == TRUE
               x == MaskPut(cs[h], m, has)
               y == MaskPut(ds[h], m, has)
    <3>1. chunk'["fast"][h] = x /\ chunk'["reference"][h] = y
      BY <1>4, <2>2
    <3>2. Alike(cs[h], ds[h], Counted) /\ Numbers(cs[h])
      BY <1>2
    <3>3. x = MaskPut(cs[h], m, has) /\ y = MaskPut(ds[h], m, has)
      OBVIOUS
    <3> HIDE DEF x, y, has
    <3>4. /\ Alike(x, y, Counted) /\ x.rfi_mask = m
          /\ x.scales = cs[h].scales /\ x.offsets = cs[h].offsets /\ x.data = cs[h].data
      BY <3>2, <3>3, MaskFields
    <3>5. Numbers(x)
      BY <1>5, <3>2, <3>4 DEF Numbers
    <3> QED
      BY <3>1, <3>4, <3>5
  <2> QED
    BY <2>1, <2>2
<1>7. chunk'["reference"] = [h \in Halves |-> chunk'["reference"][h]]
  BY <1>4
<1>8. PairAlike(chunk'["fast"], chunk'["reference"])
  BY <1>6, <1>7 DEF PairAlike
<1>9. UNCHANGED <<down, stage>>
  BY DEF FillMask
<1> QED
  BY <1>8, <1>9 DEF ReferenceInv, PairAlike, Alike, Numbers, Levels, Near, Averaged, Scaled

LEMMA DownsampleAlike ==
  ASSUME FastGeometry, ShapeInv, StageInv, ReferenceInv, Downsample
  PROVE  ReferenceInv'
<1> DEFINE Kernels == {Kernel(k, f, h) : k \in 1 .. 3, f \in 0 .. NfreqCoarseTot - 1, h \in Halves}
           c == down["fast"]
           d == down["reference"]
           x == down'["fast"]
           y == down'["reference"]
<1>1. /\ x = RunKernel("fast", stage) /\ y = RunKernel("reference", stage)
      /\ stage' = NextStage(stage) /\ UNCHANGED chunk
      /\ stage \in Kernels \/ stage = Kernel(4, 0, 0)
  BY DEF Downsample, Impls, StageInv
<1>2. /\ Alike(c, d, DownFields) /\ Levels(c) /\ Near(c.data, d.data)
      /\ Shaped(c, BlankChunk(2, FirstIchunk))
      /\ stage.kernel = 2 => Averaged(c)
      /\ stage.kernel = 3 => Scaled(c)
  BY DEF ReferenceInv, ShapeInv
<1>3. \A h \in Halves : /\ Shaped(chunk["fast"][h], BlankChunk(1, FirstIchunk + h))
                        /\ Alike(chunk["fast"][h], chunk["reference"][h], Counted)
                        /\ Numbers(chunk["fast"][h])
  BY DEF ShapeInv, PairShaped, ReferenceInv, PairAlike
<1> HIDE DEF c, d, x, y
<1>4. /\ Alike(x, y, DownFields) /\ Levels(x) /\ Near(x.data, y.data)
      /\ stage'.kernel = 2 => Averaged(x)
      /\ stage'.kernel = 3 => Scaled(x)
  <2>1. CASE stage = Kernel(4, 0, 0)
    <3> DEFINE srcs == chunk["fast"]
               refs == chunk["reference"]
    <3>1. stage.kernel = 4 /\ stage'.kernel = 5
      BY <1>1, <2>1 DEF Kernel, NextStage, Finished
    <3>2. x = RunRfiKernel("fast", c, srcs) /\ y = RunRfiKernel("reference", d, refs)
      BY <1>1, <3>1 DEF RunKernel, c, d
    <3>3. ASSUME NEW h \in Halves
          PROVE  /\ srcs[h].rfi_mask = refs[h].rfi_mask /\ AreBits(srcs[h].rfi_mask)
                 /\ DOMAIN srcs[h].rfi_mask = 0 .. NrfiFreq * NtPerChunk - 1
      <4> DEFINE u == srcs[h]
                 v == refs[h]
      <4>1. Shaped(u, BlankChunk(1, FirstIchunk + h)) /\ Alike(u, v, Counted) /\ Numbers(u)
        BY <1>3
      <4> HIDE DEF u, v
      <4>2. DOMAIN u.rfi_mask = 0 .. NrfiFreq * NtPerChunk - 1
        BY <4>1, Domains
      <4>3. u.rfi_mask = v.rfi_mask
        BY <4>1, SameArrays
      <4>4. AreBits(u.rfi_mask)
        BY <4>1 DEF Numbers
      <4> QED
        BY <4>2, <4>3, <4>4 DEF u, v
    <3> HIDE DEF srcs, refs
    <3>4. /\ Alike(x, y, DownFields) /\ Levels(x) /\ x.data = c.data /\ y.data = d.data
      BY <1>2, <3>2, <3>3, RfiKernelAlike
    <3>5. Near(x.data, y.data)
      BY <1>2, <3>4
    <3> QED
      BY <3>1, <3>4, <3>5
  <2>2. CASE stage \in Kernels
    <3>1. PICK k \in 1 .. 3, f \in 0 .. NfreqCoarseTot - 1, h \in Halves : stage = Kernel(k, f, h)
      BY <2>2
    <3>2. stage.kernel = k /\ stage.freq = f /\ stage.half = h /\ (k = 1 \/ k = 2 \/ k = 3)
      BY <3>1 DEF Kernel
    <3>3. CASE k = 1
      <4> DEFINE src == chunk["fast"][h]
                 ref == chunk["reference"][h]
      <4>1. x = RunKernel1("fast", c, src, f, h) /\ y = RunKernel1("reference", d, ref, f, h)
        BY <1>1, <3>2, <3>3 DEF RunKernel, c, d
      <4>2. Shaped(src, BlankChunk(1, FirstIchunk + h)) /\ Alike(src, ref, Counted) /\ Numbers(src)
        BY <1>3
      <4> HIDE DEF src, ref
      <4>3. /\ Alike(x, y, DownFields) /\ Levels(x) /\ Averaged(x) /\ x.data = c.data /\ y.data = d.data
        BY <1>2, <4>1, <4>2, Kernel1Alike
      <4>4. stage'.kernel = 2
        BY <1>1, <3>2, <3>3 DEF NextStage, Kernel
      <4>5. Near(x.data, y.data)
        BY <1>2, <4>3
      <4> QED
        BY <4>3, <4>4, <4>5
    <3>4. CASE k = 2
      <4>1. x = RunKernel2("fast", c, f, h) /\ y = RunKernel2("reference", d, f, h)
        BY <1>1, <3>2, <3>4 DEF RunKernel, c, d
      <4>2. Averaged(c)
        BY <1>2, <3>2, <3>4
      <4>3. /\ Alike(x, y, DownFields) /\ Levels(x) /\ Scaled(x) /\ x.data = c.data /\ y.data = d.data
        BY <1>2, <4>1, <4>2, Kernel2Alike
      <4>4. stage'.kernel = 3
        BY <1>1, <3>2, <3>4 DEF NextStage, Kernel
      <4>5. Near(x.data, y.data)
        BY <1>2, <4>3
      <4> QED
        BY <4>3, <4>4, <4>5
    <3>5. CASE k = 3
      <4>1. x = RunKernel3("fast", c, f, h) /\ y = RunKernel3("reference", d, f, h)
        BY <1>1, <3>2, <3>5 DEF RunKernel, c, d
      <4>2. Scaled(c)
        BY <1>2, <3>2, <3>5
      <4>3. Alike(x, y, DownFields) /\ Levels(x) /\ Near(x.data, y.data)
        BY <1>2, <4>1, <4>2, Kernel3Alike
      <4>4. stage'.kernel = 1 \/ stage'.kernel = 4
        <5>1. h = 0 \/ h = 1
          BY DEF Halves
        <5>2. f + 1 < NfreqCoarseTot \/ f + 1 = NfreqCoarseTot
          BY Geometry
        <5>3. stage' = Kernel(1, f, 1) \/ stage' = Kernel(1, f + 1, 0) \/ stage' = Kernel(4, 0, 0)
          BY <1>1, <3>2, <3>5, <5>1, <5>2, Geometry DEF NextStage
        <5> QED
          BY <5>3 DEF Kernel
      <4> QED
        BY <4>3, <4>4
    <3> QED
      BY <3>2, <3>3, <3>4, <3>5
  <2> QED
    BY <1>1, <2>1, <2>2
<1>5. PairAlike(chunk'["fast"], chunk'["reference"])
  BY <1>1 DEF ReferenceInv
<1> QED
  BY <1>4, <1>5
  DEF ReferenceInv, PairAlike, Alike, Numbers, Levels, Near, Averaged, Scaled, x, y

LEMMA ReferenceKept ==
  ASSUME FastGeometry, SlotsInv, StageInv, ShapeInv, ReferenceInv, [Next]_vars
  PROVE  ReferenceInv'
<1>1. CASE ProcessPackets
  BY <1>1, ProcessPacketsAlike
<1>2. CASE FillMask
  BY <1>2, FillMaskAlike
<1>3. CASE Downsample
  BY <1>3, DownsampleAlike
<1>4. CASE StartDownsample
  <2>1. UNCHANGED <<chunk, down>> /\ stage'.kernel = 1
    BY <1>4 DEF StartDownsample, Kernel
  <2>2. stage'.kernel # 2 /\ stage'.kernel # 3
    BY <2>1
  <2>3. PairAlike(chunk["fast"], chunk["reference"])'
    BY <2>1 DEF ReferenceInv, PairAlike, Alike, Numbers
  <2>4. /\ Alike(down["fast"], down["reference"], DownFields)'
        /\ Near(down["fast"].data, down["reference"].data)' /\ Levels(down["fast"])'
    BY <2>1 DEF ReferenceInv, Alike, Near, Levels
  <2> QED
    BY <2>2, <2>3, <2>4 DEF ReferenceInv
<1>5. CASE UNCHANGED <<chunk, down, stage>>
  BY <1>5 DEF ReferenceInv, PairAlike, Alike, Numbers, Levels, Near, Averaged, Scaled
<1>6. \/ ProcessPackets \/ FillMask \/ Downsample \/ StartDownsample \/ UNCHANGED <<chunk, down, stage>>
  BY DEF Next, Arrive, StrayArrives, WriteTemp, Rename, ReadFile, Done, vars, listVars, fileVars
<1> QED
  BY <1>1, <1>2, <1>3, <1>4, <1>5, <1>6

LEMMA SameButOf ==
  ASSUME NEW c, NEW d, NEW F, Alike(c, d, F)
  PROVE  /\ F = Counted => SameStored(c, d)
         /\ F = DownFields => SameStored([c EXCEPT !.data = 0], [d EXCEPT !.data = 0])
<1>1. c = [f \in AllFields |-> c[f]] /\ d = [f \in AllFields |-> d[f]]
      /\ \A f \in AllFields \ F : c[f] = d[f]
  BY DEF Alike
<1>2. CASE F = Counted
  <2>1. F = Counted => SameStored(c, d)
    <3> SUFFICES ASSUME F = Counted PROVE [c EXCEPT !.packets_received = 0] = [d EXCEPT !.packets_received = 0]
      BY DEF SameStored
    <3> QED
      BY <1>1, FieldNames DEF Counted
  <2>2. F # DownFields
    BY <1>2 DEF Counted, DownFields
  <2> QED
    BY <2>1, <2>2
<1>3. CASE F = DownFields
  <2>1. F = DownFields => SameStored([c EXCEPT !.data = 0], [d EXCEPT !.data = 0])
    <3> SUFFICES ASSUME F = DownFields
                 PROVE  [[c EXCEPT !.data = 0] EXCEPT !.packets_received = 0]
                          = [[d EXCEPT !.data = 0] EXCEPT !.packets_received = 0]
      BY DEF SameStored
    <3> QED
      BY <1>1, FieldNames DEF DownFields
  <2>2. F # Counted
    BY <1>3 DEF Counted, DownFields
  <2> QED
    BY <2>1, <2>2
<1> QED
  BY <1>2, <1>3

LEMMA StoresAreAlike ==
  ASSUME ReferenceInv
  PROVE  StoresAlike
<1>1. \A h \in Halves : SameStored(chunk["fast"][h], chunk["reference"][h])
  BY SameButOf DEF ReferenceInv, PairAlike
<1>2. SameStored([down["fast"] EXCEPT !.data = 0], [down["reference"] EXCEPT !.data = 0])
  BY SameButOf DEF ReferenceInv
<1>3. \A i \in DOMAIN down["fast"].data : Distance(down["fast"].data[i], down["reference"].data[i]) <= 1
  BY DEF ReferenceInv, Near
<1> QED
  BY <1>1, <1>2, <1>3 DEF StoresAlike

LEMMA DecodesAreAlike ==
  ASSUME FastGeometry, ShapeInv
  PROVE  DecodesAlike
<1> SUFFICES ASSUME NEW c \in {chunk["fast"][1], down["fast"]}
             PROVE  /\ \A prescale \in 1 .. 2 : FastDecodedChunk(c, prescale) = DecodedChunk(c, prescale)
                    /\ \A t0 \in {0, NtPerPacket - 1}, fine \in FineChannels,
                          i \in 0 .. (NtPerChunk \div 2) - 1 :
                         DecodedSubset(c, t0, NtPerChunk \div 2)[fine][i] = DecodedChunk(c, 1)[fine][t0 + i]
  BY DEF DecodesAlike
<1>1. NtPerPacket = 16 /\ NtPerChunk % 256 = 0 /\ NtPerChunk \in Nat \ {0} /\ Nupfreq \in Nat \ {0}
  BY Geometry DEF FastGeometry
<1>2. c.nt_per_packet = 16 /\ c.nupfreq = Nupfreq
  <2>1. \E binning, ichunk : Shaped(c, BlankChunk(binning, ichunk))
    BY DEF ShapeInv, PairShaped, Halves
  <2>2. \A binning, ichunk : BlankChunk(binning, ichunk).nt_per_packet = NtPerPacket
                             /\ BlankChunk(binning, ichunk).nupfreq = Nupfreq
    BY DEF BlankChunk, NewChunk
  <2> QED
    BY <1>1, <2>1, <2>2 DEF Shaped, HeaderFields
<1>3. \A prescale \in 1 .. 2 : FastDecodedChunk(c, prescale) = DecodedChunk(c, prescale)
  BY <1>1, <1>2, FastDecodes
<1>4. ASSUME NEW t0 \in {0, NtPerPacket - 1}, NEW fine \in FineChannels,
             NEW i \in 0 .. (NtPerChunk \div 2) - 1
      PROVE  DecodedSubset(c, t0, NtPerChunk \div 2)[fine][i] = DecodedChunk(c, 1)[fine][t0 + i]
  <2>1. t0 + i \in 0 .. NtPerChunk - 1
    BY <1>1
  <2>2. fine \in 0 .. NfreqCoarseTot * c.nupfreq - 1
    BY <1>2 DEF FineChannels
  <2> QED
    BY <2>1, <2>2 DEF DecodedSubset, DecodedChunk
<1> QED
  BY <1>3, <1>4

(* What fast_assembled_chunk stores, downsamples and decodes is what       *)
(* assembled_chunk does, for every stream and every order of the packets,  *)
(* with the geometry that the fast class is used for: only a downsampled   *)
(* level half-way between two bytes may be rounded to the other one.       *)
THEOREM FastAndReferenceAgree ==
  ASSUME FastGeometry
  PROVE  Spec => []FastIsReference
<1> DEFINE IInv == SlotsInv /\ StageInv /\ ShapeInv /\ ReferenceInv
<1>1. Init => IInv
  <2> SUFFICES ASSUME Init PROVE IInv
    OBVIOUS
  <2>1. SlotsInv
    BY DataPathAssumption DEF Init, SlotsInv, List!Empty
  <2>2. StageInv
    BY DEF Init, StageInv
  <2>3. ShapeInv
    BY BlankIsShaped DEF Init, ShapeInv, PairShaped, Impls
  <2>4. ReferenceInv
    BY ReferenceInit
  <2> QED
    BY <2>1, <2>2, <2>3, <2>4
<1>2. IInv /\ [Next]_vars => IInv'
  BY SlotsKept, StageKept, ShapeKept, ReferenceKept
<1>3. IInv => FastIsReference
  BY StoresAreAlike, DecodesAreAlike DEF FastIsReference
<1> HIDE DEF IInv
<1> QED
  BY <1>1, <1>2, <1>3, PTL DEF Spec
(* The place in the data of sample t of row u of coarse channel F.         *)
At(F, u, t) == (F * Nupfreq + u) * NtPerChunk + t

LEMMA AtIsPlace ==
  ASSUME NEW F \in 0 .. NfreqCoarseTot - 1, NEW u \in 0 .. Nupfreq - 1, NEW t \in 0 .. NtPerChunk - 1
  PROVE  /\ At(F, u, t) \in 0 .. NfreqCoarseTot * Nupfreq * NtPerChunk - 1
         /\ F * Nupfreq + u \in 0 .. NfreqCoarseTot * Nupfreq - 1
<1> DEFINE x == F * Nupfreq + u
           m == NfreqCoarseTot * Nupfreq
<1>1. /\ Nupfreq \in Nat \ {0} /\ NtPerChunk \in Nat \ {0} /\ NfreqCoarseTot \in Nat \ {0}
      /\ F \in 0 .. NfreqCoarseTot - 1 /\ u \in 0 .. Nupfreq - 1
  BY Geometry
<1>2. x \in 0 .. m - 1
  BY <1>1, InRow
<1>3. m \in Nat
  BY <1>1
<1> HIDE DEF x, m
<1>4. x * NtPerChunk + t \in 0 .. m * NtPerChunk - 1
  BY <1>1, <1>2, <1>3, InRow
<1> QED
  BY <1>2, <1>4 DEF At, x, m

LEMMA SameRow ==
  ASSUME NEW H \in Nat \ {0}, NEW u \in Nat, NEW r \in 0 .. H - 1, NEW v \in Nat, NEW s \in 0 .. H - 1,
         u * H + r = v * H + s
  PROVE  u = v /\ r = s
<1>1. (u * H + r) \div H = u /\ (u * H + r) % H = r
  BY RowOf
<1>2. (v * H + s) \div H = v /\ (v * H + s) % H = s
  BY RowOf
<1> QED
  BY <1>1, <1>2, Zenon

LEMMA SamePlace ==
  ASSUME NEW F \in Nat, NEW u \in 0 .. Nupfreq - 1, NEW t \in 0 .. NtPerChunk - 1,
         NEW G \in Nat, NEW v \in 0 .. Nupfreq - 1, NEW s \in 0 .. NtPerChunk - 1,
         At(F, u, t) = At(G, v, s)
  PROVE  F = G /\ u = v /\ t = s
<1> DEFINE x == F * Nupfreq + u
           y == G * Nupfreq + v
<1>1. Nupfreq \in Nat \ {0} /\ NtPerChunk \in Nat \ {0}
  BY Geometry
<1>2. x \in Nat /\ y \in Nat
  BY <1>1
<1>3. x * NtPerChunk + t = y * NtPerChunk + s
  BY DEF At
<1> HIDE DEF x, y
<1>4. x = y /\ t = s
  BY <1>1, <1>2, <1>3, SameRow
<1>5. F * Nupfreq + u = G * Nupfreq + v
  BY <1>4 DEF x, y
<1>6. F = G /\ u = v
  BY <1>1, <1>5, SameRow
<1> QED
  BY <1>4, <1>6

(* A row of a packet goes where it belongs, and nothing else changes.      *)
RowPut(new, dst, freq, u, t0, src, f, F, v, t) ==
  new[At(F, v, t)] = IF F = freq /\ v = u /\ t \in t0 .. t0 + 15
                     THEN src[(f * Nupfreq + u) * 16 + (t - t0)] ELSE dst[At(F, v, t)]

LEMMA RowIsCopied ==
  ASSUME NEW dst, DOMAIN dst = 0 .. NfreqCoarseTot * Nupfreq * NtPerChunk - 1,
         NEW freq \in 0 .. NfreqCoarseTot - 1, NEW u \in 0 .. Nupfreq - 1,
         NEW t0 \in 0 .. NtPerChunk - 16, NEW src, NEW f \in Nat,
         NEW F \in 0 .. NfreqCoarseTot - 1, NEW v \in 0 .. Nupfreq - 1, NEW t \in 0 .. NtPerChunk - 1
  PROVE  RowPut(RowCopied(dst, u, freq, Nupfreq, t0, src, f), dst, freq, u, t0, src, f, F, v, t)
<1> SUFFICES RowCopied(dst, u, freq, Nupfreq, t0, src, f)[At(F, v, t)] =
               IF F = freq /\ v = u /\ t \in t0 .. t0 + 15
               THEN src[(f * Nupfreq + u) * 16 + (t - t0)] ELSE dst[At(F, v, t)]
  BY DEF RowPut
<1> DEFINE at == At(freq, u, t0)
           from == (f * Nupfreq + u) * 16
           i == At(F, v, t)
<1>1. Nupfreq \in Nat \ {0} /\ NtPerChunk \in Nat \ {0} /\ t0 \in 0 .. NtPerChunk - 1
      /\ t0 \in Nat /\ t \in Nat /\ F \in Nat /\ freq \in Nat
  BY Geometry
<1>2. i \in DOMAIN dst /\ i \in Nat /\ at \in Nat
  <2>1. i \in 0 .. NfreqCoarseTot * Nupfreq * NtPerChunk - 1
    BY AtIsPlace
  <2>2. at \in 0 .. NfreqCoarseTot * Nupfreq * NtPerChunk - 1
    BY <1>1, AtIsPlace
  <2> HIDE DEF i, at
  <2> QED
    BY <2>1, <2>2
<1>3. from \in Nat
  <2>1. f * Nupfreq \in Nat
    BY <1>1
  <2> QED
    BY <2>1
<1>4. RowCopied(dst, u, freq, Nupfreq, t0, src, f)[i] =
        IF i \in at .. at + 16 - 1 THEN src[from + i - at] ELSE dst[i]
  <2>1. RowCopied(dst, u, freq, Nupfreq, t0, src, f) = Memcpy(dst, at, src, from, 16)
    BY Zenon DEF RowCopied, At
  <2> HIDE DEF at, from, i
  <2> QED
    BY <1>2, <2>1 DEF Memcpy
<1>5. CASE F = freq /\ v = u /\ t \in t0 .. t0 + 15
  <2>1. i = at + (t - t0) /\ from + i - at = from + (t - t0)
    <3> DEFINE z == (freq * Nupfreq + u) * NtPerChunk
    <3>1. i = z + t /\ at = z + t0
      BY <1>5 DEF At
    <3>2. z \in Nat
      <4>1. freq * Nupfreq + u \in Nat
        BY <1>1
      <4> QED
        BY <1>1, <4>1
    <3> HIDE DEF z, i, at, from
    <3> QED
      BY <1>1, <1>3, <3>1, <3>2
  <2> HIDE DEF i, at, from
  <2>2. i \in at .. at + 16 - 1
    BY <1>1, <1>2, <1>5, <2>1
  <2> QED
    BY <1>4, <1>5, <2>1, <2>2 DEF i, from
<1>6. CASE ~(F = freq /\ v = u /\ t \in t0 .. t0 + 15)
  <2>1. ASSUME i \in at .. at + 16 - 1 PROVE FALSE
    <3> DEFINE s == t0 + (i - at)
               z == (freq * Nupfreq + u) * NtPerChunk
    <3>1. i - at \in 0 .. 15
      <4>1. i \in Nat /\ at \in Nat /\ i \in at .. at + 16 - 1
        BY <1>2, <2>1
      <4> HIDE DEF i, at
      <4> QED
        BY <4>1
    <3>2. s \in 0 .. NtPerChunk - 1 /\ s \in t0 .. t0 + 15
      <4> DEFINE d == i - at
      <4>1. d \in 0 .. 15 /\ s = t0 + d
        BY <3>1
      <4> HIDE DEF d, s
      <4> QED
        BY <1>1, <4>1
    <3>3. At(freq, u, s) = i
      <4>1. at = z + t0 /\ At(freq, u, s) = z + s
        BY DEF At
      <4>2. z \in Nat
        <5>1. freq * Nupfreq + u \in Nat
          BY <1>1
        <5> QED
          BY <1>1, <5>1
      <4> HIDE DEF z, i, at
      <4> QED
        BY <1>1, <1>2, <4>1, <4>2
    <3> HIDE DEF s
    <3>4. F = freq /\ v = u /\ t = s
      BY <1>1, <3>2, <3>3, SamePlace
    <3> QED
      BY <1>6, <3>2, <3>4
  <2> HIDE DEF i, at, from
  <2> QED
    BY <1>4, <1>6, <2>1 DEF i
<1> QED
  BY <1>5, <1>6

(* The rows of a coarse channel of a packet, one after the other.          *)
RowsPut(new, dst, freq, t0, src, f, F, v, t) ==
  new[At(F, v, t)] = IF F = freq /\ t \in t0 .. t0 + 15
                     THEN src[(f * Nupfreq + v) * 16 + (t - t0)] ELSE dst[At(F, v, t)]

AllRows(dst, freq, t0, src, f) ==
  Loop(Nupfreq, dst, LAMBDA data, u : RowCopied(data, u, freq, Nupfreq, t0, src, f))

LEMMA RowsAreCopied ==
  ASSUME NEW dst, DOMAIN dst = 0 .. NfreqCoarseTot * Nupfreq * NtPerChunk - 1,
         NEW freq \in 0 .. NfreqCoarseTot - 1, NEW t0 \in 0 .. NtPerChunk - 16, NEW src, NEW f \in Nat,
         NEW F \in 0 .. NfreqCoarseTot - 1, NEW v \in 0 .. Nupfreq - 1, NEW t \in 0 .. NtPerChunk - 1
  PROVE  RowsPut(AllRows(dst, freq, t0, src, f), dst, freq, t0, src, f, F, v, t)
<1> DEFINE step(r, k) == IF k = 0 THEN dst ELSE RowCopied(r[k - 1], k - 1, freq, Nupfreq, t0, src, f)
           S == {n \in Nat : \E r : r = [k \in 0 .. n |-> step(r, k)]}
           n == Nupfreq
           after == CHOOSE r : r = [k \in 0 .. n |-> step(r, k)]
           D == 0 .. NfreqCoarseTot * Nupfreq * NtPerChunk - 1
           i == At(F, v, t)
           new == src[(f * Nupfreq + v) * 16 + (t - t0)]
           hit == F = freq /\ t \in t0 .. t0 + 15
           T == {k \in Nat : k <= n => /\ DOMAIN after[k] = D
                                       /\ after[k][i] = IF hit /\ v < k THEN new ELSE dst[i]}
<1>1. AllRows(dst, freq, t0, src, f) = after[n]
  BY DEF Loop, AllRows
<1>2. 0 \in S
  <2> DEFINE r0 == [k \in 0 .. 0 |-> dst]
  <2>1. r0 = [k \in 0 .. 0 |-> step(r0, k)]
    OBVIOUS
  <2> QED
    BY <2>1
<1>3. ASSUME NEW m \in Nat, m \in S PROVE m + 1 \in S
  <2>1. PICK r : r = [k \in 0 .. m |-> step(r, k)]
    BY <1>3
  <2> DEFINE g == [k \in 0 .. m + 1 |-> IF k <= m THEN r[k] ELSE step(r, k)]
  <2>2. ASSUME NEW k \in 0 .. m + 1 PROVE g[k] = step(g, k)
    <3>1. step(g, k) = step(r, k)
      OBVIOUS
    <3>2. k <= m => r[k] = step(r, k)
      <4>1. k <= m => k \in 0 .. m
        OBVIOUS
      <4> QED
        BY <2>1, <4>1, Zenon
    <3> QED
      BY <3>1, <3>2
  <2>3. g = [k \in 0 .. m + 1 |-> step(g, k)]
    BY <2>2, Zenon
  <2> HIDE DEF g, step
  <2> QED
    BY <2>3
<1>4. n \in Nat
  BY Geometry
<1>5. n \in S
  BY <1>2, <1>3, <1>4, NatSetInduction
<1>6. \A k \in 0 .. n : after[k] = step(after, k)
  <2>1. after = [k \in 0 .. n |-> step(after, k)]
    BY <1>5, Zenon
  <2> QED
    BY <2>1, Zenon
<1> HIDE DEF after, S, i, new, hit, D
<1>7. 0 \in T
  <2>1. 0 \in 0 .. n /\ ~(v < 0)
    BY <1>4
  <2>2. after[0] = dst
    BY <1>6, <2>1
  <2> QED
    BY <2>1, <2>2 DEF D
<1>8. ASSUME NEW k \in Nat, k \in T PROVE k + 1 \in T
  <2> SUFFICES ASSUME k + 1 <= n
               PROVE  /\ DOMAIN after[k + 1] = D
                      /\ after[k + 1][i] = IF hit /\ v < k + 1 THEN new ELSE dst[i]
    OBVIOUS
  <2>1. /\ DOMAIN after[k] = D /\ after[k][i] = IF hit /\ v < k THEN new ELSE dst[i]
        /\ k + 1 \in 0 .. n /\ k + 1 # 0 /\ (k + 1) - 1 = k /\ k \in 0 .. Nupfreq - 1
    BY <1>4, <1>8
  <2> DEFINE x == after[k]
  <2>2. after[k + 1] = RowCopied(x, k, freq, Nupfreq, t0, src, f)
    BY <1>6, <2>1
  <2> HIDE DEF x
  <2>3. DOMAIN x = D
    BY <2>1 DEF x
  <2>4. DOMAIN RowCopied(x, k, freq, Nupfreq, t0, src, f) = D
    BY <2>3 DEF RowCopied, Memcpy
  <2>5. RowPut(RowCopied(x, k, freq, Nupfreq, t0, src, f), x, freq, k, t0, src, f, F, v, t)
    <3>1. DOMAIN x = 0 .. NfreqCoarseTot * Nupfreq * NtPerChunk - 1 /\ k \in 0 .. Nupfreq - 1
      BY <2>1, <2>3 DEF D
    <3> QED
      BY <3>1, RowIsCopied
  <2>6. after[k + 1][i] = IF hit /\ v = k THEN new ELSE x[i]
    <3>1. after[k + 1][i] = IF F = freq /\ v = k /\ t \in t0 .. t0 + 15
                            THEN src[(f * Nupfreq + k) * 16 + (t - t0)] ELSE x[i]
      BY <2>2, <2>5 DEF RowPut, i
    <3> QED
      BY <3>1, Zenon DEF hit, new
  <2>7. v < k + 1 <=> v < k \/ v = k
    OBVIOUS
  <2> QED
    BY <2>1, <2>2, <2>4, <2>6, <2>7 DEF x
<1>9. n \in T
  BY <1>4, <1>7, <1>8, NatSetInduction
<1>10. after[n][i] = IF hit THEN new ELSE dst[i]
  <2>1. n <= n /\ v < n
    BY <1>4
  <2> QED
    BY <1>9, <2>1
<1> QED
  BY <1>1, <1>10, Zenon DEF i, new, hit, RowsPut
-----------------------------------------------------------------------------
(* What the samples of coarse channel F in slot j of a chunk are decoded   *)
(* from: a block as encode() makes it.                                     *)
Holds(c, F, j, b) ==
  /\ c.scales[F * SlotsPerChunk + j] = b.scale
  /\ c.offsets[F * SlotsPerChunk + j] = b.offset
  /\ \A u \in 0 .. Nupfreq - 1, r \in 0 .. 15 : c.data[At(F, u, 16 * j + r)] = b.bytes[u * 16 + r]

(* Coarse channel f of a packet of one beam. *)
PacketBlock(p, f) ==
  [scale |-> p.scales[f], offset |-> p.offsets[f],
   bytes |-> [k \in 0 .. PerBlock - 1 |-> p.data[f * Nupfreq * 16 + k]]]

Channels == 0 .. NfreqCoarseTot - 1
ChunkSlots == 0 .. SlotsPerChunk - 1

LEMMA SlotsOfChunk ==
  ASSUME FastGeometry
  PROVE  /\ SlotsPerChunk \in Nat \ {0} /\ NtPerChunk = 16 * SlotsPerChunk
         /\ PerBlock = Nupfreq * 16 /\ NtPerPacket = 16
<1>1. NtPerChunk \in Nat \ {0} /\ NtPerChunk % 256 = 0 /\ NtPerPacket = 16 /\ Nupfreq \in Nat
  BY Geometry DEF FastGeometry
<1> QED
  BY <1>1 DEF SlotsPerChunk, PerBlock

LEMMA SampleOfSlot ==
  ASSUME FastGeometry, NEW j \in ChunkSlots, NEW r \in 0 .. 15
  PROVE  16 * j + r \in 0 .. NtPerChunk - 1 /\ 16 * j \in 0 .. NtPerChunk - 16
BY SlotsOfChunk DEF ChunkSlots

(* The level of a slot changes with no other. *)
LevelSet(a, F, j, x) == [a EXCEPT ![F * SlotsPerChunk + j] = x]

LEMMA LevelReplaced ==
  ASSUME FastGeometry, NEW a, DOMAIN a = 0 .. NfreqCoarseTot * SlotsPerChunk - 1,
         NEW freq \in Channels, NEW place \in ChunkSlots, NEW x,
         NEW F \in Channels, NEW j \in ChunkSlots
  PROVE  LevelSet(a, freq, place, x)[F * SlotsPerChunk + j] =
           IF F = freq /\ j = place THEN x ELSE a[F * SlotsPerChunk + j]
<1>1. SlotsPerChunk \in Nat \ {0} /\ NfreqCoarseTot \in Nat
  BY SlotsOfChunk, Geometry
<1>2. F * SlotsPerChunk + j \in 0 .. NfreqCoarseTot * SlotsPerChunk - 1
  BY <1>1, InRow DEF Channels, ChunkSlots
<1>3. freq * SlotsPerChunk + place = F * SlotsPerChunk + j => F = freq /\ j = place
  <2> SUFFICES ASSUME freq * SlotsPerChunk + place = F * SlotsPerChunk + j
               PROVE  F = freq /\ j = place
    OBVIOUS
  <2>1. freq \in Nat /\ F \in Nat
    BY <1>1 DEF Channels
  <2>2. place \in 0 .. SlotsPerChunk - 1 /\ j \in 0 .. SlotsPerChunk - 1
    BY DEF ChunkSlots
  <2>3. freq = F /\ place = j
    BY <1>1, <2>1, <2>2, SameRow
  <2> QED
    BY <2>3
<1> DEFINE k == freq * SlotsPerChunk + place
           l == F * SlotsPerChunk + j
<1>4. l \in DOMAIN a
  BY <1>2
<1>5. k = l <=> F = freq /\ j = place
  BY <1>3
<1> HIDE DEF k, l
<1>6. [a EXCEPT ![k] = x][l] = IF F = freq /\ j = place THEN x ELSE a[l]
  BY <1>4, <1>5
<1> QED
  BY <1>6 DEF k, l, LevelSet

(* The chunk of one beam of the pair. *)
OfBeam(c, h) == Shaped(c, BlankChunk(1, FirstIchunk + h))

LEMMA BeamFields ==
  ASSUME FastGeometry, NEW h, NEW c, OfBeam(c, h)
  PROVE  /\ c.nupfreq = Nupfreq /\ c.nt_per_packet = 16 /\ NtCoarse(c) = SlotsPerChunk
         /\ c.ichunk = FirstIchunk + h /\ c.fpga_counts_per_sample = FpgaPerSample
         /\ c = [f \in AllFields |-> c[f]]
         /\ DOMAIN c.data = 0 .. NfreqCoarseTot * Nupfreq * NtPerChunk - 1
         /\ DOMAIN c.scales = 0 .. NfreqCoarseTot * SlotsPerChunk - 1
         /\ DOMAIN c.offsets = 0 .. NfreqCoarseTot * SlotsPerChunk - 1
<1>1. Shaped(c, BlankChunk(1, FirstIchunk + h))
  BY DEF OfBeam
<1>2. /\ c.nupfreq = Nupfreq /\ c.nt_per_packet = NtPerPacket /\ c.ichunk = FirstIchunk + h
      /\ c.fpga_counts_per_sample = FpgaPerSample
  BY <1>1 DEF Shaped, HeaderFields, BlankChunk, NewChunk
<1>3. NtPerPacket = 16
  BY DEF FastGeometry
<1>4. NtCoarse(c) = SlotsPerChunk
  BY <1>2 DEF NtCoarse, SlotsPerChunk
<1>5. c = [f \in AllFields |-> c[f]]
  BY <1>1 DEF Shaped, AllFields
<1>6. /\ DOMAIN c.data = 0 .. NfreqCoarseTot * Nupfreq * NtPerChunk - 1
      /\ DOMAIN c.scales = 0 .. NfreqCoarseTot * SlotsPerChunk - 1
      /\ DOMAIN c.offsets = 0 .. NfreqCoarseTot * SlotsPerChunk - 1
  BY <1>1, Domains
<1> QED
  BY <1>2, <1>3, <1>4, <1>5, <1>6, Zenon

(* Of a chunk, add_packet() changes what it should for channel f of the    *)
(* packet and nothing else.                                                *)
LEMMA FreqIsCopied ==
  ASSUME FastGeometry, NEW h, NEW c, OfBeam(c, h), NEW a, OfBeam(a, h), NEW p, NEW f \in Nat,
         p.coarse_freq_ids[f] \in Channels, NEW place \in ChunkSlots, PlaceInChunk(c, p) = 16 * place,
         NEW F \in Channels, NEW j \in ChunkSlots
  PROVE  /\ F = p.coarse_freq_ids[f] /\ j = place => Holds(FreqCopied(c, a, p, f), F, j, PacketBlock(p, f))
         /\ ~(F = p.coarse_freq_ids[f] /\ j = place) =>
              \A b : Holds(a, F, j, b) => Holds(FreqCopied(c, a, p, f), F, j, b)
<1> DEFINE freq == p.coarse_freq_ids[f]
           t0 == 16 * place
           x == WithScales(a, p, f)
           d == freq * SlotsPerChunk + place
           rows == AllRows(a.data, freq, t0, p.data, f)
           new == FreqCopied(c, a, p, f)
<1>1. /\ c.nupfreq = Nupfreq /\ c.nt_per_packet = 16 /\ NtCoarse(c) = SlotsPerChunk
      /\ c.ichunk = FirstIchunk + h /\ c.fpga_counts_per_sample = FpgaPerSample
  BY BeamFields
<1>2. /\ a.nupfreq = Nupfreq /\ a.nt_per_packet = 16 /\ NtCoarse(a) = SlotsPerChunk
      /\ a.ichunk = FirstIchunk + h /\ a.fpga_counts_per_sample = FpgaPerSample
      /\ a = [g \in AllFields |-> a[g]]
  BY BeamFields
<1>3. PlaceInChunk(a, p) = t0
  <2>1. PlaceInChunk(a, p) = PlaceInChunk(c, p)
    BY <1>1, <1>2, Zenon DEF PlaceInChunk, isample
  <2> QED
    BY <2>1
<1>4. place \in Nat /\ t0 \div 16 = place /\ t0 \in 0 .. NtPerChunk - 16 /\ t0 \in Nat
  <2>1. place \in Nat
    BY SlotsOfChunk DEF ChunkSlots
  <2>2. t0 \in 0 .. NtPerChunk - 16
    <3>1. 0 \in 0 .. 15
      OBVIOUS
    <3> QED
      BY <3>1, SampleOfSlot
  <2> QED
    BY <2>1, <2>2
<1>5. x = [a EXCEPT !.scales[d] = p.scales[f], !.offsets[d] = p.offsets[f]]
  <2>1. freq * NtCoarse(a) + (PlaceInChunk(a, p) \div a.nt_per_packet) = d
    BY <1>2, <1>3, <1>4
  <2> HIDE DEF d
  <2> QED
    BY <2>1 DEF WithScales
<1>6. /\ x.scales = [a.scales EXCEPT ![d] = p.scales[f]]
      /\ x.offsets = [a.offsets EXCEPT ![d] = p.offsets[f]]
      /\ x.data = a.data
      /\ DOMAIN x = AllFields
  <2> HIDE DEF d, x
  <2> QED
    BY <1>2, <1>5, FieldNames
<1>7. new = [x EXCEPT !.data = rows]
  <2>1. new = [x EXCEPT !.data = AddPacketKernel(x.data, freq * Nupfreq * NtPerChunk + t0, p.data,
                                                 f * Nupfreq * 16, Nupfreq)]
    BY <1>1, <1>6, FieldNames DEF FreqCopied
  <2>2. AddPacketKernel(a.data, freq * Nupfreq * NtPerChunk + t0, p.data, f * Nupfreq * 16, Nupfreq) = rows
    <3>1. freq \in Nat /\ Nupfreq \in Nat /\ Nupfreq % 2 = 0
      BY Geometry DEF Channels, FastGeometry
    <3> HIDE DEF freq, t0, rows
    <3> DEFINE dst == a.data
               src == p.data
               n == Nupfreq
    <3> HIDE DEF dst, src, n
    <3>2. n \in Nat /\ n % 2 = 0
      BY <3>1 DEF n
    <3>3. /\ AddPacketKernel(dst, freq * n * NtPerChunk + t0, src, f * n * 16, n)
              = Loop(n, dst, LAMBDA data, u : RowCopied(data, u, freq, n, t0, src, f))
          /\ Ints(dst) /\ (\A k \in 0 .. 16 * n - 1 : src[f * n * 16 + k] \in Int) =>
               Ints(AddPacketKernel(dst, freq * n * NtPerChunk + t0, src, f * n * 16, n))
      BY <1>4, <3>1, <3>2, RowsAlike, Zenon
    <3> QED
      BY <3>3, Zenon DEF dst, src, n, rows, AllRows
  <2> HIDE DEF new, x, rows, t0
  <2> QED
    BY <1>6, <2>1, <2>2
<1> HIDE DEF x, d, rows, new
<1>8. new.scales = x.scales /\ new.offsets = x.offsets /\ new.data = rows
  BY <1>6, <1>7, FieldNames
<1>9. /\ DOMAIN a.data = 0 .. NfreqCoarseTot * Nupfreq * NtPerChunk - 1
      /\ DOMAIN a.scales = 0 .. NfreqCoarseTot * SlotsPerChunk - 1
      /\ DOMAIN a.offsets = 0 .. NfreqCoarseTot * SlotsPerChunk - 1
  BY BeamFields
<1>10. /\ new.scales[F * SlotsPerChunk + j] = IF F = freq /\ j = place THEN p.scales[f]
                                              ELSE a.scales[F * SlotsPerChunk + j]
       /\ new.offsets[F * SlotsPerChunk + j] = IF F = freq /\ j = place THEN p.offsets[f]
                                               ELSE a.offsets[F * SlotsPerChunk + j]
  <2>1. x.scales = LevelSet(a.scales, freq, place, p.scales[f])
        /\ x.offsets = LevelSet(a.offsets, freq, place, p.offsets[f])
    BY <1>6, Zenon DEF d, LevelSet
  <2> HIDE DEF freq
  <2>2. freq \in Channels
    BY DEF freq
  <2>3. LevelSet(a.scales, freq, place, p.scales[f])[F * SlotsPerChunk + j] =
          IF F = freq /\ j = place THEN p.scales[f] ELSE a.scales[F * SlotsPerChunk + j]
    BY <1>9, <2>2, LevelReplaced
  <2>4. LevelSet(a.offsets, freq, place, p.offsets[f])[F * SlotsPerChunk + j] =
          IF F = freq /\ j = place THEN p.offsets[f] ELSE a.offsets[F * SlotsPerChunk + j]
    BY <1>9, <2>2, LevelReplaced
  <2> QED
    BY <1>8, <2>1, <2>3, <2>4, Zenon
<1>11. ASSUME NEW u \in 0 .. Nupfreq - 1, NEW r \in 0 .. 15
       PROVE  new.data[At(F, u, 16 * j + r)] =
                IF F = freq /\ j = place THEN p.data[f * Nupfreq * 16 + (u * 16 + r)]
                ELSE a.data[At(F, u, 16 * j + r)]
  <2> DEFINE t == 16 * j + r
             s == (f * Nupfreq + u) * 16 + (t - t0)
  <2>1. t \in 0 .. NtPerChunk - 1 /\ j \in Nat
    BY SampleOfSlot, SlotsOfChunk DEF ChunkSlots
  <2>2. t \in t0 .. t0 + 15 <=> j = place
    BY <1>4, <2>1
  <2>3. j = place => s = f * Nupfreq * 16 + (u * 16 + r)
    <3> SUFFICES ASSUME j = place PROVE s = f * Nupfreq * 16 + (u * 16 + r)
      OBVIOUS
    <3>1. t - t0 = r
      BY <1>4
    <3> DEFINE y == f * Nupfreq
    <3>2. y \in Nat /\ u \in Nat
      BY Geometry
    <3> HIDE DEF y
    <3>3. (y + u) * 16 + r = y * 16 + (u * 16 + r)
      BY <3>2
    <3> QED
      BY <3>1, <3>3 DEF y
  <2> HIDE DEF t, s
  <2>4. rows[At(F, u, t)] = IF F = freq /\ t \in t0 .. t0 + 15 THEN p.data[s] ELSE a.data[At(F, u, t)]
    <3>1. freq \in 0 .. NfreqCoarseTot - 1 /\ F \in 0 .. NfreqCoarseTot - 1
      BY DEF Channels
    <3> HIDE DEF freq, t0, rows
    <3>2. RowsPut(AllRows(a.data, freq, t0, p.data, f), a.data, freq, t0, p.data, f, F, u, t)
      BY <1>4, <1>9, <2>1, <3>1, RowsAreCopied
    <3> QED
      BY <3>2, Zenon DEF rows, s, RowsPut
  <2> QED
    BY <1>8, <2>2, <2>3, <2>4, Zenon DEF t
<1> HIDE DEF t0
<1>12. CASE F = freq /\ j = place
  <2>1. ASSUME NEW u \in 0 .. Nupfreq - 1, NEW r \in 0 .. 15
        PROVE  new.data[At(F, u, 16 * j + r)] = PacketBlock(p, f).bytes[u * 16 + r]
    <3>1. u * 16 + r \in 0 .. PerBlock - 1
      <4>1. Nupfreq \in Nat /\ PerBlock = Nupfreq * 16
        BY SlotsOfChunk, Geometry
      <4> QED
        BY <4>1
    <3>2. PacketBlock(p, f).bytes[u * 16 + r] = p.data[f * Nupfreq * 16 + (u * 16 + r)]
      BY <3>1 DEF PacketBlock
    <3> QED
      BY <1>11, <1>12, <3>2
  <2>2. PacketBlock(p, f).scale = p.scales[f] /\ PacketBlock(p, f).offset = p.offsets[f]
    BY DEF PacketBlock
  <2>3. Holds(new, F, j, PacketBlock(p, f))
    <3> HIDE DEF freq
    <3> QED
      BY <1>10, <1>12, <2>1, <2>2, Zenon DEF Holds
  <2> QED
    BY <1>12, <2>3 DEF new
<1>13. CASE ~(F = freq /\ j = place)
  <2>1. ASSUME NEW b, Holds(a, F, j, b) PROVE Holds(new, F, j, b)
    <3> HIDE DEF freq
    <3>1. \A u \in 0 .. Nupfreq - 1, r \in 0 .. 15 :
            new.data[At(F, u, 16 * j + r)] = a.data[At(F, u, 16 * j + r)]
      BY <1>11, <1>13, Zenon
    <3> QED
      BY <1>10, <1>13, <2>1, <3>1, Zenon DEF Holds
  <2> QED
    BY <1>13, <2>1 DEF new
<1> QED
  BY <1>12, <1>13
(* A packet of one beam fills the slot of its time in the channels it is   *)
(* of, and no two of its channels are the same.                            *)
ChannelOf(F, f) == F = CoarseFreqIds[f]

LEMMA SenderIs ==
  /\ DOMAIN CoarseFreqIds = 0 .. NumFreqs - 1 /\ DOMAIN BeamIds = 0 .. NumBeams - 1
  /\ NumFreqs > 0 /\ NumBeams > 0
  /\ \A f \in 0 .. NumFreqs - 1 : CoarseFreqIds[f] \in Channels
  /\ \A f, g \in 0 .. NumFreqs - 1 : CoarseFreqIds[f] = CoarseFreqIds[g] => f = g
  /\ \A f, g \in 0 .. NumBeams - 1 : BeamIds[f] = BeamIds[g] => f = g
<1>1. BeamIds \in [0 .. NumBeams - 1 -> Nat] /\ CoarseFreqIds \in [0 .. NumFreqs - 1 -> Channels]
  BY SenderAssumption DEF NumBeams, NumFreqs, Channels
<1>2. DOMAIN CoarseFreqIds = 0 .. NumFreqs - 1 /\ DOMAIN BeamIds = 0 .. NumBeams - 1
  BY <1>1
<1>3. /\ DOMAIN BeamIds # {} /\ \A i, j \in DOMAIN BeamIds : i # j => BeamIds[i] # BeamIds[j]
      /\ DOMAIN CoarseFreqIds # {}
      /\ \A i, j \in DOMAIN CoarseFreqIds : i # j => CoarseFreqIds[i] # CoarseFreqIds[j]
  BY SenderAssumption
<1>4. NumFreqs > 0 /\ NumBeams > 0
  BY <1>2, <1>3, Geometry
<1> QED
  BY <1>1, <1>2, <1>3, <1>4

LEMMA ChannelsAreFilled ==
  ASSUME FastGeometry, NEW h, NEW c, OfBeam(c, h), NEW p,
         p.header.nfreq_coarse = NumFreqs, p.coarse_freq_ids = CoarseFreqIds,
         NEW place \in ChunkSlots, PlaceInChunk(c, p) = 16 * place,
         NEW F \in Channels, NEW j \in ChunkSlots
  PROVE  /\ OfBeam(FastAddPacket(c, p), h)
         /\ \A f \in 0 .. NumFreqs - 1 :
              ChannelOf(F, f) /\ j = place => Holds(FastAddPacket(c, p), F, j, PacketBlock(p, f))
         /\ (\A f \in 0 .. NumFreqs - 1 : ~(ChannelOf(F, f) /\ j = place)) =>
              \A b : Holds(c, F, j, b) => Holds(FastAddPacket(c, p), F, j, b)
<1> DEFINE step(r, k) == IF k = 0 THEN c ELSE FreqCopied(c, r[k - 1], p, k - 1)
           S == {n \in Nat : \E r : r = [k \in 0 .. n |-> step(r, k)]}
           n == p.header.nfreq_coarse
           after == CHOOSE r : r = [k \in 0 .. n |-> step(r, k)]
           hit(f) == ChannelOf(F, f) /\ j = place
           done(k) == /\ OfBeam(after[k], h)
                      /\ \A f \in 0 .. k - 1 : hit(f) => Holds(after[k], F, j, PacketBlock(p, f))
                      /\ (\A f \in 0 .. k - 1 : ~hit(f)) => \A b : Holds(c, F, j, b) => Holds(after[k], F, j, b)
           T == {k \in Nat : k <= n => done(k)}
<1>1. FastAddPacket(c, p) = after[n]
  BY DEF FastAddPacket, Loop, FreqCopied
<1>2. 0 \in S
  <2> DEFINE r0 == [k \in 0 .. 0 |-> c]
  <2>1. r0 = [k \in 0 .. 0 |-> step(r0, k)]
    OBVIOUS
  <2> QED
    BY <2>1
<1>3. ASSUME NEW m \in Nat, m \in S PROVE m + 1 \in S
  <2>1. PICK r : r = [k \in 0 .. m |-> step(r, k)]
    BY <1>3
  <2> DEFINE g == [k \in 0 .. m + 1 |-> IF k <= m THEN r[k] ELSE step(r, k)]
  <2>2. ASSUME NEW k \in 0 .. m + 1 PROVE g[k] = step(g, k)
    <3>1. step(g, k) = step(r, k)
      OBVIOUS
    <3>2. k <= m => r[k] = step(r, k)
      <4>1. k <= m => k \in 0 .. m
        OBVIOUS
      <4> QED
        BY <2>1, <4>1, Zenon
    <3> QED
      BY <3>1, <3>2
  <2>3. g = [k \in 0 .. m + 1 |-> step(g, k)]
    BY <2>2, Zenon
  <2> HIDE DEF g, step
  <2> QED
    BY <2>3
<1>4. n \in Nat /\ n = NumFreqs
  BY Geometry
<1>5. n \in S
  BY <1>2, <1>3, <1>4, NatSetInduction
<1>6. \A k \in 0 .. n : after[k] = step(after, k)
  <2>1. after = [k \in 0 .. n |-> step(after, k)]
    BY <1>5, Zenon
  <2> QED
    BY <2>1, Zenon
<1> HIDE DEF after, S, hit, n
<1>7. 0 \in T
  <2>1. 0 \in 0 .. n /\ 0 .. 0 - 1 = {}
    BY <1>4
  <2>2. after[0] = c
    BY <1>6, <2>1
  <2>3. done(0)
    BY <2>1, <2>2, Zenon
  <2> HIDE DEF done
  <2> QED
    BY <2>3
<1>8. ASSUME NEW k \in Nat, k \in T PROVE k + 1 \in T
  <2> SUFFICES ASSUME k + 1 <= n PROVE done(k + 1)
    OBVIOUS
  <2>1. /\ k + 1 \in 0 .. n /\ k + 1 # 0 /\ (k + 1) - 1 = k /\ k \in 0 .. NumFreqs - 1 /\ k <= n
        /\ 0 .. (k + 1) - 1 = 0 .. k /\ \A f : f \in 0 .. k <=> f \in 0 .. k - 1 \/ f = k
    BY <1>4
  <2>2. done(k)
    BY <1>8, <2>1
  <2> DEFINE x == after[k]
             y == FreqCopied(c, x, p, k)
  <2>3. after[k + 1] = y
    BY <1>6, <2>1
  <2>4. OfBeam(x, h)
    BY <2>2
  <2>5. OfBeam(y, h)
    <3>1. c.nupfreq \in Nat
      BY BeamFields, Geometry
    <3> QED
      BY <2>4, <3>1, FreqCopiedKeeps DEF OfBeam
  <2>6. p.coarse_freq_ids[k] = CoarseFreqIds[k] /\ CoarseFreqIds[k] \in Channels
    BY <2>1, SenderIs
  <2> HIDE DEF x, done
  <2>7. /\ hit(k) => Holds(y, F, j, PacketBlock(p, k))
        /\ ~hit(k) => \A b : Holds(x, F, j, b) => Holds(y, F, j, b)
    BY <2>1, <2>4, <2>6, FreqIsCopied DEF hit, ChannelOf
  <2> HIDE DEF y
  <2>8. ASSUME NEW f \in 0 .. k, hit(f) PROVE Holds(y, F, j, PacketBlock(p, f))
    <3>1. CASE f = k
      BY <2>7, <2>8, <3>1
    <3>2. CASE f # k
      <4>1. f \in 0 .. k - 1 /\ f \in 0 .. NumFreqs - 1
        BY <2>1, <3>2, <1>4
      <4>2. ~hit(k)
        BY <2>1, <2>8, <3>2, <4>1, SenderIs DEF hit, ChannelOf
      <4>3. Holds(x, F, j, PacketBlock(p, f))
        BY <2>2, <2>8, <4>1 DEF done, x
      <4> QED
        BY <2>7, <4>2, <4>3
    <3> QED
      BY <3>1, <3>2
  <2>9. ASSUME \A f \in 0 .. k : ~hit(f) PROVE \A b : Holds(c, F, j, b) => Holds(y, F, j, b)
    <3>1. ~hit(k) /\ \A f \in 0 .. k - 1 : ~hit(f)
      BY <2>1, <2>9
    <3>2. \A b : Holds(c, F, j, b) => Holds(x, F, j, b)
      BY <2>2, <3>1 DEF done, x
    <3> QED
      BY <2>7, <3>1, <3>2
  <2> QED
    BY <2>1, <2>3, <2>5, <2>8, <2>9, Zenon DEF done
<1>9. n \in T
  BY <1>4, <1>7, <1>8, NatSetInduction
<1>10. done(NumFreqs) /\ after[n] = after[NumFreqs]
  <2>1. n <= n
    BY <1>4
  <2> QED
    BY <1>4, <1>9, <2>1
<1> QED
  BY <1>1, <1>10, Zenon DEF hit
-----------------------------------------------------------------------------
(* A packet of the stream as it is decoded: the arrays of the sender.      *)
BlockSent(slot, k) == EncodedBlock(Sky[slot][k], Weights[slot][k], PerBlock, WtCutoff)

LEMMA DecodedWire ==
  ASSUME NEW slot \in DOMAIN Sky
  PROVE  LET p == Decoded(Wires[slot])
         IN  /\ p.header = Header(slot) /\ p.beam_ids = BeamIds /\ p.coarse_freq_ids = CoarseFreqIds
             /\ p.scales = [k \in 0 .. NumBeams * NumFreqs - 1 |-> BlockSent(slot, k).scale]
             /\ p.offsets = [k \in 0 .. NumBeams * NumFreqs - 1 |-> BlockSent(slot, k).offset]
             /\ p.data = [i \in 0 .. NumBeams * NumFreqs * PerBlock - 1 |->
                            BlockSent(slot, i \div PerBlock).bytes[i % PerBlock]]
             /\ SizeMatches(Header(slot), Wires[slot].nbytes)
             /\ Wires[slot].header = Header(slot)
             /\ Wires[slot].mem[Pointers(Header(slot)).coarse_freq_ids] = CoarseFreqIds
<1> DEFINE h == Header(slot)
           w == Encoded(h, BeamIds, CoarseFreqIds, Sky[slot], Weights[slot], WtCutoff)
<1>1. Wires[slot] = w
  BY DEF Wires
<1>2. /\ h.nbeams = NumBeams /\ h.nfreq_coarse = NumFreqs /\ h.nupfreq = Nupfreq /\ h.ntsamp = NtPerPacket
      /\ h.data_nbytes = NumBeams * NumFreqs * Nupfreq * NtPerPacket
  BY DEF Header, NumBeams, NumFreqs
<1> HIDE DEF h
<1>3. Counts(h) /\ h.nbeams > 0 /\ h.nfreq_coarse > 0 /\ h.data_nbytes = DataSize(h)
  BY <1>2, SenderIs, Geometry DEF Counts, DataSize
<1>4. h.nupfreq * h.ntsamp = PerBlock
  BY <1>2 DEF PerBlock
<1>5. FoundIn(w, h, BeamIds, CoarseFreqIds, Sky[slot], Weights[slot], WtCutoff)
  BY <1>3, DecodedAsEncoded
<1>6. w.header = h
  BY SMTT(30) DEF Encoded
<1> HIDE DEF w
<1>7. /\ Decoded(w).header = h /\ Decoded(w).beam_ids = BeamIds /\ Decoded(w).coarse_freq_ids = CoarseFreqIds
      /\ Decoded(w).scales = [k \in 0 .. NumBeams * NumFreqs - 1 |-> BlockSent(slot, k).scale]
      /\ Decoded(w).offsets = [k \in 0 .. NumBeams * NumFreqs - 1 |-> BlockSent(slot, k).offset]
      /\ Decoded(w).data = [i \in 0 .. NumBeams * NumFreqs * PerBlock - 1 |->
                              BlockSent(slot, i \div PerBlock).bytes[i % PerBlock]]
      /\ SizeMatches(h, w.nbytes)
  <2>1. h.nbeams * h.nfreq_coarse = NumBeams * NumFreqs
    BY <1>2, Zenon
  <2>2. /\ Decoded(w).header = h /\ Decoded(w).beam_ids = BeamIds
        /\ Decoded(w).coarse_freq_ids = CoarseFreqIds /\ SizeMatches(h, w.nbytes)
    BY <1>5, Zenon DEF FoundIn
  <2>3. /\ Decoded(w).scales = [k \in 0 .. NumBeams * NumFreqs - 1 |-> BlockSent(slot, k).scale]
        /\ Decoded(w).offsets = [k \in 0 .. NumBeams * NumFreqs - 1 |-> BlockSent(slot, k).offset]
        /\ Decoded(w).data = [i \in 0 .. NumBeams * NumFreqs * PerBlock - 1 |->
                                BlockSent(slot, i \div PerBlock).bytes[i % PerBlock]]
    BY <1>4, <1>5, <2>1, FoundArrays, SMTT(30) DEF BlockSent
  <2> QED
    BY <2>2, <2>3, Zenon
<1>8. w.mem[Pointers(h).coarse_freq_ids] = CoarseFreqIds
  <2>1. Decoded(w).coarse_freq_ids = w.mem[Pointers(w.header).coarse_freq_ids]
    BY DEF Decoded
  <2> QED
    BY <1>6, <1>7, <2>1
<1> QED
  BY <1>1, <1>6, <1>7, <1>8 DEF h

(* The view of one beam of it. *)
LEMMA BeamOfWire ==
  ASSUME FastGeometry, NEW slot \in DOMAIN Sky, NEW ib \in 0 .. NumBeams - 1
  PROVE  LET q == OneBeam(Decoded(Wires[slot]), ib)
         IN  /\ q.coarse_freq_ids = CoarseFreqIds /\ q.beam_ids[0] = BeamIds[ib]
             /\ q.header.nfreq_coarse = NumFreqs /\ q.header.fpga_count = Header(slot).fpga_count
             /\ \A f \in 0 .. NumFreqs - 1 :
                  /\ q.scales[f] = BlockSent(slot, ib * NumFreqs + f).scale
                  /\ q.offsets[f] = BlockSent(slot, ib * NumFreqs + f).offset
                  /\ \A i \in 0 .. PerBlock - 1 :
                       q.data[f * Nupfreq * 16 + i] = BlockSent(slot, ib * NumFreqs + f).bytes[i]
<1> DEFINE p == Decoded(Wires[slot])
           q == OneBeam(p, ib)
           nf == NumFreqs
           P == PerBlock
           nd == nf * P
<1>1. /\ p.header = Header(slot) /\ p.beam_ids = BeamIds /\ p.coarse_freq_ids = CoarseFreqIds
      /\ p.scales = [k \in 0 .. NumBeams * nf - 1 |-> BlockSent(slot, k).scale]
      /\ p.offsets = [k \in 0 .. NumBeams * nf - 1 |-> BlockSent(slot, k).offset]
      /\ p.data = [i \in 0 .. NumBeams * nf * P - 1 |-> BlockSent(slot, i \div P).bytes[i % P]]
  BY DecodedWire
<1>2. /\ NumBeams \in Nat /\ nf \in Nat /\ ib \in Nat /\ ib \in 0 .. NumBeams - 1 /\ Nupfreq \in Nat \ {0}
      /\ NtPerPacket = 16 /\ P = Nupfreq * 16 /\ P \in Nat \ {0}
  <2>1. P = Nupfreq * 16 /\ Nupfreq \in Nat \ {0} /\ NtPerPacket = 16
    BY Geometry, SlotsOfChunk
  <2> HIDE DEF P
  <2> QED
    BY <2>1, Geometry
<1>3. p = [f \in {"header", "beam_ids", "coarse_freq_ids", "scales", "offsets", "data"} |-> p[f]]
  BY DEF Decoded
<1>4. p.header.nfreq_coarse = nf /\ p.header.nupfreq = Nupfreq /\ p.header.ntsamp = NtPerPacket
  BY <1>1 DEF Header, NumFreqs
<1>5. nf * Nupfreq * NtPerPacket = nd
  <2>1. nf * Nupfreq * NtPerPacket = nf * (Nupfreq * 16)
    BY <1>2
  <2> QED
    BY <1>2, <2>1
<1> HIDE DEF p, P, nf, nd
<1>6. /\ q.header = [p.header EXCEPT !.data_nbytes = nd, !.nbeams = 1]
      /\ q.coarse_freq_ids = p.coarse_freq_ids
      /\ q.beam_ids = [i \in 0 .. 1 - 1 |-> p.beam_ids[ib + i]]
      /\ q.scales  = [i \in 0 .. nf - 1 |-> p.scales[ib * nf + i]]
      /\ q.offsets = [i \in 0 .. nf - 1 |-> p.offsets[ib * nf + i]]
      /\ q.data    = [i \in 0 .. nd - 1 |-> p.data[ib * nd + i]]
  BY <1>3, <1>4, <1>5 DEF OneBeam
<1> HIDE DEF q
<1>7. q.header.nfreq_coarse = nf /\ q.header.fpga_count = Header(slot).fpga_count
  <2>1. DOMAIN p.header = {"protocol_version", "data_nbytes", "fpga_counts_per_sample", "fpga_count",
                           "nbeams", "nfreq_coarse", "nupfreq", "ntsamp"}
    BY <1>1 DEF Header
  <2>2. q.header.fpga_count = p.header.fpga_count /\ q.header.nfreq_coarse = p.header.nfreq_coarse
    BY <1>6, <2>1
  <2> QED
    BY <1>1, <1>4, <2>2
<1>8. q.beam_ids[0] = BeamIds[ib]
  BY <1>1, <1>2, <1>6
<1>9. ASSUME NEW f \in 0 .. nf - 1
      PROVE  /\ q.scales[f] = BlockSent(slot, ib * nf + f).scale
             /\ q.offsets[f] = BlockSent(slot, ib * nf + f).offset
             /\ \A i \in 0 .. P - 1 : q.data[f * Nupfreq * 16 + i] = BlockSent(slot, ib * nf + f).bytes[i]
  <2> DEFINE k == ib * nf + f
  <2>1. k \in 0 .. NumBeams * nf - 1
    BY <1>2, InRow
  <2> HIDE DEF k
  <2>2. q.scales[f] = BlockSent(slot, k).scale /\ q.offsets[f] = BlockSent(slot, k).offset
    BY <1>1, <1>6, <2>1 DEF k
  <2>3. ASSUME NEW i \in 0 .. P - 1
        PROVE  q.data[f * Nupfreq * 16 + i] = BlockSent(slot, k).bytes[i]
    <3> DEFINE l == f * P + i
               m == k * P + i
               M == NumBeams * nf
    <3>1. l \in 0 .. nd - 1
      BY <1>2, InRow DEF nd
    <3>2. f * Nupfreq * 16 + i = l
      <4>1. f * Nupfreq * 16 = f * (Nupfreq * 16)
        BY <1>2
      <4> QED
        BY <1>2, <4>1
    <3>3. ib * nd + l = m
      <4>1. ib * (nf * P) + f * P = (ib * nf + f) * P
        BY <1>2
      <4> DEFINE x == ib * (nf * P)
                 y == f * P
                 z == k * P
      <4>2. x \in Int /\ y \in Int /\ x + y = z
        <5>1. x \in Int /\ y \in Int
          BY <1>2
        <5> QED
          BY <4>1, <5>1 DEF k
      <4> HIDE DEF x, y, z
      <4>3. x + (y + i) = z + i
        BY <4>2
      <4> QED
        BY <4>3 DEF x, y, z, nd
    <3>4. m \in 0 .. M * P - 1 /\ m \div P = k /\ m % P = i
      <4>1. M \in Nat /\ k \in 0 .. M - 1 /\ k \in Nat /\ P \in Nat \ {0}
        BY <1>2, <2>1
      <4> HIDE DEF M
      <4>2. m \in 0 .. M * P - 1
        BY <4>1, InRow
      <4>3. m \div P = k /\ m % P = i
        BY <4>1, RowOf
      <4> QED
        BY <4>2, <4>3
    <3> HIDE DEF l, m
    <3>5. q.data[l] = p.data[m]
      BY <1>6, <3>1, <3>3
    <3>6. p.data[m] = BlockSent(slot, k).bytes[i]
      BY <1>1, <3>4
    <3> QED
      BY <3>2, <3>5, <3>6
  <2> QED
    BY <2>2, <2>3 DEF k
<1> QED
  BY <1>1, <1>6, <1>7, <1>8, <1>9, Zenon DEF q, p, nf, P

(* The slot of a packet is a place in a chunk. *)
LEMMA SlotPlace ==
  ASSUME FastGeometry, NEW slot \in Nat
  PROVE  LET h == slot \div SlotsPerChunk
             j == slot % SlotsPerChunk
         IN  /\ h \in Nat /\ j \in ChunkSlots /\ slot = h * SlotsPerChunk + j
             /\ ((Header(slot).fpga_count \div FpgaPerSample) \div NtPerChunk) - FirstIchunk = h
             /\ \A c, q : /\ c.ichunk = FirstIchunk + h /\ c.fpga_counts_per_sample = FpgaPerSample
                          /\ q.header.fpga_count = Header(slot).fpga_count
                          => PlaceInChunk(c, q) = 16 * j
<1> DEFINE S == SlotsPerChunk
           h == slot \div S
           j == slot % S
           T == FirstIchunk * NtPerChunk + slot * 16
           u == FirstIchunk + h
<1>1. /\ S \in Nat \ {0} /\ NtPerChunk = 16 * S /\ FirstIchunk \in Nat /\ FpgaPerSample \in Nat \ {0}
      /\ NtPerChunk \in Nat \ {0} /\ NtPerChunk % 256 = 0 /\ NtPerPacket = 16
  BY SlotsOfChunk, Geometry DEF FastGeometry
<1> HIDE DEF S
<1>2. h \in Nat /\ j \in 0 .. S - 1 /\ slot = S * h + j
  BY <1>1
<1> HIDE DEF h, j
<1>3. T = u * NtPerChunk + 16 * j /\ 16 * j \in 0 .. NtPerChunk - 1 /\ u \in Nat /\ T \in Nat
  <2> DEFINE x == FirstIchunk * S
             y == S * h
  <2>1. x \in Nat /\ y \in Nat
    BY <1>1, <1>2
  <2>2. FirstIchunk * NtPerChunk = 16 * x /\ slot = y + j /\ u * NtPerChunk = 16 * (x + y)
    <3>1. FirstIchunk * (16 * S) = 16 * x
      BY <1>1
    <3>2. (FirstIchunk + h) * (16 * S) = 16 * (x + y)
      BY <1>1, <1>2
    <3> QED
      BY <1>1, <1>2, <3>1, <3>2
  <2> HIDE DEF x, y
  <2> QED
    BY <1>1, <1>2, <2>1, <2>2
<1>4. Header(slot).fpga_count = T * FpgaPerSample
  BY <1>1 DEF Header
<1>5. /\ (T * FpgaPerSample) \div FpgaPerSample = T
      /\ (T * FpgaPerSample) % (FpgaPerSample * 16) = 0
      /\ T - (T \div NtPerChunk) * NtPerChunk \in 0 .. NtPerChunk - 16
  <2>1. /\ NtPerChunk \in Nat \ {0} /\ NtPerChunk % 256 = 0
        /\ FirstIchunk \in Nat /\ FpgaPerSample \in Nat \ {0}
    BY <1>1
  <2> QED
    BY <2>1, SlotInChunk, ZenonT(60)
<1> HIDE DEF T, u
<1>6. T \div NtPerChunk = u
  BY <1>1, <1>3, RowOf
<1>7. ((Header(slot).fpga_count \div FpgaPerSample) \div NtPerChunk) - FirstIchunk = h
  <2>1. u - FirstIchunk = h
    BY <1>1, <1>2 DEF u
  <2> QED
    BY <1>4, <1>5, <1>6, <2>1, Zenon
<1>8. ASSUME NEW c, NEW q, c.ichunk = FirstIchunk + h, c.fpga_counts_per_sample = FpgaPerSample,
             q.header.fpga_count = Header(slot).fpga_count
      PROVE  PlaceInChunk(c, q) = 16 * j
  <2>1. q.header.fpga_count \div c.fpga_counts_per_sample = T
    BY <1>4, <1>5, <1>8, Zenon
  <2>2. isample(c) = u * NtPerChunk
    BY <1>8, Zenon DEF isample, u
  <2>3. T - u * NtPerChunk = 16 * j
    <3> DEFINE x == u * NtPerChunk
    <3>1. x \in Nat /\ T = x + 16 * j
      BY <1>1, <1>3
    <3> HIDE DEF x
    <3>2. T - x = 16 * j
      BY <1>2, <3>1
    <3> QED
      BY <3>2 DEF x
  <2> QED
    BY <2>1, <2>2, <2>3, Zenon DEF PlaceInChunk
<1>9. slot = h * S + j
  BY <1>1, <1>2
<1> QED
  BY <1>2, <1>7, <1>8, <1>9, Zenon DEF h, j, S, ChunkSlots
-----------------------------------------------------------------------------
(* What the sender sent for channel F of the beam that is followed.        *)
SenderBeam == CHOOSE b \in DOMAIN BeamIds : BeamIds[b] = MyBeam
SenderFreq(F) == CHOOSE f \in DOMAIN CoarseFreqIds : CoarseFreqIds[f] = F
Carried(F) == /\ MyBeam \in {BeamIds[b] : b \in DOMAIN BeamIds}
              /\ F \in {CoarseFreqIds[f] : f \in DOMAIN CoarseFreqIds}
SkyBlock(slot, F) == BlockSent(slot, SenderBeam * NumFreqs + SenderFreq(F))

NoBlock == [scale |-> 0, offset |-> 0, bytes |-> [k \in 0 .. PerBlock - 1 |-> 0]]
SlotBlock(A, slot, F) == IF slot \in A /\ Carried(F) THEN SkyBlock(slot, F) ELSE NoBlock

(* The two chunks hold the packets of the slots of A and nothing else.     *)
Filled(cs, A) ==
  \A h \in Halves, F \in Channels, j \in ChunkSlots :
    Holds(cs[h], F, j, SlotBlock(A, h * SlotsPerChunk + j, F))

LEMMA Senders ==
  /\ \A b \in 0 .. NumBeams - 1 : BeamIds[b] = MyBeam => SenderBeam = b
  /\ \A f \in 0 .. NumFreqs - 1 : SenderFreq(CoarseFreqIds[f]) = f
<1>1. ASSUME NEW b \in 0 .. NumBeams - 1, BeamIds[b] = MyBeam PROVE SenderBeam = b
  <2>1. b \in DOMAIN BeamIds
    BY SenderIs
  <2>2. SenderBeam \in DOMAIN BeamIds /\ BeamIds[SenderBeam] = MyBeam
    BY <1>1, <2>1 DEF SenderBeam
  <2> QED
    BY <1>1, <2>1, <2>2, SenderIs
<1>2. ASSUME NEW f \in 0 .. NumFreqs - 1 PROVE SenderFreq(CoarseFreqIds[f]) = f
  <2> DEFINE F == CoarseFreqIds[f]
  <2>1. f \in DOMAIN CoarseFreqIds /\ CoarseFreqIds[f] = F
    BY SenderIs
  <2> HIDE DEF F
  <2>2. SenderFreq(F) \in DOMAIN CoarseFreqIds /\ CoarseFreqIds[SenderFreq(F)] = F
    BY <2>1 DEF SenderFreq
  <2>3. SenderFreq(F) = f
    BY <2>1, <2>2, SenderIs
  <2> QED
    BY <2>3 DEF F
<1> QED
  BY <1>1, <1>2

(* A beam of a packet fills the slot of the packet, if it is the beam that *)
(* is followed and its time is that of a chunk; or nothing changes.        *)
LEMMA BeamPutFills ==
  ASSUME FastGeometry, NEW cs, PairShaped(cs), NEW A, Filled(cs, A), NEW slot \in DOMAIN Sky,
         NEW ib \in 0 .. NumBeams - 1
  PROVE  LET ds == BeamPut(cs, ib, Decoded(Wires[slot]))
         IN  /\ BeamIds[ib] # MyBeam => ds = cs
             /\ BeamIds[ib] = MyBeam => Filled(ds, A \cup {slot})
<1> DEFINE p == Decoded(Wires[slot])
           q == OneBeam(p, ib)
           h0 == slot \div SlotsPerChunk
           j0 == slot % SlotsPerChunk
           B == A \cup {slot}
           ds == BeamPut(cs, ib, p)
           new(h) == FastAddPacket(cs[h], q)
<1>1. slot \in Nat
  BY Geometry
<1>2. /\ h0 \in Nat /\ j0 \in ChunkSlots /\ slot = h0 * SlotsPerChunk + j0
      /\ ((Header(slot).fpga_count \div FpgaPerSample) \div NtPerChunk) - FirstIchunk = h0
      /\ \A c, r : /\ c.ichunk = FirstIchunk + h0 /\ c.fpga_counts_per_sample = FpgaPerSample
                   /\ r.header.fpga_count = Header(slot).fpga_count
                   => PlaceInChunk(c, r) = 16 * j0
  BY <1>1, SlotPlace, Zenon
<1>3. /\ q.coarse_freq_ids = CoarseFreqIds /\ q.beam_ids[0] = BeamIds[ib]
      /\ q.header.nfreq_coarse = NumFreqs /\ q.header.fpga_count = Header(slot).fpga_count
      /\ \A f \in 0 .. NumFreqs - 1 :
           /\ q.scales[f] = BlockSent(slot, ib * NumFreqs + f).scale
           /\ q.offsets[f] = BlockSent(slot, ib * NumFreqs + f).offset
           /\ \A i \in 0 .. PerBlock - 1 :
                q.data[f * Nupfreq * 16 + i] = BlockSent(slot, ib * NumFreqs + f).bytes[i]
  BY BeamOfWire, Zenon
<1>4. p.header.fpga_count = Header(slot).fpga_count
  BY DecodedWire
<1> HIDE DEF h0, j0, p
<1>5. ds = IF BeamIds[ib] # MyBeam THEN cs ELSE [cs EXCEPT ![h0] = new(h0)]
  <2>1. \A c : Added1("fast", c, q) = FastAddPacket(c, q)
    BY DEF Added1
  <2> HIDE DEF q
  <2>2. ds = IF q.beam_ids[0] # MyBeam THEN cs
             ELSE [cs EXCEPT ![((p.header.fpga_count \div FpgaPerSample) \div NtPerChunk) - FirstIchunk]
                               = Added1("fast", @, q)]
    BY DEF BeamPut, q
  <2> DEFINE hx == ((p.header.fpga_count \div FpgaPerSample) \div NtPerChunk) - FirstIchunk
  <2>3. hx = h0
    BY <1>2, <1>4
  <2>4. q.beam_ids[0] = BeamIds[ib]
    BY <1>3
  <2>5. ds = IF q.beam_ids[0] # MyBeam THEN cs ELSE [cs EXCEPT ![hx] = Added1("fast", @, q)]
    BY <2>2, Zenon
  <2>6. ds = IF q.beam_ids[0] # MyBeam THEN cs ELSE [cs EXCEPT ![hx] = Added1("fast", cs[hx], q)]
    BY <2>5
  <2> HIDE DEF ds, hx
  <2>7. ds = IF q.beam_ids[0] # MyBeam THEN cs ELSE [cs EXCEPT ![h0] = Added1("fast", cs[h0], q)]
    BY <2>3, <2>6, Zenon
  <2> QED
    BY <2>1, <2>4, <2>7, Zenon
<1> HIDE DEF q
<1>6. ASSUME BeamIds[ib] = MyBeam, NEW h \in Halves, NEW F \in Channels, NEW j \in ChunkSlots
      PROVE  Holds(ds[h], F, j, SlotBlock(B, h * SlotsPerChunk + j, F))
  <2> DEFINE s == h * SlotsPerChunk + j
  <2>1. Holds(cs[h], F, j, SlotBlock(A, s, F))
    BY DEF Filled
  <2>2. s = slot <=> h = h0 /\ j = j0
    <3>1. ASSUME s = slot PROVE h = h0 /\ j = j0
      <4>1. h \in Nat /\ SlotsPerChunk \in Nat \ {0}
        BY SlotsOfChunk DEF Halves
      <4>2. j \in 0 .. SlotsPerChunk - 1 /\ j0 \in 0 .. SlotsPerChunk - 1
        BY <1>2 DEF ChunkSlots
      <4>3. h * SlotsPerChunk + j = h0 * SlotsPerChunk + j0
        BY <1>2, <3>1
      <4> QED
        BY <1>2, <4>1, <4>2, <4>3, SameRow
    <3>2. ASSUME h = h0, j = j0 PROVE s = slot
      BY <1>2, <3>2
    <3> QED
      BY <3>1, <3>2
  <2> HIDE DEF s
  <2>3. s # slot => SlotBlock(B, s, F) = SlotBlock(A, s, F)
    BY DEF SlotBlock
  <2>4. ds[h] = IF h = h0 THEN new(h) ELSE cs[h]
    <3>1. DOMAIN cs = Halves
      BY DEF PairShaped
    <3> HIDE DEF ds, new
    <3> QED
      BY <1>5, <1>6, <3>1
  <2> HIDE DEF ds
  <2>5. CASE h # h0
    BY <2>1, <2>2, <2>3, <2>4, <2>5, Zenon DEF s
  <2>6. CASE h = h0
    <3> DEFINE c == cs[h]
    <3>1. OfBeam(c, h)
      BY DEF PairShaped, OfBeam
    <3>2. PlaceInChunk(c, q) = 16 * j0
      <4>1. c.ichunk = FirstIchunk + h0 /\ c.fpga_counts_per_sample = FpgaPerSample
        BY <2>6, <3>1, BeamFields
      <4> HIDE DEF c
      <4> QED
        BY <1>2, <1>3, <4>1, Zenon
    <3> HIDE DEF c
    <3>3. /\ \A f \in 0 .. NumFreqs - 1 :
               ChannelOf(F, f) /\ j = j0 => Holds(FastAddPacket(c, q), F, j, PacketBlock(q, f))
          /\ (\A f \in 0 .. NumFreqs - 1 : ~(ChannelOf(F, f) /\ j = j0)) =>
               \A b : Holds(c, F, j, b) => Holds(FastAddPacket(c, q), F, j, b)
      BY <1>2, <1>3, <3>1, <3>2, ChannelsAreFilled
    <3>4. ds[h] = FastAddPacket(c, q)
      BY <2>4, <2>6 DEF c
    <3>5. CASE j # j0
      <4>1. Holds(FastAddPacket(c, q), F, j, SlotBlock(A, s, F))
        BY <2>1, <3>3, <3>5, Zenon DEF c
      <4> QED
        BY <2>2, <2>3, <3>4, <3>5, <4>1, Zenon DEF s
    <3>6. CASE j = j0 /\ ~Carried(F)
      <4>1. \A f \in 0 .. NumFreqs - 1 : ~ChannelOf(F, f)
        <5>1. ib \in DOMAIN BeamIds
          BY SenderIs
        <5>2. MyBeam \in {BeamIds[b] : b \in DOMAIN BeamIds}
          BY <1>6, <5>1
        <5> QED
          BY <3>6, <5>2, SenderIs DEF Carried, ChannelOf
      <4>2. Holds(FastAddPacket(c, q), F, j, SlotBlock(A, s, F))
        BY <2>1, <3>3, <4>1, Zenon DEF c
      <4>3. SlotBlock(A, s, F) = SlotBlock(B, s, F)
        BY <3>6 DEF SlotBlock
      <4> QED
        BY <3>4, <4>2, <4>3, Zenon DEF s
    <3>7. CASE j = j0 /\ Carried(F)
      <4>1. PICK f \in 0 .. NumFreqs - 1 : F = CoarseFreqIds[f]
        BY <3>7, SenderIs DEF Carried
      <4>2. Holds(FastAddPacket(c, q), F, j, PacketBlock(q, f))
        BY <3>3, <3>7, <4>1 DEF ChannelOf
      <4> DEFINE b == BlockSent(slot, ib * NumFreqs + f)
      <4>3. SlotBlock(B, s, F) = b
        <5>1. SenderBeam = ib /\ SenderFreq(F) = f
          BY <1>6, <4>1, Senders
        <5>2. s = slot
          BY <2>2, <2>6, <3>7
        <5> QED
          BY <3>7, <5>1, <5>2 DEF SlotBlock, SkyBlock
      <4>4. /\ PacketBlock(q, f).scale = b.scale /\ PacketBlock(q, f).offset = b.offset
            /\ \A i \in 0 .. PerBlock - 1 : PacketBlock(q, f).bytes[i] = b.bytes[i]
        <5> HIDE DEF b
        <5>1. /\ q.scales[f] = b.scale /\ q.offsets[f] = b.offset
              /\ \A i \in 0 .. PerBlock - 1 : q.data[f * Nupfreq * 16 + i] = b.bytes[i]
          BY <1>3, Zenon DEF b
        <5> QED
          BY <5>1 DEF PacketBlock
      <4> HIDE DEF b
      <4>5. \A u \in 0 .. Nupfreq - 1, r \in 0 .. 15 : u * 16 + r \in 0 .. PerBlock - 1
        BY SlotsOfChunk, Geometry
      <4>6. Holds(FastAddPacket(c, q), F, j, b)
        BY <4>2, <4>4, <4>5 DEF Holds
      <4> QED
        BY <3>4, <4>3, <4>6, Zenon DEF s
    <3> QED
      BY <3>5, <3>6, <3>7
  <2> QED
    BY <2>5, <2>6
<1>7. BeamIds[ib] = MyBeam => Filled(ds, B)
  <2> HIDE DEF ds, B
  <2> QED
    BY <1>6 DEF Filled
<1> QED
  BY <1>5, <1>7 DEF p

(* So the packet fills its slot.                                           *)
LEMMA PacketFills ==
  ASSUME FastGeometry, NEW cs, PairShaped(cs), NEW A, Filled(cs, A), NEW slot \in DOMAIN Sky
  PROVE  Filled(PutPacket(cs, "fast", Decoded(Wires[slot])), A \cup {slot})
<1> DEFINE p == Decoded(Wires[slot])
           step(r, k) == IF k = 0 THEN cs ELSE BeamPut(r[k - 1], k - 1, p)
           S == {n \in Nat : \E r : r = [k \in 0 .. n |-> step(r, k)]}
           n == p.header.nbeams
           after == CHOOSE r : r = [k \in 0 .. n |-> step(r, k)]
           done(k) == /\ PairShaped(after[k])
                      /\ \/ Filled(after[k], A \cup {slot})
                         \/ Filled(after[k], A) /\ \A b \in 0 .. k - 1 : BeamIds[b] # MyBeam
           T == {k \in Nat : k <= n => done(k)}
<1>1. PutPacket(cs, "fast", p) = after[n]
  BY DEF PutPacket, Loop, BeamPut
<1>2. 0 \in S
  <2> DEFINE r0 == [k \in 0 .. 0 |-> cs]
  <2>1. r0 = [k \in 0 .. 0 |-> step(r0, k)]
    OBVIOUS
  <2> QED
    BY <2>1
<1>3. ASSUME NEW m \in Nat, m \in S PROVE m + 1 \in S
  <2>1. PICK r : r = [k \in 0 .. m |-> step(r, k)]
    BY <1>3
  <2> DEFINE g == [k \in 0 .. m + 1 |-> IF k <= m THEN r[k] ELSE step(r, k)]
  <2>2. ASSUME NEW k \in 0 .. m + 1 PROVE g[k] = step(g, k)
    <3>1. step(g, k) = step(r, k)
      OBVIOUS
    <3>2. k <= m => r[k] = step(r, k)
      <4>1. k <= m => k \in 0 .. m
        OBVIOUS
      <4> QED
        BY <2>1, <4>1, Zenon
    <3> QED
      BY <3>1, <3>2
  <2>3. g = [k \in 0 .. m + 1 |-> step(g, k)]
    BY <2>2, Zenon
  <2> HIDE DEF g, step
  <2> QED
    BY <2>3
<1>4. n \in Nat /\ n = NumBeams
  <2>1. p.header = Header(slot)
    BY DecodedWire
  <2>2. n = NumBeams
    BY <2>1 DEF Header, NumBeams
  <2> QED
    BY <2>2, Geometry
<1>5. n \in S
  BY <1>2, <1>3, <1>4, NatSetInduction
<1>6. \A k \in 0 .. n : after[k] = step(after, k)
  <2>1. after = [k \in 0 .. n |-> step(after, k)]
    BY <1>5, Zenon
  <2> QED
    BY <2>1, Zenon
<1>7. OfStream(p)
  <2>1. Sent(p)
    BY DEF Sent
  <2> HIDE DEF p
  <2> QED
    BY <2>1, SentIs DEF OfStream
<1> HIDE DEF after, S, n
<1>8. 0 \in T
  <2>1. 0 \in 0 .. n /\ 0 .. 0 - 1 = {}
    BY <1>4
  <2>2. after[0] = cs
    BY <1>6, <2>1
  <2>3. done(0)
    BY <2>1, <2>2, Zenon
  <2> HIDE DEF done
  <2> QED
    BY <2>3
<1>9. ASSUME NEW k \in Nat, k \in T PROVE k + 1 \in T
  <2> SUFFICES ASSUME k + 1 <= n PROVE done(k + 1)
    OBVIOUS
  <2>1. /\ k + 1 \in 0 .. n /\ k + 1 # 0 /\ (k + 1) - 1 = k /\ k \in 0 .. NumBeams - 1 /\ k <= n
        /\ 0 .. (k + 1) - 1 = 0 .. k /\ \A f : f \in 0 .. k <=> f \in 0 .. k - 1 \/ f = k
    BY <1>4
  <2>2. done(k)
    BY <1>9, <2>1
  <2> DEFINE x == after[k]
             y == BeamPut(x, k, p)
  <2>3. after[k + 1] = y
    BY <1>6, <2>1
  <2>4. PairShaped(x)
    BY <2>2
  <2> HIDE DEF x
  <2>5. PairShaped(y)
    <3> HIDE DEF p
    <3> QED
      BY <1>7, <2>4, BeamPutKeeps
  <2>6. ASSUME NEW C, Filled(x, C)
        PROVE  /\ BeamIds[k] # MyBeam => y = x
               /\ BeamIds[k] = MyBeam => Filled(y, C \cup {slot})
    BY <2>1, <2>4, <2>6, BeamPutFills
  <2> HIDE DEF y, p
  <2>7. CASE Filled(x, A \cup {slot})
    <3>1. (A \cup {slot}) \cup {slot} = A \cup {slot}
      OBVIOUS
    <3>2. Filled(y, A \cup {slot})
      BY <2>6, <2>7, <3>1
    <3> QED
      BY <2>3, <2>5, <3>2, Zenon
  <2>8. CASE Filled(x, A) /\ \A b \in 0 .. k - 1 : BeamIds[b] # MyBeam
    <3>1. CASE BeamIds[k] = MyBeam
      BY <2>3, <2>5, <2>6, <2>8, <3>1, Zenon
    <3>2. CASE BeamIds[k] # MyBeam
      <4>1. \A b \in 0 .. k : BeamIds[b] # MyBeam
        BY <2>1, <2>8, <3>2
      <4>2. Filled(y, A)
        BY <2>6, <2>8, <3>2
      <4> QED
        BY <2>1, <2>3, <2>5, <4>1, <4>2, Zenon
    <3> QED
      BY <3>1, <3>2
  <2> QED
    BY <2>2, <2>7, <2>8, Zenon DEF x
<1>10. n \in T
  BY <1>4, <1>8, <1>9, NatSetInduction
<1>11. done(n) /\ 0 .. n - 1 = DOMAIN BeamIds
  <2>1. n <= n
    BY <1>4
  <2> QED
    BY <1>4, <1>10, <2>1, SenderIs
<1> DEFINE ds == after[n]
<1>12. CASE Filled(ds, A \cup {slot})
  BY <1>1, <1>12
<1>13. CASE Filled(ds, A) /\ \A b \in 0 .. n - 1 : BeamIds[b] # MyBeam
  <2>1. \A F : ~Carried(F)
    BY <1>11, <1>13 DEF Carried
  <2>2. \A s, F : SlotBlock(A, s, F) = SlotBlock(A \cup {slot}, s, F)
    BY <2>1 DEF SlotBlock
  <2> HIDE DEF ds
  <2>3. Filled(ds, A \cup {slot})
    BY <1>13, <2>2, Zenon DEF Filled
  <2> QED
    BY <1>1, <2>3 DEF ds
<1> QED
  BY <1>11, <1>12, <1>13
-----------------------------------------------------------------------------
(* The list of incoming packets holds every datagram that was added, each  *)
(* between two of its offsets.                                             *)
FitsRoom(slot) == Wires[slot].nbytes <= ReadSize + 1

Kept(list, slots, x) ==
  /\ x.at \in Nat /\ x.nbytes \in 1 .. MaxPacketSize /\ x.at + x.nbytes <= list.nbytes
  /\ \E i \in 0 .. list.npackets - 1 : x \in List!PacketAt(list, i)
  /\ x.what.slot # Stray =>
       x.what.slot \in slots /\ x.nbytes = AtMostRoom(Wires[x.what.slot].nbytes)
  /\ \A y \in list.buf : x.at = y.at => x = y

KeepsAll(list, slots) ==
  /\ list.npackets \in Nat /\ list.nbytes \in Nat
  /\ list.packet_offsets \in Seq(Nat)
  /\ Len(list.packet_offsets) = list.npackets + 1
  /\ list.packet_offsets[list.npackets + 1] = list.nbytes
  /\ \A x \in list.buf : Kept(list, slots, x)

BufInv == arrived \subseteq DOMAIN Sky /\ KeepsAll(incoming, arrived)

LEMMA ReceiveBuf ==
  ASSUME BufInv, NEW what, NEW nbytes \in Nat, Receive(what, nbytes), arrived' \subseteq DOMAIN Sky,
         arrived \subseteq arrived',
         what.slot # Stray =>
           what.slot \in arrived' /\ nbytes = AtMostRoom(Wires[what.slot].nbytes)
  PROVE  /\ BufInv' /\ incoming.buf \subseteq incoming'.buf
         /\ ~failed' => \E x \in incoming'.buf : x.what = what
<1>1. CASE failed'
  <2>1. incoming' = incoming
    BY <1>1 DEF Receive
  <2> QED
    BY <1>1, <2>1 DEF BufInv, KeepsAll, Kept, List!PacketAt, List!Offset
<1>2. CASE ~failed'
  <2> DEFINE old == incoming
             offs == old.packet_offsets
             at == old.nbytes
             n == old.npackets
             end == at + nbytes
             new == [at |-> at, nbytes |-> nbytes, what |-> what]
             next == List!AddPacket(old, what, nbytes)
  <2>1. incoming' = next /\ nbytes \in 1 .. MaxPacketSize
    <3>1. incoming' = next /\ ~List!AddThrows(old, nbytes)
      BY <1>2 DEF Receive
    <3>2. nbytes # 0 /\ ~(nbytes > MaxPacketSize)
      BY <3>1 DEF List!AddThrows
    <3> QED
      BY <3>1, <3>2, PacketAssumption
  <2>2. /\ n \in Nat /\ at \in Nat /\ offs \in Seq(Nat) /\ Len(offs) = n + 1 /\ offs[n + 1] = at
        /\ end \in Nat
    BY DEF BufInv, KeepsAll, Kept
  <2>3. /\ next.npackets = n + 1 /\ next.nbytes = end /\ next.packet_offsets = Append(offs, end)
        /\ next.buf = {x \in old.buf : x.at + x.nbytes <= at \/ end <= x.at} \cup {new}
    BY DEF List!AddPacket, List!DataEnd
  <2>4. next.buf = old.buf \cup {new}
    <3>1. \A x \in old.buf : x.at + x.nbytes <= at
      BY DEF BufInv, KeepsAll, Kept
    <3> HIDE DEF new, next
    <3> QED
      BY <2>3, <3>1
  <2>5. new.at = at /\ new.nbytes = nbytes /\ new.what = what
    OBVIOUS
  <2>6. /\ Append(offs, end) \in Seq(Nat) /\ Len(Append(offs, end)) = (n + 1) + 1
        /\ Append(offs, end)[(n + 1) + 1] = end
        /\ \A i \in 0 .. n : Append(offs, end)[i + 1] = offs[i + 1]
    BY <2>2, SMTT(30)
  <2> HIDE DEF new, next
  <2>7. ASSUME NEW x \in next.buf
        PROVE  Kept(next, arrived', x)
    <3>1. CASE x \in old.buf
      <4>1. /\ x.at \in Nat /\ x.nbytes \in 1 .. MaxPacketSize /\ x.at + x.nbytes <= at
            /\ x.what.slot # Stray =>
                 x.what.slot \in arrived /\ x.nbytes = AtMostRoom(Wires[x.what.slot].nbytes)
            /\ \A y \in old.buf : x.at = y.at => x = y
        BY <3>1 DEF BufInv, KeepsAll, Kept
      <4>2. PICK i \in 0 .. n - 1 : x \in List!PacketAt(old, i)
        BY <3>1 DEF BufInv, KeepsAll, Kept
      <4>3. x.at = offs[i + 1] /\ x.at + x.nbytes = offs[(i + 1) + 1]
        BY <4>2, SMTT(30) DEF List!PacketAt, List!Offset
      <4>4. i \in 0 .. (n + 1) - 1 /\ i \in 0 .. n /\ i + 1 \in 0 .. n
        <5>1. n \in Nat
          BY <2>2, Zenon
        <5> HIDE DEF n
        <5> QED
          BY <5>1
      <4>5. x \in List!PacketAt(next, i)
        <5>1. List!Offset(next, i) = offs[i + 1] /\ List!Offset(next, i + 1) = offs[(i + 1) + 1]
          BY <2>3, <2>6, <4>4 DEF List!Offset
        <5> QED
          BY <4>3, <5>1 DEF List!PacketAt
      <4>6. x.at # new.at
        BY <2>2, <2>5, <4>1
      <4> QED
        <5>1. x.at + x.nbytes <= end
          BY <2>1, <2>2, <4>1
        <5>2. \A y \in next.buf : x.at = y.at => x = y
          BY <2>4, <4>1, <4>6
        <5>3. \E k \in 0 .. next.npackets - 1 : x \in List!PacketAt(next, k)
          BY <2>3, <4>4, <4>5
        <5> QED
          BY <2>3, <4>1, <5>1, <5>2, <5>3 DEF Kept
    <3>2. CASE x = new
      <4>1. n \in 0 .. (n + 1) - 1
        BY <2>2
      <4>2. x \in List!PacketAt(next, n)
        <5>1. List!Offset(next, n) = at /\ List!Offset(next, n + 1) = end
          BY <2>2, <2>3, <2>6, SMTT(30) DEF List!Offset
        <5> QED
          BY <2>5, <3>2, <5>1 DEF List!PacketAt
      <4>3. ASSUME NEW y \in old.buf PROVE y.at # at
        <5>1. y.at \in Nat /\ y.nbytes \in 1 .. MaxPacketSize /\ y.at + y.nbytes <= at
          BY DEF BufInv, KeepsAll, Kept
        <5> QED
          BY <2>2, <5>1
      <4>4. \A y \in next.buf : x.at = y.at => x = y
        BY <2>4, <2>5, <3>2, <4>3
      <4> QED
        <5>1. x.at + x.nbytes <= end /\ x.at \in Nat /\ x.nbytes \in 1 .. MaxPacketSize
          BY <2>1, <2>2, <2>5, <3>2
        <5>2. \E k \in 0 .. next.npackets - 1 : x \in List!PacketAt(next, k)
          BY <2>3, <4>1, <4>2
        <5>3. x.what.slot # Stray =>
                x.what.slot \in arrived' /\ x.nbytes = AtMostRoom(Wires[x.what.slot].nbytes)
          BY <2>5, <3>2
        <5> QED
          BY <2>3, <4>4, <5>1, <5>2, <5>3 DEF Kept
    <3> QED
      BY <2>4, <3>1, <3>2
  <2>8. BufInv'
    <3>1. KeepsAll(next, arrived')
      BY <2>2, <2>3, <2>6, <2>7, SMTT(30) DEF KeepsAll
    <3> QED
      BY <2>1, <3>1 DEF BufInv, KeepsAll, Kept, List!PacketAt, List!Offset
  <2> QED
    BY <1>2, <2>1, <2>4, <2>5, <2>8
<1> QED
  BY <1>1, <1>2

LEMMA BufKept ==
  ASSUME BufInv, SlotsInv, [Next]_vars
  PROVE  BufInv'
<1>1. CASE Arrive
  <2> DEFINE slot == Head(schedule)
             what == [slot |-> slot, header |-> Header(slot)]
  <2>1. Receive(what, AtMostRoom(Wires[slot].nbytes)) /\ arrived' = arrived \cup {slot} /\ schedule # <<>>
    BY <1>1 DEF Arrive
  <2>2. slot \in DOMAIN Sky
    BY <2>1, HeadTailProperties DEF SlotsInv
  <2>3. AtMostRoom(Wires[slot].nbytes) \in Nat
    BY <2>2, SlotsAreNumbers, DataPathAssumption, PacketAssumption DEF AtMostRoom
  <2>4. what.slot = slot
    OBVIOUS
  <2>5. arrived \subseteq DOMAIN Sky
    BY DEF BufInv, KeepsAll, Kept
  <2> HIDE DEF what, slot
  <2> QED
    BY <2>1, <2>2, <2>3, <2>4, <2>5, ReceiveBuf
<1>2. CASE StrayArrives
  <2>1. PICK s \in Strays : Receive([slot |-> Stray, header |-> s.header], AtMostRoom(s.nbytes))
    BY <1>2 DEF StrayArrives
  <2> DEFINE what == [slot |-> Stray, header |-> s.header]
  <2>2. Receive(what, AtMostRoom(s.nbytes)) /\ what.slot = Stray
    BY <2>1
  <2>3. AtMostRoom(s.nbytes) \in Nat
    BY DataPathAssumption, PacketAssumption DEF AtMostRoom
  <2>4. UNCHANGED arrived /\ arrived \subseteq DOMAIN Sky
    BY <1>2 DEF StrayArrives, BufInv
  <2> HIDE DEF what
  <2> QED
    BY <2>2, <2>3, <2>4, ReceiveBuf
<1>3. CASE ProcessPackets
  <2>1. /\ incoming'.npackets = 0 /\ incoming'.nbytes = 0 /\ incoming'.packet_offsets = <<0>>
        /\ incoming'.buf = {} /\ UNCHANGED arrived
    BY <1>3 DEF ProcessPackets, List!Empty
  <2> QED
    BY <2>1 DEF BufInv, KeepsAll, Kept
<1>4. CASE UNCHANGED <<arrived, incoming>>
  BY <1>4 DEF BufInv, KeepsAll, Kept, List!PacketAt, List!Offset
<1>5. \/ Arrive \/ StrayArrives \/ ProcessPackets \/ UNCHANGED <<arrived, incoming>>
  BY DEF Next, FillMask, StartDownsample, Downsample, WriteTemp, Rename, ReadFile,
         Done, vars, listVars, fileVars
<1> QED
  BY <1>1, <1>2, <1>3, <1>4, <1>5
-----------------------------------------------------------------------------
(* A datagram of the sender is decoded if recvfrom() kept all of it.       *)
WireOf(x) == [Wires[x.what.slot] EXCEPT !.nbytes = x.nbytes]

LEMMA WireDecodes ==
  ASSUME FastGeometry, BufInv, NEW x \in incoming.buf, x.what.slot # Stray
  PROVE  /\ Decodes(WireOf(x)) <=> FitsRoom(x.what.slot)
         /\ Decoded(WireOf(x)) = Decoded(Wires[x.what.slot])
<1> DEFINE s == x.what.slot
           v == Wires[s]
           w == WireOf(x)
           h == Header(s)
<1>1. s \in DOMAIN Sky /\ s \in Nat /\ x.nbytes = AtMostRoom(v.nbytes) /\ x.nbytes \in 1 .. MaxPacketSize
  BY Geometry DEF BufInv, KeepsAll, Kept
<1>2. /\ w.header = h /\ w.mem = v.mem /\ w.nbytes = x.nbytes /\ v.header = h
  <2>1. v = [f \in {"nbytes", "header", "mem"} |-> v[f]] /\ v.header = h
    BY <1>1 DEF Wires, Encoded
  <2>2. w = [v EXCEPT !.nbytes = x.nbytes]
    BY DEF WireOf
  <2> HIDE DEF v, w
  <2> QED
    BY <2>1, <2>2
<1>3. SizeMatches(h, v.nbytes) /\ v.mem[Pointers(h).coarse_freq_ids] = CoarseFreqIds
  BY <1>1, DecodedWire
<1>4. v.nbytes \in Nat /\ ReadSize \in 1 .. MaxPacketSize
  BY <1>1, SlotsAreNumbers, DataPathAssumption
<1>5. /\ h.protocol_version = 1 /\ h.ntsamp = 16 /\ h.fpga_counts_per_sample = FpgaPerSample
      /\ h.nfreq_coarse = NumFreqs
      /\ h.fpga_count = (FirstIchunk * NtPerChunk + s * 16) * FpgaPerSample
      /\ NtPerPacket = 16
  BY SlotsOfChunk DEF Header, NumFreqs
<1> HIDE DEF s, v, w, h
<1>6. Decoded(w) = Decoded(v)
  BY <1>2 DEF Decoded
<1>7. ASSUME FitsRoom(s) PROVE Decodes(w)
  <2>1. x.nbytes = v.nbytes
    BY <1>1, <1>4, <1>7 DEF FitsRoom, AtMostRoom, v
  <2>2. IsPowerOfTwo(h.ntsamp) /\ h.ntsamp <= MaxNtPerPacket
    <3>1. 2^4 = 16 /\ 4 \in 0 .. 16
      OBVIOUS
    <3> QED
      BY <1>5, <3>1, SenderAssumption DEF IsPowerOfTwo
  <2>3. h.fpga_counts_per_sample # 0 /\ h.fpga_count % (h.fpga_counts_per_sample * h.ntsamp) = 0
    <3>1. /\ NtPerChunk \in Nat \ {0} /\ NtPerChunk % 256 = 0
          /\ FirstIchunk \in Nat /\ FpgaPerSample \in Nat \ {0}
      BY Geometry DEF FastGeometry
    <3>2. ((FirstIchunk * NtPerChunk + s * 16) * FpgaPerSample) % (FpgaPerSample * 16) = 0
      BY <1>1, <3>1, SlotInChunk, ZenonT(60)
    <3> QED
      BY <1>5, <3>1, <3>2
  <2>4. x.nbytes >= 24
    <3>1. Counts(h)
      BY Geometry DEF h, Header, Counts, NumBeams, NumFreqs
    <3>2. HeaderSize(h) >= 24 /\ HeaderSize(h) \in Nat /\ DataSize(h) \in Nat
      <4>1. h.nbeams \in Nat /\ h.nfreq_coarse \in Nat /\ h.nupfreq \in Nat /\ h.ntsamp \in Nat
        BY <3>1 DEF Counts
      <4>2. h.nbeams * h.nfreq_coarse \in Nat /\ 8 * h.nbeams * h.nfreq_coarse \in Nat
        BY <4>1
      <4>3. h.nbeams * h.nfreq_coarse * h.nupfreq \in Nat
        BY <4>1, <4>2
      <4>4. DataSize(h) \in Nat
        BY <4>1, <4>3 DEF DataSize
      <4> QED
        BY <4>1, <4>2, <4>4 DEF HeaderSize
    <3> QED
      BY <1>3, <2>1, <3>2 DEF SizeMatches
  <2>5. Acceptable(h, x.nbytes)
    BY <1>1, <1>3, <1>5, <2>1, <2>2, <2>3, <2>4, PacketAssumption DEF Acceptable
  <2>6. ASSUME NEW i \in 0 .. h.nfreq_coarse - 1 PROVE CoarseFreqIds[i] < NfreqCoarseTot
    <3>1. CoarseFreqIds[i] \in Channels
      BY <1>5, SenderIs
    <3> QED
      BY <3>1, PacketAssumption DEF Channels
  <2> QED
    BY <1>2, <1>3, <2>5, <2>6 DEF Decodes
<1>8. ASSUME Decodes(w) PROVE FitsRoom(s)
  <2>1. SizeMatches(h, x.nbytes)
    BY <1>2, <1>8 DEF Decodes, Acceptable
  <2>2. x.nbytes = v.nbytes
    BY <1>3, <2>1 DEF SizeMatches
  <2> QED
    BY <1>1, <1>4, <2>2 DEF FitsRoom, AtMostRoom, v
<1> QED
  BY <1>6, <1>7, <1>8 DEF s, v, w

(* The slots of datagram i of the list: at most one. *)
SlotsAt(i) == {x.what.slot : x \in {y \in List!PacketAt(incoming, i) :
                                       y.what.slot # Stray /\ FitsRoom(y.what.slot)}}

LEMMA NthPutFills ==
  ASSUME FastGeometry, BufInv, NEW cs, PairShaped(cs), NEW A, Filled(cs, A), NEW i
  PROVE  Filled(NthPut(cs, i), A \cup SlotsAt(i))
<1> DEFINE ours == {WireOf(x) : x \in {y \in List!PacketAt(incoming, i) : y.what.slot # Stray}}
           w == CHOOSE u \in ours : TRUE
<1>1. NthPut(cs, i) = IF \E u \in ours : Decodes(u) THEN PutPacket(cs, "fast", Decoded(w)) ELSE cs
  BY DEF NthPut, WireOf
<1>2. ASSUME NEW x \in List!PacketAt(incoming, i), NEW y \in List!PacketAt(incoming, i) PROVE x = y
  <2>1. x \in incoming.buf /\ y \in incoming.buf /\ x.at = y.at
    BY SMTT(30) DEF List!PacketAt
  <2> QED
    BY <2>1 DEF BufInv, KeepsAll, Kept
<1>3. \A x \in List!PacketAt(incoming, i) : x \in incoming.buf
  BY DEF List!PacketAt
<1>4. CASE \E x \in List!PacketAt(incoming, i) : x.what.slot # Stray /\ FitsRoom(x.what.slot)
  <2>1. PICK x \in List!PacketAt(incoming, i) : x.what.slot # Stray /\ FitsRoom(x.what.slot)
    BY <1>4
  <2>2. ours = {WireOf(x)}
    BY <1>2, <2>1
  <2>3. SlotsAt(i) = {x.what.slot}
    BY <1>2, <2>1 DEF SlotsAt
  <2>4. Decodes(WireOf(x)) /\ Decoded(WireOf(x)) = Decoded(Wires[x.what.slot])
    BY <1>3, <2>1, WireDecodes
  <2>5. w = WireOf(x)
    BY <2>2
  <2> HIDE DEF ours, w
  <2>6. NthPut(cs, i) = PutPacket(cs, "fast", Decoded(Wires[x.what.slot]))
    BY <1>1, <2>2, <2>4, <2>5
  <2>7. x.what.slot \in DOMAIN Sky
    BY <1>3, <2>1 DEF BufInv, KeepsAll, Kept
  <2>8. Filled(PutPacket(cs, "fast", Decoded(Wires[x.what.slot])), A \cup {x.what.slot})
    BY <2>7, PacketFills
  <2> QED
    BY <2>3, <2>6, <2>8, Zenon
<1>5. CASE ~ \E x \in List!PacketAt(incoming, i) : x.what.slot # Stray /\ FitsRoom(x.what.slot)
  <2>1. A \cup SlotsAt(i) = A
    <3>1. SlotsAt(i) = {}
      BY <1>5 DEF SlotsAt
    <3> QED
      BY <3>1
  <2>2. \A u \in ours : ~Decodes(u)
    BY <1>3, <1>5, WireDecodes
  <2> HIDE DEF ours, w
  <2>3. NthPut(cs, i) = cs
    BY <1>1, <2>2, Zenon
  <2> QED
    BY <2>1, <2>3, Zenon
<1> QED
  BY <1>4, <1>5

SlotsIn(n) == UNION {SlotsAt(i) : i \in 0 .. n - 1}

LEMMA ListFills ==
  ASSUME FastGeometry, SlotsInv, BufInv, NEW cs, PairShaped(cs), NEW A, Filled(cs, A)
  PROVE  Filled(Loop(incoming.npackets, cs, NthPut), A \cup SlotsIn(incoming.npackets))
<1> DEFINE step(f, k) == IF k = 0 THEN cs ELSE NthPut(f[k - 1], k - 1)
           S == {n \in Nat : \E f : f = [k \in 0 .. n |-> step(f, k)]}
           n == incoming.npackets
           after == CHOOSE f : f = [k \in 0 .. n |-> step(f, k)]
           T == {k \in Nat : k <= n => PairShaped(after[k]) /\ Filled(after[k], A \cup SlotsIn(k))}
<1>1. Loop(incoming.npackets, cs, NthPut) = after[n]
  BY DEF Loop
<1>2. 0 \in S
  <2> DEFINE f == [k \in 0 .. 0 |-> cs]
  <2>1. f = [k \in 0 .. 0 |-> step(f, k)]
    OBVIOUS
  <2> QED
    BY <2>1
<1>3. ASSUME NEW m \in Nat, m \in S PROVE m + 1 \in S
  <2>1. PICK f : f = [k \in 0 .. m |-> step(f, k)]
    BY <1>3
  <2> DEFINE g == [k \in 0 .. m + 1 |-> IF k <= m THEN f[k] ELSE step(f, k)]
  <2>2. ASSUME NEW k \in 0 .. m + 1 PROVE g[k] = step(g, k)
    <3>1. step(g, k) = step(f, k)
      OBVIOUS
    <3>2. k <= m => f[k] = step(f, k)
      <4>1. k <= m => k \in 0 .. m
        OBVIOUS
      <4> QED
        BY <2>1, <4>1, Zenon
    <3> QED
      BY <3>1, <3>2
  <2>3. g = [k \in 0 .. m + 1 |-> step(g, k)]
    BY <2>2, Zenon
  <2> HIDE DEF g, step
  <2> QED
    BY <2>3
<1>4. n \in Nat
  BY DEF SlotsInv
<1>5. n \in S
  BY <1>2, <1>3, <1>4, NatSetInduction
<1>6. \A k \in 0 .. n : after[k] = step(after, k)
  <2>1. after = [k \in 0 .. n |-> step(after, k)]
    BY <1>5, Zenon
  <2> QED
    BY <2>1, Zenon
<1> HIDE DEF after, n
<1>7. 0 \in T
  <2>1. A \cup SlotsIn(0) = A
    <3>1. 0 .. 0 - 1 = {}
      OBVIOUS
    <3>2. SlotsIn(0) = {}
      BY <3>1 DEF SlotsIn
    <3> QED
      BY <3>2
  <2>2. 0 \in 0 .. n
    BY <1>4
  <2>3. after[0] = cs
    BY <1>6, <2>2
  <2> QED
    BY <2>1, <2>3
<1>8. ASSUME NEW k \in Nat, k \in T PROVE k + 1 \in T
  <2> SUFFICES ASSUME k + 1 <= n
               PROVE  PairShaped(after[k + 1]) /\ Filled(after[k + 1], A \cup SlotsIn(k + 1))
    OBVIOUS
  <2>1. /\ PairShaped(after[k]) /\ Filled(after[k], A \cup SlotsIn(k))
        /\ k + 1 \in 0 .. n /\ k + 1 # 0 /\ (k + 1) - 1 = k
    BY <1>8, <1>4
  <2>2. after[k + 1] = NthPut(after[k], k)
    BY <1>6, <2>1
  <2>3. (A \cup SlotsIn(k)) \cup SlotsAt(k) = A \cup SlotsIn(k + 1)
    <3>1. \A i : i \in 0 .. (k + 1) - 1 <=> i \in 0 .. k - 1 \/ i = k
      OBVIOUS
    <3> QED
      BY <3>1, Zenon DEF SlotsIn
  <2>4. Filled(NthPut(after[k], k), (A \cup SlotsIn(k)) \cup SlotsAt(k))
    BY <2>1, NthPutFills
  <2>5. PairShaped(NthPut(after[k], k))
    BY <2>1, NthPutKeeps
  <2> QED
    BY <2>2, <2>3, <2>4, <2>5, Zenon
<1>9. n \in T
  BY <1>4, <1>7, <1>8, NatSetInduction
<1>10. Filled(after[n], A \cup SlotsIn(n))
  <2>1. n <= n
    BY <1>4
  <2> QED
    BY <1>9, <2>1
<1> QED
  BY <1>1, <1>10, Zenon DEF n
-----------------------------------------------------------------------------
(* The chunks hold the packets that arrived and were kept whole, except    *)
(* those that still wait in the list, and nothing else.                    *)
HeldFrom(A) ==
  /\ A \subseteq arrived /\ \A s \in A : FitsRoom(s)
  /\ Filled(chunk["fast"], A)
  /\ ~failed => \A s \in arrived : FitsRoom(s) => \/ s \in A
                                                  \/ \E x \in incoming.buf : x.what.slot = s

FilledInv ==
  /\ \E A : HeldFrom(A)
  /\ stage # Filling => ~failed

LEMMA FilledInit ==
  ASSUME FastGeometry, Init
  PROVE  FilledInv
<1>1. chunk["fast"] = [h \in Halves |-> BlankChunk(1, FirstIchunk + h)] /\ arrived = {} /\ stage = Filling
  BY DEF Init, Impls
<1>2. Filled(chunk["fast"], {})
  <2> SUFFICES ASSUME NEW h \in Halves, NEW F \in Channels, NEW j \in ChunkSlots
               PROVE  Holds(BlankChunk(1, FirstIchunk + h), F, j, NoBlock)
    BY <1>1 DEF Filled, SlotBlock
  <2> DEFINE c == BlankChunk(1, FirstIchunk + h)
             S == SlotsPerChunk
  <2>1. S \in Nat \ {0} /\ NfreqCoarseTot \in Nat \ {0} /\ Nupfreq \in Nat \ {0} /\ NtPerChunk \in Nat \ {0}
    BY SlotsOfChunk, Geometry
  <2>2. F * S + j \in 0 .. NfreqCoarseTot * S - 1
    BY <2>1, InRow DEF Channels, ChunkSlots
  <2>3. /\ c.scales = Zeros(NfreqCoarseTot * S) /\ c.offsets = Zeros(NfreqCoarseTot * S)
        /\ c.data = Zeros(NfreqCoarseTot * Nupfreq * NtPerChunk)
    BY SMTT(30) DEF BlankChunk, NewChunk, SlotsPerChunk
  <2> HIDE DEF c, S
  <2>4. c.scales[F * S + j] = 0 /\ c.offsets[F * S + j] = 0
    BY <2>2, <2>3 DEF Zeros
  <2>5. ASSUME NEW u \in 0 .. Nupfreq - 1, NEW r \in 0 .. 15
        PROVE  c.data[At(F, u, 16 * j + r)] = NoBlock.bytes[u * 16 + r]
    <3>1. At(F, u, 16 * j + r) \in 0 .. NfreqCoarseTot * Nupfreq * NtPerChunk - 1
      BY SampleOfSlot, AtIsPlace DEF Channels
    <3>2. u * 16 + r \in 0 .. PerBlock - 1
      BY SlotsOfChunk, Geometry
    <3> QED
      BY <2>3, <3>1, <3>2 DEF Zeros, NoBlock
  <2>6. NoBlock.scale = 0 /\ NoBlock.offset = 0
    BY DEF NoBlock
  <2> QED
    BY <2>4, <2>5, <2>6 DEF Holds, c, S
<1>3. HeldFrom({})
  BY <1>1, <1>2 DEF HeldFrom
<1> QED
  BY <1>1, <1>3 DEF FilledInv

LEMMA FilledKept ==
  ASSUME FastGeometry, FilledInv, BufInv, SlotsInv, StageInv, ShapeInv, [Next]_vars
  PROVE  FilledInv'
<1>1. PICK A : HeldFrom(A)
  BY DEF FilledInv
<1>2. ASSUME NEW what, NEW nbytes \in Nat, Receive(what, nbytes), arrived' \subseteq DOMAIN Sky,
             arrived \subseteq arrived', UNCHANGED chunk,
             what.slot # Stray =>
               what.slot \in arrived' /\ nbytes = AtMostRoom(Wires[what.slot].nbytes),
             arrived' \subseteq arrived \cup {what.slot}
      PROVE  HeldFrom(A)'
  <2>1. incoming.buf \subseteq incoming'.buf /\ (~failed' => \E x \in incoming'.buf : x.what = what)
    BY <1>2, ReceiveBuf
  <2>2. ~failed
    BY <1>2 DEF Receive
  <2>3. Filled(chunk["fast"], A)'
    BY <1>1, <1>2 DEF HeldFrom, Filled
  <2>4. ASSUME ~failed', NEW s \in arrived', FitsRoom(s), s \notin A
        PROVE  \E x \in incoming'.buf : x.what.slot = s
    <3>1. CASE s \in arrived
      BY <1>1, <2>1, <2>2, <2>4, <3>1 DEF HeldFrom
    <3>2. CASE s = what.slot
      BY <2>1, <2>4, <3>2
    <3> QED
      BY <1>2, <3>1, <3>2
  <2>5. A \subseteq arrived' /\ \A s \in A : FitsRoom(s)
    BY <1>1, <1>2 DEF HeldFrom
  <2> QED
    BY <2>3, <2>4, <2>5 DEF HeldFrom, FitsRoom
<1>3. CASE Arrive
  <2> DEFINE slot == Head(schedule)
             what == [slot |-> slot, header |-> Header(slot)]
  <2>1. /\ Receive(what, AtMostRoom(Wires[slot].nbytes)) /\ arrived' = arrived \cup {slot}
        /\ schedule # <<>> /\ UNCHANGED <<chunk, stage>>
    BY <1>3 DEF Arrive
  <2>2. slot \in DOMAIN Sky
    BY <2>1, HeadTailProperties DEF SlotsInv
  <2>3. AtMostRoom(Wires[slot].nbytes) \in Nat
    BY <2>2, SlotsAreNumbers, DataPathAssumption, PacketAssumption DEF AtMostRoom
  <2>4. what.slot = slot /\ arrived \subseteq DOMAIN Sky
    BY DEF BufInv, KeepsAll, Kept
  <2>5. stage = Filling
    BY <2>1 DEF StageInv
  <2> HIDE DEF what, slot
  <2>6. HeldFrom(A)'
    BY <1>2, <2>1, <2>2, <2>3, <2>4
  <2> QED
    BY <2>1, <2>5, <2>6 DEF FilledInv
<1>4. CASE StrayArrives
  <2>1. PICK s \in Strays : Receive([slot |-> Stray, header |-> s.header], AtMostRoom(s.nbytes))
    BY <1>4 DEF StrayArrives
  <2> DEFINE what == [slot |-> Stray, header |-> s.header]
  <2>2. Receive(what, AtMostRoom(s.nbytes)) /\ what.slot = Stray
    BY <2>1
  <2>3. AtMostRoom(s.nbytes) \in Nat
    BY DataPathAssumption, PacketAssumption DEF AtMostRoom
  <2>4. UNCHANGED <<arrived, chunk, stage>> /\ arrived \subseteq DOMAIN Sky /\ stage = Filling
    BY <1>4 DEF StrayArrives, BufInv
  <2> HIDE DEF what
  <2>5. HeldFrom(A)'
    BY <1>2, <2>2, <2>3, <2>4
  <2> QED
    BY <2>4, <2>5 DEF FilledInv
<1>5. CASE ProcessPackets
  <2>0. PICK B : B = A \cup SlotsIn(incoming.npackets)
    OBVIOUS
  <2>1. chunk'["fast"] = Loop(incoming.npackets, chunk["fast"], NthPut)
    BY <1>5 DEF ProcessPackets, NthPut, Impls
  <2>2. ~failed /\ ~failed' /\ UNCHANGED <<arrived, stage>> /\ incoming.npackets \in Nat
    BY <1>5 DEF ProcessPackets, SlotsInv
  <2>3. Filled(Loop(incoming.npackets, chunk["fast"], NthPut), B)
    BY <1>1, <2>0, ListFills DEF HeldFrom, ShapeInv
  <2>4. B \subseteq arrived /\ \A s \in B : FitsRoom(s)
    <3>1. \A i : \A s \in SlotsAt(i) : s \in arrived /\ FitsRoom(s)
      <4> SUFFICES ASSUME NEW i, NEW x \in List!PacketAt(incoming, i), x.what.slot # Stray,
                          FitsRoom(x.what.slot)
                   PROVE  x.what.slot \in arrived
        BY DEF SlotsAt
      <4>1. x \in incoming.buf
        BY DEF List!PacketAt
      <4> QED
        BY <4>1 DEF BufInv, KeepsAll, Kept
    <3>2. \A s \in SlotsIn(incoming.npackets) : s \in arrived /\ FitsRoom(s)
      BY <3>1 DEF SlotsIn
    <3> QED
      BY <1>1, <2>0, <3>2 DEF HeldFrom
  <2>5. ASSUME NEW s \in arrived, FitsRoom(s) PROVE s \in B
    <3>1. CASE s \in A
      BY <2>0, <3>1
    <3>2. CASE \E x \in incoming.buf : x.what.slot = s
      <4>1. PICK x \in incoming.buf : x.what.slot = s
        BY <3>2
      <4>2. PICK i \in 0 .. incoming.npackets - 1 : x \in List!PacketAt(incoming, i)
        BY <4>1 DEF BufInv, KeepsAll, Kept
      <4>3. s # Stray
        <5>1. s \in DOMAIN Sky
          BY DEF BufInv, KeepsAll, Kept
        <5> QED
          BY <5>1, SlotsAreNumbers
      <4>4. s \in SlotsAt(i)
        BY <2>5, <4>1, <4>2, <4>3 DEF SlotsAt
      <4> QED
        BY <2>0, <4>2, <4>4 DEF SlotsIn
    <3> QED
      BY <1>1, <2>2, <2>5, <3>1, <3>2 DEF HeldFrom
  <2>6. Filled(chunk["fast"], B)'
    BY <2>1, <2>3 DEF Filled
  <2>7. HeldFrom(B)'
    BY <2>2, <2>4, <2>5, <2>6 DEF HeldFrom, FitsRoom
  <2> QED
    BY <2>2, <2>7 DEF FilledInv
<1>6. CASE FillMask
  <2>1. PICK h \in Halves, m \in RfiMasks :
          chunk' = [impl \in Impls |-> [chunk[impl] EXCEPT ![h].rfi_mask = m, ![h].has_rfi_mask = TRUE]]
    BY <1>6 DEF FillMask
  <2> DEFINE cs == chunk["fast"]
             ds == chunk'["fast"]
  <2>2. ds = [cs EXCEPT ![h].rfi_mask = m, ![h].has_rfi_mask = TRUE]
    BY <2>1 DEF Impls
  <2>3. cs = [g \in Halves |-> cs[g]] /\ \A g \in Halves : Shaped(cs[g], BlankChunk(1, FirstIchunk + g))
    BY DEF ShapeInv, PairShaped
  <2> HIDE DEF cs, ds
  <2>4. ASSUME NEW g \in Halves
        PROVE  ds[g].scales = cs[g].scales /\ ds[g].offsets = cs[g].offsets /\ ds[g].data = cs[g].data
    BY <2>2, <2>3 DEF Shaped
  <2>5. Filled(cs, A) => Filled(ds, A)
    <3>1. \A g \in Halves : \A F, j, b : Holds(cs[g], F, j, b) => Holds(ds[g], F, j, b)
      BY <2>4, SMTT(30) DEF Holds
    <3> QED
      BY <3>1 DEF Filled
  <2>6. Filled(chunk["fast"], A)'
    BY <1>1, <2>5, Zenon DEF HeldFrom, Filled, cs, ds
  <2>7. UNCHANGED <<arrived, failed, incoming, stage>>
    BY <1>6 DEF FillMask, listVars
  <2>8. HeldFrom(A)'
    BY <1>1, <2>6, <2>7 DEF HeldFrom, FitsRoom
  <2> QED
    BY <2>7, <2>8 DEF FilledInv
<1>7. CASE UNCHANGED <<arrived, failed, incoming, chunk>> /\ (stage' # Filling => stage # Filling \/ ~failed)
  <2>1. Filled(chunk["fast"], A)'
    BY <1>1, <1>7 DEF HeldFrom, Filled
  <2>2. HeldFrom(A)'
    BY <1>1, <1>7, <2>1 DEF HeldFrom, FitsRoom
  <2> QED
    BY <1>7, <2>2 DEF FilledInv
<1>8. \/ Arrive \/ StrayArrives \/ ProcessPackets \/ FillMask
      \/ UNCHANGED <<arrived, failed, incoming, chunk>> /\ (stage' # Filling => stage # Filling \/ ~failed)
  BY DEF Next, StartDownsample, AllArrived, Downsample, WriteTemp, Rename, ReadFile,
         Done, vars, listVars, fileVars
<1> QED
  BY <1>3, <1>4, <1>5, <1>6, <1>7, <1>8
-----------------------------------------------------------------------------
(* Rounding to a byte, either way, and what the byte says of the level.    *)
Rounds(q, m, s) == q = RoundHalfUp(m, s) \/ q = RoundHalfEven(m, s)
Clipped(l, s) == AtLeast(AtMost(l, 255 * s), 0)

LEMMA RoundedIs ==
  ASSUME NEW m \in Int, NEW s \in Nat \ {0}, NEW q, Rounds(q, m, s)
  PROVE  q \in Int /\ 2 * m - s <= 2 * (s * q) /\ 2 * (s * q) <= 2 * m + s
<1> DEFINE y == 2 * m + s
           d == 2 * s
           up == RoundHalfUp(m, s)
<1>1. up = y \div d /\ y \in Int /\ d \in Nat \ {0}
  BY DEF RoundHalfUp
<1>2. q = up \/ (q = up - 1 /\ y % d = 0)
  <2>1. RoundHalfEven(m, s) = IF y % d = 0 /\ up % 2 = 1 THEN up - 1 ELSE up
    BY Zenon DEF RoundHalfEven
  <2> HIDE DEF up, y, d
  <2> QED
    BY <2>1 DEF up, Rounds
<1> DEFINE x == s * up
<1>3. up \in Int /\ y = 2 * x + (y % d) /\ y % d \in 0 .. d - 1
  <2>1. y \div d \in Int /\ y = d * (y \div d) + (y % d) /\ y % d \in 0 .. d - 1
    <3> HIDE DEF y, d
    <3> QED
      BY <1>1
  <2>2. d * up = 2 * x
    <3>1. up \in Int
      BY <1>1, <2>1
    <3> HIDE DEF up
    <3> QED
      BY <3>1
  <2> HIDE DEF x, y, d, up
  <2> QED
    BY <1>1, <2>1, <2>2
<1>4. s * q = x \/ (s * q = x - s /\ y % d = 0)
  <2>1. s * (up - 1) = x - s
    <3> HIDE DEF up
    <3> QED
      BY <1>3
  <2> HIDE DEF up, y, d
  <2> QED
    BY <1>2, <2>1
<1>5. x \in Int /\ q \in Int
  <2> HIDE DEF up
  <2> QED
    BY <1>2, <1>3
<1> DEFINE z == s * q
           e == y % d
<1>6. 2 * m - s <= 2 * z /\ 2 * z <= 2 * m + s
  <2>1. 2 * m + s = 2 * x + e /\ e \in 0 .. d - 1 /\ (z = x \/ (z = x - s /\ e = 0)) /\ x \in Int
    BY <1>3, <1>4, <1>5
  <2> HIDE DEF x, z, e
  <2> QED
    BY <2>1
<1> QED
  BY <1>5, <1>6

LEMMA LevelIs ==
  ASSUME NEW l \in Int, NEW s \in Nat \ {0}, NEW q, Rounds(q, Clipped(l, s), s)
  PROVE  /\ q \in 0 .. 255
         /\ ~Masked(q) => 2 * (s * q) - 2 * l \in -s .. s
         /\ q = 0 => 2 * l <= s
         /\ q = 255 => 2 * l >= 509 * s
<1> DEFINE z == s * q
           m == Clipped(l, s)
<1>1. m \in 0 .. 255 * s /\ (m > 0 => l >= m) /\ (m < 255 * s => l <= m)
  BY DEF AtLeast, AtMost, Clipped
<1> HIDE DEF m
<1>2. m \in Int
  BY <1>1
<1>3. q \in Int /\ 2 * m - s <= 2 * z /\ 2 * z <= 2 * m + s
  <2>1. q \in Int /\ 2 * m - s <= 2 * (s * q) /\ 2 * (s * q) <= 2 * m + s
    BY <1>2, RoundedIs DEF m
  <2> QED
    BY <2>1
<1>31. z \in Int
  BY <1>3
<1>4. q >= 0
  <2> SUFFICES ASSUME q <= -1 PROVE FALSE
    BY <1>3
  <2>1. s * q <= s * (-1)
    BY <1>3
  <2>2. z <= -s
    BY <2>1
  <2> HIDE DEF z
  <2> QED
    BY <1>1, <1>2, <1>3, <1>31, <2>2
<1>5. q <= 255
  <2> SUFFICES ASSUME q >= 256 PROVE FALSE
    BY <1>3
  <2>1. s * q >= s * 256
    BY <1>3
  <2>2. z >= 256 * s
    BY <2>1
  <2> HIDE DEF z
  <2> QED
    BY <1>1, <1>2, <1>3, <1>31, <2>2
<1>6. ASSUME ~Masked(q) PROVE 2 * z - 2 * l \in -s .. s
  <2>1. q >= 1 /\ q <= 254
    BY <1>3, <1>4, <1>5, <1>6 DEF Masked
  <2>2. s * q >= s * 1 /\ s * q <= s * 254
    BY <1>3, <2>1
  <2>3. z >= s /\ z <= 254 * s /\ z \in Int
    BY <1>3, <2>2
  <2> HIDE DEF z
  <2>4. m > 0 /\ m < 255 * s
    BY <1>1, <1>3, <2>3
  <2> QED
    BY <1>1, <1>3, <2>3, <2>4
<1>7. ASSUME q = 0 PROVE 2 * l <= s
  <2>1. z = 0
    BY <1>7
  <2> HIDE DEF z
  <2>2. m < 255 * s
    BY <1>1, <1>3, <2>1
  <2> QED
    BY <1>1, <1>3, <2>1, <2>2
<1>8. ASSUME q = 255 PROVE 2 * l >= 509 * s
  <2>1. z = 255 * s
    BY <1>8
  <2> HIDE DEF z
  <2>2. m > 0
    BY <1>1, <1>3, <2>1
  <2> QED
    BY <1>1, <1>3, <2>1, <2>2
<1> QED
  BY <1>3, <1>4, <1>5, <1>6, <1>7, <1>8

LEMMA SumIsPositive ==
  ASSUME NEW f, NEW n \in Nat, \A i \in 0 .. n - 1 : f[i] \in Nat,
         NEW k \in 0 .. n - 1, f[k] > 0
  PROVE  SumTo(n, f) > 0
<1> DEFINE T == {m \in Nat : m <= n => SumTo(m, f) \in Nat /\ (k < m => SumTo(m, f) > 0)}
<1>1. 0 \in T
  BY SumStep
<1>2. ASSUME NEW m \in Nat, m \in T PROVE m + 1 \in T
  <2> SUFFICES ASSUME m + 1 <= n
               PROVE  SumTo(m + 1, f) \in Nat /\ (k < m + 1 => SumTo(m + 1, f) > 0)
    OBVIOUS
  <2>1. m \in 0 .. n - 1 /\ f[m] \in Nat
    OBVIOUS
  <2>2. SumTo(m + 1, f) = SumTo(m, f) + f[m]
    BY SumStep
  <2>3. m = k \/ ~(k < m + 1) \/ k < m
    BY <2>1
  <2> QED
    BY <1>2, <2>1, <2>2, <2>3
<1>3. n \in T
  BY <1>1, <1>2, NatSetInduction
<1> QED
  BY <1>3

(* encode(): a byte that is not masked stands for a sample that the sender *)
(* did not mask, half a step from it at most; a sample that is lost, and   *)
(* that the sender did not mask, lies off the scale or is one of zeros.    *)
AllZero(x, w, n, cutoff) == \A i \in 0 .. n - 1 : w[i] >= cutoff => x[i] = 0

BlockIs(b, x, w, n, cutoff) ==
  \A i \in 0 .. n - 1 :
    /\ ~Masked(b.bytes[i]) =>
         w[i] >= cutoff /\ 2 * Distance(b.scale * b.bytes[i] + b.offset, x[i]) <= b.scale
    /\ Masked(b.bytes[i]) /\ w[i] >= cutoff =>
         \/ b.scale > 0 /\ Distance(x[i], b.offset + 128 * b.scale) >= 126 * b.scale
         \/ b.scale = 0 /\ AllZero(x, w, n, cutoff)

LEMMA SquareIsNat ==
  ASSUME NEW z \in Int
  PROVE  z * z \in Nat /\ (z # 0 => z * z > 0)
<1>1. CASE z > 0
  <2>1. z * z > z * 0
    BY <1>1
  <2> QED
    BY <2>1
<1>2. CASE z < 0
  <2> DEFINE y == -z
  <2>1. y \in Nat \ {0} /\ z * z = y * y
    BY <1>2
  <2> HIDE DEF y
  <2>2. y * y > y * 0
    BY <2>1
  <2> QED
    BY <2>1, <2>2
<1>3. CASE z = 0
  BY <1>3
<1> QED
  BY <1>1, <1>2, <1>3

LEMMA EncodedBlockIs ==
  ASSUME NEW x, NEW w, NEW n \in Nat, NEW cutoff, \A i \in 0 .. n - 1 : x[i] \in Int,
         \A i \in 0 .. n - 1 : NanBytes[i] \in {0, 255}
  PROVE  BlockIs(EncodedBlock(x, w, n, cutoff), x, w, n, cutoff)
<1> DEFINE on(i) == w[i] >= cutoff
           ones == [i \in 0 .. n - 1 |-> IF on(i) THEN 1 ELSE 0]
           xs   == [i \in 0 .. n - 1 |-> IF on(i) THEN x[i] ELSE 0]
           x2s  == [i \in 0 .. n - 1 |-> IF on(i) THEN x[i] * x[i] ELSE 0]
           acc0 == SumTo(n, ones)
           acc1 == SumTo(n, xs)
           acc2 == SumTo(n, x2s)
           mean == acc1 \div acc0
           var  == (acc2 \div acc0) - mean * mean
           rms  == Sqrt(AtLeast(var, (mean * mean) \div 100000))
           scale == IF acc2 = 0 THEN 0 ELSE AtLeast(rms \div 25, 1)
           offset == mean - 128 * scale
           level(i) == IF on(i) THEN x[i] - offset ELSE 0
           byte(i) == IF scale = 0 THEN NanBytes[i]
                      ELSE RoundHalfUp(AtLeast(AtMost(level(i), 255 * scale), 0), scale)
           b0 == [scale |-> One, offset |-> 0, bytes |-> [i \in 0 .. n - 1 |-> 0]]
           b == [scale |-> scale, offset |-> offset, bytes |-> [i \in 0 .. n - 1 |-> byte(i)]]
<1>1. EncodedBlock(x, w, n, cutoff) = IF acc0 = 0 THEN b0 ELSE b
  BY DEF EncodedBlock
<1> HIDE DEF byte, offset, scale, mean, var, rms
<1>2. b.scale = scale /\ b.offset = offset /\ \A i \in 0 .. n - 1 : b.bytes[i] = byte(i)
  OBVIOUS
<1>3. \A i \in 0 .. n - 1 : b0.bytes[i] = 0
  OBVIOUS
<1> HIDE DEF b, b0
<1>4. \A i \in 0 .. n - 1 : ones[i] = (IF on(i) THEN 1 ELSE 0)
  BY Zenon
<1>5. \A i \in 0 .. n - 1 : xs[i] \in Int
  <2> SUFFICES ASSUME NEW i \in 0 .. n - 1 PROVE xs[i] \in Int
    OBVIOUS
  <2>1. xs[i] = (IF on(i) THEN x[i] ELSE 0)
    BY Zenon
  <2> HIDE DEF on, xs
  <2> QED
    BY <2>1
<1>51. \A i \in 0 .. n - 1 : x2s[i] \in Nat /\ (on(i) /\ x[i] # 0 => x2s[i] > 0)
  <2> SUFFICES ASSUME NEW i \in 0 .. n - 1
               PROVE  x2s[i] \in Nat /\ (on(i) /\ x[i] # 0 => x2s[i] > 0)
    OBVIOUS
  <2>1. x2s[i] = (IF on(i) THEN x[i] * x[i] ELSE 0)
    BY Zenon
  <2>2. x[i] * x[i] \in Nat /\ (x[i] # 0 => x[i] * x[i] > 0)
    BY SquareIsNat
  <2> HIDE DEF on, x2s
  <2> QED
    BY <2>1, <2>2
<1> HIDE DEF ones, xs, x2s
<1>6. \A i \in 0 .. n - 1 : ones[i] \in Nat /\ (on(i) => ones[i] > 0)
  <2> HIDE DEF on
  <2> QED
    BY <1>4
<1>7. acc0 \in Int /\ acc0 >= 0 /\ acc1 \in Int
  <2>1. (\A i \in 0 .. n - 1 : ones[i] \in Int) /\ (\A i \in 0 .. n - 1 : ones[i] >= 0)
    BY <1>6
  <2> QED
    BY <1>5, <2>1, SumIsInt
<1>8. (\E i \in 0 .. n - 1 : on(i)) => acc0 > 0
  <2> SUFFICES ASSUME NEW i \in 0 .. n - 1, on(i) PROVE acc0 > 0
    OBVIOUS
  <2>1. ones[i] > 0 /\ \A k \in 0 .. n - 1 : ones[k] \in Nat
    BY <1>6
  <2> QED
    BY <2>1, SumIsPositive
<1>81. acc2 = 0 => \A i \in 0 .. n - 1 : on(i) => x[i] = 0
  <2> SUFFICES ASSUME NEW i \in 0 .. n - 1, on(i), x[i] # 0 PROVE acc2 > 0
    OBVIOUS
  <2>1. x2s[i] > 0 /\ \A k \in 0 .. n - 1 : x2s[k] \in Nat
    BY <1>51
  <2> QED
    BY <2>1, SumIsPositive
<1>82. acc2 = 0 => AllZero(x, w, n, cutoff)
  BY <1>81, Zenon DEF AllZero
<1> HIDE DEF acc0, acc1, acc2, on
<1>9. CASE acc0 = 0
  <2>1. \A i \in 0 .. n - 1 : ~on(i) /\ Masked(b0.bytes[i])
    BY <1>3, <1>7, <1>8, <1>9 DEF Masked
  <2>2. BlockIs(b0, x, w, n, cutoff)
    BY <2>1 DEF BlockIs, on
  <2> QED
    BY <1>1, <1>9, <2>2, Zenon
<1>10. CASE acc0 # 0 /\ acc2 = 0
  <2>1. scale = 0
    BY <1>10 DEF scale
  <2>2. \A i \in 0 .. n - 1 : Masked(byte(i))
    <3> SUFFICES ASSUME NEW i \in 0 .. n - 1 PROVE Masked(byte(i))
      OBVIOUS
    <3>1. byte(i) = NanBytes[i]
      BY <2>1, Zenon DEF byte
    <3> QED
      BY <3>1 DEF Masked
  <2>3. BlockIs(b, x, w, n, cutoff)
    <3>1. \A i \in 0 .. n - 1 : Masked(b.bytes[i])
      BY <1>2, <2>2
    <3>2. b.scale = 0 /\ AllZero(x, w, n, cutoff)
      BY <1>2, <1>82, <1>10, <2>1
    <3> QED
      BY <3>1, <3>2 DEF BlockIs
  <2> QED
    BY <1>1, <1>10, <2>3, Zenon
<1>11. CASE acc0 # 0 /\ acc2 # 0
  <2>1. mean \in Int
    BY <1>7, <1>11 DEF mean
  <2>2. rms \in Nat
    BY SqrtIsNat DEF rms
  <2>3. scale \in Nat \ {0}
    BY <1>11, <2>2 DEF AtLeast, scale
  <2>4. offset \in Int
    BY <2>1, <2>3 DEF offset
  <2>5. ASSUME NEW i \in 0 .. n - 1
        PROVE  /\ ~Masked(byte(i)) =>
                    on(i) /\ 2 * Distance(scale * byte(i) + offset, x[i]) <= scale
               /\ Masked(byte(i)) /\ on(i) =>
                    scale > 0 /\ Distance(x[i], offset + 128 * scale) >= 126 * scale
    <3> DEFINE l == level(i)
               m == Clipped(l, scale)
               q == byte(i)
    <3>1. l \in Int /\ (on(i) => l = x[i] - offset) /\ (~on(i) => l = 0) /\ x[i] \in Int
      <4>1. x[i] - offset \in Int
        BY <2>4
      <4> QED
        BY <4>1
    <3>2. q = RoundHalfUp(m, scale)
      <4>1. scale # 0
        BY <2>3
      <4> QED
        BY <4>1, Zenon DEF byte, Clipped
    <3> HIDE DEF l, q
    <3> DEFINE z == scale * q
    <3>21. Rounds(q, Clipped(l, scale), scale)
      BY <3>2 DEF Rounds
    <3>3. /\ q \in 0 .. 255
          /\ ~Masked(q) => 2 * z - 2 * l \in -scale .. scale
          /\ q = 0 => 2 * l <= scale
          /\ q = 255 => 2 * l >= 509 * scale
      BY <2>3, <3>1, <3>21, LevelIs
    <3>4. z \in Int
      BY <2>3, <3>3
    <3>5. ~on(i) => Masked(q)
      <4> SUFFICES ASSUME l = 0 PROVE Masked(q)
        BY <3>1
      <4>1. m = 0
        BY <2>3 DEF AtLeast, AtMost, Clipped
      <4>2. q = 0
        <5>1. RoundHalfUp(0, scale) = 0
          BY <2>3, RoundingsAreNear
        <5> HIDE DEF m
        <5> QED
          BY <3>2, <4>1, <5>1
      <4> QED
        BY <4>2 DEF Masked
    <3> HIDE DEF z, m
    <3>6. ASSUME ~Masked(q) PROVE 2 * Distance(z + offset, x[i]) <= scale
      <4>1. l = x[i] - offset
        BY <3>1, <3>5, <3>6
      <4>2. 2 * z - 2 * l \in -scale .. scale
        BY <3>3, <3>6
      <4> QED
        BY <2>3, <2>4, <3>1, <3>4, <4>1, <4>2 DEF Distance
    <3>7. ASSUME Masked(q), on(i) PROVE Distance(x[i], offset + 128 * scale) >= 126 * scale
      <4>1. l = x[i] - offset /\ (2 * l <= scale \/ 2 * l >= 509 * scale)
        BY <3>1, <3>3, <3>7 DEF Masked
      <4> QED
        BY <2>3, <2>4, <3>1, <4>1 DEF Distance
    <3>8. scale > 0
      BY <2>3
    <3> QED
      BY <3>5, <3>6, <3>7, <3>8 DEF q, z
  <2>6. BlockIs(b, x, w, n, cutoff)
    <3> SUFFICES ASSUME NEW i \in 0 .. n - 1
                 PROVE  /\ ~Masked(b.bytes[i]) =>
                             on(i) /\ 2 * Distance(b.scale * b.bytes[i] + b.offset, x[i]) <= b.scale
                        /\ Masked(b.bytes[i]) /\ on(i) =>
                             b.scale > 0 /\ Distance(x[i], b.offset + 128 * b.scale) >= 126 * b.scale
      BY DEF BlockIs, on
    <3>1. b.scale = scale /\ b.offset = offset /\ b.bytes[i] = byte(i)
      BY <1>2
    <3>2. /\ ~Masked(byte(i)) => on(i) /\ 2 * Distance(scale * byte(i) + offset, x[i]) <= scale
          /\ Masked(byte(i)) /\ on(i) =>
               scale > 0 /\ Distance(x[i], offset + 128 * scale) >= 126 * scale
      BY <2>5
    <3> QED
      BY <3>1, <3>2
  <2> QED
    BY <1>1, <1>11, <2>6, Zenon
<1> QED
  BY <1>9, <1>10, <1>11
-----------------------------------------------------------------------------
(* When all packets have been processed, a chunk holds those that arrived  *)
(* and fit.                                                                *)
LEMMA SettledHolds ==
  ASSUME FastGeometry, Settled, FilledInv, BufInv, StageInv,
         NEW h \in Halves, NEW F \in Channels, NEW j \in ChunkSlots
  PROVE  LET slot == h * SlotsPerChunk + j
             in == slot \in arrived /\ FitsRoom(slot) /\ Carried(F)
         IN  Holds(chunk["fast"][h], F, j, IF in THEN SkyBlock(slot, F) ELSE NoBlock)
<1>1. ~failed /\ incoming.npackets = 0
  BY DEF Settled, AllArrived, FilledInv, StageInv, Filling, Finished, Kernel
<1>2. incoming.buf = {}
  <2>1. 0 .. incoming.npackets - 1 = {}
    BY <1>1
  <2> QED
    BY <2>1 DEF BufInv, KeepsAll, Kept
<1>3. PICK A : HeldFrom(A)
  BY DEF FilledInv
<1>4. A = {s \in arrived : FitsRoom(s)}
  BY <1>1, <1>2, <1>3 DEF HeldFrom
<1> DEFINE slot == h * SlotsPerChunk + j
<1>5. Holds(chunk["fast"][h], F, j, SlotBlock(A, slot, F))
  BY <1>3 DEF HeldFrom, Filled
<1> HIDE DEF slot
<1>6. SlotBlock(A, slot, F) =
        IF slot \in arrived /\ FitsRoom(slot) /\ Carried(F) THEN SkyBlock(slot, F) ELSE NoBlock
  BY <1>4 DEF SlotBlock
<1> QED
  BY <1>5, <1>6, Zenon DEF slot

(* What a chunk decodes to is what was sent, for every stream, every sky   *)
(* and every order in which packets arrive, with the geometry that the     *)
(* fast class is used for.                                                 *)
LEMMA SettledIsSent ==
  ASSUME FastGeometry, Settled, FilledInv, BufInv, StageInv, ShapeInv
  PROVE  ReceivedAsSent
<1> SUFFICES ASSUME NEW h \in Halves, NEW fine \in FineChannels, NEW it \in 0 .. NtPerChunk - 1
             PROVE  LET c == chunk["fast"][h]
                        d == DecodedSample(c, fine, it, 1)
                        slot == h * SlotsPerChunk + (it \div NtPerPacket)
                        f == CHOOSE f \in DOMAIN CoarseFreqIds : CoarseFreqIds[f] = fine \div Nupfreq
                        b == CHOOSE b \in DOMAIN BeamIds : BeamIds[b] = MyBeam
                        k == b * Cardinality(DOMAIN CoarseFreqIds) + f
                        i == (fine % Nupfreq) * NtPerPacket + (it % NtPerPacket)
                        scale == ScaleOf(c, fine, it)
                        sent == /\ fine \div Nupfreq \in {CoarseFreqIds[g] : g \in DOMAIN CoarseFreqIds}
                                /\ MyBeam \in {BeamIds[g] : g \in DOMAIN BeamIds}
                                /\ slot \in arrived /\ Wires[slot].nbytes <= ReadSize + 1
                                /\ Weights[slot][k][i] >= WtCutoff
                        mean == c.offsets[(fine \div Nupfreq) * SlotsPerChunk + (it \div NtPerPacket)]
                                  + 128 * scale
                    IN  /\ d.weight = 1 => sent /\ 2 * Distance(d.intensity, Sky[slot][k][i]) <= scale
                        /\ d.weight = 0 /\ sent =>
                             \/ scale > 0 /\ Distance(Sky[slot][k][i], mean) >= 126 * scale
                             \/ scale = 0 /\ Silent(slot, k)
  BY Zenon DEF ReceivedAsSent
<1> DEFINE F == fine \div Nupfreq
           u == fine % Nupfreq
           j == it \div NtPerPacket
           r == it % NtPerPacket
           c == chunk["fast"][h]
           d == DecodedSample(c, fine, it, 1)
           slot == h * SlotsPerChunk + j
           k == SenderBeam * NumFreqs + SenderFreq(F)
           i == u * NtPerPacket + r
           l == F * SlotsPerChunk + j
           here == slot \in arrived /\ FitsRoom(slot) /\ Carried(F)
           b == IF here THEN SkyBlock(slot, F) ELSE NoBlock
           x == Sky[slot][k][i]
           on == Weights[slot][k][i] >= WtCutoff
<1>1. /\ NtPerPacket = 16 /\ NtPerChunk = 16 * SlotsPerChunk /\ SlotsPerChunk \in Nat \ {0}
      /\ Nupfreq \in Nat \ {0} /\ NfreqCoarseTot \in Nat \ {0} /\ PerBlock = Nupfreq * 16
  BY SlotsOfChunk, Geometry
<1>2. F \in Channels /\ u \in 0 .. Nupfreq - 1 /\ F * Nupfreq + u = fine
  <2>1. fine \in 0 .. NfreqCoarseTot * Nupfreq - 1
    BY DEF FineChannels
  <2>2. F \in 0 .. NfreqCoarseTot - 1 /\ u \in 0 .. Nupfreq - 1
    BY <1>1, <2>1, BlockNumber
  <2>3. fine \in Nat /\ fine = Nupfreq * F + u
    BY <1>1, <2>1
  <2>4. F \in Nat /\ u \in Nat
    BY <2>2
  <2> HIDE DEF F, u
  <2>5. F * Nupfreq = Nupfreq * F
    BY <1>1, <2>4
  <2> QED
    BY <2>2, <2>3, <2>5 DEF Channels
<1>3. j \in ChunkSlots /\ r \in 0 .. 15 /\ 16 * j + r = it
  BY <1>1 DEF ChunkSlots
<1>4. i = u * 16 + r /\ i \in 0 .. PerBlock - 1
  <2> HIDE DEF u, r
  <2> QED
    BY <1>1, <1>2, <1>3, InRow
<1>5. OfBeam(c, h)
  BY DEF ShapeInv, PairShaped, OfBeam
<1>6. c.nupfreq = Nupfreq /\ c.nt_per_packet = 16 /\ NtCoarse(c) = SlotsPerChunk
  BY <1>5, BeamFields
<1>7. Holds(c, F, j, b)
  <2> HIDE DEF F, j
  <2> QED
    BY <1>2, <1>3, SettledHolds
<1> HIDE DEF F, u, j, r, c, b, slot, k, i
<1> DEFINE byte == c.data[fine * NtPerChunk + it]
<1>8. c.scales[l] = b.scale /\ c.offsets[l] = b.offset /\ byte = b.bytes[i]
  <2>1. At(F, u, 16 * j + r) = fine * NtPerChunk + it
    BY <1>2, <1>3, Zenon DEF At
  <2>2. c.data[At(F, u, 16 * j + r)] = b.bytes[u * 16 + r]
    BY <1>2, <1>3, <1>7 DEF Holds
  <2>3. c.scales[l] = b.scale /\ c.offsets[l] = b.offset
    BY <1>7 DEF Holds
  <2> QED
    BY <1>4, <2>1, <2>2, <2>3
<1>9. d.intensity = b.scale * 1 * b.bytes[i] + b.offset * 1
      /\ d.weight = (IF Masked(b.bytes[i]) THEN 0 ELSE 1)
  <2>1. (fine \div c.nupfreq) * NtCoarse(c) + (it \div c.nt_per_packet) = l
    BY <1>1, <1>6, Zenon DEF F, j
  <2>2. d = [intensity |-> c.scales[l] * 1 * byte + c.offsets[l] * 1,
             weight |-> IF Masked(byte) THEN 0 ELSE 1]
    BY <2>1, Zenon DEF DecodedSample
  <2>3. d = [intensity |-> b.scale * 1 * b.bytes[i] + b.offset * 1,
             weight |-> IF Masked(b.bytes[i]) THEN 0 ELSE 1]
    BY <1>8, <2>2, Zenon
  <2> HIDE DEF d
  <2> QED
    BY <2>3
<1>10. /\ ~Masked(b.bytes[i]) =>
            here /\ on /\ 2 * Distance(b.scale * 1 * b.bytes[i] + b.offset * 1, x) <= b.scale
       /\ Masked(b.bytes[i]) /\ here /\ on =>
            \/ b.scale > 0 /\ Distance(x, b.offset + 128 * b.scale) >= 126 * b.scale
            \/ b.scale = 0 /\ Silent(slot, k)
  <2>1. CASE ~here
    <3>1. b = NoBlock
      BY <2>1 DEF b
    <3>2. Masked(b.bytes[i])
      BY <1>4, <3>1 DEF NoBlock, Masked
    <3> QED
      BY <2>1, <3>2, Zenon
  <2>2. CASE here
    <3>1. b = BlockSent(slot, k)
      BY <2>2 DEF b, SkyBlock, k
    <3>2. slot \in DOMAIN Sky
      BY <2>2 DEF BufInv
    <3>3. k \in 0 .. NumBeams * NumFreqs - 1
      <4>1. SenderBeam \in 0 .. NumBeams - 1 /\ SenderFreq(F) \in 0 .. NumFreqs - 1
        <5>1. PICK g \in DOMAIN BeamIds : BeamIds[g] = MyBeam
          BY <2>2 DEF Carried
        <5>2. PICK e \in DOMAIN CoarseFreqIds : CoarseFreqIds[e] = F
          BY <2>2 DEF Carried
        <5>3. SenderBeam \in DOMAIN BeamIds
          BY <5>1 DEF SenderBeam
        <5>4. SenderFreq(F) \in DOMAIN CoarseFreqIds
          BY <5>2 DEF SenderFreq
        <5> QED
          BY <5>3, <5>4, SenderIs
      <4> QED
        BY <4>1, Geometry, InRow DEF k
    <3>4. \A e \in 0 .. PerBlock - 1 : Sky[slot][k][e] \in Int
      <4>1. Sky[slot] \in [0 .. NumBeams * NumFreqs - 1 -> [0 .. PerBlock - 1 -> Int]]
        BY <3>2, SkyAssumption DEF PerBlock, NumBeams, NumFreqs
      <4> QED
        BY <3>3, <4>1
    <3>5. BlockIs(b, Sky[slot][k], Weights[slot][k], PerBlock, WtCutoff)
      BY <3>1, <3>4, Geometry, BytesOfNan, EncodedBlockIs DEF BlockSent
    <3>51. AllZero(Sky[slot][k], Weights[slot][k], PerBlock, WtCutoff) => Silent(slot, k)
      <4>1. DOMAIN Sky[slot][k] = 0 .. PerBlock - 1
        <5>1. Sky[slot] \in [0 .. NumBeams * NumFreqs - 1 -> [0 .. PerBlock - 1 -> Int]]
          BY <3>2, SkyAssumption DEF PerBlock, NumBeams, NumFreqs
        <5> QED
          BY <3>3, <5>1
      <4> QED
        BY <4>1, Zenon DEF AllZero, Silent
    <3>6. b.scale \in Int /\ b.offset \in Int /\ b.bytes[i] \in Int
      BY <1>4, <3>1, <3>4, Geometry, BytesOfNan, EncodedNumbers DEF BlockSent
    <3>7. b.scale * 1 * b.bytes[i] + b.offset * 1 = b.scale * b.bytes[i] + b.offset
      BY <3>6
    <3>8. /\ ~Masked(b.bytes[i]) =>
               on /\ 2 * Distance(b.scale * b.bytes[i] + b.offset, x) <= b.scale
          /\ Masked(b.bytes[i]) /\ on =>
               \/ b.scale > 0 /\ Distance(x, b.offset + 128 * b.scale) >= 126 * b.scale
               \/ b.scale = 0 /\ Silent(slot, k)
      BY <1>4, <3>5, <3>51, Zenon DEF BlockIs
    <3> QED
      BY <2>2, <3>7, <3>8, Zenon
  <2> QED
    BY <2>1, <2>2
<1> DEFINE scale == ScaleOf(c, fine, it)
           mean == c.offsets[l] + 128 * scale
           sent == /\ F \in {CoarseFreqIds[g] : g \in DOMAIN CoarseFreqIds}
                   /\ MyBeam \in {BeamIds[g] : g \in DOMAIN BeamIds}
                   /\ slot \in arrived /\ Wires[slot].nbytes <= ReadSize + 1
                   /\ on
<1>11. scale = b.scale /\ mean = b.offset + 128 * b.scale
  BY <1>8, Zenon DEF ScaleOf, F, j
<1>12. sent <=> here /\ on
  BY Zenon DEF Carried, FitsRoom
<1>13. /\ d.weight = 1 => sent /\ 2 * Distance(d.intensity, x) <= scale
       /\ d.weight = 0 /\ sent =>
            \/ scale > 0 /\ Distance(x, mean) >= 126 * scale
            \/ scale = 0 /\ Silent(slot, k)
  <2>1. d.weight = 1 => ~Masked(b.bytes[i])
    BY <1>9
  <2>2. d.weight = 0 => Masked(b.bytes[i])
    BY <1>9
  <2> HIDE DEF d, scale, mean, sent, here, on
  <2> QED
    BY <1>9, <1>10, <1>11, <1>12, <2>1, <2>2, Zenon
<1> QED
  BY <1>13, Zenon DEF F, u, j, r, c, slot, k, i, SenderBeam, SenderFreq, NumFreqs

(* Decoding a chunk gives what was sent, up to half a step of the scale, for  *)
(* every geometry, order of arrival, loss and repetition of packets: each     *)
(* packet's samples are put at their own places by add_packet(), no packet    *)
(* overwrites another, and what never arrived decodes as masked.  A block of  *)
(* zeros has no scale, and decodes as masked whatever encode() makes of it.   *)
THEOREM ReceivedIsSent ==
  ASSUME FastGeometry
  PROVE  Spec => []ReceivedAsSent
<1> DEFINE IInv == SlotsInv /\ StageInv /\ ShapeInv /\ BufInv /\ FilledInv
<1>1. Init => IInv
  <2> SUFFICES ASSUME Init PROVE IInv
    OBVIOUS
  <2>1. SlotsInv
    BY DataPathAssumption DEF Init, SlotsInv, List!Empty
  <2>2. StageInv
    BY DEF Init, StageInv
  <2>3. ShapeInv
    BY BlankIsShaped DEF Init, ShapeInv, PairShaped, Impls
  <2>4. BufInv
    <3>1. /\ incoming.npackets = 0 /\ incoming.nbytes = 0 /\ incoming.packet_offsets = <<0>>
          /\ incoming.buf = {} /\ arrived = {}
      BY DEF Init, List!Empty
    <3> QED
      BY <3>1 DEF BufInv, KeepsAll
  <2>5. FilledInv
    BY FilledInit
  <2> QED
    BY <2>1, <2>2, <2>3, <2>4, <2>5
<1>2. IInv /\ [Next]_vars => IInv'
  BY SlotsKept, StageKept, ShapeKept, BufKept, FilledKept
<1>3. IInv => ReceivedAsSent
  <2>1. ~Settled => ReceivedAsSent
    BY Zenon DEF ReceivedAsSent
  <2> QED
    BY <2>1, SettledIsSent
<1> HIDE DEF IInv
<1> QED
  BY <1>1, <1>2, <1>3, PTL DEF Spec
===============================================================================
