------------------------------- MODULE DataPath -------------------------------
(***************************************************************************)
(* The way of the data of one beam from the sender to a downsampled chunk: *)
(* intensities are encoded into packets, packets arrive late, twice or not *)
(* at all, are collected in a list, decoded and added to one of two consecutive chunks, RFI     *)
(* masks are filled, the chunks are downsampled into one, and chunks are   *)
(* written to msgpack files and read back.                                 *)
(*                                                                         *)
(* Every chunk is kept twice, as assembled_chunk (reference code) and as   *)
(* fast_assembled_chunk (AVX2), which receive the same calls.  Threads and *)
(* the ring buffer are the subject of other modules.                       *)
(***************************************************************************)
EXTENDS FastAssembledChunk, ChunkFile

CONSTANTS
  Nupfreq, NtPerPacket, NrfiFreq, FpgaPerSample,   \* ini_params of the stream
  BeamIds, CoarseFreqIds,   \* of every packet, functions from 0 .. n - 1
  MyBeam,          \* the beam whose chunks are followed
  FirstIchunk,     \* ichunk of the first of its two chunks
  Sky, Weights,    \* [slot -> [block -> [sample -> number]]]: what is sent; slots of NtPerPacket samples
  WtCutoff,        \* wt_cutoff of the sender
  MaxNpackets, MaxNbytes,   \* limits of a packet list
  ReadSize,        \* ini_params.max_packet_size
  Schedules,       \* the orders in which packets may arrive: sequences of slots
  RfiMasks,        \* the masks the RFI thread may find
  Strays           \* other datagrams: records of a header and nbytes

List == INSTANCE UdpPacketList WITH MaxInputSize <- MaxPacketSize

ASSUME DataPathAssumption ==
  /\ ValidGeometry(Nupfreq, NtPerPacket, NrfiFreq)
  /\ {NrfiFreq, FirstIchunk} \subseteq Nat
  /\ RfiMasks \subseteq [0 .. NrfiFreq * NtPerChunk - 1 -> {0, 1}]
  /\ FpgaPerSample \in 1 .. MaxFpgaPerSample
  /\ {MaxNpackets, MaxNbytes} \subseteq Nat \ {0}
  /\ ReadSize \in 1 .. MaxPacketSize
  /\ DOMAIN Sky \subseteq Nat /\ Schedules \subseteq Seq(DOMAIN Sky)
  /\ IsFiniteSet(DOMAIN BeamIds) /\ IsFiniteSet(DOMAIN CoarseFreqIds)
  /\ \A s \in Strays : s.nbytes \in Nat
  /\ \A s \in Strays : {s.header.nbeams, s.header.nfreq_coarse, s.header.nupfreq, s.header.ntsamp} \subseteq Nat

ASSUME SkyAssumption ==
  LET nb == Cardinality(DOMAIN BeamIds)
      nf == Cardinality(DOMAIN CoarseFreqIds)
  IN  /\ CoarseFreqIds \in [0 .. nf - 1 -> Nat] /\ WtCutoff \in Int
      /\ \A slot \in DOMAIN Sky :
           {Sky[slot], Weights[slot]} \subseteq [0 .. nb * nf - 1 -> [0 .. Nupfreq * NtPerPacket - 1 -> Int]]

(* Either byte stands for a masked sample. *)
ASSUME NanAssumption == NanBytes \in [0 .. Nupfreq * NtPerPacket - 1 -> {0, 255}]

(* What the constructor of intensity_network_ostream accepts of the above. *)
ASSUME SenderAssumption ==
  /\ NtPerPacket <= MaxNtPerPacket
  /\ BeamIds \in [0 .. Cardinality(DOMAIN BeamIds) - 1 -> Nat]
  /\ CoarseFreqIds \in [0 .. Cardinality(DOMAIN CoarseFreqIds) - 1 -> 0 .. NfreqCoarseTot - 1]
  /\ \A ids \in {BeamIds, CoarseFreqIds} :
       /\ DOMAIN ids # {}
       /\ \A i, j \in DOMAIN ids : i # j => ids[i] # ids[j]

Impls == {"reference", "fast"}
Halves == 0 .. 1
SlotsPerChunk == NtPerChunk \div NtPerPacket

VARIABLES
  schedule,    \* the slots of the packets still to arrive
  arrived,     \* the slots of the packets that have arrived
  incoming,    \* incoming_packet_list
  failed,      \* add_packet() has thrown: the network thread and the stream end
  accepted,    \* the stray datagrams that decode() accepted
  chunk,       \* [Impls -> [Halves -> chunk]]
  down,        \* [Impls -> chunk]: the downsampled one
  stage,       \* the next kernel of downsample(), or Filling or Finished
  saved,       \* the chunk written to a file: "first", "second", "down" or "none"
  temp, named, \* the items in the temporary file and in the named one; none is no file
  loaded       \* what was read back: at most one chunk

fileVars == <<saved, temp, named, loaded>>
listVars == <<incoming, failed>>
vars == <<schedule, arrived, listVars, accepted, chunk, down, stage, fileVars>>

BlankChunk(binning, ichunk) ==
  NewChunk(MyBeam, Nupfreq, NtPerPacket, NrfiFreq, FpgaPerSample, binning, ichunk, 0)

Kernel(n, f, h) == [kernel |-> n, freq |-> f, half |-> h]
Filling  == Kernel(0, 0, 0)
Finished == Kernel(5, 0, 0)

Init ==
  /\ schedule \in Schedules
  /\ arrived = {} /\ accepted = {}
  /\ incoming = List!Empty /\ failed = FALSE
  /\ chunk = [impl \in Impls |-> [h \in Halves |-> BlankChunk(1, FirstIchunk + h)]]
  /\ down = [impl \in Impls |-> BlankChunk(2, FirstIchunk)]
  /\ stage = Filling
  /\ saved = "none" /\ temp = <<>> /\ named = <<>> /\ loaded = {}

-----------------------------------------------------------------------------
(* Packets.                                                                *)

Header(slot) ==
  [protocol_version |-> 1,
   data_nbytes |-> Cardinality(DOMAIN BeamIds) * Cardinality(DOMAIN CoarseFreqIds) * Nupfreq * NtPerPacket,
   fpga_counts_per_sample |-> FpgaPerSample,
   fpga_count |-> (FirstIchunk * NtPerChunk + slot * NtPerPacket) * FpgaPerSample,
   nbeams |-> Cardinality(DOMAIN BeamIds), nfreq_coarse |-> Cardinality(DOMAIN CoarseFreqIds),
   nupfreq |-> Nupfreq, ntsamp |-> NtPerPacket]

Wires == [slot \in DOMAIN Sky |->
            Encoded(Header(slot), BeamIds, CoarseFreqIds, Sky[slot], Weights[slot], WtCutoff)]

(* The assembler: each beam of the packet goes to the chunk of that beam   *)
(* its time lies in.                                                       *)
Added1(impl, c, p) ==
  CASE impl = "fast" -> FastAddPacket(c, p)
    [] impl = "reference" /\ Fits(c, p) -> AddPacket(c, p)
    [] OTHER -> c                                        \* it throws

PutPacket(chunks, impl, p) ==
  LET ichunk == (p.header.fpga_count \div FpgaPerSample) \div NtPerChunk
      body(cs, ib) ==
        LET q == OneBeam(p, ib)
        IN  IF q.beam_ids[0] # MyBeam THEN cs
            ELSE [cs EXCEPT ![ichunk - FirstIchunk] = Added1(impl, @, q)]
  IN  Loop(p.header.nbeams, chunks, body)

(* The network thread reads a datagram, of which recvfrom() keeps as many  *)
(* bytes as it was given room for, to data_end.  One of 24 bytes is no     *)
(* packet (that it may end the stream is NetworkStream's); of a bad size   *)
(* is one that add_packet() throws for.                                    *)
AtMostRoom(nbytes) == IF nbytes > ReadSize + 1 THEN ReadSize + 1 ELSE nbytes

Receive(what, nbytes) ==
  /\ ~failed
  /\ ~incoming.is_full
  /\ nbytes # 24
  /\ failed' = List!AddThrows(incoming, nbytes)
  /\ incoming' = IF failed' THEN incoming ELSE List!AddPacket(incoming, what, nbytes)

Stray == -1     \* in place of the slot

Arrive ==
  /\ schedule # <<>>
  /\ LET slot == Head(schedule) IN
       /\ Receive([slot |-> slot, header |-> Header(slot)], AtMostRoom(Wires[slot].nbytes))
       /\ arrived' = arrived \union {slot}
  /\ schedule' = Tail(schedule)
  /\ UNCHANGED <<accepted, chunk, down, stage, fileVars>>

(* A datagram of another stream: near the end, one in a list (bounds). *)
StrayArrives ==
  /\ Len(schedule) <= 1 /\ stage = Filling /\ accepted = {}
  /\ \A x \in incoming.buf : x.what.slot # Stray
  /\ \E s \in Strays : Receive([slot |-> Stray, header |-> s.header], AtMostRoom(s.nbytes))
  /\ UNCHANGED <<schedule, arrived, accepted, chunk, down, stage, fileVars>>

(* A list is handed over when it is full or has waited for long: that is   *)
(* taken to happen with the first packet of all or after the last (bound). *)
(* The assembler decodes its packets in order and the list is reset.       *)
HandedOver == incoming.is_full \/ Cardinality(arrived) = 1 \/ schedule = <<>>

ProcessPackets ==
  /\ ~failed
  /\ incoming.npackets > 0 /\ HandedOver
  /\ LET packet(i) == List!PacketAt(incoming, i)
         wire(x) == [Wires[x.what.slot] EXCEPT !.nbytes = x.nbytes]
         ours(i) == {wire(x) : x \in {y \in packet(i) : y.what.slot # Stray}}
         put(impl, chunks, i) ==
           IF \E w \in ours(i) : Decodes(w)
           THEN PutPacket(chunks, impl, Decoded(CHOOSE w \in ours(i) : TRUE)) ELSE chunks
         strays == {x \in UNION {packet(i) : i \in 0 .. incoming.npackets - 1} : x.what.slot = Stray}
     IN  /\ chunk' = [impl \in Impls |->
                        Loop(incoming.npackets, chunk[impl], LAMBDA chunks, i : put(impl, chunks, i))]
         /\ accepted' = accepted \union {[header |-> x.what.header, nbytes |-> x.nbytes] :
                          x \in {y \in strays : Acceptable(y.what.header, y.nbytes)}}
  /\ incoming' = List!Empty
  /\ UNCHANGED <<schedule, arrived, failed, down, stage, fileVars>>

-----------------------------------------------------------------------------
(* RFI masks and downsample().                                             *)

AllArrived == schedule = <<>> /\ incoming.npackets = 0 /\ stage = Filling /\ ~failed

FillMask ==
  /\ AllArrived
  /\ \E h \in Halves, m \in RfiMasks :
       /\ \A g \in Halves : chunk["fast"][g].has_rfi_mask <=> g < h
       /\ chunk' = [impl \in Impls |->
                      [chunk[impl] EXCEPT ![h].rfi_mask = m, ![h].has_rfi_mask = TRUE]]
  /\ UNCHANGED <<schedule, arrived, listVars, accepted, down, stage, fileVars>>

StartDownsample ==
  /\ AllArrived
  /\ \A impl \in Impls : MayDownsample(down[impl], chunk[impl][0], chunk[impl][1])
  /\ stage' = Kernel(1, 0, 0)
  /\ UNCHANGED <<schedule, arrived, listVars, accepted, chunk, down, fileVars>>

HalfCoarse == SlotsPerChunk \div 2
OutAt(f, h) == f * SlotsPerChunk + h * HalfCoarse        \* of scales and offsets

RunKernel1(impl, dst, src, f, h) ==
  LET data    == Window(src.data, f * Nupfreq * NtPerChunk, Nupfreq * NtPerChunk)
      offsets == Window(src.offsets, f * SlotsPerChunk, SlotsPerChunk)
      scales  == Window(src.scales, f * SlotsPerChunk, SlotsPerChunk)
      k == IF impl = "fast" THEN FastKernel1(data, offsets, scales, Nupfreq)
                            ELSE SlowKernel1(data, offsets, scales, Nupfreq, NtPerPacket)
  IN  [dst EXCEPT !.ds_data = k.data, !.ds_mask = k.mask,
                  !.offsets = Memcpy(@, OutAt(f, h), k.count, 0, HalfCoarse),
                  !.scales  = Memcpy(@, OutAt(f, h), k.mean, 0, HalfCoarse)]

RunKernel2(impl, dst, f, h) ==
  LET count == Window(dst.offsets, OutAt(f, h), HalfCoarse)
      mean  == Window(dst.scales, OutAt(f, h), HalfCoarse)
      w == IF impl = "fast" THEN FastKernel2(dst.ds_data, dst.ds_mask, count, mean, Nupfreq)
           ELSE SlowKernel2(dst.ds_data, dst.ds_mask, count, mean, Nupfreq, NtPerPacket)
      scale == [p \in DOMAIN w |-> w[p].scale]
  IN  [dst EXCEPT !.offsets = Memcpy(@, OutAt(f, h), [p \in DOMAIN w |-> w[p].offset], 0, HalfCoarse),
                  !.scales  = Memcpy(@, OutAt(f, h), scale, 0, HalfCoarse),
                  !.ds_w2   = scale]

RunKernel3(impl, dst, f, h) ==
  LET off == Window(dst.offsets, OutAt(f, h), HalfCoarse)
      out == IF impl = "fast" THEN FastKernel3(dst.ds_data, dst.ds_mask, off, dst.ds_w2, Nupfreq)
             ELSE SlowKernel3(dst.ds_data, dst.ds_mask, off, dst.ds_w2, Nupfreq, NtPerPacket)
  IN  [dst EXCEPT !.data = Loop(Nupfreq, @, LAMBDA data, u :
         Memcpy(data, (f * Nupfreq + u) * NtPerChunk + h * HalfChunk, out, u * HalfChunk, HalfChunk))]

RunRfiKernel(impl, dst, srcs) ==
  LET bits(h, k) == LET src == Window(srcs[h].rfi_mask, k * NtPerChunk, NtPerChunk)
                    IN  IF impl = "fast" THEN FastRfiMask(src, NtPerChunk) ELSE SlowRfiMask(src, NtPerChunk)
      body(mask, k) == Memcpy(Memcpy(mask, k * NtPerChunk, bits(0, k), 0, HalfChunk),
                              k * NtPerChunk + HalfChunk, bits(1, k), 0, HalfChunk)
  IN  [dst EXCEPT !.rfi_mask = Loop(NrfiFreq, @, body), !.has_rfi_mask = NrfiFreq > 0]

RunKernel(impl, s) ==
  LET dst == down[impl]
  IN  CASE s.kernel = 1 -> RunKernel1(impl, dst, chunk[impl][s.half], s.freq, s.half)
        [] s.kernel = 2 -> RunKernel2(impl, dst, s.freq, s.half)
        [] s.kernel = 3 -> RunKernel3(impl, dst, s.freq, s.half)
        [] s.kernel = 4 -> RunRfiKernel(impl, dst, chunk[impl])

NextStage(s) ==
  CASE s.kernel < 3  -> Kernel(s.kernel + 1, s.freq, s.half)
    [] s.kernel = 3 /\ s.half = 0 -> Kernel(1, s.freq, 1)
    [] s.kernel = 3 /\ s.half = 1 /\ s.freq + 1 < NfreqCoarseTot -> Kernel(1, s.freq + 1, 0)
    [] s.kernel = 3 /\ s.half = 1 /\ s.freq + 1 = NfreqCoarseTot -> Kernel(4, 0, 0)
    [] s.kernel = 4 -> Finished

Downsample ==
  /\ stage \notin {Filling, Finished}
  /\ down' = [impl \in Impls |-> RunKernel(impl, stage)]
  /\ stage' = NextStage(stage)
  /\ UNCHANGED <<schedule, arrived, listVars, accepted, chunk, fileVars>>

-----------------------------------------------------------------------------
(* Files: a temporary file that gets its name when it is complete.         *)

ChunkNamed(s) ==
  CASE s = "first" -> chunk["fast"][0] [] s = "second" -> chunk["fast"][1] [] s = "down" -> down["fast"]

WriteTemp ==
  /\ stage = Finished /\ saved = "none"
  /\ \E s \in {"first", "second", "down"}, outcome \in Outcomes :
       /\ NrfiFreq > 0 => ChunkNamed(s).has_rfi_mask
       /\ saved' = s
       /\ temp' = pack_assembled_chunk(ChunkNamed(s), outcome)
  /\ UNCHANGED <<schedule, arrived, listVars, accepted, chunk, down, stage, named, loaded>>

Rename ==
  /\ temp # <<>>
  /\ named' = temp /\ temp' = <<>>
  /\ UNCHANGED <<schedule, arrived, listVars, accepted, chunk, down, stage, saved, loaded>>

ReadFile ==
  /\ named # <<>> /\ loaded = {}
  /\ loaded' = {unpack_assembled_chunk(named)}
  /\ UNCHANGED <<schedule, arrived, listVars, accepted, chunk, down, stage, saved, temp, named>>

Done == (loaded # {} \/ failed) /\ UNCHANGED vars

Next ==
  \/ Arrive \/ StrayArrives \/ ProcessPackets
  \/ FillMask \/ StartDownsample \/ Downsample
  \/ WriteTemp \/ Rename \/ ReadFile
  \/ Done

Spec == Init /\ [][Next]_vars

-----------------------------------------------------------------------------
(* Properties.                                                             *)

Distance(x, y) == IF x < y THEN y - x ELSE x - y
Settled == AllArrived \/ (stage = Finished /\ saved = "none")

FineChannels == 0 .. NfreqCoarseTot * Nupfreq - 1
ScaleOf(c, fine, it) == c.scales[(fine \div Nupfreq) * SlotsPerChunk + (it \div NtPerPacket)]

(* fast_assembled_chunk overrides add_packet(), downsample() and decode()  *)
(* with the same results as assembled_chunk (the comparisons of            *)
(* test-intensity-hdf5-file.cpp and the unit tests of avx2_kernels.cpp,    *)
(* over random bytes): every byte of a register lands in the lane the      *)
(* reference puts it.  Only a level half-way between two bytes may be      *)
(* rounded differently.  The decoders agree at any prescale, and           *)
(* decode_subset() returns the part of decode() it names.                  *)
SameStored(c1, c2) == [c1 EXCEPT !.packets_received = 0] = [c2 EXCEPT !.packets_received = 0]

StoresAlike ==
  /\ \A h \in Halves : SameStored(chunk["fast"][h], chunk["reference"][h])
  /\ SameStored([down["fast"] EXCEPT !.data = 0], [down["reference"] EXCEPT !.data = 0])
  /\ \A i \in DOMAIN down["fast"].data :
       Distance(down["fast"].data[i], down["reference"].data[i]) <= 1

DecodesAlike ==
  Settled =>
    \A c \in {chunk["fast"][1], down["fast"]} :
      LET reference == DecodedChunk(c, 1)
      IN  /\ \A prescale \in 1 .. 2 : FastDecodedChunk(c, prescale) = DecodedChunk(c, prescale)
          /\ \A t0 \in {0, NtPerPacket - 1} :
               LET part == DecodedSubset(c, t0, NtPerChunk \div 2)
               IN  \A fine \in FineChannels, i \in 0 .. (NtPerChunk \div 2) - 1 :
                     part[fine][i] = reference[fine][t0 + i]

FastIsReference == StoresAlike /\ DecodesAlike

(* The samples of a block that the sender does not mask are all 0. *)
Silent(slot, k) ==
  \A i \in DOMAIN Sky[slot][k] : Weights[slot][k][i] >= WtCutoff => Sky[slot][k][i] = 0

(* What a chunk decodes to is what was sent: a sample has weight 1 only    *)
(* if its channel is one of the sender's, its packet arrived, no longer    *)
(* than recvfrom() has room for, and the sender did not mask it, and then  *)
(* its intensity is that of the sender up to half a step of its scale.  It *)
(* has weight 0 only if one of these fails, or its level fell off the      *)
(* scale, or there is no scale: the block it was sent in held nothing but  *)
(* zeros, of which encode() makes NaN.                                     *)
ReceivedAsSent ==
  Settled =>
    \A h \in Halves, fine \in FineChannels, it \in 0 .. NtPerChunk - 1 :
      LET c == chunk["fast"][h]
          d == DecodedSample(c, fine, it, 1)
          slot == h * SlotsPerChunk + (it \div NtPerPacket)
          f == CHOOSE f \in DOMAIN CoarseFreqIds : CoarseFreqIds[f] = fine \div Nupfreq
          b == CHOOSE b \in DOMAIN BeamIds : BeamIds[b] = MyBeam
          k == b * Cardinality(DOMAIN CoarseFreqIds) + f
          i == (fine % Nupfreq) * NtPerPacket + (it % NtPerPacket)
          scale == ScaleOf(c, fine, it)
          sent == /\ fine \div Nupfreq \in {CoarseFreqIds[g] : g \in DOMAIN CoarseFreqIds}
                  /\ MyBeam \in {BeamIds[g] : g \in DOMAIN BeamIds}
                  /\ slot \in arrived /\ Wires[slot].nbytes <= ReadSize + 1
                  /\ Weights[slot][k][i] >= WtCutoff
          mean == c.offsets[(fine \div Nupfreq) * SlotsPerChunk + (it \div NtPerPacket)] + 128 * scale
      IN  /\ d.weight = 1 => sent /\ 2 * Distance(d.intensity, Sky[slot][k][i]) <= scale
          /\ d.weight = 0 /\ sent =>
               \/ scale > 0 /\ Distance(Sky[slot][k][i], mean) >= 126 * scale
               \/ scale = 0 /\ Silent(slot, k)

(* A downsampled sample is valid only if both samples it stands for are,   *)
(* and then is their average, up to half a step of its scale; the first    *)
(* half comes from the first chunk.  Of two valid samples only one that    *)
(* falls off the scale is lost.  A bit of the RFI mask is 1 if both bits   *)
(* it stands for are.                                                      *)
DownsampledIsAverage ==
  stage = Finished /\ saved = "none" =>
    \A impl \in Impls, it \in 0 .. NtPerChunk - 1 :
      LET src == chunk[impl][it \div HalfChunk]
          j   == 2 * (it % HalfChunk)
      IN  /\ \A fine \in FineChannels :
               LET x == DecodedSample(src, fine, j, 1)
                   y == DecodedSample(src, fine, j + 1, 1)
                   d == DecodedSample(down[impl], fine, it, 1)
                   scale == ScaleOf(down[impl], fine, it)
                   average == (x.intensity + y.intensity) \div 2
                   offset == d.intensity
                               - scale * down[impl].data[fine * NtPerChunk + it]
               IN  /\ d.weight = 1 => /\ x.weight = 1 /\ y.weight = 1
                                       /\ 2 * Distance(d.intensity, average) <= scale
                   /\ d.weight = 0 /\ x.weight = 1 /\ y.weight = 1 =>
                        \/ average <= offset + scale
                        \/ average >= offset + 254 * scale
          /\ \A k \in 0 .. NrfiFreq - 1 :
               down[impl].rfi_mask[k * NtPerChunk + it] = 1 <=>
                 /\ src.rfi_mask[k * NtPerChunk + j] = 1
                 /\ src.rfi_mask[k * NtPerChunk + j + 1] = 1

(* Nothing is written or read beyond what it belongs to.  The room that    *)
(* recvfrom() is given, one byte more than the largest datagram, lies in   *)
(* the buffer of a list that is not full, and the offsets fit their array, *)
(* whatever sizes came before.  The arrays decode() points at in a         *)
(* datagram it accepts cover what was received after the header, one after *)
(* the other: no field of the header, whose counts come from the network,  *)
(* makes the assembler read past the datagram.                             *)
RoomToRead ==
  /\ ~incoming.is_full => List!DataEnd(incoming) + ReadSize + 1 <= List!BufSize
  /\ incoming.npackets <= MaxNpackets

ArraysInsidePacket ==
  \A s \in accepted :
    LET h == s.header
        p == Pointers(h)
    IN  /\ p.coarse_freq_ids = 24 + 2 * h.nbeams
        /\ p.scales  = p.coarse_freq_ids + 2 * h.nfreq_coarse
        /\ p.offsets = p.scales + 4 * h.nbeams * h.nfreq_coarse
        /\ p.data    = p.offsets + 4 * h.nbeams * h.nfreq_coarse
        /\ p.data + h.nbeams * h.nfreq_coarse * h.nupfreq * h.ntsamp = s.nbytes

NothingOutside == RoomToRead /\ ArraysInsidePacket

(* A file that has its name reads back as the chunk that was written,      *)
(* whatever became of the compression (test-assembled-chunk.cpp).          *)
Stored(c) == [c EXCEPT !.packets_received = 0, !.ds_data = <<>>, !.ds_mask = <<>>, !.ds_w2 = <<>>]

ReadBack == \A c \in loaded : c # Unreadable /\ Stored(c) = Stored(ChunkNamed(saved))
===============================================================================
