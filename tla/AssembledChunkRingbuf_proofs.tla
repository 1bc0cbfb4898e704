-------------------- MODULE AssembledChunkRingbuf_proofs --------------------
(***************************************************************************)
(* Proofs about AssembledChunkRingbuf, for every geometry the constructor  *)
(* accepts, every pool size, and with or without RFI masks: types and the  *)
(* hand-over between the two steps of a put (IInv), the time axis          *)
(* (TimeInv), the refinement of ChunkStream (StreamInv), what              *)
(* get_ringbuf_size() reports, and the number of slabs in use.             *)
(***************************************************************************)
EXTENDS AssembledChunkRingbuf, FiniteSetTheorems, SequenceTheorems, WellFoundedInduction,
        TLAPS

-----------------------------------------------------------------------------
(* Facts about the operators.                                              *)

LEMMA Geometry ==
  /\ NumLevels \in 1 .. 4
  /\ 0 \in Levels /\ Levels \subseteq 0 .. 3
  /\ \A ids \in Levels : Capacity(ids) \in Nat /\ Capacity(ids) >= 2
  /\ \A ids \in Levels : Binning(ids) \in {1, 2, 4, 8}
  /\ Capacity(0) >= AssembledCapacity
  /\ Bottom # 0 => Capacity(0) >= AssembledCapacity + 2
<1> USE CapacityAssumption
<1>1. CASE TelescopingCapacity = <<>>
  BY <1>1 DEF NumLevels, Levels, Capacity, Bottom, Binning
<1>2. CASE TelescopingCapacity # <<>>
  <2> DEFINE n == Len(TelescopingCapacity)
  <2>1. n \in 1 .. 4
    <3>1. n \in Nat /\ n # 0
      BY <1>2, EmptySeq
    <3>2. n <= 4
      OBVIOUS
    <3> HIDE CapacityAssumption DEF n
    <3> QED
      BY <3>1, <3>2
  <2>2. NumLevels = n /\ Levels = 0 .. n - 1 /\ Bottom = n - 1
    BY <1>2 DEF NumLevels, Levels, Bottom
  <2>3. ASSUME NEW ids \in 0 .. n - 1
        PROVE  TelescopingCapacity[ids + 1] \in Nat /\ TelescopingCapacity[ids + 1] >= 2
    <3>1. ids + 1 \in 1 .. n
      BY <2>1
    <3>2. ids + 1 \in DOMAIN TelescopingCapacity
      BY <3>1, LenProperties
    <3> QED
      BY <3>1, <3>2, ElementOfSeq
  <2> HIDE DEF n
  <2>4. ASSUME NEW ids \in 0 .. n - 1
        PROVE  /\ Capacity(ids) \in Nat /\ Capacity(ids) >= 2
               /\ ids = 0 => Capacity(ids) >= AssembledCapacity + 2
    BY <1>2, <2>3, SMTT(30) DEF Capacity
  <2>5. \A ids \in 0 .. 3 : Binning(ids) \in {1, 2, 4, 8}
    BY DEF Binning
  <2>6. 0 \in 0 .. n - 1 /\ 0 .. n - 1 \subseteq 0 .. 3
    BY <2>1
  <2>7. Capacity(0) >= AssembledCapacity + 2
    BY <2>4, <2>6
  <2>8. Capacity(0) >= AssembledCapacity
    BY <2>4, <2>6, <2>7
  <2> QED
    BY <2>1, <2>2, <2>4, <2>5, <2>6, <2>7, <2>8
<1> QED
  BY <1>1, <1>2

LEMMA ChunkTypes ==
  /\ NoChunk \notin Chunk
  /\ \A i \in Nat : \A b \in {1, 2, 4, 8} : ChunkAt(i, b) \in Chunk
  /\ \A chunk \in Chunk : End(chunk) \in Nat /\ chunk.ichunk \in Nat
<1>1. NoChunk \notin Chunk
  <2>1. Chunk \subseteq [ichunk : Nat, binning : Nat]
    BY DEF Chunk
  <2> QED
    BY <2>1, ParameterAssumption
<1> QED
  BY <1>1 DEF Chunk, ChunkAt, End

LEMMA FirstIchunkType == \A p \in Nat : FirstIchunk(p) \in Nat
<1> SUFFICES ASSUME NEW p \in Nat PROVE FirstIchunk(p) \in Nat
  OBVIOUS
<1> USE ParameterAssumption
<1>1. CASE ChunkAlign > 0
  <2> DEFINE q == (p + ChunkAlign - 1) \div ChunkAlign
  <2>1. q \in Nat
    BY <1>1
  <2> HIDE DEF q
  <2>2. q * ChunkAlign \in Nat
    BY <2>1
  <2> QED
    BY <1>1, <2>2 DEF FirstIchunk, q
<1>2. CASE ~(ChunkAlign > 0)
  BY <1>2 DEF FirstIchunk
<1> QED
  BY <1>1, <1>2

LEMMA LargerType == \A x, y \in Int :
  Larger(x, y) \in Int /\ Larger(x, y) >= x /\ Larger(x, y) >= y /\ Larger(x, y) \in {x, y}
  BY DEF Larger

LEMMA ActiveFromType ==
  ASSUME NEW i \in Nat
  PROVE  /\ ActiveFrom(i) \in [1 .. 2 -> Chunk]
         /\ ActiveFrom(i) \in [1 .. 2 -> MaybeChunk]
  BY ChunkTypes DEF ActiveFrom, MaybeChunk

LEMMA PopsType ==
  ASSUME TypeOK, NEW ids \in Levels
  PROVE  /\ Pops(ids) \in Seq(Chunk)
         /\ PopCount(ids) \in 0 .. 2 /\ PopCount(ids) <= Size(ids)
         /\ Len(Pops(ids)) = PopCount(ids)
         /\ ids = Bottom => PopCount(ids) <= 1
         /\ PopCount(ids) # 0 => Size(ids) >= Capacity(ids)
<1>1. /\ ringbuf[ids] \in Seq(Chunk) /\ Size(ids) \in Nat
      /\ Capacity(ids) \in Nat /\ Capacity(ids) >= 2
  BY Geometry DEF TypeOK, Size
<1>2. /\ PopCount(ids) \in 0 .. 2
      /\ ids = Bottom => PopCount(ids) <= 1
      /\ PopCount(ids) # 0 => Size(ids) >= Capacity(ids)
  BY DEF PopCount, Full
<1>3. PopCount(ids) <= Size(ids)
  BY <1>1, <1>2
<1>4. \A i \in 1 .. PopCount(ids) : ringbuf[ids][i] \in Chunk
  BY <1>1, <1>2, <1>3, ElementOfSeq DEF Size
<1>5. Pops(ids) \in Seq(Chunk) /\ Len(Pops(ids)) = PopCount(ids)
  BY <1>2, <1>4, SubSeqProperties DEF Pops
<1> QED
  BY <1>2, <1>3, <1>5

LEMMA PushesType ==
  ASSUME TypeOK, NEW chunk \in Chunk, NEW ids \in Levels
  PROVE  /\ Pushes(ids, chunk) \in Seq(Chunk)
         /\ Len(Pushes(0, chunk)) = 1
<1>1. Len(Pushes(0, chunk)) = 1 /\ Pushes(0, chunk) \in Seq(Chunk)
  BY DEF Pushes
<1>2. CASE ids > 0 /\ Reached(ids)
  <2>1. ids - 1 \in Levels
    BY <1>2, Geometry DEF Levels
  <2>2. ids - 1 \in 0 .. ids - 1
    BY <1>2, Geometry
  <2>3. Size(ids - 1) >= Capacity(ids - 1) /\ Capacity(ids - 1) >= 2
    BY <1>2, <2>1, <2>2, Geometry DEF Reached, Full
  <2>4. ringbuf[ids - 1] \in Seq(Chunk) /\ 1 \in 1 .. Size(ids - 1)
    BY <2>1, <2>3, Geometry, SMTT(30) DEF TypeOK, Size
  <2>5. ringbuf[ids - 1][1] \in Chunk
    BY <2>4, ElementOfSeq DEF Size
  <2>6. ChunkAt(ringbuf[ids - 1][1].ichunk, Binning(ids)) \in Chunk
    BY <2>5, ChunkTypes, Geometry
  <2> QED
    BY <1>1, <1>2, <2>6 DEF Pushes
<1>3. CASE ~(ids > 0 /\ Reached(ids))
  BY <1>1, <1>3, Geometry DEF Pushes
<1> QED
  BY <1>1, <1>2, <1>3

-----------------------------------------------------------------------------
(* The inductive invariant.                                                *)

(* What the assembler hands from one of its steps to the next. *)
Handoff ==
  /\ assembler = "idle" /\ first_fpgacount # -1 => active[1] # NoChunk /\ active[2] # NoChunk
  /\ assembler = "prepare" => active[Putting] # NoChunk
  /\ assembler \in {"prepare", "commit", "finish", "advance"} /\ caller # "end1"
       => active[2] # NoChunk
  /\ assembler = "advance" => caller = "packet"
  /\ assembler \in {"commit", "finish"} => Len(pushlist[0]) = 1

(* What step 1 has decided to pop is still there when step 2 pops it, and  *)
(* does not reach into what downstream may still ask for.                  *)
PopsStillValid ==
  assembler = "commit" =>
    /\ Len(poplist[0]) <= Size(0)
    /\ poplist[0] # <<>> => Size(0) + 1 - Len(poplist[0]) >= AssembledCapacity

(* The next chunk for downstream is in the buffer, or is the next to come. *)
DownstreamInBuffer ==
  ringbuf_pos[0] <= downstream_pos /\ downstream_pos <= RingEnd

IInv == TypeOK /\ Handoff /\ PopsStillValid /\ DownstreamInBuffer

LEMMA UnchangedKeepsIInv ==
  ASSUME IInv, failure' \in Failures,
         UNCHANGED <<ringVars, endVars, has_rfi_mask, assemblerVars, outsideVars>>
  PROVE  IInv'
  BY DEF IInv, TypeOK, Handoff, PopsStillValid, DownstreamInBuffer, Putting, Size, RingEnd,
         ringVars, endVars, assemblerVars, activeVars, listVars, dropVars, countVars,
         outsideVars, readerVars, captureVars

LEMMA FailKeepsIInv ==
  ASSUME IInv, NEW why \in Failures, Fail(why)
  PROVE  IInv'
  BY UnchangedKeepsIInv DEF Fail

LEMMA BufferType ==
  ASSUME TypeOK
  PROVE  /\ \A ids \in Levels : ringbuf[ids] \in Seq(Chunk) /\ Size(ids) \in Nat
         /\ ringbuf_pos[0] \in Nat /\ downstream_pos \in Nat /\ RingEnd \in Nat
  BY Geometry DEF TypeOK, Size, RingEnd

-----------------------------------------------------------------------------
(* The steps of the assembler thread.                                      *)

LEMMA FirstPacketKeepsIInv == ASSUME IInv, FirstPacket PROVE IInv'
<1>1. PICK p \in 0 .. MaxFirst :
        IF ~SlabsFree(2) THEN Fail("memory")
        ELSE /\ active' = ActiveFrom(FirstIchunk(p))
             /\ first_fpgacount' = FirstIchunk(p)
             /\ UNCHANGED <<ringVars, endVars, has_rfi_mask, assembler, caller, listVars,
                            dropVars, loc_final_fpga, countVars, outsideVars, failure>>
  BY DEF FirstPacket
<1>2. CASE Fail("memory")
  BY <1>2, FailKeepsIInv DEF Failures
<1>3. CASE ~Fail("memory")
  <2>1. FirstIchunk(p) \in Nat
    BY FirstIchunkType, ParameterAssumption
  <2>2. /\ active' \in [1 .. 2 -> Chunk]
        /\ active' \in [1 .. 2 -> MaybeChunk]
    BY <1>1, <1>3, <2>1, ActiveFromType
  <2>3. active'[1] # NoChunk /\ active'[2] # NoChunk
    <3>1. active'[1] \in Chunk /\ active'[2] \in Chunk
      BY <2>2
    <3> QED
      BY <3>1, ChunkTypes
  <2> QED
    BY <1>1, <1>3, <2>1, <2>2, <2>3
       DEF IInv, TypeOK, Handoff, PopsStillValid, DownstreamInBuffer, Putting, Size, RingEnd,
           ringVars, endVars, listVars, dropVars, countVars, outsideVars, readerVars, captureVars,
           FirstPacket
<1> QED
  BY <1>2, <1>3

LEMMA AdvancingPacketKeepsIInv == ASSUME IInv, AdvancingPacket PROVE IInv'
  BY DEF IInv, TypeOK, Handoff, PopsStillValid, DownstreamInBuffer, Putting, Size, RingEnd,
         AdvancingPacket, AssemblerStates, Callers, ringVars, endVars, activeVars, listVars,
         dropVars, countVars, outsideVars, readerVars, captureVars

LEMMA AdvanceActiveKeepsIInv == ASSUME IInv, AdvanceActive PROVE IInv'
<1>1. CASE ~SlabsFree(1)
  BY <1>1, FailKeepsIInv DEF AdvanceActive, Failures
<1>2. CASE SlabsFree(1)
  <2>1. active[2] \in Chunk
    BY DEF IInv, TypeOK, Handoff, MaybeChunk, AdvanceActive
  <2>2. /\ active' \in [1 .. 2 -> Chunk]
        /\ active' \in [1 .. 2 -> MaybeChunk]
    BY <1>2, <2>1, ActiveFromType, ChunkTypes DEF AdvanceActive
  <2>3. active'[1] # NoChunk /\ active'[2] # NoChunk
    <3>1. active'[1] \in Chunk /\ active'[2] \in Chunk
      BY <2>2
    <3> QED
      BY <3>1, ChunkTypes
  <2> QED
    BY <1>2, <2>2, <2>3
       DEF IInv, TypeOK, Handoff, PopsStillValid, DownstreamInBuffer, Putting, Size, RingEnd,
           AdvanceActive, AssemblerStates, ringVars, endVars, listVars, dropVars, countVars,
           outsideVars, readerVars, captureVars
<1> QED
  BY <1>1, <1>2

LEMMA EndStreamKeepsIInv == ASSUME IInv, EndStream PROVE IInv'
<1>1. CASE NoChunk \in RangeOf(active)
  BY <1>1, FailKeepsIInv DEF EndStream, Failures
<1>2. CASE NoChunk \notin RangeOf(active)
  <2>1. active[1] \in Chunk /\ active[1] # NoChunk /\ active[2] # NoChunk
    BY <1>2 DEF IInv, TypeOK, MaybeChunk, RangeOf
  <2>2. FinalFpga \in Nat
    <3>1. active[1].ichunk \in Nat
      BY <2>1, ChunkTypes
    <3> QED
      BY <3>1 DEF FinalFpga
  <2> QED
    BY <1>2, <2>1, <2>2
       DEF IInv, TypeOK, Handoff, PopsStillValid, DownstreamInBuffer, Putting, Size, RingEnd,
           EndStream, AssemblerStates, Callers, ringVars, endVars, activeVars, listVars,
           dropVars, countVars, outsideVars, readerVars, captureVars
<1> QED
  BY <1>1, <1>2

LEMMA EndStreamDoneKeepsIInv == ASSUME IInv, EndStreamDone PROVE IInv'
  BY DEF IInv, TypeOK, Handoff, PopsStillValid, DownstreamInBuffer, Putting, Size, RingEnd,
         EndStreamDone, AssemblerStates, ConsumerStates, Woken, ringVars, activeVars, listVars,
         dropVars, countVars, captureVars

LEMMA PutPrepareKeepsIInv == ASSUME IInv, PutPrepare PROVE IInv'
<1> DEFINE chunk == active[Putting]
           push  == [ids \in Levels |-> Pushes(ids, chunk)]
           pop   == [ids \in Levels |-> Pops(ids)]
<1>1. CASE \E why \in Failures : Fail(why)
  BY <1>1, FailKeepsIInv
<1>2. CASE ~\E why \in Failures : Fail(why)
  <2>1. /\ pushlist' = push
        /\ poplist' = pop
        /\ has_rfi_mask' = has_rfi_mask \cup
             (IF RfiMask THEN {push[ids][1] : ids \in NewLevels} ELSE {})
        /\ active' = [active EXCEPT ![Putting] = NoChunk]
        /\ assembler = "prepare" /\ assembler' = "commit"
        /\ UNCHANGED <<ringVars, endVars, first_fpgacount, caller, dropVars,
                       loc_final_fpga, countVars, outsideVars, failure>>
    BY <1>2 DEF PutPrepare, Trouble, Failures
  <2>2. TypeOK /\ chunk \in Chunk /\ Putting \in 1 .. 2
    BY <2>1 DEF IInv, TypeOK, Handoff, Putting, MaybeChunk
  <2> HIDE DEF chunk
  <2>3. \A ids \in Levels : Pushes(ids, chunk) \in Seq(Chunk) /\ Len(Pushes(0, chunk)) = 1
    BY <2>2, PushesType
  <2>4. \A ids \in Levels : Pops(ids) \in Seq(Chunk)
    BY <2>2, PopsType
  <2>5. /\ pushlist' \in [Levels -> Seq(Chunk)] /\ poplist' \in [Levels -> Seq(Chunk)]
        /\ Len(pushlist'[0]) = 1 /\ poplist'[0] = Pops(0)
    BY <2>1, <2>3, <2>4, Geometry
  <2>6. has_rfi_mask' \subseteq Chunk
    <3>1. ASSUME NEW ids \in NewLevels PROVE push[ids][1] \in Chunk
      <4>1. ids \in Levels /\ ids > 0 /\ Reached(ids)
        BY Geometry DEF NewLevels
      <4>2. push[ids] = <<ChunkAt(ringbuf[ids - 1][1].ichunk, Binning(ids))>>
        BY <4>1 DEF Pushes
      <4>3. Len(push[ids]) = 1 /\ push[ids] \in Seq(Chunk)
        BY <2>3, <4>1, <4>2
      <4> QED
        BY <4>3, ElementOfSeq
    <3> HIDE DEF push
    <3> QED
      BY <2>1, <2>2, <3>1 DEF TypeOK
  <2>7. PopsStillValid'
    <3>1. /\ Len(Pops(0)) = PopCount(0) /\ PopCount(0) \in 0 .. 2
          /\ PopCount(0) <= Size(0)
          /\ 0 = Bottom => PopCount(0) <= 1
          /\ PopCount(0) # 0 => Size(0) >= Capacity(0)
      BY <2>2, PopsType, Geometry
    <3>2. /\ Capacity(0) >= AssembledCapacity
          /\ Bottom # 0 => Capacity(0) >= AssembledCapacity + 2
          /\ Capacity(0) \in Nat /\ AssembledCapacity \in Nat
      BY Geometry, CapacityAssumption
    <3>3. Size(0) \in Nat /\ Size(0)' = Size(0)
      BY <2>1, <2>2, BufferType, Geometry DEF Size, ringVars
    <3>4. Pops(0) # <<>> => PopCount(0) # 0
      BY <2>4, <3>1, Geometry, EmptySeq
    <3>5. PopCount(0) # 0 => Size(0) + 1 - PopCount(0) >= AssembledCapacity
      BY <3>1, <3>2, <3>3
    <3> QED
      BY <2>5, <3>1, <3>3, <3>4, <3>5 DEF PopsStillValid
  <2>8. active' \in [1 .. 2 -> MaybeChunk] /\ (caller # "end1" => active'[2] = active[2])
    BY <2>1, <2>2 DEF TypeOK, MaybeChunk, Putting
  <2> HIDE DEF push, pop
  <2> QED
    BY <2>1, <2>2, <2>5, <2>6, <2>7, <2>8
       DEF IInv, TypeOK, Handoff, DownstreamInBuffer, Size, RingEnd, AssemblerStates,
           ringVars, endVars, dropVars, countVars, outsideVars, readerVars, captureVars
<1> QED
  BY <1>1, <1>2

LEMMA PutCommitKeepsIInv == ASSUME IInv, PutCommit PROVE IInv'
<1>1. CASE doneflag
  BY <1>1, FailKeepsIInv DEF PutCommit, Failures
<1>2. CASE ~doneflag
  <2> DEFINE Moved(ids) ==
        SubSeq(ringbuf[ids], Len(poplist[ids]) + 1, Size(ids)) \o pushlist[ids]
      max_allowed == ringbuf_pos'[0] + Len(ringbuf'[0]) - AssembledCapacity
  <2>1. /\ ringbuf' = [ids \in Levels |-> Moved(ids)]
        /\ ringbuf_pos' = [ids \in Levels |-> ringbuf_pos[ids] + Len(poplist[ids])]
        /\ downstream_pos' = Larger(downstream_pos, max_allowed)
        /\ num_dropped' = Larger(0, max_allowed - downstream_pos)
        /\ loc_stream' = stream_pattern
        /\ consumer' = Woken
        /\ assembler = "commit" /\ assembler' = "finish"
        /\ UNCHANGED <<endVars, has_rfi_mask, activeVars, caller, listVars, loc_final_fpga,
                       countVars, held, max_fpga_retrieved, captureVars, failure>>
    BY <1>2 DEF PutCommit
  <2>2. ASSUME NEW ids \in Levels
        PROVE  /\ poplist[ids] \in Seq(Chunk) /\ Len(poplist[ids]) \in Nat
               /\ SubSeq(ringbuf[ids], Len(poplist[ids]) + 1, Size(ids)) \in Seq(Chunk)
               /\ Len(SubSeq(ringbuf[ids], Len(poplist[ids]) + 1, Size(ids)))
                    = IF Len(poplist[ids]) < Size(ids) THEN Size(ids) - Len(poplist[ids]) ELSE 0
    <3>1. /\ poplist[ids] \in Seq(Chunk) /\ Len(poplist[ids]) \in Nat
          /\ ringbuf[ids] \in Seq(Chunk) /\ Size(ids) \in Nat
      BY BufferType DEF IInv, TypeOK
    <3>2. \A i \in Len(poplist[ids]) + 1 .. Size(ids) : ringbuf[ids][i] \in Chunk
      BY <3>1, ElementOfSeq DEF Size
    <3>3. /\ SubSeq(ringbuf[ids], Len(poplist[ids]) + 1, Size(ids)) \in Seq(Chunk)
          /\ Len(SubSeq(ringbuf[ids], Len(poplist[ids]) + 1, Size(ids)))
               = IF Len(poplist[ids]) + 1 <= Size(ids)
                 THEN Size(ids) - (Len(poplist[ids]) + 1) + 1 ELSE 0
      BY <3>1, <3>2, SubSeqProperties
    <3> QED
      BY <3>1, <3>3
  <2>3. ASSUME NEW ids \in Levels
        PROVE  /\ Moved(ids) \in Seq(Chunk)
               /\ Len(Moved(ids)) =
                    Len(SubSeq(ringbuf[ids], Len(poplist[ids]) + 1, Size(ids)))
                      + Len(pushlist[ids])
    BY <2>2, ConcatProperties DEF IInv, TypeOK
  <2> HIDE DEF Moved
  <2>4. ringbuf' \in [Levels -> Seq(Chunk)] /\ ringbuf_pos' \in [Levels -> Nat]
    <3>1. ringbuf_pos \in [Levels -> Nat]
      BY DEF IInv, TypeOK
    <3> QED
      BY <2>1, <2>2, <2>3, <3>1, SMTT(30)
  <2> DEFINE popped == Len(poplist[0])
             size   == Size(0)
             pos    == ringbuf_pos[0]
  <2>5. /\ popped \in Nat /\ size \in Nat /\ popped <= size
        /\ popped # 0 => size + 1 - popped >= AssembledCapacity
        /\ Len(pushlist[0]) = 1
    <3>1. poplist[0] \in Seq(Chunk) /\ popped \in Nat /\ size \in Nat
      BY <2>2, Geometry, BufferType DEF IInv
    <3>2. popped # 0 => poplist[0] # <<>>
      BY <3>1, EmptySeq
    <3> QED
      BY <2>1, <3>1, <3>2 DEF IInv, Handoff, PopsStillValid
  <2>6. ringbuf_pos'[0] = pos + popped /\ Len(ringbuf'[0]) = size - popped + 1
    <3>1. ringbuf_pos'[0] = pos + popped /\ ringbuf'[0] = Moved(0)
      BY <2>1, Geometry
    <3>2. Len(Moved(0)) = (IF popped < size THEN size - popped ELSE 0) + 1
      BY <2>2, <2>3, <2>5, Geometry
    <3> HIDE DEF popped, size, pos
    <3>3. (IF popped < size THEN size - popped ELSE 0) = size - popped
      BY <2>5
    <3>4. Len(ringbuf'[0]) = Len(Moved(0))
      BY <3>1
    <3> QED
      BY <3>1, <3>2, <3>3, <3>4
  <2>7. /\ AssembledCapacity \in Nat /\ pos \in Nat /\ downstream_pos \in Nat
        /\ pos <= downstream_pos /\ downstream_pos <= pos + size
    BY BufferType, CapacityAssumption DEF IInv, DownstreamInBuffer, RingEnd
  <2>8. Len(ringbuf'[0]) \in Nat /\ ringbuf_pos'[0] \in Nat
    BY <2>4, Geometry
  <2> HIDE DEF popped, size, pos
  <2>9. /\ max_allowed \in Int
        /\ max_allowed <= pos + size + 1
        /\ popped # 0 => max_allowed >= pos + popped
    BY <2>5, <2>6, <2>7, <2>8
  <2> HIDE DEF max_allowed
  <2>10. downstream_pos' >= downstream_pos /\ downstream_pos' >= max_allowed
         /\ downstream_pos' \in {downstream_pos, max_allowed} /\ num_dropped' \in Nat
    BY <2>1, <2>7, <2>9 DEF Larger
  <2>11. /\ downstream_pos' \in Nat
         /\ ringbuf_pos'[0] <= downstream_pos'
         /\ downstream_pos' <= ringbuf_pos'[0] + Len(ringbuf'[0])
    BY <2>5, <2>6, <2>7, <2>9, <2>10
  <2> QED
    BY <2>1, <2>4, <2>10, <2>11
       DEF IInv, TypeOK, Handoff, PopsStillValid, DownstreamInBuffer, Putting, Size, RingEnd,
           AssemblerStates, ConsumerStates, Woken, endVars, activeVars, listVars, countVars,
           captureVars
<1> QED
  BY <1>1, <1>2

LEMMA PutFinishKeepsIInv == ASSUME IInv, PutFinish PROVE IInv'
<1> DEFINE chunk == pushlist[0][1]
<1>1. CASE \E why \in Failures : Fail(why)
  BY <1>1, FailKeepsIInv
<1>2. CASE ~\E why \in Failures : Fail(why)
  <2>1. /\ requests' = requests \cup
             (IF loc_stream = Off THEN {} ELSE {[chunk |-> chunk, capture |-> loc_stream]})
        /\ event_counts' = [event_counts EXCEPT !["assembled_chunk_queued"] = @ + 1,
                                                !["assembled_chunk_dropped"] = @ + num_dropped]
        /\ max_fpga_flushed' = End(chunk)
        /\ pushlist' = NoLists /\ poplist' = NoLists
        /\ num_dropped' = 0 /\ loc_stream' = Off
        /\ assembler = "finish"
        /\ assembler' = CASE caller = "packet" -> "advance"
                          [] caller = "end0"   -> "prepare"
                          [] caller = "end1"   -> "done"
        /\ caller' = IF caller = "end0" THEN "end1" ELSE caller
        /\ UNCHANGED <<ringVars, endVars, has_rfi_mask, activeVars, loc_final_fpga,
                       readerVars, stream_pattern, chunks_written, failure>>
    BY <1>2 DEF PutFinish, Failures, Emptied
  <2>2. chunk \in Chunk
    <3>1. Len(pushlist[0]) = 1 /\ pushlist[0] \in Seq(Chunk)
      BY <2>1, Geometry DEF IInv, TypeOK, Handoff
    <3> QED
      BY <3>1, ElementOfSeq
  <2>3. End(chunk) \in Nat
    BY <2>2, ChunkTypes
  <2> HIDE DEF chunk
  <2>4. requests' \subseteq [chunk : Chunk, capture : Captures]
    BY <2>1, <2>2 DEF IInv, TypeOK
  <2>5. event_counts' \in [Events -> Nat]
    BY <2>1 DEF IInv, TypeOK, Events
  <2>6. NoLists \in [Levels -> Seq(Chunk)]
    BY EmptySeq DEF NoLists
  <2>7. /\ assembler' \in {"advance", "prepare", "done"} /\ caller' \in Callers
        /\ assembler' = "advance" => caller' = "packet" /\ caller = "packet"
        /\ assembler' = "prepare" => caller' = "end1" /\ caller = "end0"
    BY <2>1 DEF IInv, TypeOK, Callers
  <2>8. caller # "end1" => active[2] # NoChunk
    BY <2>1 DEF IInv, Handoff
  <2>9. Handoff'
    BY <2>1, <2>7, <2>8 DEF Handoff, Putting, activeVars
  <2> QED
    BY <2>1, <2>3, <2>4, <2>5, <2>6, <2>7, <2>9
       DEF IInv, TypeOK, PopsStillValid, DownstreamInBuffer, Size, RingEnd,
           AssemblerStates, ringVars, endVars, activeVars, readerVars
<1> QED
  BY <1>1, <1>2

-----------------------------------------------------------------------------
(* The steps of the processing thread and of the captures.                 *)

LEMMA GetTakeKeepsIInv == ASSUME IInv, GetTake PROVE IInv' /\ held' \in Chunk
<1>1. /\ downstream_pos < RingEnd
      /\ held' = Entry(downstream_pos)
      /\ downstream_pos' = downstream_pos + 1
      /\ consumer' = "took"
      /\ UNCHANGED <<ringbuf, ringbuf_pos, endVars, assemblerVars, captureVars, has_rfi_mask,
                     max_fpga_retrieved, failure>>
  BY DEF GetTake, UnchangedByReader
<1>2. /\ ringbuf[0] \in Seq(Chunk) /\ Size(0) \in Nat
      /\ ringbuf_pos[0] \in Nat /\ downstream_pos \in Nat
      /\ ringbuf_pos[0] <= downstream_pos
  BY BufferType, Geometry DEF IInv, DownstreamInBuffer
<1>3. downstream_pos - ringbuf_pos[0] + 1 \in 1 .. Size(0)
  BY <1>1, <1>2 DEF RingEnd
<1>4. held' \in Chunk
  BY <1>1, <1>2, <1>3, ElementOfSeq DEF Entry, Size
<1>5. downstream_pos' \in Nat /\ downstream_pos' <= RingEnd /\ ringbuf_pos[0] <= downstream_pos'
  BY <1>1, <1>2 DEF RingEnd
<1> QED
  BY <1>1, <1>4, <1>5
     DEF IInv, TypeOK, Handoff, PopsStillValid, DownstreamInBuffer, Putting, Size, RingEnd,
         MaybeChunk, ConsumerStates, endVars, assemblerVars, activeVars, listVars, dropVars,
         countVars, captureVars

(* The steps that change nothing but what the invariant only types. *)
LEMMA OutsideStepKeepsIInv ==
  ASSUME IInv,
         UNCHANGED <<ringVars, endVars, assemblerVars, failure>>,
         has_rfi_mask' \subseteq Chunk,
         consumer' \in ConsumerStates,
         held' \in MaybeChunk,
         max_fpga_retrieved' \in Nat,
         stream_pattern' \in Captures \cup {Off},
         requests' \subseteq [chunk : Chunk, capture : Captures],
         chunks_written' \in Nat
  PROVE  IInv'
  BY DEF IInv, TypeOK, Handoff, PopsStillValid, DownstreamInBuffer, Putting, Size, RingEnd,
         ringVars, endVars, assemblerVars, activeVars, listVars, dropVars, countVars

LEMMA ReaderTypes ==
  ASSUME IInv
  PROVE  /\ has_rfi_mask \subseteq Chunk
         /\ consumer \in ConsumerStates
         /\ held \in MaybeChunk
         /\ max_fpga_retrieved \in Nat
         /\ stream_pattern \in Captures \cup {Off}
         /\ requests \subseteq [chunk : Chunk, capture : Captures]
         /\ chunks_written \in Nat
  BY DEF IInv, TypeOK

LEMMA GetEndKeepsIInv == ASSUME IInv, GetEnd PROVE IInv'
  BY OutsideStepKeepsIInv, ReaderTypes
     DEF GetEnd, UnchangedByReader, ConsumerStates, ringVars, captureVars

LEMMA GetWaitKeepsIInv == ASSUME IInv, GetWait PROVE IInv'
  BY OutsideStepKeepsIInv, ReaderTypes
     DEF GetWait, UnchangedByReader, ConsumerStates, ringVars, captureVars

(* A processing thread that has taken or looked up a chunk holds one. *)
ReaderHolds == consumer \in {"took", "processing"} => held \in Chunk

LEMMA GetReturnKeepsIInv == ASSUME IInv, ReaderHolds, GetReturn PROVE IInv'
<1>1. CASE Fail("assert_retrieved")
  BY <1>1, FailKeepsIInv DEF Failures
<1>2. CASE ~Fail("assert_retrieved")
  <2>1. /\ consumer = "took"
        /\ max_fpga_retrieved' = End(held)
        /\ consumer' = "processing"
        /\ UNCHANGED <<ringVars, endVars, assemblerVars, captureVars, has_rfi_mask, held,
                       failure>>
    BY <1>2 DEF GetReturn, UnchangedByReader, ringVars
  <2>2. End(held) \in Nat
    BY <2>1, ChunkTypes DEF ReaderHolds
  <2> QED
    BY <2>1, <2>2, OutsideStepKeepsIInv, ReaderTypes DEF ConsumerStates, captureVars
<1> QED
  BY <1>1, <1>2

LEMMA FindKeepsIInv ==
  ASSUME IInv, NEW top_level_only \in BOOLEAN, Find(top_level_only)
  PROVE  IInv' /\ held' \in Chunk
<1>1. PICK ids \in (IF top_level_only THEN {0} ELSE Levels) :
        \E chunk \in RangeOf(ringbuf[ids]) \ has_rfi_mask : held' = chunk
  BY DEF Find
<1>2. ids \in Levels
  BY <1>1, Geometry
<1>3. PICK i \in DOMAIN ringbuf[ids] : held' = ringbuf[ids][i]
  BY <1>1 DEF RangeOf
<1>4. ringbuf[ids] \in Seq(Chunk)
  BY <1>2, BufferType DEF IInv
<1>5. held' \in Chunk
  BY <1>3, <1>4, ElementOfSeq
<1> QED
  BY <1>5, OutsideStepKeepsIInv, ReaderTypes
     DEF Find, UnchangedByReader, ConsumerStates, MaybeChunk, ringVars, captureVars

LEMMA FillMaskKeepsIInv == ASSUME IInv, ReaderHolds, FillMask PROVE IInv'
<1>1. has_rfi_mask' \subseteq Chunk
  BY ReaderTypes DEF FillMask, ReaderHolds
<1> QED
  BY <1>1, OutsideStepKeepsIInv, ReaderTypes
     DEF FillMask, UnchangedByReader, ringVars, readerVars, captureVars

LEMMA ReleaseKeepsIInv == ASSUME IInv, Release PROVE IInv'
  BY OutsideStepKeepsIInv, ReaderTypes
     DEF Release, UnchangedByReader, ConsumerStates, MaybeChunk, ringVars, captureVars

LEMMA StreamToFilesKeepsIInv ==
  ASSUME IInv, NEW pattern \in Captures \cup {Off}, StreamToFiles(pattern)
  PROVE  IInv'
  BY OutsideStepKeepsIInv, ReaderTypes DEF StreamToFiles, readerVars

LEMMA CompleteRequestKeepsIInv ==
  ASSUME IInv, NEW r \in requests, NEW success \in BOOLEAN, CompleteRequest(r, success)
  PROVE  IInv'
<1>1. chunks_written' \in Nat
  BY ReaderTypes DEF CompleteRequest
<1>2. requests' \subseteq [chunk : Chunk, capture : Captures]
  BY ReaderTypes DEF CompleteRequest
<1> QED
  BY <1>1, <1>2, OutsideStepKeepsIInv, ReaderTypes DEF CompleteRequest, readerVars

-----------------------------------------------------------------------------
(* The invariant, and the wakeups, in every reachable state.               *)

LEMMA StutterKeepsIInv == ASSUME IInv, UNCHANGED vars PROVE IInv'
<1>1. failure' \in Failures
  BY DEF vars, IInv, TypeOK
<1> QED
  BY <1>1, UnchangedKeepsIInv DEF vars

LEMMA NextKeepsIInv == ASSUME IInv, ReaderHolds, Next PROVE IInv'
<1>1. CASE AssemblerSteps
  BY <1>1, PutPrepareKeepsIInv, PutCommitKeepsIInv, PutFinishKeepsIInv, AdvanceActiveKeepsIInv,
     EndStreamDoneKeepsIInv DEF AssemblerSteps
<1>2. CASE ReaderSteps
  BY <1>2, GetTakeKeepsIInv, GetEndKeepsIInv, GetWaitKeepsIInv, GetReturnKeepsIInv,
     ReleaseKeepsIInv DEF ReaderSteps
<1>3. CASE FirstPacket \/ AdvancingPacket \/ EndStream
  BY <1>3, FirstPacketKeepsIInv, AdvancingPacketKeepsIInv, EndStreamKeepsIInv
<1>4. CASE FillMask \/ \E top_level_only \in BOOLEAN : RfiMask /\ Find(top_level_only)
  BY <1>4, FillMaskKeepsIInv, FindKeepsIInv
<1>5. CASE \E pattern \in Captures \cup {Off} : Captures # {} /\ StreamToFiles(pattern)
  BY <1>5, StreamToFilesKeepsIInv
<1>6. CASE \E r \in requests, success \in BOOLEAN : CompleteRequest(r, success)
  BY <1>6, CompleteRequestKeepsIInv
<1>7. CASE Terminated
  BY <1>7, StutterKeepsIInv DEF Terminated
<1> QED
  BY <1>1, <1>2, <1>3, <1>4, <1>5, <1>6, <1>7 DEF Next

(* A step of the assembler or of a capture either leaves alone what the    *)
(* reader's condition is about, or wakes the reader.                       *)
ReaderUndisturbed ==
  /\ held' = held
  /\ \/ consumer' = Woken
     \/ UNCHANGED <<consumer, ringVars, doneflag>>

LEMMA AssemblerLeavesReader == ASSUME IInv, AssemblerSteps PROVE ReaderUndisturbed
<1> USE DEF ReaderUndisturbed, Fail, outsideVars, readerVars, endVars
<1>1. CASE PutPrepare
  BY <1>1 DEF PutPrepare
<1>2. CASE PutCommit
  BY <1>2 DEF PutCommit
<1>3. CASE PutFinish
  BY <1>3 DEF PutFinish
<1>4. CASE AdvanceActive
  BY <1>4 DEF AdvanceActive
<1>5. CASE EndStreamDone
  BY <1>5 DEF EndStreamDone
<1> QED
  BY <1>1, <1>2, <1>3, <1>4, <1>5 DEF AssemblerSteps

LEMMA OthersLeaveReader ==
  ASSUME \/ FirstPacket \/ AdvancingPacket \/ EndStream \/ Terminated \/ UNCHANGED vars
         \/ \E pattern \in Captures \cup {Off} : StreamToFiles(pattern)
         \/ \E r \in requests, success \in BOOLEAN : CompleteRequest(r, success)
         \/ FillMask
  PROVE  ReaderUndisturbed
  BY DEF FirstPacket, AdvancingPacket, EndStream, Terminated, StreamToFiles, CompleteRequest,
         FillMask, UnchangedByReader, ReaderUndisturbed, Fail, vars, outsideVars, readerVars,
         endVars, ringVars

LEMMA NextKeepsReader ==
  ASSUME IInv, ReaderHolds, NoLostWakeup, Next
  PROVE  ReaderHolds' /\ NoLostWakeup'
<1>1. CASE ReaderUndisturbed
  <2>1. CASE consumer' = Woken
    BY <1>1, <2>1 DEF ReaderUndisturbed, Woken, ReaderHolds, NoLostWakeup
  <2>2. CASE UNCHANGED <<consumer, ringVars, doneflag>>
    BY <1>1, <2>2 DEF ReaderUndisturbed, ReaderHolds, NoLostWakeup, ringVars, RingEnd, Size
  <2> QED
    BY <1>1, <2>1, <2>2 DEF ReaderUndisturbed
<1>2. CASE GetTake
  <2>1. consumer' = "took" /\ held' = Entry(downstream_pos) /\ downstream_pos < RingEnd
    BY <1>2 DEF GetTake
  <2>2. held' \in Chunk
    BY <1>2, GetTakeKeepsIInv
  <2> QED
    BY <2>1, <2>2 DEF ReaderHolds, NoLostWakeup
<1>3. CASE GetEnd
  BY <1>3 DEF GetEnd, ReaderHolds, NoLostWakeup
<1>4. CASE GetWait
  <2>1. downstream_pos \in Nat /\ RingEnd \in Nat
    BY BufferType DEF IInv
  <2>2. downstream_pos = RingEnd
    BY <1>4, <2>1 DEF GetWait, IInv, DownstreamInBuffer
  <2>3. /\ consumer' = "waiting" /\ ~doneflag
        /\ UNCHANGED <<ringbuf, ringbuf_pos, downstream_pos, doneflag>>
    BY <1>4 DEF GetWait, UnchangedByReader, endVars
  <2> QED
    BY <2>2, <2>3 DEF ReaderHolds, NoLostWakeup, RingEnd, Size
<1>5. CASE GetReturn
  <2>1. CASE Fail("assert_retrieved")
    BY <2>1 DEF Fail, outsideVars, readerVars, ringVars, endVars, ReaderHolds, NoLostWakeup,
                RingEnd, Size
  <2>2. CASE ~Fail("assert_retrieved")
    BY <1>5, <2>2 DEF GetReturn, ReaderHolds, NoLostWakeup
  <2> QED
    BY <2>1, <2>2
<1>6. CASE Release
  BY <1>6 DEF Release, ReaderHolds, NoLostWakeup
<1>7. ASSUME NEW top_level_only \in BOOLEAN, Find(top_level_only)
      PROVE  ReaderHolds' /\ NoLostWakeup'
  BY <1>7, FindKeepsIInv DEF Find, ReaderHolds, NoLostWakeup
<1> QED
  BY <1>1, <1>2, <1>3, <1>4, <1>5, <1>6, <1>7, AssemblerLeavesReader, OthersLeaveReader
     DEF Next, ReaderSteps

LEMMA InitHolds == Init => IInv /\ ReaderHolds /\ NoLostWakeup
<1> SUFFICES ASSUME Init PROVE IInv /\ ReaderHolds /\ NoLostWakeup
  OBVIOUS
<1>1. NoLists \in [Levels -> Seq(Chunk)]
  BY EmptySeq DEF NoLists
<1>2. Size(0) = 0 /\ ringbuf_pos[0] = 0 /\ ringbuf = NoLists
  BY Geometry, EmptySeq DEF Init, Size, NoLists
<1>3. active \in [1 .. 2 -> MaybeChunk]
  BY DEF Init, MaybeChunk
<1>4. TypeOK
  BY <1>1, <1>2, <1>3
     DEF Init, TypeOK, MaybeChunk, AssemblerStates, Callers, ConsumerStates, Failures, Events
<1>5. Handoff /\ PopsStillValid /\ ReaderHolds /\ NoLostWakeup
  BY DEF Init, Handoff, PopsStillValid, ReaderHolds, NoLostWakeup
<1>6. DownstreamInBuffer
  BY <1>2 DEF Init, DownstreamInBuffer, RingEnd
<1> QED
  BY <1>4, <1>5, <1>6 DEF IInv

LEMMA Invariance == Spec => [](IInv /\ ReaderHolds /\ NoLostWakeup)
<1>1. IInv /\ ReaderHolds /\ NoLostWakeup /\ [Next]_vars => (IInv /\ ReaderHolds /\ NoLostWakeup)'
  <2>1. ASSUME IInv, ReaderHolds, NoLostWakeup, UNCHANGED vars
        PROVE  (IInv /\ ReaderHolds /\ NoLostWakeup)'
    BY <2>1, StutterKeepsIInv
       DEF vars, outsideVars, readerVars, ringVars, endVars, ReaderHolds, NoLostWakeup,
           RingEnd, Size
  <2> QED
    BY <2>1, NextKeepsIInv, NextKeepsReader
<1> QED
  BY <1>1, InitHolds, PTL DEF Spec

(* Every variable of the ring buffer has its type: in particular no step     *)
(* reads an entry, a handed-over chunk or a popped list that is not there.   *)
THEOREM TypeCorrect == Spec => []TypeOK
<1>1. IInv => TypeOK
  BY DEF IInv
<1> QED
  BY <1>1, Invariance, PTL

(* A processing thread asleep in get_assembled_chunk() has nothing to read   *)
(* and its stream has not ended, for every geometry of the ring buffer.      *)
THEOREM NoWakeupLost == Spec => []NoLostWakeup
  BY Invariance, PTL

(* downstream_pos never leaves the ring buffer: the entry that               *)
(* get_assembled_chunk() reads is one that is there, although               *)
(* _put_assembled_chunk() decides what to pop before it takes the lock.      *)
THEOREM DownstreamStaysInBuffer == Spec => []DownstreamInBuffer
<1>1. IInv => DownstreamInBuffer
  BY DEF IInv
<1> QED
  BY <1>1, Invariance, PTL

-----------------------------------------------------------------------------
(* The time axis.  Position pos of level 0 is for the chunk that begins pos *)
(* chunks after the first one.                                             *)

ChunkOf(pos) == ChunkAt(first_fpgacount + pos, 1)
NextIchunk   == first_fpgacount + RingEnd

(* Before the first packet there is nothing. *)
Untouched ==
  first_fpgacount = -1 =>
    /\ assembler = "idle"
    /\ active = <<NoChunk, NoChunk>>
    /\ \A ids \in Levels : ringbuf[ids] = <<>>
    /\ ringbuf_pos[0] = 0
    /\ max_fpga_flushed = 0 /\ max_fpga_retrieved = 0
    /\ consumer # "took"

Level0 == \A i \in 1 .. Size(0) : ringbuf[0][i] = ChunkOf(ringbuf_pos[0] + i - 1)

(* The chunks in the hands of the assembler. *)
ActiveChunks ==
  /\ assembler = "idle" /\ first_fpgacount # -1 =>
       active[1] = ChunkOf(RingEnd) /\ active[2] = ChunkOf(RingEnd + 1)
  /\ assembler = "prepare" /\ caller # "end1" =>
       active[1] = ChunkOf(RingEnd) /\ active[2] = ChunkOf(RingEnd + 1)
  /\ assembler = "prepare" /\ caller = "end1" =>
       active[1] = NoChunk /\ active[2] = ChunkOf(RingEnd)
  /\ assembler = "commit" =>
       /\ active[1] = NoChunk
       /\ active[2] = IF caller = "end1" THEN NoChunk ELSE ChunkOf(RingEnd + 1)
  /\ assembler \in {"finish", "advance"} =>
       /\ active[1] = NoChunk
       /\ active[2] = IF caller = "end1" THEN NoChunk ELSE ChunkOf(RingEnd)
  /\ assembler \in {"done", "exited"} => active[1] = NoChunk /\ active[2] = NoChunk

(* What step 1 has prepared is what it would prepare again at step 2: the    *)
(* processing thread changes nothing that it depends on.                     *)
Prepared ==
  /\ assembler = "commit" =>
       /\ pushlist = [ids \in Levels |-> Pushes(ids, ChunkOf(RingEnd))]
       /\ poplist = [ids \in Levels |-> Pops(ids)]
       /\ RfiMask => /\ \A ids \in Levels : RangeOf(poplist[ids]) \subseteq has_rfi_mask
                     /\ \A ids \in NewLevels : pushlist[ids][1] \in has_rfi_mask
  /\ assembler = "finish" => pushlist[0] = <<ChunkOf(RingEnd - 1)>>
  /\ assembler \in {"finish", "advance", "done", "exited"} \/ caller = "end1" => Size(0) > 0

(* The marks that the asserts compare with are behind the chunks to come. *)
MarksBehind ==
  first_fpgacount # -1 =>
    /\ max_fpga_flushed <= NextIchunk
    /\ assembler = "finish" => max_fpga_flushed < NextIchunk
    /\ max_fpga_retrieved <= first_fpgacount + downstream_pos
    /\ consumer = "took" => /\ End(held) <= first_fpgacount + downstream_pos
                            /\ max_fpga_retrieved < End(held)

(* The end of the stream is computed before the last two puts. *)
EndKnown ==
  /\ doneflag => assembler = "exited" /\ final_fpga = NextIchunk
  /\ caller = "end0" => loc_final_fpga = NextIchunk + (IF assembler = "finish" THEN 1 ELSE 2)
  /\ caller = "end1" /\ assembler # "exited" =>
       loc_final_fpga = NextIchunk + (IF assembler \in {"prepare", "commit"} THEN 1 ELSE 0)
  /\ assembler \in {"idle", "advance"} => caller = "packet"
  /\ assembler = "done" => caller = "end1"

(* _check_invariants(), one level: within its capacity, chunks of its        *)
(* binning, masked below level 0, one after the other, and the newest one    *)
(* followed by the oldest one of the level above.                            *)
LevelFits(ids) ==
  /\ Size(ids) <= Capacity(ids)
  /\ \A i \in 1 .. Size(ids) : ringbuf[ids][i].binning = Binning(ids)
  /\ RfiMask /\ ids > 0 => \A i \in 1 .. Size(ids) : ringbuf[ids][i] \in has_rfi_mask
  /\ \A i \in 1 .. Size(ids) - 1 : ringbuf[ids][i + 1].ichunk = End(ringbuf[ids][i])
  /\ ids > 0 /\ Size(ids) > 0 =>
       /\ Size(ids - 1) > 0
       /\ ringbuf[ids - 1][1].ichunk = End(ringbuf[ids][Size(ids)])

AllLevelsFit == \A ids \in Levels : LevelFits(ids)

ReaderInReach == downstream_pos >= RingEnd - AssembledCapacity

TimeInv ==
  /\ Untouched /\ Level0 /\ ActiveChunks /\ Prepared /\ MarksBehind /\ EndKnown
  /\ AllLevelsFit /\ ReaderInReach

-----------------------------------------------------------------------------
(* Facts about the time axis.                                              *)

LEMMA ChunkOfFacts ==
  ASSUME TypeOK, first_fpgacount # -1, NEW pos \in Nat
  PROVE  /\ first_fpgacount \in Nat
         /\ ChunkOf(pos) \in Chunk /\ ChunkOf(pos) # NoChunk
         /\ ChunkOf(pos).ichunk = first_fpgacount + pos /\ ChunkOf(pos).binning = 1
         /\ End(ChunkOf(pos)) = first_fpgacount + pos + 1
<1>1. first_fpgacount \in Nat
  BY DEF TypeOK
<1>2. ChunkOf(pos) \in Chunk /\ ChunkOf(pos) # NoChunk
  BY <1>1, ChunkTypes DEF ChunkOf
<1>3. ChunkOf(pos).ichunk = first_fpgacount + pos /\ ChunkOf(pos).binning = 1
  BY <1>1 DEF ChunkOf, ChunkAt
<1>4. End(ChunkOf(pos)) = first_fpgacount + pos + 1
  BY <1>1, <1>3 DEF End
<1> QED
  BY <1>1, <1>2, <1>3, <1>4

(* The assertion of the code is what the levels and the reader keep. *)
LEMMA CheckHolds ==
  ASSUME IInv, AllLevelsFit, ReaderInReach
  PROVE  CheckInvariants
<1>1. ASSUME NEW ids \in Levels
      PROVE  /\ Capacity(ids) >= 2
             /\ Size(ids) <= Capacity(ids)
             /\ \A i \in 1 .. Size(ids) :
                  LET chunk == ringbuf[ids][i]
                  IN /\ chunk.binning = Binning(ids)
                     /\ RfiMask /\ ids > 0 => chunk \in has_rfi_mask
                     /\ i = Size(ids) /\ ids > 0 => Size(ids - 1) > 0
                     /\ i < Size(ids) \/ ids > 0 => NextChunk(ids, i).ichunk = End(chunk)
  <2>1. LevelFits(ids) /\ Capacity(ids) >= 2 /\ Size(ids) \in Nat /\ ids \in Nat
    BY Geometry, BufferType DEF AllLevelsFit, IInv
  <2>2. ASSUME NEW i \in 1 .. Size(ids)
        PROVE  /\ ringbuf[ids][i].binning = Binning(ids)
               /\ RfiMask /\ ids > 0 => ringbuf[ids][i] \in has_rfi_mask
               /\ i = Size(ids) /\ ids > 0 => Size(ids - 1) > 0
               /\ i < Size(ids) \/ ids > 0 => NextChunk(ids, i).ichunk = End(ringbuf[ids][i])
    <3>1. CASE i < Size(ids)
      <4>1. i \in 1 .. Size(ids) - 1
        BY <2>1, <3>1
      <4> QED
        BY <2>1, <3>1, <4>1 DEF LevelFits, NextChunk
    <3>2. CASE i = Size(ids)
      BY <2>1, <3>2 DEF LevelFits, NextChunk
    <3> QED
      BY <2>1, <3>1, <3>2
  <2> QED
    BY <2>1, <2>2 DEF LevelFits
<1>2. downstream_pos \in ringbuf_pos[0] .. RingEnd
  BY BufferType DEF IInv, DownstreamInBuffer
<1> QED
  BY <1>1, <1>2 DEF CheckInvariants, ReaderInReach

(* What step 1 decides depends on the buffer alone. *)
LEMMA DecisionsStand ==
  ASSUME UNCHANGED ringbuf
  PROVE  /\ NewLevels' = NewLevels
         /\ \A ids \in Levels : Pops(ids)' = Pops(ids)
         /\ \A ids \in Levels : \A n : Pushes(ids, ChunkAt(n, 1))' = Pushes(ids, ChunkAt(n, 1))
  BY DEF NewLevels, Pops, Pushes, PopCount, Reached, Full, Size

(* Steps that only let masks grow and the reader rest. *)
LEMMA QuietKeepsTime ==
  ASSUME TimeInv,
         UNCHANGED <<ringVars, endVars, assemblerVars, max_fpga_retrieved>>,
         has_rfi_mask \subseteq has_rfi_mask',
         consumer' # "took" \/ UNCHANGED <<consumer, held>>
  PROVE  TimeInv'
<1> USE DEF ringVars, endVars, assemblerVars, activeVars, listVars, countVars, dropVars
<1>1. RingEnd' = RingEnd /\ NextIchunk' = NextIchunk /\ \A ids : Size(ids)' = Size(ids)
  BY DEF RingEnd, Size, NextIchunk
<1>2. Untouched' /\ EndKnown' /\ MarksBehind'
  BY <1>1 DEF TimeInv, Untouched, EndKnown, MarksBehind
<1>3. Level0' /\ ActiveChunks'
  BY <1>1 DEF TimeInv, Level0, ActiveChunks, ChunkOf
<1>4. Prepared'
  BY <1>1, DecisionsStand DEF TimeInv, Prepared, ChunkOf
<1>5. AllLevelsFit' /\ ReaderInReach'
  BY <1>1 DEF TimeInv, AllLevelsFit, LevelFits, ReaderInReach
<1> QED
  BY <1>2, <1>3, <1>4, <1>5 DEF TimeInv

LEMMA FailKeepsTime ==
  ASSUME TimeInv, NEW why, Fail(why)
  PROVE  TimeInv'
  BY QuietKeepsTime DEF Fail, outsideVars, readerVars

-----------------------------------------------------------------------------
(* The processing thread and the captures.                                 *)

LEMMA GetTakeKeepsTime == ASSUME IInv, TimeInv, GetTake PROVE TimeInv'
<1> USE DEF endVars, assemblerVars, activeVars, listVars, countVars, dropVars
<1>1. /\ downstream_pos < RingEnd
      /\ held' = Entry(downstream_pos)
      /\ downstream_pos' = downstream_pos + 1
      /\ consumer' = "took"
      /\ UNCHANGED <<ringbuf, ringbuf_pos, endVars, assemblerVars, has_rfi_mask,
                     max_fpga_retrieved>>
  BY DEF GetTake, UnchangedByReader
<1>2. /\ Size(0) \in Nat /\ ringbuf_pos[0] \in Nat /\ downstream_pos \in Nat
      /\ ringbuf_pos[0] <= downstream_pos
      /\ TypeOK /\ max_fpga_retrieved \in Nat /\ AssembledCapacity \in Nat
  BY BufferType, Geometry, CapacityAssumption DEF IInv, DownstreamInBuffer, TypeOK
<1>3. first_fpgacount # -1
  <2> SUFFICES ASSUME first_fpgacount = -1 PROVE FALSE
    OBVIOUS
  <2>1. ringbuf[0] = <<>> /\ ringbuf_pos[0] = 0
    BY Geometry DEF TimeInv, Untouched
  <2>2. RingEnd = 0
    BY <2>1, EmptySeq DEF RingEnd, Size
  <2> QED
    BY <1>1, <1>2, <2>2
<1>4. held' = ChunkOf(downstream_pos)
  <2> DEFINE i == downstream_pos - ringbuf_pos[0] + 1
  <2>1. i \in 1 .. Size(0) /\ ringbuf_pos[0] + i - 1 = downstream_pos
    BY <1>1, <1>2 DEF RingEnd
  <2>2. ringbuf[0][i] = ChunkOf(ringbuf_pos[0] + i - 1)
    BY <2>1 DEF TimeInv, Level0
  <2> QED
    BY <1>1, <2>1, <2>2 DEF Entry
<1>5. End(held)' = first_fpgacount + downstream_pos + 1 /\ first_fpgacount \in Nat
  BY <1>2, <1>3, <1>4, ChunkOfFacts DEF End
<1>6. RingEnd' = RingEnd /\ NextIchunk' = NextIchunk /\ \A ids : Size(ids)' = Size(ids)
  BY <1>1 DEF RingEnd, Size, NextIchunk
<1>7. MarksBehind'
  <2>1. /\ max_fpga_flushed <= NextIchunk
        /\ assembler = "finish" => max_fpga_flushed < NextIchunk
        /\ max_fpga_retrieved <= first_fpgacount + downstream_pos
    BY <1>3 DEF TimeInv, MarksBehind
  <2>2. /\ max_fpga_retrieved <= first_fpgacount + downstream_pos'
        /\ max_fpga_retrieved < End(held)'
        /\ End(held)' <= first_fpgacount + downstream_pos'
    BY <1>1, <1>2, <1>5, <2>1
  <2> QED
    BY <1>1, <1>6, <2>1, <2>2 DEF MarksBehind
<1>8. Untouched' /\ EndKnown' /\ Level0' /\ ActiveChunks'
  BY <1>1, <1>3, <1>6 DEF TimeInv, Untouched, EndKnown, Level0, ActiveChunks, ChunkOf
<1>9. Prepared'
  BY <1>1, <1>6, DecisionsStand DEF TimeInv, Prepared, ChunkOf
<1>10. AllLevelsFit'
  BY <1>1, <1>6 DEF TimeInv, AllLevelsFit, LevelFits
<1>11. ReaderInReach'
  <2>1. RingEnd \in Nat
    BY <1>2 DEF RingEnd
  <2> QED
    BY <1>1, <1>2, <1>6, <2>1 DEF TimeInv, ReaderInReach
<1> QED
  BY <1>7, <1>8, <1>9, <1>10, <1>11 DEF TimeInv

LEMMA GetReturnKeepsTime ==
  ASSUME IInv, ReaderHolds, TimeInv, GetReturn
  PROVE  TimeInv' /\ failure' = failure
<1> USE DEF ringVars, endVars, assemblerVars, activeVars, listVars, countVars, dropVars
<1>1. consumer = "took" /\ first_fpgacount # -1
  BY DEF GetReturn, TimeInv, Untouched
<1>2. End(held) \in Nat /\ max_fpga_retrieved \in Nat
  BY <1>1, ChunkTypes DEF ReaderHolds, IInv, TypeOK
<1>3. max_fpga_retrieved < End(held) /\ End(held) <= first_fpgacount + downstream_pos
  BY <1>1 DEF TimeInv, MarksBehind
<1>4. /\ max_fpga_retrieved' = End(held)
      /\ consumer' = "processing"
      /\ UNCHANGED <<ringVars, endVars, assemblerVars, has_rfi_mask, held, failure>>
  BY <1>2, <1>3 DEF GetReturn, UnchangedByReader
<1>5. RingEnd' = RingEnd /\ NextIchunk' = NextIchunk /\ \A ids : Size(ids)' = Size(ids)
  BY <1>4 DEF RingEnd, Size, NextIchunk
<1>6. Untouched' /\ MarksBehind'
  BY <1>1, <1>3, <1>4, <1>5 DEF TimeInv, Untouched, MarksBehind
<1>7. EndKnown' /\ Level0' /\ ActiveChunks'
  BY <1>4, <1>5 DEF TimeInv, EndKnown, Level0, ActiveChunks, ChunkOf
<1>8. Prepared'
  BY <1>4, <1>5, DecisionsStand DEF TimeInv, Prepared, ChunkOf
<1>9. AllLevelsFit' /\ ReaderInReach'
  BY <1>4, <1>5 DEF TimeInv, AllLevelsFit, LevelFits, ReaderInReach
<1> QED
  BY <1>4, <1>6, <1>7, <1>8, <1>9 DEF TimeInv

LEMMA OthersKeepTime ==
  ASSUME IInv, TimeInv,
         \/ GetEnd \/ GetWait \/ Release \/ FillMask \/ Terminated \/ UNCHANGED vars
         \/ \E top_level_only \in BOOLEAN : Find(top_level_only)
         \/ \E pattern \in Captures \cup {Off} : StreamToFiles(pattern)
         \/ \E r \in requests, success \in BOOLEAN : CompleteRequest(r, success)
  PROVE  TimeInv' /\ UNCHANGED <<failure, ringbuf>>
<1>1. /\ UNCHANGED <<ringVars, endVars, assemblerVars, max_fpga_retrieved, failure>>
      /\ has_rfi_mask \subseteq has_rfi_mask'
      /\ consumer' # "took" \/ UNCHANGED <<consumer, held>>
  BY DEF GetEnd, GetWait, Release, FillMask, Terminated, Find, StreamToFiles, CompleteRequest,
         UnchangedByReader, vars, outsideVars, readerVars, ringVars
<1> QED
  BY <1>1, QuietKeepsTime DEF ringVars

-----------------------------------------------------------------------------
(* The assembler between two puts.                                         *)

(* What the steps that leave the buffer and its reader alone still have to  *)
(* show.                                                                    *)
LEMMA BufferRests ==
  ASSUME TimeInv, UNCHANGED <<ringVars, first_fpgacount, has_rfi_mask>>
  PROVE  /\ Level0' /\ AllLevelsFit' /\ ReaderInReach'
         /\ RingEnd' = RingEnd /\ NextIchunk' = NextIchunk /\ Size(0)' = Size(0)
         /\ \A pos : ChunkOf(pos)' = ChunkOf(pos)
<1> USE DEF ringVars
<1>1. RingEnd' = RingEnd /\ NextIchunk' = NextIchunk /\ \A ids : Size(ids)' = Size(ids)
  BY DEF RingEnd, Size, NextIchunk
<1>2. \A pos : ChunkOf(pos)' = ChunkOf(pos)
  BY DEF ChunkOf
<1>3. Level0'
  BY <1>1 DEF TimeInv, Level0, ChunkOf
<1>4. AllLevelsFit' /\ ReaderInReach'
  BY <1>1 DEF TimeInv, AllLevelsFit, LevelFits, ReaderInReach
<1> QED
  BY <1>1, <1>2, <1>3, <1>4

LEMMA FirstPacketKeepsTime ==
  ASSUME IInv, TimeInv, FirstPacket
  PROVE  TimeInv' /\ failure' \in {failure, "memory"} /\ ringbuf' = ringbuf
<1> USE DEF ringVars, endVars, assemblerVars, activeVars, listVars, countVars, dropVars
<1>1. PICK p \in 0 .. MaxFirst :
        IF ~SlabsFree(2) THEN Fail("memory")
        ELSE /\ active' = ActiveFrom(FirstIchunk(p))
             /\ first_fpgacount' = FirstIchunk(p)
             /\ UNCHANGED <<ringVars, endVars, has_rfi_mask, assembler, caller, listVars,
                            dropVars, loc_final_fpga, countVars, outsideVars, failure>>
  BY DEF FirstPacket
<1>2. CASE Fail("memory")
  BY <1>2, FailKeepsTime DEF Fail
<1>3. CASE ~Fail("memory")
  <2> DEFINE first == FirstIchunk(p)
  <2>1. first \in Nat
    BY FirstIchunkType, ParameterAssumption
  <2> HIDE DEF first
  <2>2. /\ active' = ActiveFrom(first) /\ first_fpgacount' = first
        /\ UNCHANGED <<ringVars, endVars, has_rfi_mask, assembler, caller, listVars,
                       dropVars, loc_final_fpga, countVars, outsideVars, failure>>
    BY <1>1, <1>3 DEF first
  <2>3. /\ assembler = "idle" /\ consumer # "took"
        /\ ringbuf_pos[0] = 0 /\ \A ids \in Levels : ringbuf[ids] = <<>>
        /\ max_fpga_flushed = 0 /\ max_fpga_retrieved = 0
    BY DEF FirstPacket, TimeInv, Untouched
  <2>4. \A ids \in Levels : Size(ids) = 0 /\ Size(ids)' = 0
    BY <2>2, <2>3, EmptySeq DEF Size
  <2>5. RingEnd = 0 /\ RingEnd' = 0 /\ downstream_pos \in Nat
    BY <2>2, <2>3, <2>4, Geometry DEF RingEnd, IInv, TypeOK
  <2>6. NextIchunk' = first
    BY <2>1, <2>2, <2>5 DEF NextIchunk
  <2>7. Untouched' /\ MarksBehind'
    BY <2>1, <2>2, <2>3, <2>5, <2>6 DEF Untouched, MarksBehind, outsideVars, readerVars
  <2>8. ~doneflag /\ caller = "packet"
    BY <2>3 DEF TimeInv, EndKnown
  <2>9. EndKnown' /\ Prepared'
    BY <2>2, <2>3, <2>8 DEF EndKnown, Prepared
  <2>10. Level0' /\ AllLevelsFit'
    <3>1. \A ids \in Levels : Capacity(ids) >= 0 /\ (ids > 0 => ids - 1 \in Levels)
      BY Geometry DEF Levels
    <3> QED
      BY <2>4, <3>1, Geometry DEF Level0, AllLevelsFit, LevelFits
  <2>11. ActiveChunks'
    BY <2>1, <2>2, <2>3, <2>5 DEF ActiveChunks, ActiveFrom, ChunkOf
  <2>12. ReaderInReach'
    BY <2>2, <2>5 DEF TimeInv, ReaderInReach
  <2> QED
    BY <2>2, <2>7, <2>9, <2>10, <2>11, <2>12 DEF TimeInv
<1> QED
  BY <1>2, <1>3

LEMMA AdvancingPacketKeepsTime ==
  ASSUME IInv, TimeInv, AdvancingPacket
  PROVE  TimeInv' /\ UNCHANGED <<failure, ringbuf>>
<1> USE DEF ringVars, endVars, activeVars, listVars, countVars, dropVars, outsideVars, readerVars
<1>1. /\ assembler = "idle" /\ first_fpgacount # -1
      /\ caller' = "packet" /\ assembler' = "prepare"
      /\ UNCHANGED <<ringVars, endVars, has_rfi_mask, activeVars, listVars, dropVars,
                     loc_final_fpga, countVars, outsideVars, failure>>
  BY DEF AdvancingPacket
<1>2. /\ Level0' /\ AllLevelsFit' /\ ReaderInReach'
      /\ RingEnd' = RingEnd /\ NextIchunk' = NextIchunk /\ Size(0)' = Size(0)
      /\ \A pos : ChunkOf(pos)' = ChunkOf(pos)
  BY <1>1, BufferRests
<1>3. active[1] = ChunkOf(RingEnd) /\ active[2] = ChunkOf(RingEnd + 1)
  BY <1>1 DEF TimeInv, ActiveChunks
<1>4. Untouched' /\ ActiveChunks' /\ Prepared' /\ MarksBehind' /\ EndKnown'
  BY <1>1, <1>2, <1>3 DEF TimeInv, Untouched, ActiveChunks, Prepared, MarksBehind, EndKnown
<1> QED
  BY <1>1, <1>2, <1>4 DEF TimeInv

LEMMA AdvanceActiveKeepsTime ==
  ASSUME IInv, TimeInv, AdvanceActive
  PROVE  TimeInv' /\ failure' \in {failure, "memory"} /\ ringbuf' = ringbuf
<1> USE DEF ringVars, endVars, activeVars, listVars, countVars, dropVars, outsideVars, readerVars
<1>1. CASE ~SlabsFree(1)
  BY <1>1, FailKeepsTime DEF AdvanceActive, Fail
<1>2. CASE SlabsFree(1)
  <2>1. /\ assembler = "advance" /\ assembler' = "idle"
        /\ active' = ActiveFrom(active[2].ichunk)
        /\ UNCHANGED <<ringVars, endVars, has_rfi_mask, first_fpgacount, caller, listVars,
                       dropVars, loc_final_fpga, countVars, outsideVars, failure>>
    BY <1>2 DEF AdvanceActive
  <2>2. first_fpgacount # -1 /\ caller = "packet" /\ active[2] = ChunkOf(RingEnd)
    BY <2>1 DEF TimeInv, Untouched, EndKnown, ActiveChunks
  <2>3. RingEnd \in Nat /\ TypeOK
    BY BufferType DEF IInv
  <2>4. active[2].ichunk = first_fpgacount + RingEnd /\ first_fpgacount \in Nat
    BY <2>2, <2>3, ChunkOfFacts
  <2>5. /\ Level0' /\ AllLevelsFit' /\ ReaderInReach'
        /\ RingEnd' = RingEnd /\ NextIchunk' = NextIchunk /\ Size(0)' = Size(0)
        /\ \A pos : ChunkOf(pos)' = ChunkOf(pos)
    BY <2>1, BufferRests
  <2>6. active'[1] = ChunkOf(RingEnd) /\ active'[2] = ChunkOf(RingEnd + 1)
    <3>1. first_fpgacount + RingEnd + 1 = first_fpgacount + (RingEnd + 1)
      BY <2>3, <2>4
    <3> QED
      BY <2>1, <2>4, <3>1 DEF ActiveFrom, ChunkOf
  <2>7. Untouched' /\ ActiveChunks' /\ Prepared' /\ MarksBehind' /\ EndKnown'
    BY <2>1, <2>2, <2>5, <2>6
       DEF TimeInv, Untouched, ActiveChunks, Prepared, MarksBehind, EndKnown
  <2> QED
    BY <2>1, <2>5, <2>7 DEF TimeInv
<1> QED
  BY <1>1, <1>2

LEMMA EndStreamKeepsTime ==
  ASSUME IInv, TimeInv, EndStream
  PROVE  TimeInv' /\ failure' \in {failure, "empty_pointers"} /\ ringbuf' = ringbuf
<1> USE DEF ringVars, endVars, activeVars, listVars, countVars, dropVars, outsideVars, readerVars
<1>1. CASE NoChunk \in RangeOf(active)
  BY <1>1, FailKeepsTime DEF EndStream, Fail
<1>2. CASE NoChunk \notin RangeOf(active)
  <2>1. /\ assembler = "idle" /\ assembler' = "prepare" /\ caller' = "end0"
        /\ loc_final_fpga' = FinalFpga
        /\ UNCHANGED <<ringVars, endVars, has_rfi_mask, activeVars, listVars, dropVars,
                       countVars, outsideVars, failure>>
    BY <1>2 DEF EndStream
  <2>2. first_fpgacount # -1
    BY <1>2 DEF TimeInv, Untouched, RangeOf
  <2>3. active[1] = ChunkOf(RingEnd) /\ active[2] = ChunkOf(RingEnd + 1)
    BY <2>1, <2>2 DEF TimeInv, ActiveChunks
  <2>4. RingEnd \in Nat /\ TypeOK
    BY BufferType DEF IInv
  <2>5. FinalFpga = NextIchunk + 2
    BY <2>2, <2>3, <2>4, ChunkOfFacts DEF FinalFpga, NextIchunk
  <2>6. /\ Level0' /\ AllLevelsFit' /\ ReaderInReach'
        /\ RingEnd' = RingEnd /\ NextIchunk' = NextIchunk /\ Size(0)' = Size(0)
        /\ \A pos : ChunkOf(pos)' = ChunkOf(pos)
    BY <2>1, BufferRests
  <2>7. Untouched' /\ ActiveChunks' /\ Prepared' /\ MarksBehind' /\ EndKnown'
    BY <2>1, <2>2, <2>3, <2>5, <2>6
       DEF TimeInv, Untouched, ActiveChunks, Prepared, MarksBehind, EndKnown
  <2> QED
    BY <2>1, <2>6, <2>7 DEF TimeInv
<1> QED
  BY <1>1, <1>2

LEMMA EndStreamDoneKeepsTime ==
  ASSUME IInv, TimeInv, EndStreamDone
  PROVE  TimeInv' /\ UNCHANGED <<failure, ringbuf>>
<1> USE DEF ringVars, endVars, activeVars, listVars, countVars, dropVars
<1>1. /\ assembler = "done" /\ assembler' = "exited"
      /\ doneflag' = TRUE /\ final_fpga' = loc_final_fpga /\ consumer' = Woken
      /\ UNCHANGED <<ringVars, has_rfi_mask, activeVars, caller, listVars, dropVars,
                     loc_final_fpga, countVars, held, max_fpga_retrieved, failure>>
  BY DEF EndStreamDone
<1>2. first_fpgacount # -1 /\ caller = "end1" /\ Size(0) > 0
  BY <1>1 DEF TimeInv, Untouched, EndKnown, Prepared
<1>3. /\ Level0' /\ AllLevelsFit' /\ ReaderInReach'
      /\ RingEnd' = RingEnd /\ NextIchunk' = NextIchunk /\ Size(0)' = Size(0)
      /\ \A pos : ChunkOf(pos)' = ChunkOf(pos)
  BY <1>1, BufferRests
<1>4. loc_final_fpga = NextIchunk
  <2>1. loc_final_fpga = NextIchunk + 0
    BY <1>1, <1>2 DEF TimeInv, EndKnown
  <2>2. NextIchunk \in Int
    BY BufferType DEF IInv, TypeOK, NextIchunk
  <2> QED
    BY <2>1, <2>2
<1>5. Untouched' /\ ActiveChunks' /\ Prepared' /\ EndKnown'
  BY <1>1, <1>2, <1>3, <1>4 DEF TimeInv, Untouched, ActiveChunks, Prepared, EndKnown
<1>6. MarksBehind'
  BY <1>1, <1>2, <1>3 DEF TimeInv, MarksBehind, Woken
<1> QED
  BY <1>1, <1>3, <1>5, <1>6 DEF TimeInv

-----------------------------------------------------------------------------
(* A put.                                                                  *)

LEMMA BinningDoubles == \A ids \in 0 .. 2 : Binning(ids + 1) = 2 * Binning(ids)
  BY DEF Binning

LEMMA ReachedAbove ==
  ASSUME NEW ids \in Levels
  PROVE  /\ Reached(0)
         /\ ids > 0 => ids - 1 \in Levels /\ ids - 1 # Bottom
         /\ ids > 0 => (Reached(ids) <=> Reached(ids - 1) /\ Full(ids - 1))
<1>1. ids \in Nat /\ (ids > 0 => ids - 1 \in Levels /\ ids - 1 # Bottom)
  BY Geometry DEF Levels, Bottom
<1>2. ids > 0 => 0 .. ids - 1 = (0 .. (ids - 1) - 1) \cup {ids - 1}
  BY <1>1
<1> QED
  BY <1>1, <1>2 DEF Reached

(* A level from which chunks are downsampled is full, and loses two. *)
LEMMA Downsampled ==
  ASSUME TypeOK, NEW ids \in Levels, ids > 0, Reached(ids)
  PROVE  /\ ids - 1 \in Levels /\ Reached(ids - 1) /\ PopCount(ids - 1) = 2
         /\ Size(ids - 1) \in Nat /\ Size(ids - 1) >= 2
<1>1. ids - 1 \in Levels /\ ids - 1 # Bottom /\ Reached(ids - 1) /\ Full(ids - 1)
  BY ReachedAbove
<1>2. Size(ids - 1) \in Nat /\ Capacity(ids - 1) \in Nat /\ Capacity(ids - 1) >= 2
  BY <1>1, BufferType, Geometry
<1> QED
  BY <1>1, <1>2 DEF PopCount, Full

(* What is pushed onto a level has its binning and follows its newest entry. *)
LEMMA PushedFollows ==
  ASSUME IInv, TimeInv, first_fpgacount # -1, NEW ids \in Levels
  PROVE  LET push == Pushes(ids, ChunkOf(RingEnd))
         IN /\ ~Reached(ids) => push = <<>>
            /\ Reached(ids) =>
                 /\ push = <<push[1]>> /\ push[1] \in Chunk
                 /\ push[1].binning = Binning(ids)
                 /\ Size(ids) > 0 => push[1].ichunk = End(ringbuf[ids][Size(ids)])
                 /\ ids = 0 => push[1] = ChunkOf(RingEnd)
                 /\ ids > 0 => push[1].ichunk = ringbuf[ids - 1][1].ichunk
<1> DEFINE push == Pushes(ids, ChunkOf(RingEnd))
<1>1. /\ TypeOK /\ RingEnd \in Nat /\ ringbuf[ids] \in Seq(Chunk) /\ Size(ids) \in Nat
      /\ ringbuf_pos[0] \in Nat /\ ids \in Nat /\ LevelFits(ids)
  BY BufferType, Geometry DEF IInv, TimeInv, AllLevelsFit
<1>2. /\ ChunkOf(RingEnd) \in Chunk /\ ChunkOf(RingEnd).binning = 1
      /\ ChunkOf(RingEnd).ichunk = first_fpgacount + RingEnd
  BY <1>1, ChunkOfFacts
<1>3. CASE ids = 0
  <2>1. push = <<ChunkOf(RingEnd)>> /\ Reached(ids)
    BY <1>3, ReachedAbove DEF Pushes
  <2>2. Size(0) > 0 => ChunkOf(RingEnd).ichunk = End(ringbuf[0][Size(0)])
    <3> SUFFICES ASSUME Size(0) > 0
                 PROVE  ChunkOf(RingEnd).ichunk = End(ringbuf[0][Size(0)])
      OBVIOUS
    <3> DEFINE pos == ringbuf_pos[0] + Size(0) - 1
    <3>1. pos \in Nat /\ Size(0) \in 1 .. Size(0) /\ RingEnd = pos + 1
      BY <1>1, <1>3 DEF RingEnd
    <3>2. ringbuf[0][Size(0)] = ChunkOf(pos)
      BY <3>1 DEF TimeInv, Level0
    <3> HIDE DEF pos
    <3>3. End(ChunkOf(pos)) = first_fpgacount + pos + 1 /\ first_fpgacount \in Nat
      BY <1>1, <3>1, ChunkOfFacts
    <3> QED
      BY <1>2, <3>1, <3>2, <3>3
  <2>3. Binning(0) = 1
    BY DEF Binning
  <2> HIDE DEF push
  <2> QED
    BY <1>2, <1>3, <2>1, <2>2, <2>3 DEF push
<1>4. CASE ids > 0 /\ Reached(ids)
  <2> DEFINE chunk == ringbuf[ids - 1][1]
  <2>1. push = <<ChunkAt(chunk.ichunk, Binning(ids))>>
    BY <1>1, <1>4 DEF Pushes
  <2>2. chunk \in Chunk
    <3>1. ids - 1 \in Levels /\ Size(ids - 1) \in Nat /\ Size(ids - 1) >= 2
      BY <1>1, <1>4, Downsampled
    <3>2. ringbuf[ids - 1] \in Seq(Chunk) /\ 1 \in 1 .. Size(ids - 1)
      BY <1>1, <3>1, BufferType
    <3> QED
      BY <3>2, ElementOfSeq DEF Size
  <2>3. chunk.ichunk \in Nat /\ ChunkAt(chunk.ichunk, Binning(ids)) \in Chunk
    BY <2>2, ChunkTypes, Geometry
  <2>4. Size(ids) > 0 => chunk.ichunk = End(ringbuf[ids][Size(ids)])
    BY <1>1, <1>4 DEF LevelFits
  <2> HIDE DEF push, chunk
  <2>5. push[1] = ChunkAt(chunk.ichunk, Binning(ids))
    BY <2>1
  <2>6. push[1].ichunk = chunk.ichunk /\ push[1].binning = Binning(ids)
    BY <2>5 DEF ChunkAt
  <2> QED
    BY <1>1, <1>4, <2>1, <2>3, <2>4, <2>5, <2>6 DEF push, chunk
<1>5. CASE ~(ids = 0) /\ ~(ids > 0 /\ Reached(ids))
  BY <1>1, <1>5 DEF Pushes
<1> QED
  BY <1>3, <1>4, <1>5

(* _check_downsample() accepts what step 1 downsamples. *)
LEMMA SourcesFit ==
  ASSUME IInv, TimeInv, first_fpgacount # -1, NEW ids \in Levels, ids + 1 \in NewLevels
  PROVE  Downsamples(Pops(ids)[1], Pops(ids)[2], Pushes(ids + 1, ChunkOf(RingEnd))[1])
<1> DEFINE src1 == ringbuf[ids][1]
           src2 == ringbuf[ids][2]
           dst  == Pushes(ids + 1, ChunkOf(RingEnd))[1]
<1>1. ids + 1 \in Levels /\ Reached(ids + 1) /\ ids \in 0 .. 2 /\ (ids + 1) - 1 = ids
  BY Geometry DEF NewLevels
<1>2. PopCount(ids) = 2 /\ Size(ids) \in Nat /\ Size(ids) >= 2
  BY <1>1, Downsampled DEF IInv
<1>3. dst.binning = Binning(ids + 1) /\ dst.ichunk = src1.ichunk
  BY <1>1, PushedFollows
<1>4. src1.binning = Binning(ids) /\ src2.binning = Binning(ids) /\ src2.ichunk = End(src1)
  <2>1. 1 \in 1 .. Size(ids) /\ 2 \in 1 .. Size(ids) /\ 1 \in 1 .. Size(ids) - 1
    BY <1>2
  <2>2. LevelFits(ids)
    BY DEF TimeInv, AllLevelsFit
  <2> QED
    BY <2>1, <2>2 DEF LevelFits
<1>5. Pops(ids)[1] = src1 /\ Pops(ids)[2] = src2
  <2>1. Pops(ids) = SubSeq(ringbuf[ids], 1, 2)
    BY <1>2 DEF Pops
  <2>2. ringbuf[ids] \in Seq(Chunk)
    BY BufferType DEF IInv
  <2>3. \A i \in 1 .. 2 : ringbuf[ids][i] \in Chunk
    BY <1>2, <2>2, ElementOfSeq DEF Size
  <2>4. \A i \in 1 .. 2 - 1 + 1 : SubSeq(ringbuf[ids], 1, 2)[i] = ringbuf[ids][1 + i - 1]
    BY <2>3, SubSeqProperties
  <2> QED
    BY <2>1, <2>4
<1>6. Binning(ids + 1) = 2 * Binning(ids)
  BY <1>1, BinningDoubles
<1> HIDE DEF src1, src2, dst
<1>7. Downsamples(src1, src2, dst)
  BY <1>3, <1>4, <1>6 DEF Downsamples
<1> QED
  BY <1>5, <1>7 DEF src1, src2, dst

LEMMA PutPrepareKeepsTime ==
  ASSUME IInv, TimeInv, PutPrepare
  PROVE  TimeInv' /\ failure' \in {failure, "memory", "rfimask"} /\ ringbuf' = ringbuf
<1> USE DEF ringVars, endVars, countVars, dropVars, outsideVars, readerVars
<1> DEFINE push  == [ids \in Levels |-> Pushes(ids, active[Putting])]
           pop   == [ids \in Levels |-> Pops(ids)]
<1>1. /\ assembler = "prepare" /\ first_fpgacount # -1
      /\ active[Putting] = ChunkOf(RingEnd)
  BY DEF PutPrepare, TimeInv, Untouched, ActiveChunks, Putting
<1>2. ASSUME NEW ids \in Levels
      PROVE  Trouble(push, pop, ids) \in {"none", "memory", "rfimask"}
  <2>1. ids + 1 \in NewLevels => Downsamples(pop[ids][1], pop[ids][2], push[ids + 1][1])
    BY <1>1, SourcesFit DEF NewLevels
  <2> HIDE DEF push, pop
  <2> QED
    BY <2>1 DEF Trouble
<1>3. CASE \E why \in {"memory", "rfimask"} : Fail(why)
  BY <1>3, FailKeepsTime DEF Fail
<1>4. CASE ~\E why \in {"memory", "rfimask"} : Fail(why)
  <2>1. /\ \A ids \in Levels : Trouble(push, pop, ids) = "none"
        /\ pushlist' = push
        /\ poplist' = pop
        /\ has_rfi_mask' = has_rfi_mask \cup
             (IF RfiMask THEN {push[ids][1] : ids \in NewLevels} ELSE {})
        /\ active' = [active EXCEPT ![Putting] = NoChunk]
        /\ assembler' = "commit"
        /\ UNCHANGED <<ringVars, endVars, first_fpgacount, caller, dropVars,
                       loc_final_fpga, countVars, outsideVars, failure>>
    BY <1>2, <1>4 DEF PutPrepare
  <2>2. RingEnd' = RingEnd /\ NextIchunk' = NextIchunk /\ \A ids : Size(ids)' = Size(ids)
    BY <2>1 DEF RingEnd, Size, NextIchunk
  <2>3. \A pos : ChunkOf(pos)' = ChunkOf(pos)
    BY <2>1 DEF ChunkOf
  <2>4. \A ids \in Levels : RfiMask => RangeOf(pop[ids]) \subseteq has_rfi_mask
    BY <2>1 DEF Trouble, MayLeave
  <2>5. RfiMask => \A ids \in NewLevels : push[ids][1] \in has_rfi_mask'
    <3> HIDE DEF push
    <3> QED
      BY <2>1
  <2>6. Prepared'
    <3>1. /\ NewLevels' = NewLevels
          /\ \A ids \in Levels : Pops(ids)' = Pops(ids)
          /\ \A ids \in Levels : Pushes(ids, ChunkOf(RingEnd))' = Pushes(ids, ChunkOf(RingEnd))
      BY <2>1, <2>2, DecisionsStand DEF ChunkOf
    <3>2. /\ pushlist' = [ids \in Levels |-> Pushes(ids, ChunkOf(RingEnd))']
          /\ poplist' = [ids \in Levels |-> Pops(ids)']
      BY <1>1, <2>1, <3>1
    <3>3. RfiMask => /\ \A ids \in Levels : RangeOf(poplist'[ids]) \subseteq has_rfi_mask'
                     /\ \A ids \in NewLevels : pushlist'[ids][1] \in has_rfi_mask'
      BY <2>1, <2>4, <2>5
    <3>4. caller' = "end1" => Size(0)' > 0
      BY <2>1, <2>2 DEF TimeInv, Prepared
    <3> HIDE DEF push, pop
    <3> QED
      BY <2>1, <3>1, <3>2, <3>3, <3>4 DEF Prepared, RangeOf
  <2>7. has_rfi_mask \subseteq has_rfi_mask'
    BY <2>1
  <2> HIDE DEF push, pop
  <2>8. Untouched' /\ MarksBehind'
    BY <1>1, <2>1, <2>2 DEF TimeInv, Untouched, MarksBehind
  <2>9. EndKnown'
    BY <1>1, <2>1, <2>2 DEF TimeInv, EndKnown
  <2>10. ActiveChunks'
    <3>1. active \in [1 .. 2 -> MaybeChunk] /\ Putting \in 1 .. 2
      BY DEF IInv, TypeOK, Putting
    <3> QED
      BY <1>1, <2>1, <2>2, <2>3, <3>1 DEF TimeInv, ActiveChunks, Putting
  <2>11. Level0'
    BY <2>1, <2>2, <2>3 DEF TimeInv, Level0
  <2>12. AllLevelsFit' /\ ReaderInReach'
    BY <2>1, <2>2, <2>7 DEF TimeInv, AllLevelsFit, LevelFits, ReaderInReach
  <2> QED
    BY <2>1, <2>6, <2>8, <2>9, <2>10, <2>11, <2>12 DEF TimeInv
<1> QED
  BY <1>3, <1>4

(* A level after step 2: what was popped is gone, what was pushed is last. *)
Moved(ids) == SubSeq(ringbuf[ids], Len(poplist[ids]) + 1, Size(ids)) \o pushlist[ids]

Kept(ids) == Size(ids) - PopCount(ids)

LEMMA CommittedLevel ==
  ASSUME IInv, TimeInv, assembler = "commit", NEW ids \in Levels,
         ringbuf' = [l \in Levels |-> Moved(l)]
  PROVE  LET push == Pushes(ids, ChunkOf(RingEnd))
         IN /\ Kept(ids) \in Nat
            /\ ~Reached(ids) => Size(ids)' = Kept(ids)
            /\ Reached(ids) => /\ Size(ids)' = Kept(ids) + 1
                               /\ ringbuf'[ids][Kept(ids) + 1] = push[1]
            /\ \A i \in 1 .. Kept(ids) : ringbuf'[ids][i] = ringbuf[ids][i + PopCount(ids)]
<1> DEFINE push == Pushes(ids, ChunkOf(RingEnd))
           size == Size(ids)
           count == PopCount(ids)
           rest == SubSeq(ringbuf[ids], count + 1, size)
<1>1. first_fpgacount # -1 /\ TypeOK
  BY DEF TimeInv, Untouched, IInv
<1>2. size \in Nat /\ count \in 0 .. 2 /\ count <= size /\ ringbuf[ids] \in Seq(Chunk)
  BY <1>1, PopsType, BufferType
<1>3. pushlist[ids] = push /\ Len(poplist[ids]) = count
  BY <1>1, PopsType DEF TimeInv, Prepared
<1>4. ringbuf'[ids] = rest \o push
  BY <1>3 DEF Moved
<1>5. /\ rest \in Seq(Chunk) /\ Len(rest) = size - count
      /\ \A i \in 1 .. size - count : rest[i] = ringbuf[ids][i + count]
  <2>1. \A i \in count + 1 .. size : ringbuf[ids][i] \in Chunk
    BY <1>2, ElementOfSeq DEF Size
  <2> HIDE DEF size, count
  <2>2. /\ rest \in Seq(Chunk)
        /\ Len(rest) = IF count + 1 <= size THEN size - (count + 1) + 1 ELSE 0
        /\ \A i \in 1 .. size - (count + 1) + 1 : rest[i] = ringbuf[ids][count + 1 + i - 1]
    BY <1>2, <2>1, SubSeqProperties
  <2> HIDE DEF rest
  <2>3. \A i \in 1 .. size - count :
          i \in 1 .. size - (count + 1) + 1 /\ count + 1 + i - 1 = i + count
    BY <1>2
  <2> QED
    BY <1>2, <2>2, <2>3
<1>6. Size(ids)' = Len(rest \o push)
  BY <1>4 DEF Size
<1> HIDE DEF size, count, rest
<1>7. CASE ~Reached(ids)
  <2>1. push = <<>> /\ push \in Seq(Chunk) /\ Len(push) = 0
    BY <1>1, <1>7, PushedFollows, EmptySeq
  <2>2. rest \o push = rest
    BY <1>5, <2>1, ConcatEmptySeq
  <2> QED
    BY <1>2, <1>4, <1>5, <1>6, <1>7, <2>2 DEF Kept, size, count
<1>8. CASE Reached(ids)
  <2>1. push = <<push[1]>> /\ push[1] \in Chunk
    BY <1>1, <1>8, PushedFollows
  <2> HIDE DEF push
  <2>2. push \in Seq(Chunk) /\ Len(push) = 1
    <3> DEFINE p == push[1]
    <3>1. push = <<p>> /\ p \in Chunk
      BY <2>1
    <3> HIDE DEF p
    <3>2. <<p>> \in Seq(Chunk) /\ Len(<<p>>) = 1
      BY <3>1
    <3> QED
      BY <3>1, <3>2
  <2> DEFINE n == size - count
  <2>3. n \in Nat /\ Len(rest) = n /\ Len(rest) + Len(push) = n + 1
    BY <1>2, <1>5, <2>2
  <2> HIDE DEF n
  <2>4. /\ Len(rest \o push) = n + 1
        /\ \A i \in 1 .. n + 1 : (rest \o push)[i] = IF i <= n THEN rest[i] ELSE push[i - n]
    <3>1. /\ Len(rest \o push) = Len(rest) + Len(push)
          /\ \A i \in 1 .. Len(rest) + Len(push) :
               (rest \o push)[i] = IF i <= Len(rest) THEN rest[i] ELSE push[i - Len(rest)]
      BY <1>5, <2>2, ConcatProperties
    <3> QED
      BY <2>3, <3>1
  <2>5. (rest \o push)[n + 1] = push[1]
    <3>1. n + 1 \in 1 .. n + 1 /\ ~(n + 1 <= n) /\ (n + 1) - n = 1
      BY <2>3
    <3>2. (rest \o push)[n + 1] = IF n + 1 <= n THEN rest[n + 1] ELSE push[(n + 1) - n]
      BY <2>4, <3>1
    <3> QED
      BY <3>1, <3>2
  <2>6. \A i \in 1 .. n : (rest \o push)[i] = ringbuf[ids][i + count]
    <3> TAKE i \in 1 .. n
    <3>1. i \in 1 .. n + 1 /\ i <= n
      BY <2>3
    <3>2. rest[i] = ringbuf[ids][i + count]
      BY <1>5 DEF n
    <3> QED
      BY <2>4, <3>1, <3>2
  <2>7. Kept(ids) = n
    BY DEF Kept, n, size, count
  <2>8. Size(ids)' = n + 1 /\ ringbuf'[ids][n + 1] = push[1]
    BY <1>4, <1>6, <2>4, <2>5
  <2>9. \A i \in 1 .. n : ringbuf'[ids][i] = ringbuf[ids][i + PopCount(ids)]
    BY <1>4, <2>6 DEF count
  <2> QED
    BY <1>8, <2>3, <2>7, <2>8, <2>9 DEF push
<1> QED
  BY <1>7, <1>8

LEMMA CommittedFits ==
  ASSUME IInv, TimeInv, assembler = "commit", NEW ids \in Levels,
         ringbuf' = [l \in Levels |-> Moved(l)], has_rfi_mask' = has_rfi_mask
  PROVE  LevelFits(ids)'
<1> DEFINE push == Pushes(ids, ChunkOf(RingEnd))
           count == PopCount(ids)
           kept == Kept(ids)
           size == Size(ids)
<1>1. /\ first_fpgacount # -1 /\ TypeOK /\ LevelFits(ids)
      /\ Capacity(ids) \in Nat /\ Capacity(ids) >= 2 /\ ids \in Nat
  BY Geometry DEF TimeInv, Untouched, AllLevelsFit, IInv
<1>2. /\ size \in Nat /\ count \in 0 .. 2 /\ kept = size - count /\ kept \in Nat
      /\ Reached(ids) /\ Full(ids) => count # 0
      /\ ~(Reached(ids) /\ Full(ids)) => count = 0
  BY <1>1, PopsType, BufferType, CommittedLevel DEF Kept, PopCount
<1>3. /\ ~Reached(ids) => Size(ids)' = kept
      /\ Reached(ids) => Size(ids)' = kept + 1 /\ ringbuf'[ids][kept + 1] = push[1]
      /\ \A i \in 1 .. kept : ringbuf'[ids][i] = ringbuf[ids][i + count]
  BY CommittedLevel
<1>4. Reached(ids) => /\ push[1].binning = Binning(ids)
                      /\ size > 0 => push[1].ichunk = End(ringbuf[ids][size])
                      /\ push[1] \in Chunk
  BY <1>1, PushedFollows
<1>5. /\ size <= Capacity(ids)
      /\ \A i \in 1 .. size : ringbuf[ids][i].binning = Binning(ids)
      /\ RfiMask /\ ids > 0 => \A i \in 1 .. size : ringbuf[ids][i] \in has_rfi_mask
      /\ \A i \in 1 .. size - 1 : ringbuf[ids][i + 1].ichunk = End(ringbuf[ids][i])
  BY <1>1 DEF LevelFits
<1>6. Full(ids) <=> size >= Capacity(ids)
  BY DEF Full
<1>7. RfiMask /\ ids > 0 /\ Reached(ids) => push[1] \in has_rfi_mask
  <2> SUFFICES ASSUME RfiMask, ids > 0, Reached(ids) PROVE push[1] \in has_rfi_mask
    OBVIOUS
  <2>1. ids \in NewLevels
    BY DEF NewLevels
  <2>2. pushlist[ids][1] \in has_rfi_mask /\ pushlist[ids] = push
    BY <2>1 DEF TimeInv, Prepared
  <2> QED
    BY <2>2
<1>8. /\ ids > 0 /\ Reached(ids) => push[1].ichunk = ringbuf[ids - 1][1].ichunk
      /\ ids > 0 /\ size > 0 => /\ Size(ids - 1) > 0
                                /\ ringbuf[ids - 1][1].ichunk = End(ringbuf[ids][size])
  BY <1>1, PushedFollows DEF LevelFits
<1> HIDE DEF push, count, kept, size
<1>9. \A i \in 1 .. kept : i + count \in 1 .. size
  BY <1>2
<1>10. kept + 1 <= size \/ ~Full(ids) \/ ~Reached(ids)
  BY <1>2
<1>11. Size(ids)' <= Capacity(ids)
  BY <1>1, <1>2, <1>3, <1>5, <1>6, <1>10
<1>12. ASSUME NEW i \in 1 .. Size(ids)'
       PROVE  /\ ringbuf'[ids][i].binning = Binning(ids)
              /\ RfiMask /\ ids > 0 => ringbuf'[ids][i] \in has_rfi_mask
  <2>1. CASE i \in 1 .. kept
    BY <1>3, <1>5, <1>9, <2>1
  <2>2. CASE i \notin 1 .. kept
    <3>1. Reached(ids) /\ i = kept + 1
      BY <1>2, <1>3, <2>2
    <3> QED
      BY <1>3, <1>4, <1>7, <3>1
  <2> QED
    BY <2>1, <2>2
<1>13. ASSUME NEW i \in 1 .. Size(ids)' - 1
       PROVE  ringbuf'[ids][i + 1].ichunk = End(ringbuf'[ids][i])
  <2>1. CASE i + 1 \in 1 .. kept
    <3>1. i \in 1 .. kept /\ i + count \in 1 .. size - 1 /\ i + 1 + count = i + count + 1
      BY <1>2, <2>1
    <3>2. ringbuf[ids][i + count + 1].ichunk = End(ringbuf[ids][i + count])
      BY <1>5, <3>1
    <3> QED
      BY <1>3, <2>1, <3>1, <3>2
  <2>2. CASE i + 1 \notin 1 .. kept
    <3>1. Reached(ids) /\ i = kept /\ i \in 1 .. kept /\ i + count = size /\ size > 0
      BY <1>2, <1>3, <2>2
    <3> QED
      BY <1>3, <1>4, <3>1
  <2> QED
    BY <2>1, <2>2
<1>14. ASSUME ids > 0, Size(ids)' > 0
       PROVE  /\ Size(ids - 1)' > 0
              /\ ringbuf'[ids - 1][1].ichunk = End(ringbuf'[ids][Size(ids)'])
  <2> DEFINE up == ids - 1
             above == Pushes(up, ChunkOf(RingEnd))
  <2>1. up \in Levels /\ (Reached(ids) <=> Reached(up) /\ Full(up))
    BY <1>14, ReachedAbove
  <2>2. Size(up) \in Nat /\ LevelFits(up) /\ Kept(up) = Size(up) - PopCount(up)
    BY <1>1, <2>1, BufferType DEF TimeInv, AllLevelsFit, Kept
  <2>3. /\ ~Reached(up) => Size(up)' = Kept(up)
        /\ Reached(up) => Size(up)' = Kept(up) + 1 /\ ringbuf'[up][Kept(up) + 1] = above[1]
        /\ \A i \in 1 .. Kept(up) : ringbuf'[up][i] = ringbuf[up][i + PopCount(up)]
    <3> HIDE DEF up
    <3> QED
      BY <2>1, CommittedLevel
  <2>4. CASE Reached(ids)
    <3>1. PopCount(up) = 2 /\ Size(up) >= 2 /\ Reached(up) /\ Kept(up) \in Nat
      BY <1>1, <1>14, <2>2, <2>4, Downsampled
    <3>2. Size(up)' = Kept(up) + 1 /\ Size(up)' > 0
      BY <2>3, <3>1
    <3>3. ringbuf'[up][1].ichunk = End(ringbuf[up][2])
      <4>1. CASE Size(up) = 2
        <5>1. Kept(up) = 0 /\ above[1].ichunk = End(ringbuf[up][Size(up)])
          <6> HIDE DEF up
          <6> QED
            BY <1>1, <2>1, <2>2, <3>1, <4>1, PushedFollows
        <5> QED
          BY <2>3, <3>1, <4>1, <5>1
      <4>2. CASE Size(up) > 2
        <5>1. 1 \in 1 .. Kept(up) /\ 2 \in 1 .. Size(up) - 1
          BY <2>2, <3>1, <4>2
        <5>2. ringbuf'[up][1] = ringbuf[up][1 + 2]
          BY <2>3, <3>1, <5>1
        <5>3. ringbuf[up][2 + 1].ichunk = End(ringbuf[up][2])
          BY <2>2, <5>1 DEF LevelFits
        <5> QED
          BY <5>2, <5>3
      <4> QED
        BY <2>2, <3>1, <4>1, <4>2
    <3>4. /\ ringbuf[up][1].binning = Binning(up) /\ ringbuf[up][2].binning = Binning(up)
          /\ ringbuf[up][2].ichunk = End(ringbuf[up][1])
      <4>1. 1 \in 1 .. Size(up) /\ 2 \in 1 .. Size(up) /\ 1 \in 1 .. Size(up) - 1
        BY <2>2, <3>1
      <4>2. /\ \A i \in 1 .. Size(up) : ringbuf[up][i].binning = Binning(up)
            /\ \A i \in 1 .. Size(up) - 1 : ringbuf[up][i + 1].ichunk = End(ringbuf[up][i])
        BY <2>2 DEF LevelFits
      <4> QED
        BY <4>1, <4>2
    <3>5. Binning(ids) = 2 * Binning(up) /\ Binning(up) \in Nat
      <4>1. up \in 0 .. 2 /\ up + 1 = ids
        BY <1>14, Geometry
      <4> QED
        BY <4>1, <2>1, BinningDoubles, Geometry
    <3>6. ringbuf[up][1].ichunk \in Nat
      <4>1. ringbuf[up] \in Seq(Chunk) /\ 1 \in 1 .. Size(up)
        BY <1>1, <2>1, <2>2, <3>1, BufferType
      <4>2. ringbuf[up][1] \in Chunk
        BY <4>1, ElementOfSeq DEF Size
      <4> QED
        BY <4>2, ChunkTypes
    <3>7. ringbuf'[ids][Size(ids)'] = push[1] /\ push[1].ichunk = ringbuf[up][1].ichunk
      BY <1>3, <1>8, <1>14, <2>4
    <3>8. End(push[1]) = End(ringbuf[up][2])
      BY <1>4, <2>4, <3>4, <3>5, <3>6, <3>7 DEF End
    <3> QED
      BY <3>2, <3>3, <3>7, <3>8
  <2>5. CASE ~Reached(ids)
    <3>1. PopCount(up) = 0 /\ count = 0 /\ kept = size /\ Size(ids)' = size
      BY <1>2, <1>3, <2>1, <2>5 DEF PopCount
    <3>2. Size(up) > 0 /\ ringbuf[up][1].ichunk = End(ringbuf[ids][size])
      BY <1>8, <1>14, <3>1
    <3>3. Kept(up) = Size(up) /\ 1 \in 1 .. Kept(up) /\ size \in 1 .. kept
      BY <1>2, <1>14, <2>2, <3>1, <3>2
    <3>4. ringbuf'[up][1] = ringbuf[up][1] /\ ringbuf'[ids][size] = ringbuf[ids][size]
      <4>1. ringbuf'[up][1] = ringbuf[up][1 + 0]
        BY <2>3, <3>1, <3>3
      <4>2. ringbuf'[ids][size] = ringbuf[ids][size + 0]
        BY <1>3, <3>1, <3>3
      <4> QED
        BY <1>2, <4>1, <4>2
    <3>5. Size(up)' > 0
      BY <2>2, <2>3, <3>2, <3>3
    <3> QED
      BY <3>1, <3>2, <3>4, <3>5
  <2> QED
    BY <2>4, <2>5
<1> QED
  BY <1>11, <1>12, <1>13, <1>14 DEF LevelFits

LEMMA LaterIsBehind ==
  ASSUME NEW mark \in Int, NEW first \in Int, NEW pos \in Int, NEW later \in Int,
         mark <= first + pos, pos <= later
  PROVE  mark <= first + later
  OBVIOUS

LEMMA PutCommitKeepsTime ==
  ASSUME IInv, ReaderHolds, TimeInv, PutCommit
  PROVE  TimeInv' /\ failure' = failure
<1> USE DEF endVars, countVars, activeVars, listVars
<1>1. first_fpgacount # -1 /\ ~doneflag /\ assembler = "commit" /\ TypeOK
  BY DEF PutCommit, TimeInv, Untouched, EndKnown, IInv
<1> DEFINE max_allowed == ringbuf_pos'[0] + Len(ringbuf'[0]) - AssembledCapacity
           count == PopCount(0)
           pos == ringbuf_pos[0]
           size == Size(0)
<1>2. /\ ringbuf' = [ids \in Levels |-> Moved(ids)]
      /\ ringbuf_pos' = [ids \in Levels |-> ringbuf_pos[ids] + Len(poplist[ids])]
      /\ downstream_pos' = Larger(downstream_pos, max_allowed)
      /\ consumer' = Woken
      /\ assembler' = "finish"
      /\ UNCHANGED <<endVars, has_rfi_mask, activeVars, caller, listVars, loc_final_fpga,
                     countVars, held, max_fpga_retrieved, failure>>
  BY <1>1 DEF PutCommit, Moved
<1>3. /\ pos \in Nat /\ size \in Nat /\ count \in 0 .. 2 /\ count <= size
      /\ downstream_pos \in Nat /\ first_fpgacount \in Nat /\ RingEnd = pos + size
      /\ max_fpga_flushed \in Nat /\ max_fpga_retrieved \in Nat /\ AssembledCapacity \in Nat
  BY <1>1, BufferType, PopsType, Geometry, CapacityAssumption DEF RingEnd, TypeOK
<1>4. ringbuf_pos'[0] = pos + count /\ Len(poplist[0]) = count
  <2>1. Len(poplist[0]) = count
    BY <1>1, PopsType, Geometry DEF TimeInv, Prepared
  <2> QED
    BY <1>2, <2>1, Geometry
<1>5. /\ Size(0)' = size - count + 1
      /\ ringbuf'[0][size - count + 1] = ChunkOf(RingEnd)
      /\ \A i \in 1 .. size - count : ringbuf'[0][i] = ringbuf[0][i + count]
  <2>1. Pushes(0, ChunkOf(RingEnd))[1] = ChunkOf(RingEnd)
    BY DEF Pushes
  <2> QED
    BY <1>1, <1>2, <2>1, Geometry, ReachedAbove, CommittedLevel DEF Kept
<1> HIDE DEF count, pos, size
<1>6. RingEnd' = RingEnd + 1 /\ max_allowed = RingEnd + 1 - AssembledCapacity
  <2>1. RingEnd' = ringbuf_pos'[0] + Size(0)' /\ Len(ringbuf'[0]) = Size(0)'
    BY DEF RingEnd, Size
  <2> QED
    BY <1>3, <1>4, <1>5, <2>1
<1> HIDE DEF max_allowed
<1>7. NextIchunk' = NextIchunk + 1 /\ NextIchunk \in Nat /\ \A p : ChunkOf(p)' = ChunkOf(p)
  BY <1>2, <1>3, <1>6 DEF NextIchunk, ChunkOf
<1>8. downstream_pos' >= downstream_pos /\ downstream_pos' >= max_allowed
      /\ downstream_pos' \in Int
  BY <1>2, <1>3, <1>6 DEF Larger
<1>9. Untouched' /\ EndKnown'
  <2>1. caller = "end0" => loc_final_fpga = NextIchunk + 2
    BY <1>1 DEF TimeInv, EndKnown
  <2>2. caller = "end1" => loc_final_fpga = NextIchunk + 1
    BY <1>1 DEF TimeInv, EndKnown
  <2>3. NextIchunk + 2 = NextIchunk' + 1 /\ NextIchunk + 1 = NextIchunk' + 0
    BY <1>7
  <2> QED
    BY <1>1, <1>2, <2>1, <2>2, <2>3 DEF Untouched, EndKnown
<1>10. Level0'
  <2> SUFFICES ASSUME NEW i \in 1 .. Size(0)'
               PROVE  ringbuf'[0][i] = ChunkOf(ringbuf_pos'[0] + i - 1)
    BY <1>7 DEF Level0
  <2>1. CASE i \in 1 .. size - count
    <3>1. i + count \in 1 .. size /\ ringbuf_pos'[0] + i - 1 = pos + (i + count) - 1
      BY <1>3, <1>4, <2>1
    <3>2. ringbuf[0][i + count] = ChunkOf(pos + (i + count) - 1)
      BY <3>1 DEF TimeInv, Level0, pos, size
    <3> QED
      BY <1>5, <2>1, <3>1, <3>2
  <2>2. CASE i \notin 1 .. size - count
    <3>1. i = size - count + 1 /\ ringbuf_pos'[0] + i - 1 = RingEnd
      BY <1>3, <1>4, <1>5, <2>2
    <3> QED
      BY <1>5, <3>1
  <2> QED
    BY <2>1, <2>2
<1>11. ActiveChunks'
  BY <1>1, <1>2, <1>6, <1>7 DEF TimeInv, ActiveChunks
<1>12. Prepared'
  <2>1. pushlist[0] = <<ChunkOf(RingEnd)>>
    BY <1>1, Geometry DEF TimeInv, Prepared, Pushes
  <2>2. RingEnd' - 1 = RingEnd /\ Size(0)' > 0
    BY <1>3, <1>5, <1>6
  <2> QED
    BY <1>2, <1>7, <2>1, <2>2 DEF Prepared
<1>13. MarksBehind'
  <2>1. /\ max_fpga_flushed <= NextIchunk
        /\ max_fpga_retrieved <= first_fpgacount + downstream_pos
    BY <1>1 DEF TimeInv, MarksBehind
  <2>5. consumer = "took" => /\ End(held) <= first_fpgacount + downstream_pos
                            /\ max_fpga_retrieved < End(held)
    BY <1>1 DEF TimeInv, MarksBehind
  <2>2. max_fpga_flushed < NextIchunk'
    BY <1>3, <1>7, <2>1
  <2>3. max_fpga_retrieved <= first_fpgacount + downstream_pos'
    <3>1. /\ max_fpga_retrieved \in Int /\ first_fpgacount \in Int
          /\ downstream_pos \in Int /\ downstream_pos' \in Int
      BY <1>3, <1>8
    <3>2. downstream_pos <= downstream_pos'
      BY <1>3, <1>8
    <3>3. max_fpga_retrieved <= first_fpgacount + downstream_pos
      BY <2>1
    <3> QED
      BY <3>1, <3>2, <3>3, LaterIsBehind, Zenon
  <2>4. consumer' = "took" => /\ End(held) <= first_fpgacount + downstream_pos'
                              /\ max_fpga_retrieved < End(held)
    <3> SUFFICES ASSUME consumer = "took" 
                 PROVE  End(held) <= first_fpgacount + downstream_pos'
      BY <1>2, <2>5 DEF Woken
    <3>1. max_fpga_retrieved < End(held) /\ End(held) <= first_fpgacount + downstream_pos
      BY <2>5
    <3>2. End(held) \in Nat
      BY ChunkTypes DEF ReaderHolds
    <3> QED
      BY <1>3, <1>8, <3>1, <3>2
  <2> QED
    BY <1>2, <1>3, <1>7, <2>2, <2>3, <2>4 DEF MarksBehind
<1>14. AllLevelsFit'
  BY <1>1, <1>2, CommittedFits DEF AllLevelsFit
<1>15. ReaderInReach'
  BY <1>3, <1>6, <1>8 DEF ReaderInReach
<1> QED
  BY <1>2, <1>9, <1>10, <1>11, <1>12, <1>13, <1>14, <1>15 DEF TimeInv

LEMMA PutFinishKeepsTime ==
  ASSUME IInv, TimeInv, PutFinish
  PROVE  TimeInv' /\ UNCHANGED <<failure, ringbuf>>
<1> USE DEF ringVars, endVars, activeVars, readerVars
<1>1. /\ assembler = "finish" /\ first_fpgacount # -1 /\ CheckInvariants
      /\ pushlist[0] = <<ChunkOf(RingEnd - 1)>> /\ Size(0) > 0
  BY CheckHolds DEF PutFinish, TimeInv, Untouched, Prepared
<1>2. RingEnd \in Nat /\ RingEnd - 1 \in Nat /\ TypeOK /\ first_fpgacount \in Nat
  <2>1. ringbuf_pos[0] \in Nat /\ Size(0) \in Nat /\ TypeOK
    BY BufferType, Geometry DEF IInv
  <2> QED
    BY <1>1, <2>1 DEF RingEnd, TypeOK
<1>3. End(pushlist[0][1]) = NextIchunk /\ NextIchunk \in Nat
  <2>1. End(ChunkOf(RingEnd - 1)) = first_fpgacount + (RingEnd - 1) + 1
    BY <1>1, <1>2, ChunkOfFacts
  <2> QED
    BY <1>1, <1>2, <2>1 DEF NextIchunk
<1>4. max_fpga_flushed < NextIchunk /\ max_fpga_flushed \in Nat
  BY <1>1, <1>2 DEF TimeInv, MarksBehind, TypeOK
<1>5. /\ max_fpga_flushed' = NextIchunk
      /\ assembler' = CASE caller = "packet" -> "advance"
                        [] caller = "end0"   -> "prepare"
                        [] caller = "end1"   -> "done"
      /\ caller' = IF caller = "end0" THEN "end1" ELSE caller
      /\ UNCHANGED <<ringVars, endVars, has_rfi_mask, activeVars, loc_final_fpga,
                     readerVars, failure>>
  BY <1>1, <1>3, <1>4 DEF PutFinish
<1>6. /\ Level0' /\ AllLevelsFit' /\ ReaderInReach'
      /\ RingEnd' = RingEnd /\ NextIchunk' = NextIchunk /\ Size(0)' = Size(0)
      /\ \A pos : ChunkOf(pos)' = ChunkOf(pos)
  BY <1>5, BufferRests
<1>7. caller \in Callers
  BY <1>2 DEF TypeOK
<1>8. Untouched' /\ MarksBehind'
  BY <1>1, <1>3, <1>4, <1>5, <1>6, <1>7
     DEF TimeInv, Untouched, MarksBehind, Callers
<1>9. active[1] = NoChunk /\ active[2] = IF caller = "end1" THEN NoChunk ELSE ChunkOf(RingEnd)
  BY <1>1 DEF TimeInv, ActiveChunks
<1>10. ActiveChunks' /\ Prepared'
  BY <1>1, <1>5, <1>6, <1>7, <1>9 DEF ActiveChunks, Prepared, Callers
<1>11. EndKnown'
  <2>1. /\ caller = "end0" => loc_final_fpga = NextIchunk + 1
        /\ caller = "end1" => loc_final_fpga = NextIchunk + 0
        /\ ~doneflag
    BY <1>1 DEF TimeInv, EndKnown
  <2> QED
    BY <1>1, <1>5, <1>6, <1>7, <2>1 DEF EndKnown, Callers
<1> QED
  BY <1>5, <1>6, <1>8, <1>10, <1>11 DEF TimeInv

-----------------------------------------------------------------------------
(* The time axis in every reachable state.                                 *)

LEMMA NextKeepsTime ==
  ASSUME IInv, ReaderHolds, TimeInv, Next
  PROVE  /\ TimeInv'
         /\ failure' \in {failure, "memory", "rfimask", "empty_pointers"}
         /\ ringbuf' = ringbuf \/ PutCommit
<1>1. CASE AssemblerSteps
  BY <1>1, PutPrepareKeepsTime, PutCommitKeepsTime, PutFinishKeepsTime, AdvanceActiveKeepsTime,
     EndStreamDoneKeepsTime DEF AssemblerSteps
<1>2. CASE FirstPacket \/ AdvancingPacket \/ EndStream
  BY <1>2, FirstPacketKeepsTime, AdvancingPacketKeepsTime, EndStreamKeepsTime
<1>3. CASE GetTake
  <2>1. UNCHANGED <<failure, ringbuf>>
    BY <1>3 DEF GetTake, UnchangedByReader
  <2> QED
    BY <1>3, <2>1, GetTakeKeepsTime
<1>4. CASE GetReturn
  <2>1. ringbuf' = ringbuf
    BY <1>4 DEF GetReturn, UnchangedByReader, Fail, ringVars
  <2> QED
    BY <1>4, <2>1, GetReturnKeepsTime
<1>5. CASE GetEnd \/ GetWait \/ Release \/ FillMask \/ Terminated
  BY <1>5, OthersKeepTime
<1>6. CASE \/ \E top_level_only \in BOOLEAN : Find(top_level_only)
           \/ \E pattern \in Captures \cup {Off} : StreamToFiles(pattern)
           \/ \E r \in requests, success \in BOOLEAN : CompleteRequest(r, success)
  BY <1>6, OthersKeepTime
<1> QED
  BY <1>1, <1>2, <1>3, <1>4, <1>5, <1>6 DEF Next, ReaderSteps

LEMMA InitTime == Init => TimeInv /\ NoInternalError
<1> SUFFICES ASSUME Init PROVE TimeInv /\ NoInternalError
  OBVIOUS
<1>1. \A ids \in Levels : ringbuf[ids] = <<>> /\ Size(ids) = 0
  BY EmptySeq DEF Init, Size
<1>2. RingEnd = 0 /\ ringbuf_pos[0] = 0 /\ Size(0) = 0
  BY <1>1, Geometry DEF Init, RingEnd
<1>3. Untouched /\ ActiveChunks /\ MarksBehind
  BY <1>1, <1>2 DEF Init, Untouched, ActiveChunks, MarksBehind
<1>4. Prepared /\ EndKnown
  BY DEF Init, Prepared, EndKnown
<1>5. Level0 /\ AllLevelsFit
  <2>1. \A ids \in Levels : LevelFits(ids)
    <3> TAKE ids \in Levels
    <3>1. Size(ids) = 0 /\ Capacity(ids) \in Nat
      BY <1>1, Geometry
    <3> QED
      BY <3>1 DEF LevelFits
  <2> QED
    BY <1>2, <2>1 DEF Level0, AllLevelsFit
<1>6. ReaderInReach /\ NoInternalError
  BY <1>2, CapacityAssumption DEF Init, ReaderInReach, NoInternalError
<1> QED
  BY <1>3, <1>4, <1>5, <1>6 DEF TimeInv

LEMMA TimeInvariance == Spec => [](TimeInv /\ NoInternalError)
<1>1. IInv /\ ReaderHolds /\ TimeInv /\ NoInternalError /\ [Next]_vars
        => (TimeInv /\ NoInternalError)'
  <2>1. ASSUME IInv, ReaderHolds, TimeInv, NoInternalError, Next
        PROVE  (TimeInv /\ NoInternalError)'
    BY <2>1, NextKeepsTime DEF NoInternalError
  <2>2. ASSUME IInv, TimeInv, NoInternalError, UNCHANGED vars
        PROVE  (TimeInv /\ NoInternalError)'
    BY <2>2, OthersKeepTime DEF NoInternalError
  <2> QED
    BY <2>1, <2>2
<1> QED
  BY <1>1, Invariance, InitTime, PTL DEF Spec

(* _check_invariants() and the asserts of the put and get paths never fire,  *)
(* however the assembler and the processing thread interleave.               *)
THEOREM AssertsNeverFire == Spec => []NoInternalError
  BY TimeInvariance, PTL

(* The chunks of a beam cover the time axis without gap or overlap at every  *)
(* moment, on every level and in the hands of the assembler, and final_fpga  *)
(* is the end of what they cover.                                            *)
THEOREM TimeIsCovered == Spec => []TimelineContiguous
<1>1. ASSUME IInv, TimeInv PROVE TimelineContiguous
  <2> USE <1>1
  <2>1. TypeOK /\ RingEnd \in Nat /\ Size(0) \in Nat /\ ringbuf_pos[0] \in Nat
    BY BufferType, Geometry DEF IInv
  <2>2. CheckInvariants
    BY CheckHolds DEF TimeInv
  <2>3. PutFits
    <3> SUFFICES ASSUME assembler = "commit", NEW ids \in Levels, pushlist[ids] # <<>>
                 PROVE  /\ Size(ids) > Len(poplist[ids]) =>
                             pushlist[ids][1].ichunk = End(ringbuf[ids][Size(ids)])
                        /\ pushlist[ids][1].binning = Binning(ids)
      BY DEF PutFits
    <3>1. first_fpgacount # -1 /\ pushlist[ids] = Pushes(ids, ChunkOf(RingEnd))
          /\ Len(poplist[ids]) \in Nat /\ Size(ids) \in Nat
      BY <2>1, BufferType DEF TimeInv, Untouched, Prepared, TypeOK
    <3> QED
      BY <3>1, PushedFollows
  <2>4. ASSUME Size(0) > 0
        PROVE  /\ first_fpgacount \in Nat /\ first_fpgacount # -1
               /\ End(ringbuf[0][Size(0)]) = NextIchunk
               /\ NextIchunk = first_fpgacount + RingEnd
    <3> DEFINE pos == ringbuf_pos[0] + Size(0) - 1
    <3>1. first_fpgacount # -1
      BY <2>1, <2>4, EmptySeq, Geometry DEF TimeInv, Untouched, Size
    <3>2. pos \in Nat /\ Size(0) \in 1 .. Size(0) /\ RingEnd = pos + 1
      BY <2>1, <2>4 DEF RingEnd
    <3>3. ringbuf[0][Size(0)] = ChunkOf(pos)
      BY <3>2 DEF TimeInv, Level0
    <3> HIDE DEF pos
    <3>4. End(ChunkOf(pos)) = first_fpgacount + pos + 1 /\ first_fpgacount \in Nat
      BY <2>1, <3>1, <3>2, ChunkOfFacts
    <3> QED
      BY <3>1, <3>2, <3>3, <3>4 DEF NextIchunk
  <2>5. ActiveFollows
    <3> SUFFICES ASSUME Size(0) > 0
                 PROVE  IF active[1] # NoChunk
                        THEN /\ Successor(active[1], End(Newest))
                             /\ Successor(active[2], End(Newest) + 1)
                        ELSE Successor(active[2], End(Newest))
      BY DEF ActiveFollows
    <3>1. /\ ChunkOf(RingEnd).ichunk = NextIchunk /\ End(ChunkOf(RingEnd)) = NextIchunk + 1
          /\ ChunkOf(RingEnd + 1).ichunk = NextIchunk + 1
          /\ ChunkOf(RingEnd) # NoChunk
      BY <2>1, <2>4, ChunkOfFacts DEF NextIchunk
    <3>2. CASE assembler = "commit"
      <4>1. pushlist[0] = <<ChunkOf(RingEnd)>>
        BY <3>2, Geometry DEF TimeInv, Prepared, Pushes
      <4>2. End(Newest) = NextIchunk + 1
        BY <3>1, <3>2, <4>1 DEF Newest
      <4> QED
        BY <3>1, <3>2, <4>2 DEF TimeInv, ActiveChunks, Successor
    <3>3. CASE assembler # "commit"
      <4>1. End(Newest) = NextIchunk
        BY <2>4, <3>3 DEF Newest
      <4>2. assembler \in AssemblerStates
        BY <2>1 DEF TypeOK
      <4> QED
        BY <2>4, <3>1, <3>3, <4>1, <4>2
           DEF TimeInv, ActiveChunks, Successor, AssemblerStates
    <3> QED
      BY <3>2, <3>3
  <2>6. FinalFpgaIsEnd
    <3> SUFFICES ASSUME doneflag
                 PROVE  /\ Size(0) > 0
                        /\ final_fpga = End(ringbuf[0][Size(0)])
                        /\ RangeOf(active) = {NoChunk}
      BY DEF FinalFpgaIsEnd
    <3>1. assembler = "exited" /\ final_fpga = NextIchunk
      BY DEF TimeInv, EndKnown
    <3>2. Size(0) > 0 /\ active[1] = NoChunk /\ active[2] = NoChunk
      BY <3>1 DEF TimeInv, Prepared, ActiveChunks
    <3>3. RangeOf(active) = {NoChunk}
      BY <2>1, <3>2 DEF RangeOf, TypeOK
    <3> QED
      BY <2>4, <3>1, <3>2, <3>3
  <2> QED
    BY <2>2, <2>3, <2>5, <2>6 DEF TimelineContiguous
<1> QED
  BY <1>1, Invariance, TimeInvariance, PTL

(* No chunk leaves the ring buffer, or is downsampled, without its RFI mask. *)
THEOREM MaskedOnLeaving == Spec => LeavesWithMask
<1> DEFINE Masked == RfiMask => \A chunk \in Entries \ Entries' : chunk \in has_rfi_mask
<1>1. ASSUME IInv, ReaderHolds, TimeInv, [Next]_vars PROVE Masked
  <2>1. CASE ringbuf' = ringbuf
    BY <2>1 DEF Entries
  <2>2. CASE ringbuf' # ringbuf
    <3>1. assembler = "commit" /\ first_fpgacount # -1
          /\ ringbuf' = [ids \in Levels |-> Moved(ids)]
      BY <1>1, <2>2, NextKeepsTime
         DEF vars, ringVars, PutCommit, Fail, Moved, TimeInv, Untouched
    <3> SUFFICES ASSUME RfiMask, NEW ids \in Levels, NEW chunk \in RangeOf(ringbuf[ids]),
                        chunk \notin Entries'
                 PROVE  chunk \in has_rfi_mask
      BY DEF Entries
    <3>2. /\ ringbuf[ids] \in Seq(Chunk) /\ Size(ids) \in Nat
          /\ PopCount(ids) \in 0 .. 2 /\ PopCount(ids) <= Size(ids)
          /\ Kept(ids) = Size(ids) - PopCount(ids)
      BY <1>1, BufferType, PopsType DEF IInv, Kept
    <3>3. PICK i \in 1 .. Size(ids) : chunk = ringbuf[ids][i]
      BY <3>2, LenProperties DEF RangeOf, Size
    <3>4. /\ Size(ids)' \in {Kept(ids), Kept(ids) + 1}
          /\ \A k \in 1 .. Kept(ids) : ringbuf'[ids][k] = ringbuf[ids][k + PopCount(ids)]
      BY <1>1, <3>1, CommittedLevel
    <3>5. i <= PopCount(ids)
      <4> SUFFICES ASSUME i > PopCount(ids) PROVE chunk \in Entries'
        BY <3>2
      <4> DEFINE k == i - PopCount(ids)
      <4>1. k \in 1 .. Kept(ids) /\ k + PopCount(ids) = i /\ k \in 1 .. Size(ids)'
        BY <3>2, <3>4
      <4>2. ringbuf'[ids][k] = chunk
        BY <3>3, <3>4, <4>1
      <4>3. DOMAIN ringbuf'[ids] = 1 .. Size(ids)'
        <5>1. ringbuf'[ids] \in Seq(Chunk)
          BY <1>1, <2>2, NextKeepsIInv, BufferType DEF IInv, TypeOK, vars, ringVars
        <5> QED
          BY <5>1, LenProperties DEF Size
      <4> HIDE DEF k
      <4> QED
        <5>1. chunk \in RangeOf(ringbuf'[ids])
          BY <4>1, <4>2, <4>3 DEF RangeOf
        <5>2. Entries' = UNION {RangeOf(ringbuf'[l]) : l \in Levels}
          BY DEF Entries, RangeOf
        <5> QED
          BY <5>1, <5>2
    <3>6. chunk \in RangeOf(Pops(ids))
      <4>1. \A k \in 1 .. PopCount(ids) : ringbuf[ids][k] \in Chunk
        BY <3>2, ElementOfSeq DEF Size
      <4>2. /\ Pops(ids) \in Seq(Chunk) /\ Len(Pops(ids)) = PopCount(ids)
            /\ \A k \in 1 .. PopCount(ids) : Pops(ids)[k] = ringbuf[ids][k]
        BY <3>2, <4>1, SubSeqProperties DEF Pops
      <4>3. i \in 1 .. PopCount(ids) /\ DOMAIN Pops(ids) = 1 .. PopCount(ids)
        BY <3>2, <3>5, <4>2, LenProperties
      <4> QED
        BY <3>3, <4>2, <4>3 DEF RangeOf
    <3>7. RangeOf(Pops(ids)) \subseteq has_rfi_mask
      BY <1>1, <3>1 DEF TimeInv, Prepared
    <3> QED
      BY <3>6, <3>7
  <2> QED
    BY <2>1, <2>2
<1> QED
  BY <1>1, Invariance, TimeInvariance, PTL DEF Spec, LeavesWithMask

-----------------------------------------------------------------------------
(* The processing thread sees a ChunkStream.                               *)

(* Consecutive numbers, which is what the ichunks of a queue are. *)
Ramp(a, n) == [i \in 1 .. n |-> a + i - 1]

LEMMA RampFacts ==
  ASSUME NEW a \in Int, NEW n \in Nat
  PROVE  /\ Ramp(a, n) \in Seq(Int) /\ Len(Ramp(a, n)) = n
         /\ \A i \in 1 .. n : Ramp(a, n)[i] = a + i - 1
         /\ Ramp(a, n) = <<>> <=> n = 0
<1>1. Ramp(a, n) \in Seq(Int) /\ Len(Ramp(a, n)) = n
  BY IsASeq DEF Ramp
<1>2. \A i \in 1 .. n : Ramp(a, n)[i] = a + i - 1
  BY DEF Ramp
<1>3. Ramp(a, n) = <<>> <=> n = 0
  BY <1>1, EmptySeq
<1> QED
  BY <1>1, <1>2, <1>3

LEMMA RampAppend ==
  ASSUME NEW a \in Int, NEW n \in Nat
  PROVE  Append(Ramp(a, n), a + n) = Ramp(a, n + 1)
<1> DEFINE s == Append(Ramp(a, n), a + n)
           t == Ramp(a, n + 1)
<1>1. /\ s \in Seq(Int) /\ Len(s) = n + 1 /\ s[n + 1] = a + n
      /\ \A i \in 1 .. n : s[i] = a + i - 1
  <2> DEFINE r == Ramp(a, n)
  <2>1. a + n \in Int
    OBVIOUS
  <2>2. r \in Seq(Int) /\ Len(r) = n /\ \A i \in 1 .. n : r[i] = a + i - 1
    BY RampFacts
  <2> HIDE DEF r
  <2>3. /\ Append(r, a + n) \in Seq(Int) /\ Len(Append(r, a + n)) = n + 1
        /\ Append(r, a + n)[n + 1] = a + n
        /\ \A i \in 1 .. n : Append(r, a + n)[i] = r[i]
    BY <2>1, <2>2, AppendProperties
  <2> QED
    BY <2>2, <2>3 DEF r
<1>2. /\ t \in Seq(Int) /\ Len(t) = n + 1
      /\ \A i \in 1 .. n + 1 : t[i] = a + i - 1
  BY RampFacts
<1> HIDE DEF s, t
<1>3. ASSUME NEW i \in 1 .. n + 1 PROVE s[i] = t[i]
  <2>1. i \in 1 .. n \/ i = n + 1
    OBVIOUS
  <2> QED
    BY <1>1, <1>2, <2>1
<1>4. s = t
  BY <1>1, <1>2, <1>3, SeqEqual
<1> QED
  BY <1>4 DEF s, t

LEMMA RampTail ==
  ASSUME NEW a \in Int, NEW n \in Nat, n > 0
  PROVE  Head(Ramp(a, n)) = a /\ Tail(Ramp(a, n)) = Ramp(a + 1, n - 1)
<1> DEFINE r == Ramp(a, n)
           s == Tail(r)
           t == Ramp(a + 1, n - 1)
<1>1. /\ r \in Seq(Int) /\ Len(r) = n /\ r # <<>>
      /\ \A i \in 1 .. n : r[i] = a + i - 1
  BY RampFacts
<1>2. /\ t \in Seq(Int) /\ Len(t) = n - 1
      /\ \A i \in 1 .. n - 1 : t[i] = a + 1 + i - 1
  <2>1. a + 1 \in Int /\ n - 1 \in Nat
    OBVIOUS
  <2> QED
    BY <2>1, RampFacts
<1> HIDE DEF r, t
<1>3. s \in Seq(Int) /\ Len(s) = n - 1 /\ \A i \in 1 .. n - 1 : s[i] = r[i + 1]
  BY <1>1, HeadTailProperties
<1>4. Head(r) = a
  <2>1. Head(r) = r[1] /\ 1 \in 1 .. n
    BY <1>1
  <2> QED
    BY <1>1, <2>1
<1> HIDE DEF s
<1>5. ASSUME NEW i \in 1 .. n - 1 PROVE s[i] = t[i]
  <2>1. i + 1 \in 1 .. n /\ a + (i + 1) - 1 = a + 1 + i - 1
    OBVIOUS
  <2> QED
    BY <1>1, <1>2, <1>3, <2>1
<1>6. s = t
  BY <1>2, <1>3, <1>5, SeqEqual
<1> QED
  BY <1>4, <1>6 DEF r, s, t

LEMMA RampLast ==
  ASSUME NEW a \in Int, NEW n \in Nat, NEW m \in Nat
  PROVE  Stream!LastOf(Ramp(a, n), m) = IF n <= m THEN Ramp(a, n) ELSE Ramp(a + n - m, m)
<1> DEFINE r == Ramp(a, n)
           s == SubSeq(r, n - m + 1, n)
           t == Ramp(a + n - m, m)
<1>1. r \in Seq(Int) /\ Len(r) = n /\ \A i \in 1 .. n : r[i] = a + i - 1
  BY RampFacts
<1>2. t \in Seq(Int) /\ Len(t) = m /\ \A i \in 1 .. m : t[i] = a + n - m + i - 1
  <2>1. a + n - m \in Int
    OBVIOUS
  <2> QED
    BY <2>1, RampFacts
<1> HIDE DEF r, t
<1>3. n > m => s = t
  <2> SUFFICES ASSUME n > m PROVE s = t
    OBVIOUS
  <2>1. \A i \in n - m + 1 .. n : r[i] \in Int
    BY <1>1
  <2>2. /\ s \in Seq(Int) /\ Len(s) = IF n - m + 1 <= n THEN n - (n - m + 1) + 1 ELSE 0
        /\ \A i \in 1 .. n - (n - m + 1) + 1 : s[i] = r[n - m + 1 + i - 1]
    BY <2>1, SubSeqProperties
  <2> HIDE DEF s
  <2>3. Len(s) = m /\ n - (n - m + 1) + 1 = m
    BY <2>2
  <2>4. ASSUME NEW i \in 1 .. m PROVE s[i] = t[i]
    <3>1. /\ n - m + 1 + i - 1 \in 1 .. n
          /\ a + (n - m + 1 + i - 1) - 1 = a + n - m + i - 1
      OBVIOUS
    <3> QED
      BY <1>1, <1>2, <2>2, <2>3, <3>1
  <2> QED
    BY <1>2, <2>2, <2>3, <2>4, SeqEqual
<1>4. Stream!LastOf(r, m) = IF n <= m THEN r ELSE s
  BY <1>1 DEF Stream!LastOf
<1> HIDE DEF s
<1> QED
  BY <1>3, <1>4 DEF r, t

(* What ChunkStream is told of the ring buffer. *)
AbsQueue == IchunksOf(Pending)
AbsNext  == IF Size(0) = 0 THEN NoChunk ELSE End(ringbuf[0][Size(0)])
AbsDropped == event_counts["assembled_chunk_dropped"] + num_dropped
AbsOut   == IF consumer = "took" THEN held.ichunk
            ELSE IF consumer = "ended" THEN Off ELSE NoChunk

(* Drops are counted by the end of the put; the stream begins where the first *)
(* packet said; level 0 is not empty again.                                  *)
StreamInv ==
  /\ assembler # "finish" => num_dropped = 0
  /\ first_fpgacount # -1 => first_fpgacount \in {FirstIchunk(p) : p \in 0 .. MaxFirst}
  /\ Size(0) = 0 => RingEnd = 0

LEMMA QueueIsRamp ==
  ASSUME IInv, TimeInv
  PROVE  /\ RingEnd - downstream_pos \in Nat /\ RingEnd \in Nat /\ downstream_pos \in Nat
         /\ first_fpgacount \in Int
         /\ AbsQueue = Ramp(first_fpgacount + downstream_pos, RingEnd - downstream_pos)
         /\ Pending \in Seq(Chunk) /\ Len(Pending) = RingEnd - downstream_pos
<1> DEFINE pos == ringbuf_pos[0]
           size == Size(0)
           n == RingEnd - downstream_pos
           m == downstream_pos - pos + 1
<1>1. /\ TypeOK /\ ringbuf[0] \in Seq(Chunk) /\ size \in Nat /\ pos \in Nat
      /\ downstream_pos \in Nat /\ RingEnd \in Nat /\ RingEnd = pos + size
      /\ first_fpgacount \in Int
  <2>1. TypeOK /\ first_fpgacount \in Int
    BY DEF IInv, TypeOK
  <2> QED
    BY <2>1, BufferType, Geometry DEF RingEnd
<1>2. n \in Nat /\ m \in Nat \ {0} /\ size - m + 1 = n /\ (m <= size <=> n # 0)
  BY <1>1, SMTT(30) DEF IInv, DownstreamInBuffer
<1>3. Pending = SubSeq(ringbuf[0], m, size)
  BY DEF Pending
<1>4. \A i \in m .. size : ringbuf[0][i] \in Chunk
  <2> TAKE i \in m .. size
  <2>1. i \in 1 .. Len(ringbuf[0])
    BY <1>1, <1>2 DEF Size
  <2> QED
    BY <1>1, <2>1, ElementOfSeq
<1> HIDE DEF pos, size, n, m
<1>5. /\ Pending \in Seq(Chunk) /\ Len(Pending) = IF m <= size THEN size - m + 1 ELSE 0
      /\ \A i \in 1 .. size - m + 1 : Pending[i] = ringbuf[0][m + i - 1]
  BY <1>1, <1>2, <1>3, <1>4, SubSeqProperties
<1>6. DOMAIN Pending = 1 .. n
  BY <1>2, <1>5, LenProperties
<1>7. ASSUME NEW i \in 1 .. n
      PROVE  Pending[i].ichunk = first_fpgacount + downstream_pos + i - 1
  <2>1. m + i - 1 \in 1 .. size /\ pos + (m + i - 1) - 1 = downstream_pos + i - 1
        /\ downstream_pos + i - 1 \in Nat
    BY <1>1, <1>2 DEF m
  <2>2. ringbuf[0][m + i - 1] = ChunkOf(downstream_pos + i - 1)
    BY <2>1 DEF TimeInv, Level0, pos, size
  <2>3. first_fpgacount # -1
    <3>1. size # 0
      BY <1>1, <2>1
    <3> QED
      BY <3>1, EmptySeq, Geometry DEF TimeInv, Untouched, Size, size
  <2>4. /\ ChunkOf(downstream_pos + i - 1).ichunk = first_fpgacount + (downstream_pos + i - 1)
        /\ first_fpgacount \in Nat
    BY <1>1, <2>1, <2>3, ChunkOfFacts
  <2>5. Pending[i] = ChunkOf(downstream_pos + i - 1)
    BY <1>2, <1>5, <2>2
  <2> QED
    BY <1>1, <2>1, <2>4, <2>5
<1>8. AbsQueue = Ramp(first_fpgacount + downstream_pos, n)
  BY <1>6, <1>7 DEF AbsQueue, IchunksOf, Ramp
<1>9. Len(Pending) = n
  BY <1>2, <1>5
<1> QED
  BY <1>1, <1>2, <1>5, <1>8, <1>9 DEF n

LEMMA NextOfStream ==
  ASSUME IInv, TimeInv, StreamInv, first_fpgacount # -1
  PROVE  /\ NextIchunk \in Nat /\ NoChunk \notin Nat
         /\ Size(0) > 0 => AbsNext = NextIchunk
         /\ Size(0) = 0 => AbsNext = NoChunk /\ NextIchunk = first_fpgacount
<1> DEFINE pos == ringbuf_pos[0] + Size(0) - 1
<1>1. /\ TypeOK /\ RingEnd \in Nat /\ Size(0) \in Nat /\ ringbuf_pos[0] \in Nat
      /\ first_fpgacount \in Nat /\ NextIchunk \in Nat /\ NoChunk \notin Nat
  <2>1. TypeOK /\ first_fpgacount \in Nat /\ NoChunk \notin Nat
    BY ParameterAssumption DEF IInv, TypeOK
  <2>2. RingEnd \in Nat /\ Size(0) \in Nat /\ ringbuf_pos[0] \in Nat
    BY <2>1, BufferType, Geometry
  <2> QED
    BY <2>1, <2>2 DEF NextIchunk
<1>2. Size(0) > 0 => AbsNext = NextIchunk
  <2> SUFFICES ASSUME Size(0) > 0 PROVE AbsNext = NextIchunk
    OBVIOUS
  <2>1. pos \in Nat /\ Size(0) \in 1 .. Size(0) /\ RingEnd = pos + 1
    BY <1>1 DEF RingEnd
  <2>2. ringbuf[0][Size(0)] = ChunkOf(pos)
    BY <2>1 DEF TimeInv, Level0
  <2> HIDE DEF pos
  <2>3. End(ChunkOf(pos)) = first_fpgacount + pos + 1
    BY <1>1, <2>1, ChunkOfFacts
  <2> QED
    BY <1>1, <2>1, <2>2, <2>3 DEF AbsNext, NextIchunk
<1>3. Size(0) = 0 => AbsNext = NoChunk /\ NextIchunk = first_fpgacount
  BY <1>1 DEF AbsNext, StreamInv, NextIchunk
<1> QED
  BY <1>1, <1>2, <1>3

LEMMA PutRefines ==
  ASSUME IInv, ReaderHolds, TimeInv, StreamInv, PutCommit
  PROVE  Stream!Next /\ StreamInv'
<1> USE DEF endVars, countVars, activeVars
<1> DEFINE dp == downstream_pos
           first == first_fpgacount
           n == RingEnd - dp
           max_allowed == ringbuf_pos'[0] + Len(ringbuf'[0]) - AssembledCapacity
<1>1. first_fpgacount # -1 /\ ~doneflag /\ assembler = "commit" /\ TypeOK
  BY DEF PutCommit, TimeInv, Untouched, EndKnown, IInv
<1>2. /\ ringbuf' = [ids \in Levels |-> Moved(ids)]
      /\ ringbuf_pos' = [ids \in Levels |-> ringbuf_pos[ids] + Len(poplist[ids])]
      /\ downstream_pos' = Larger(downstream_pos, max_allowed)
      /\ num_dropped' = Larger(0, max_allowed - downstream_pos)
      /\ consumer' = Woken
      /\ assembler' = "finish"
      /\ UNCHANGED <<doneflag, first_fpgacount, event_counts, held>>
  BY <1>1 DEF PutCommit, Moved
<1>3. IInv' /\ TimeInv'
  BY PutCommitKeepsIInv, PutCommitKeepsTime
<1>4. /\ Size(0) \in Nat /\ PopCount(0) \in 0 .. 2 /\ PopCount(0) <= Size(0)
      /\ ringbuf_pos[0] \in Nat /\ Len(poplist[0]) = PopCount(0)
      /\ Size(0)' = Size(0) - PopCount(0) + 1
  <2>1. Len(poplist[0]) = PopCount(0)
    BY <1>1, PopsType, Geometry DEF TimeInv, Prepared
  <2>2. Size(0)' = Kept(0) + 1
    BY <1>1, <1>2, Geometry, ReachedAbove, CommittedLevel
  <2> QED
    BY <1>1, <2>1, <2>2, BufferType, PopsType, Geometry DEF Kept
<1>5. RingEnd' = RingEnd + 1 /\ max_allowed = RingEnd + 1 - AssembledCapacity /\ Size(0)' > 0
  <2>1. ringbuf_pos'[0] = ringbuf_pos[0] + PopCount(0)
    BY <1>2, <1>4, Geometry
  <2>2. RingEnd' = ringbuf_pos'[0] + Size(0)' /\ Len(ringbuf'[0]) = Size(0)'
    BY DEF RingEnd, Size
  <2>3. RingEnd' = RingEnd + 1 /\ RingEnd \in Nat
    BY <1>4, <2>1, <2>2, SMTT(30) DEF RingEnd
  <2>4. AssembledCapacity \in Nat
    BY CapacityAssumption
  <2>5. ringbuf_pos'[0] \in Nat /\ Size(0)' \in Nat /\ Size(0)' > 0
    BY <1>4, <2>1
  <2> QED
    BY <2>2, <2>3, <2>4, <2>5
<1> HIDE DEF max_allowed
<1>6. /\ n \in Nat /\ RingEnd \in Nat /\ dp \in Nat /\ first \in Nat
      /\ AssembledCapacity \in Nat /\ AbsQueue = Ramp(first + dp, n)
  BY <1>1, QueueIsRamp, CapacityAssumption DEF TypeOK
<1>7. /\ AbsQueue' = Ramp(first + dp', RingEnd + 1 - dp')
      /\ RingEnd + 1 - dp' \in Nat /\ dp' \in Nat
  <2>1. /\ RingEnd' - dp' \in Nat /\ dp' \in Nat
        /\ AbsQueue' = Ramp(first + dp', RingEnd' - dp')
    <3>1. /\ (RingEnd - downstream_pos \in Nat)' /\ (downstream_pos \in Nat)'
          /\ (AbsQueue = Ramp(first_fpgacount + downstream_pos, RingEnd - downstream_pos))'
      BY <1>3, QueueIsRamp, PTL
    <3>2. AbsQueue' = Ramp(first_fpgacount' + dp', RingEnd' - dp')
      BY <3>1
    <3> QED
      BY <1>2, <3>1, <3>2
  <2>2. RingEnd' = RingEnd + 1
    BY <1>5
  <2>3. RingEnd' - dp' = RingEnd + 1 - dp'
    <3>1. RingEnd \in Nat /\ dp' \in Nat
      BY <1>6, <2>1
    <3> HIDE DEF dp
    <3> QED
      BY <2>2, <3>1
  <2> QED
    BY <2>1, <2>3
<1>8. first + dp + n = NextIchunk /\ first + dp \in Int
  BY <1>6 DEF NextIchunk
<1>9. AbsQueue' = Stream!LastOf(Append(AbsQueue, NextIchunk), AssembledCapacity)
      /\ Len(AbsQueue) = n /\ Len(AbsQueue') = RingEnd + 1 - dp'
  <2>1. Append(AbsQueue, NextIchunk) = Ramp(first + dp, n + 1)
    BY <1>6, <1>8, RampAppend
  <2>2. Stream!LastOf(Ramp(first + dp, n + 1), AssembledCapacity)
          = IF n + 1 <= AssembledCapacity THEN Ramp(first + dp, n + 1)
            ELSE Ramp(first + dp + (n + 1) - AssembledCapacity, AssembledCapacity)
    <3>1. n + 1 \in Nat
      BY <1>6
    <3> HIDE DEF first, dp, n
    <3> QED
      BY <1>6, <1>8, <3>1, RampLast
  <2>3. CASE n + 1 <= AssembledCapacity
    <3>1. dp' = dp
      BY <1>2, <1>5, <1>6, <2>3 DEF Larger
    <3>2. RingEnd + 1 - dp' = n + 1
      BY <1>6, <3>1
    <3> QED
      BY <1>6, <1>7, <1>8, <2>1, <2>2, <2>3, <3>1, <3>2, RampFacts
  <2>4. CASE ~(n + 1 <= AssembledCapacity)
    <3>1. dp' = RingEnd + 1 - AssembledCapacity
      BY <1>2, <1>5, <1>6, <2>4 DEF Larger
    <3>2. RingEnd + 1 - dp' = AssembledCapacity
          /\ first + dp' = first + dp + (n + 1) - AssembledCapacity
      BY <1>6, <3>1
    <3>3. first + dp' \in Int
      BY <1>6, <1>7
    <3> QED
      BY <1>6, <1>7, <1>8, <2>1, <2>2, <2>4, <3>2, <3>3, RampFacts
  <2> QED
    BY <2>3, <2>4
<1>10. AbsDropped' = AbsDropped + Len(AbsQueue) + 1 - Len(AbsQueue')
  <2>1. num_dropped = 0 /\ event_counts["assembled_chunk_dropped"] \in Nat
    BY <1>1 DEF StreamInv, TypeOK, Events
  <2>2. num_dropped' = dp' - dp
    BY <1>2, <1>5, <1>6 DEF Larger
  <2>3. AbsDropped' = event_counts["assembled_chunk_dropped"] + (dp' - dp)
    BY <1>2, <2>2 DEF AbsDropped
  <2>4. AbsDropped = event_counts["assembled_chunk_dropped"]
    BY <2>1 DEF AbsDropped
  <2> DEFINE e == event_counts["assembled_chunk_dropped"]
  <2>5. e + (dp' - dp) = e + (RingEnd - dp) + 1 - (RingEnd + 1 - dp')
    <3> HIDE DEF e
    <3>1. e \in Nat
      BY <2>1 DEF e
    <3> QED
      BY <1>6, <1>7, <3>1
  <2> QED
    BY <1>9, <2>3, <2>4, <2>5, Zenon
<1>11. StreamInv'
  BY <1>1, <1>2, <1>5 DEF StreamInv
<1>12. AbsNext' = NextIchunk + 1
  <2>1. (Size(0) > 0 => AbsNext = NextIchunk)'
    <3>1. (first_fpgacount # -1)'
      BY <1>1, <1>2
    <3> QED
      BY <1>3, <1>11, <3>1, NextOfStream, PTL
  <2> QED
    BY <1>1, <1>2, <1>5, <1>6, <2>1 DEF NextIchunk
<1>13. AbsOut' = AbsOut
  BY <1>2 DEF AbsOut, Woken
<1> HIDE DEF first, dp, n
<1>14. Stream!Put(NextIchunk)
  BY <1>1, <1>2, <1>9, <1>10, <1>12, <1>13
     DEF Stream!Put, AbsQueue, AbsNext, AbsDropped, AbsOut
<1>15. Stream!Next
  <2>1. CASE Size(0) = 0
    <3>1. NextIchunk \in {FirstIchunk(p) : p \in 0 .. MaxFirst} /\ AbsNext = NoChunk
      BY <1>1, <2>1, NextOfStream DEF StreamInv
    <3> QED
      BY <1>14, <3>1 DEF Stream!Next, AbsNext
  <2>2. CASE Size(0) # 0
    <3>1. AbsNext = NextIchunk /\ AbsNext # NoChunk
      BY <1>1, <1>4, <2>2, NextOfStream
    <3> QED
      BY <1>14, <3>1 DEF Stream!Next, AbsNext
  <2> QED
    BY <2>1, <2>2
<1> QED
  BY <1>11, <1>15

(* A step that the reader does not see. *)
LEMMA UnseenStep ==
  ASSUME StreamInv, AbsOut' = AbsOut, num_dropped' = num_dropped,
         UNCHANGED <<ringVars, doneflag, first_fpgacount, event_counts>>,
         assembler = "finish" => assembler' = "finish" \/ num_dropped = 0
  PROVE  UNCHANGED Stream!vars /\ StreamInv'
<1>1. UNCHANGED <<RingEnd, Size(0), AbsQueue, AbsNext, AbsDropped>>
  BY DEF ringVars, RingEnd, Size, AbsQueue, AbsNext, AbsDropped, Pending
<1>2. StreamInv'
  BY <1>1 DEF StreamInv
<1>3. UNCHANGED Stream!vars
  BY <1>1 DEF Stream!vars, AbsQueue, AbsNext, AbsDropped, AbsOut
<1> QED
  BY <1>2, <1>3

LEMMA FailUnseen ==
  ASSUME StreamInv, NEW why, Fail(why)
  PROVE  UNCHANGED Stream!vars /\ StreamInv'
<1>1. AbsOut' = AbsOut
  BY DEF Fail, outsideVars, readerVars, AbsOut
<1> QED
  BY <1>1, UnseenStep DEF Fail, endVars, assemblerVars, activeVars, dropVars, countVars

LEMMA FinishUnseen ==
  ASSUME IInv, StreamInv, PutFinish
  PROVE  UNCHANGED Stream!vars /\ StreamInv'
<1>1. CASE \E why \in Failures : Fail(why)
  BY <1>1, FailUnseen
<1>2. CASE ~\E why \in Failures : Fail(why)
  <2>1. /\ event_counts' = [event_counts EXCEPT
                              !["assembled_chunk_queued"] = @ + 1,
                              !["assembled_chunk_dropped"] = @ + num_dropped]
        /\ num_dropped' = 0
        /\ UNCHANGED <<ringVars, doneflag, first_fpgacount, consumer, held>>
    BY <1>2 DEF PutFinish, Failures, endVars, activeVars, readerVars
  <2>2. event_counts \in [Events -> Nat] /\ num_dropped \in Nat
    BY DEF IInv, TypeOK
  <2>3. /\ event_counts'["assembled_chunk_dropped"]
             = event_counts["assembled_chunk_dropped"] + num_dropped
        /\ event_counts["assembled_chunk_dropped"] \in Nat
    BY <2>1, <2>2 DEF Events
  <2>4. AbsDropped' = AbsDropped
    BY <2>1, <2>2, <2>3 DEF AbsDropped
  <2>5. UNCHANGED <<RingEnd, Size(0), AbsQueue, AbsNext, AbsOut>>
    BY <2>1 DEF ringVars, RingEnd, Size, AbsQueue, AbsNext, AbsOut, Pending
  <2>6. StreamInv'
    BY <2>1, <2>5 DEF StreamInv
  <2>7. UNCHANGED Stream!vars
    BY <2>1, <2>4, <2>5 DEF Stream!vars, AbsQueue, AbsNext, AbsDropped, AbsOut
  <2> QED
    BY <2>6, <2>7
<1> QED
  BY <1>1, <1>2

LEMMA FirstUnseen ==
  ASSUME StreamInv, FirstPacket
  PROVE  UNCHANGED Stream!vars /\ StreamInv'
<1>1. PICK p \in 0 .. MaxFirst :
        IF ~SlabsFree(2) THEN Fail("memory")
        ELSE /\ active' = ActiveFrom(FirstIchunk(p))
             /\ first_fpgacount' = FirstIchunk(p)
             /\ UNCHANGED <<ringVars, endVars, has_rfi_mask, assembler, caller, listVars,
                            dropVars, loc_final_fpga, countVars, outsideVars, failure>>
  BY DEF FirstPacket
<1>2. CASE ~SlabsFree(2)
  BY <1>1, <1>2, FailUnseen
<1>3. CASE SlabsFree(2)
  <2>1. /\ first_fpgacount' = FirstIchunk(p)
        /\ UNCHANGED <<ringVars, doneflag, assembler, num_dropped, event_counts, consumer, held>>
    BY <1>1, <1>3 DEF endVars, dropVars, countVars, outsideVars, readerVars
  <2>2. UNCHANGED <<RingEnd, Size(0), AbsQueue, AbsNext, AbsDropped, AbsOut>>
    BY <2>1 DEF ringVars, RingEnd, Size, AbsQueue, AbsNext, AbsDropped, AbsOut, Pending
  <2>3. StreamInv'
    BY <2>1, <2>2 DEF StreamInv
  <2>4. UNCHANGED Stream!vars
    BY <2>1, <2>2 DEF Stream!vars, AbsQueue, AbsNext, AbsDropped, AbsOut
  <2> QED
    BY <2>3, <2>4
<1> QED
  BY <1>2, <1>3

LEMMA CloseRefines ==
  ASSUME TimeInv, StreamInv, EndStreamDone
  PROVE  Stream!Close /\ StreamInv'
<1>1. /\ ~doneflag /\ doneflag' = TRUE /\ assembler = "done"
      /\ consumer' = Woken
      /\ UNCHANGED <<ringVars, first_fpgacount, num_dropped, event_counts, held>>
  BY DEF EndStreamDone, TimeInv, EndKnown, activeVars, dropVars, countVars
<1>2. UNCHANGED <<RingEnd, Size(0), AbsQueue, AbsNext, AbsDropped, AbsOut>>
  BY <1>1 DEF ringVars, RingEnd, Size, AbsQueue, AbsNext, AbsDropped, AbsOut, Pending, Woken
<1>3. StreamInv'
  BY <1>1, <1>2 DEF StreamInv
<1>4. Stream!Close
  BY <1>1, <1>2 DEF Stream!Close, AbsQueue, AbsNext, AbsDropped, AbsOut
<1> QED
  BY <1>3, <1>4

LEMMA TakeRefines ==
  ASSUME IInv, ReaderHolds, TimeInv, StreamInv, GetTake
  PROVE  Stream!Take /\ StreamInv'
<1> DEFINE a == first_fpgacount + downstream_pos
           n == RingEnd - downstream_pos
<1>1. /\ downstream_pos < RingEnd
      /\ held' = Entry(downstream_pos)
      /\ downstream_pos' = downstream_pos + 1
      /\ consumer \in {"out", "in"} /\ consumer' = "took"
      /\ UNCHANGED <<ringbuf, ringbuf_pos, doneflag, first_fpgacount, assembler, num_dropped,
                     event_counts>>
  BY DEF GetTake, InGet, UnchangedByReader, endVars, assemblerVars, activeVars, dropVars, countVars
<1>2. /\ n \in Nat /\ RingEnd \in Nat /\ downstream_pos \in Nat /\ first_fpgacount \in Int
      /\ AbsQueue = Ramp(a, n)
  BY QueueIsRamp
<1>3. AbsQueue # <<>> /\ Head(AbsQueue) = a /\ Tail(AbsQueue) = Ramp(a + 1, n - 1)
  <2>1. a \in Int /\ n \in Nat /\ n > 0
    BY <1>1, <1>2
  <2>2. AbsQueue = Ramp(a, n)
    BY <1>2
  <2> HIDE DEF a, n
  <2>3. Ramp(a, n) # <<>>
    BY <2>1, RampFacts
  <2>4. Head(Ramp(a, n)) = a /\ Tail(Ramp(a, n)) = Ramp(a + 1, n - 1)
    BY <2>1, RampTail
  <2> QED
    BY <2>2, <2>3, <2>4
<1>4. UNCHANGED <<RingEnd, Size(0), AbsNext, AbsDropped>>
  BY <1>1 DEF RingEnd, Size, AbsNext, AbsDropped
<1>5. AbsQueue' = Tail(AbsQueue)
  <2>1. IInv' /\ TimeInv'
    BY GetTakeKeepsIInv, GetTakeKeepsTime
  <2>2. (AbsQueue = Ramp(first_fpgacount + downstream_pos, RingEnd - downstream_pos))'
    BY <2>1, QueueIsRamp, PTL
  <2>3. AbsQueue' = Ramp(first_fpgacount + (downstream_pos + 1), RingEnd - (downstream_pos + 1))
    BY <1>1, <1>4, <2>2
  <2>4. /\ first_fpgacount + (downstream_pos + 1) = a + 1
        /\ RingEnd - (downstream_pos + 1) = n - 1
    BY <1>2
  <2> QED
    BY <1>3, <2>3, <2>4
<1>6. held'.ichunk = a
  <2> DEFINE i == downstream_pos - ringbuf_pos[0] + 1
  <2>1. /\ ringbuf_pos[0] \in Nat /\ Size(0) \in Nat /\ RingEnd = ringbuf_pos[0] + Size(0)
        /\ ringbuf_pos[0] <= downstream_pos
    BY BufferType, Geometry DEF IInv, DownstreamInBuffer, RingEnd
  <2>2. i \in 1 .. Size(0) /\ ringbuf_pos[0] + i - 1 = downstream_pos
    BY <1>1, <1>2, <2>1
  <2>3. held' = ringbuf[0][i] /\ ringbuf[0][i] = ChunkOf(ringbuf_pos[0] + i - 1)
    BY <1>1, <2>2 DEF Entry, TimeInv, Level0
  <2> HIDE DEF i
  <2> QED
    BY <2>2, <2>3 DEF ChunkOf, ChunkAt
<1>7. AbsOut = NoChunk /\ AbsOut' = Head(AbsQueue)
  BY <1>1, <1>3, <1>6 DEF AbsOut
<1>8. StreamInv'
  BY <1>1, <1>4 DEF StreamInv
<1>9. Stream!Take
  BY <1>1, <1>3, <1>4, <1>5, <1>7 DEF Stream!Take, AbsQueue, AbsNext, AbsDropped, AbsOut
<1> QED
  BY <1>8, <1>9

LEMMA TakeEndRefines ==
  ASSUME IInv, TimeInv, StreamInv, GetEnd
  PROVE  Stream!TakeEnd /\ StreamInv'
<1>1. /\ ~(downstream_pos < RingEnd) /\ doneflag
      /\ consumer \in {"out", "in"} /\ consumer' = "ended"
      /\ UNCHANGED <<ringVars, doneflag, first_fpgacount, assembler, num_dropped, event_counts>>
  BY DEF GetEnd, InGet, UnchangedByReader, ringVars, endVars, assemblerVars, activeVars, dropVars,
         countVars
<1>2. UNCHANGED <<RingEnd, Size(0), AbsQueue, AbsNext, AbsDropped>>
  BY <1>1 DEF ringVars, RingEnd, Size, AbsQueue, AbsNext, AbsDropped, Pending
<1>3. AbsQueue = <<>>
  <2>1. /\ RingEnd - downstream_pos \in Nat /\ RingEnd \in Nat /\ downstream_pos \in Nat
        /\ first_fpgacount + downstream_pos \in Int
        /\ AbsQueue = Ramp(first_fpgacount + downstream_pos, RingEnd - downstream_pos)
    BY QueueIsRamp
  <2>2. RingEnd - downstream_pos = 0
    BY <1>1, <2>1
  <2> QED
    BY <2>1, <2>2, RampFacts
<1>4. AbsOut = NoChunk /\ AbsOut' = Off
  BY <1>1 DEF AbsOut
<1>5. StreamInv'
  BY <1>1, <1>2 DEF StreamInv
<1>6. Stream!TakeEnd
  BY <1>1, <1>2, <1>3, <1>4 DEF Stream!TakeEnd, AbsQueue, AbsNext, AbsDropped, AbsOut
<1> QED
  BY <1>5, <1>6

LEMMA ReturnRefines ==
  ASSUME ReaderHolds, StreamInv, GetReturn
  PROVE  [Stream!Next]_(Stream!vars) /\ StreamInv'
<1>1. CASE Fail("assert_retrieved")
  BY <1>1, FailUnseen
<1>2. CASE ~Fail("assert_retrieved")
  <2>1. /\ consumer = "took" /\ consumer' = "processing"
        /\ UNCHANGED <<ringVars, doneflag, first_fpgacount, assembler, num_dropped, event_counts>>
    BY <1>2 DEF GetReturn, UnchangedByReader, ringVars, endVars, assemblerVars, activeVars,
                dropVars, countVars
  <2>2. UNCHANGED <<RingEnd, Size(0), AbsQueue, AbsNext, AbsDropped>>
    BY <2>1 DEF ringVars, RingEnd, Size, AbsQueue, AbsNext, AbsDropped, Pending
  <2>3. held.ichunk \in Nat
    BY <2>1, ChunkTypes DEF ReaderHolds
  <2>4. AbsOut \notin {NoChunk, Off} /\ AbsOut' = NoChunk
    BY <2>1, <2>3, ParameterAssumption DEF AbsOut
  <2>5. StreamInv'
    BY <2>1, <2>2 DEF StreamInv
  <2>6. Stream!Return
    BY <2>1, <2>2, <2>4 DEF Stream!Return, AbsQueue, AbsNext, AbsDropped, AbsOut
  <2> QED
    BY <2>5, <2>6 DEF Stream!Next
<1> QED
  BY <1>1, <1>2

(* Everything else leaves the stream alone. *)
LEMMA OthersUnseen ==
  ASSUME StreamInv,
         \/ AdvancingPacket \/ AdvanceActive \/ EndStream \/ PutPrepare
         \/ GetWait \/ Release \/ FillMask \/ Terminated \/ UNCHANGED vars
         \/ \E top_level_only \in BOOLEAN : Find(top_level_only)
         \/ \E pattern \in Captures \cup {Off} : StreamToFiles(pattern)
         \/ \E r \in requests, success \in BOOLEAN : CompleteRequest(r, success)
  PROVE  UNCHANGED Stream!vars /\ StreamInv'
<1> USE DEF endVars, assemblerVars, activeVars, dropVars, countVars, outsideVars, readerVars
<1>1. CASE \E why \in Failures : Fail(why)
  BY <1>1, FailUnseen
<1>2. ASSUME ~\E why \in Failures : Fail(why)
      PROVE  /\ UNCHANGED <<ringVars, doneflag, first_fpgacount, num_dropped, event_counts>>
             /\ assembler = "finish" => assembler' = "finish"
             /\ AbsOut' = AbsOut
  <2> USE <1>2 DEF AbsOut
  <2>1. CASE AdvancingPacket
    BY <2>1 DEF AdvancingPacket
  <2>2. CASE AdvanceActive
    BY <2>2 DEF AdvanceActive, Failures
  <2>3. CASE EndStream
    BY <2>3 DEF EndStream, Failures
  <2>4. CASE PutPrepare
    <3>1. ASSUME NEW ids \in Levels, NEW push, NEW pop, Trouble(push, pop, ids) # "none",
                 Fail(Trouble(push, pop, ids))
          PROVE  FALSE
      BY <3>1 DEF Trouble, Failures
    <3>2. /\ assembler = "prepare"
          /\ UNCHANGED <<ringVars, endVars, first_fpgacount, dropVars, countVars, outsideVars>>
      BY <2>4, <3>1 DEF PutPrepare
    <3> QED
      BY <3>2
  <2>5. CASE GetWait \/ Release \/ FillMask
    BY <2>5 DEF GetWait, Release, FillMask, InGet, UnchangedByReader, ringVars
  <2>6. CASE Terminated \/ UNCHANGED vars
    BY <2>6 DEF Terminated, vars
  <2>7. CASE \E top_level_only \in BOOLEAN : Find(top_level_only)
    BY <2>7 DEF Find, UnchangedByReader, ringVars
  <2>8. CASE \E pattern \in Captures \cup {Off} : StreamToFiles(pattern)
    BY <2>8 DEF StreamToFiles
  <2>9. CASE \E r \in requests, success \in BOOLEAN : CompleteRequest(r, success)
    BY <2>9 DEF CompleteRequest
  <2> QED
    BY <2>1, <2>2, <2>3, <2>4, <2>5, <2>6, <2>7, <2>8, <2>9
<1>3. CASE ~\E why \in Failures : Fail(why)
  BY <1>2, <1>3, UnseenStep
<1> QED
  BY <1>1, <1>3

LEMMA StepRefines ==
  ASSUME IInv, ReaderHolds, TimeInv, StreamInv, [Next]_vars
  PROVE  [Stream!Next]_(Stream!vars) /\ StreamInv'
<1>1. CASE PutCommit
  BY <1>1, PutRefines
<1>2. CASE PutFinish
  BY <1>2, FinishUnseen
<1>3. CASE FirstPacket
  BY <1>3, FirstUnseen
<1>4. CASE EndStreamDone
  BY <1>4, CloseRefines DEF Stream!Next
<1>5. CASE GetTake
  BY <1>5, TakeRefines DEF Stream!Next
<1>6. CASE GetEnd
  BY <1>6, TakeEndRefines DEF Stream!Next
<1>7. CASE GetReturn
  BY <1>7, ReturnRefines
<1>8. CASE ~(\/ PutCommit \/ PutFinish \/ FirstPacket \/ EndStreamDone
             \/ GetTake \/ GetEnd \/ GetReturn)
  <2>1. \/ AdvancingPacket \/ AdvanceActive \/ EndStream \/ PutPrepare
        \/ GetWait \/ Release \/ FillMask \/ Terminated \/ UNCHANGED vars
        \/ \E top_level_only \in BOOLEAN : Find(top_level_only)
        \/ \E pattern \in Captures \cup {Off} : StreamToFiles(pattern)
        \/ \E r \in requests, success \in BOOLEAN : CompleteRequest(r, success)
    BY <1>8 DEF Next, AssemblerSteps, ReaderSteps
  <2> QED
    BY <2>1, OthersUnseen
<1> QED
  BY <1>1, <1>2, <1>3, <1>4, <1>5, <1>6, <1>7, <1>8

LEMMA InitStream == Init => Stream!Init /\ StreamInv
<1> SUFFICES ASSUME Init PROVE Stream!Init /\ StreamInv
  OBVIOUS
<1>1. Size(0) = 0 /\ RingEnd = 0 /\ Len(ringbuf[0]) = 0 /\ ringbuf[0] = <<>>
      /\ ringbuf_pos[0] = 0 /\ downstream_pos = 0
  BY Geometry, EmptySeq DEF Init, Size, RingEnd
<1>2. IchunksOf(Pending) = <<>>
  <2>1. Pending = SubSeq(<<>>, 1, 0)
    BY <1>1 DEF Pending
  <2>2. Pending = <<>>
    BY <2>1
  <2> QED
    BY <2>2 DEF IchunksOf
<1>3. event_counts["assembled_chunk_dropped"] + num_dropped = 0
  BY DEF Init, Events
<1> QED
  BY <1>1, <1>2, <1>3 DEF Init, Stream!Init, StreamInv

(* To the processing thread the ring buffer of a beam is a ChunkStream,       *)
(* whatever put and get interleave, and whatever the levels below do: chunks  *)
(* in order and without gap, the oldest dropped, and counted, for a reader    *)
(* more than AssembledCapacity behind, the end once and after everything.     *)
THEOREM IsChunkStream == Spec => ImplementsChunkStream
<1>1. Init => Stream!Init /\ StreamInv
  BY InitStream
<1>2. IInv /\ ReaderHolds /\ TimeInv /\ StreamInv /\ [Next]_vars
        => [Stream!Next]_(Stream!vars) /\ StreamInv'
  BY StepRefines
<1> QED
  BY <1>1, <1>2, Invariance, TimeInvariance, PTL DEF Spec, Stream!Spec, ImplementsChunkStream

-----------------------------------------------------------------------------
(* get_ringbuf_size().                                                      *)

LEMMA NatSetInduction ==
  ASSUME NEW S, 0 \in S, \A n \in Nat : n \in S => n + 1 \in S
  PROVE  Nat \subseteq S
<1> SUFFICES ASSUME Nat \ S # {} PROVE FALSE
  OBVIOUS
<1>1. IsWellFoundedOn(OpToRel(<, Nat), Nat)
  BY NatLessThanWellFounded
<1>2. PICK least \in Nat \ S : \A n \in Nat \ S : ~(<<n, least>> \in OpToRel(<, Nat))
  BY <1>1, WFMin
<1>3. \A n \in Nat : n < least => n \in S
  BY <1>2 DEF OpToRel
<1>4. least # 0 /\ least - 1 \in Nat /\ least - 1 < least
  OBVIOUS
<1>5. least - 1 \in S
  BY <1>3, <1>4
<1>6. (least - 1) + 1 = least
  OBVIOUS
<1> QED
  BY <1>4, <1>5, <1>6

(* The first and the last count that the entries of a level reach. *)
Lo(ids) == ringbuf[ids][1].ichunk
Hi(ids) == End(ringbuf[ids][Size(ids)])

LEMMA LevelGrows ==
  ASSUME TypeOK, AllLevelsFit, NEW ids \in Levels, NEW i \in 1 .. Size(ids)
  PROVE  /\ Lo(ids) <= ringbuf[ids][i].ichunk /\ End(ringbuf[ids][i]) <= Hi(ids)
         /\ Lo(ids) \in Nat /\ Hi(ids) \in Nat /\ Lo(ids) < Hi(ids)
         /\ ringbuf[ids][i].ichunk \in Nat /\ End(ringbuf[ids][i]) \in Nat
<1> DEFINE s == Size(ids)
           r == ringbuf[ids]
           b == Binning(ids)
           Apart == {n \in Nat : \A j, k \in 1 .. s : k = j + n => r[j].ichunk <= r[k].ichunk}
<1>1. s \in Nat /\ b \in {1, 2, 4, 8} /\ LevelFits(ids)
  BY BufferType, Geometry DEF AllLevelsFit
<1>2. \A j \in 1 .. s : r[j].ichunk \in Nat /\ End(r[j]) = r[j].ichunk + b
  <2> TAKE j \in 1 .. s
  <2>1. r[j] \in Chunk
    BY <1>1, BufferType, ElementOfSeq DEF Size
  <2>2. r[j].binning = b
    BY <1>1 DEF LevelFits
  <2> QED
    BY <2>1, <2>2, ChunkTypes DEF End
<1>3. \A j \in 1 .. s - 1 : r[j + 1].ichunk = End(r[j])
  BY <1>1 DEF LevelFits
<1> HIDE DEF s, r, b
<1>4. 0 \in Apart
  BY <1>1, <1>2
<1>5. ASSUME NEW n \in Nat, n \in Apart PROVE n + 1 \in Apart
  <2> SUFFICES ASSUME NEW j \in 1 .. s, NEW k \in 1 .. s, k = j + (n + 1)
               PROVE  r[j].ichunk <= r[k].ichunk
    OBVIOUS
  <2>1. k - 1 \in 1 .. s - 1 /\ k - 1 \in 1 .. s /\ k - 1 = j + n /\ (k - 1) + 1 = k
    BY <1>1
  <2>2. r[j].ichunk <= r[k - 1].ichunk
    BY <1>5, <2>1
  <2>3. r[k].ichunk = r[k - 1].ichunk + b
    BY <1>2, <1>3, <2>1
  <2>4. r[j].ichunk \in Nat /\ r[k - 1].ichunk \in Nat
    BY <1>2, <2>1
  <2> QED
    BY <1>1, <2>2, <2>3, <2>4
<1>6. Nat \subseteq Apart
  <2> HIDE DEF Apart
  <2> QED
    BY <1>4, <1>5, NatSetInduction
<1>7. ASSUME NEW j \in 1 .. s, NEW k \in 1 .. s, j <= k PROVE r[j].ichunk <= r[k].ichunk
  <2>1. k - j \in Nat /\ k = j + (k - j)
    BY <1>1, <1>7
  <2>2. k - j \in Apart
    BY <1>6, <2>1
  <2> QED
    BY <2>1, <2>2
<1> HIDE DEF Apart
<1>8. i \in 1 .. s /\ 1 \in 1 .. s /\ s \in 1 .. s /\ 1 <= i /\ i <= s
  BY <1>1 DEF s
<1>9. r[1].ichunk <= r[i].ichunk /\ r[i].ichunk <= r[s].ichunk
  BY <1>7, <1>8
<1>10. Lo(ids) = r[1].ichunk /\ Hi(ids) = End(r[s])
  BY DEF Lo, Hi, r, s
<1>11. /\ r[1].ichunk \in Nat /\ r[i].ichunk \in Nat /\ r[s].ichunk \in Nat
       /\ End(r[i]) = r[i].ichunk + b /\ End(r[s]) = r[s].ichunk + b
  BY <1>2, <1>8
<1>12. /\ r[1].ichunk <= r[i].ichunk /\ End(r[i]) <= End(r[s])
       /\ End(r[i]) \in Nat /\ End(r[s]) \in Nat /\ r[1].ichunk < End(r[s])
  BY <1>1, <1>9, <1>11
<1> QED
  BY <1>10, <1>11, <1>12 DEF r

(* A level is later than the levels below it, and not empty if they are not. *)
LEMMA LevelsDescend ==
  ASSUME TypeOK, AllLevelsFit, NEW ids \in Levels, Size(ids) > 0, NEW k \in Levels, k <= ids
  PROVE  Size(k) > 0 /\ Lo(ids) <= Lo(k) /\ Hi(ids) <= Hi(k)
<1> DEFINE Below == {n \in Nat : n <= ids => /\ Size(ids - n) > 0
                                            /\ Lo(ids) <= Lo(ids - n)
                                            /\ Hi(ids) <= Hi(ids - n)}
<1>1. ids \in 0 .. 3 /\ k \in 0 .. ids /\ \A n \in 0 .. ids : n \in Levels
  BY Geometry DEF Levels
<1>2. \A l \in Levels : Size(l) \in Nat
  BY BufferType
<1>3. ASSUME NEW l \in Levels, Size(l) > 0
      PROVE  /\ Lo(l) \in Nat /\ Hi(l) \in Nat /\ Lo(l) < Hi(l)
             /\ l > 0 => /\ Size(l - 1) > 0 /\ Lo(l - 1) = Hi(l)
                         /\ Lo(l - 1) \in Nat /\ Hi(l - 1) \in Nat /\ Lo(l - 1) < Hi(l - 1)
  <2>1. 1 \in 1 .. Size(l) /\ l \in 0 .. 3
    BY <1>2, <1>3, Geometry
  <2>2. Lo(l) \in Nat /\ Hi(l) \in Nat /\ Lo(l) < Hi(l)
    BY <2>1, LevelGrows
  <2>3. ASSUME l > 0
        PROVE  /\ Size(l - 1) > 0 /\ Lo(l - 1) = Hi(l)
               /\ Lo(l - 1) \in Nat /\ Hi(l - 1) \in Nat /\ Lo(l - 1) < Hi(l - 1)
    <3>1. Size(l - 1) > 0 /\ Lo(l - 1) = Hi(l)
      BY <1>3, <2>3 DEF AllLevelsFit, LevelFits, Lo, Hi
    <3>2. l - 1 \in Levels
      BY <2>1, <2>3, Geometry DEF Levels
    <3>3. 1 \in 1 .. Size(l - 1)
      BY <1>2, <3>1, <3>2
    <3> QED
      BY <3>1, <3>2, <3>3, LevelGrows
  <2> QED
    BY <2>2, <2>3
<1>4. 0 \in Below
  <2>1. ids - 0 = ids
    BY <1>1
  <2>2. Lo(ids) \in Nat /\ Hi(ids) \in Nat
    BY <1>3
  <2> QED
    BY <2>1, <2>2
<1>5. ASSUME NEW n \in Nat, n \in Below PROVE n + 1 \in Below
  <2> SUFFICES ASSUME n + 1 <= ids
               PROVE  /\ Size(ids - (n + 1)) > 0 /\ Lo(ids) <= Lo(ids - (n + 1))
                      /\ Hi(ids) <= Hi(ids - (n + 1))
    OBVIOUS
  <2>1. n <= ids /\ ids - n \in Levels /\ ids - n > 0 /\ (ids - n) - 1 = ids - (n + 1)
    BY <1>1
  <2>2. Size(ids - n) > 0 /\ Lo(ids) <= Lo(ids - n) /\ Hi(ids) <= Hi(ids - n)
    BY <1>5, <2>1
  <2>3. /\ Lo(ids - n) \in Nat /\ Hi(ids - n) \in Nat /\ Lo(ids - n) < Hi(ids - n)
        /\ Size(ids - (n + 1)) > 0 /\ Lo(ids - (n + 1)) = Hi(ids - n)
        /\ Lo(ids - (n + 1)) \in Nat /\ Hi(ids - (n + 1)) \in Nat
        /\ Lo(ids - (n + 1)) < Hi(ids - (n + 1))
    BY <1>3, <2>1, <2>2
  <2>4. Lo(ids) \in Nat /\ Hi(ids) \in Nat
    BY <1>3
  <2> QED
    BY <2>2, <2>3, <2>4
<1> HIDE DEF Below
<1>6. Nat \subseteq Below
  BY <1>4, <1>5, NatSetInduction
<1>7. ids - k \in Nat /\ ids - k <= ids /\ ids - (ids - k) = k
  BY <1>1
<1>8. ids - k \in Below
  BY <1>6, <1>7
<1> QED
  BY <1>7, <1>8 DEF Below

LEMMA StatsAreRight == ASSUME IInv, TimeInv PROVE StatsAgree
<1>1. TypeOK /\ AllLevelsFit /\ \A ids \in Levels : Size(ids) \in Nat
  BY BufferType DEF IInv, TimeInv
<1>2. NReady = Len(Pending) /\ NReady \in Nat
  BY QueueIsRamp DEF NReady
<1>3. ASSUME NonEmptyLevels # {}
      PROVE  Size(0) > 0 /\ FpgaMax = Hi(0) /\ FpgaMax \in Nat
  <2>1. PICK l \in NonEmptyLevels : TRUE
    BY <1>3
  <2>2. l \in Levels /\ Size(l) > 0 /\ 0 \in Levels /\ 0 <= l
    BY <2>1, Geometry DEF NonEmptyLevels
  <2>3. Size(0) > 0
    BY <1>1, <2>2, LevelsDescend
  <2>4. 0 \in NonEmptyLevels /\ \A k \in NonEmptyLevels : k \in 0 .. 3
    BY <2>2, <2>3, Geometry DEF NonEmptyLevels
  <2>5. (CHOOSE m \in NonEmptyLevels : \A k \in NonEmptyLevels : m <= k) = 0
    <3> DEFINE m == CHOOSE m \in NonEmptyLevels : \A k \in NonEmptyLevels : m <= k
    <3>1. m \in NonEmptyLevels /\ \A k \in NonEmptyLevels : m <= k
      BY <2>4
    <3> HIDE DEF m
    <3>2. m = 0
      BY <2>4, <3>1
    <3> QED
      BY <3>2 DEF m
  <2>6. FpgaMax = Hi(0)
    BY <1>3, <2>5 DEF FpgaMax, Hi
  <2>7. 1 \in 1 .. Size(0)
    BY <1>1, <2>2, <2>3
  <2>8. Hi(0) \in Nat
    BY <1>1, <2>2, <2>7, LevelGrows
  <2> QED
    BY <2>3, <2>6, <2>8
<1>4. ASSUME NonEmptyLevels # {}
      PROVE  \E d \in NonEmptyLevels :
               FpgaMin = Lo(d) /\ \A k \in NonEmptyLevels : k <= d
  <2>1. NonEmptyLevels \subseteq 0 .. 3
    BY Geometry DEF NonEmptyLevels
  <2>2. \E d \in NonEmptyLevels : \A k \in NonEmptyLevels : k <= d
    <3>1. CASE 3 \in NonEmptyLevels
      BY <2>1, <3>1
    <3>2. CASE 3 \notin NonEmptyLevels /\ 2 \in NonEmptyLevels
      BY <2>1, <3>2
    <3>3. CASE 3 \notin NonEmptyLevels /\ 2 \notin NonEmptyLevels /\ 1 \in NonEmptyLevels
      BY <2>1, <3>3
    <3>4. CASE 3 \notin NonEmptyLevels /\ 2 \notin NonEmptyLevels /\ 1 \notin NonEmptyLevels
      <4>1. PICK l \in NonEmptyLevels : TRUE
        BY <1>4
      <4>2. l = 0
        BY <2>1, <3>4
      <4> QED
        BY <2>1, <3>4, <4>2
    <3> QED
      BY <3>1, <3>2, <3>3, <3>4
  <2> DEFINE lev == CHOOSE d \in NonEmptyLevels : \A k \in NonEmptyLevels : k <= d
  <2>3. lev \in NonEmptyLevels /\ \A k \in NonEmptyLevels : k <= lev
    BY <2>2
  <2>4. FpgaMin = Lo(lev)
    BY <1>4 DEF FpgaMin, Lo
  <2> HIDE DEF lev
  <2> QED
    BY <2>3, <2>4
<1>5. ASSUME Entries # {}
      PROVE  /\ FpgaMin \in {c.ichunk : c \in Entries}
             /\ FpgaMax \in {End(c) : c \in Entries}
             /\ \A c \in Entries : FpgaMin <= c.ichunk /\ End(c) <= FpgaMax
  <2>1. ASSUME NEW c \in Entries
        PROVE  \E k \in NonEmptyLevels : \E i \in 1 .. Size(k) : c = ringbuf[k][i]
    <3>1. PICK k \in Levels : c \in RangeOf(ringbuf[k])
      BY DEF Entries
    <3>2. ringbuf[k] \in Seq(Chunk) /\ Size(k) \in Nat
      BY <1>1, BufferType
    <3>3. PICK i \in 1 .. Size(k) : c = ringbuf[k][i]
      BY <3>1, <3>2, LenProperties DEF RangeOf, Size
    <3>4. Size(k) > 0
      BY <3>2
    <3> QED
      BY <3>3, <3>4 DEF NonEmptyLevels
  <2>2. NonEmptyLevels # {}
    BY <1>5, <2>1
  <2>3. ASSUME NEW k \in Levels, NEW i \in 1 .. Size(k) PROVE ringbuf[k][i] \in Entries
    <3>1. ringbuf[k] \in Seq(Chunk) /\ i \in DOMAIN ringbuf[k]
      BY <1>1, BufferType, LenProperties DEF Size
    <3> QED
      BY <3>1 DEF Entries, RangeOf
  <2>4. PICK d \in NonEmptyLevels : FpgaMin = Lo(d) /\ \A k \in NonEmptyLevels : k <= d
    BY <1>4, <2>2
  <2>5. /\ d \in Levels /\ Size(d) > 0 /\ 0 \in Levels
        /\ Size(0) > 0 /\ FpgaMax = Hi(0) /\ FpgaMax \in Nat
        /\ \A k \in NonEmptyLevels : k \in Levels /\ k \in Nat /\ Size(k) > 0
    BY <1>3, <2>2, Geometry DEF NonEmptyLevels
  <2>6. 1 \in 1 .. Size(d) /\ Size(0) \in 1 .. Size(0)
    BY <1>1, <2>5
  <2>7. FpgaMin \in {c.ichunk : c \in Entries}
    <3>1. ringbuf[d][1] \in Entries
      BY <2>3, <2>5, <2>6
    <3> QED
      BY <2>4, <3>1 DEF Lo
  <2>8. FpgaMax \in {End(c) : c \in Entries}
    <3>1. ringbuf[0][Size(0)] \in Entries
      BY <2>3, <2>5, <2>6
    <3> QED
      BY <2>5, <3>1 DEF Hi
  <2>9. ASSUME NEW c \in Entries PROVE FpgaMin <= c.ichunk /\ End(c) <= FpgaMax
    <3>1. PICK k \in NonEmptyLevels : \E i \in 1 .. Size(k) : c = ringbuf[k][i]
      BY <2>1
    <3>2. PICK i \in 1 .. Size(k) : c = ringbuf[k][i]
      BY <3>1
    <3>3. k \in Levels /\ Size(k) > 0 /\ k <= d /\ 0 <= k
      BY <2>4, <2>5
    <3>4. Lo(d) <= Lo(k) /\ Hi(k) <= Hi(0)
      BY <1>1, <2>5, <3>3, LevelsDescend
    <3>5. /\ Lo(k) <= c.ichunk /\ End(c) <= Hi(k)
          /\ Lo(k) \in Nat /\ Hi(k) \in Nat /\ c.ichunk \in Nat /\ End(c) \in Nat
      BY <1>1, <3>2, <3>3, LevelGrows
    <3>6. Lo(d) \in Nat
      BY <1>1, <2>5, <2>6, LevelGrows
    <3>7. Lo(d) <= c.ichunk
      BY <3>4, <3>5, <3>6
    <3>8. End(c) <= Hi(0)
      BY <2>5, <3>4, <3>5
    <3> QED
      BY <2>4, <2>5, <3>7, <3>8
  <2> QED
    BY <2>7, <2>8, <2>9
<1>6. ASSUME Size(0) > 0 PROVE FpgaNext + NReady = FpgaMax
  <2>1. FpgaMax = Hi(0) /\ FpgaMax \in Nat
    <3>1. 0 \in NonEmptyLevels
      BY <1>6, Geometry DEF NonEmptyLevels
    <3> QED
      BY <1>3, <3>1
  <2>2. CASE Pending = <<>>
    <3>1. NReady = 0
      BY <1>2, <2>2, EmptySeq
    <3>2. FpgaNext = Hi(0)
      BY <1>6, <2>2 DEF FpgaNext, Hi
    <3> QED
      BY <2>1, <3>1, <3>2
  <2>3. CASE Pending # <<>>
    <3> DEFINE n == RingEnd - downstream_pos
    <3>1. /\ n \in Nat /\ RingEnd \in Nat /\ downstream_pos \in Nat /\ first_fpgacount \in Int
          /\ AbsQueue = Ramp(first_fpgacount + downstream_pos, n)
          /\ Pending \in Seq(Chunk) /\ Len(Pending) = n
      BY QueueIsRamp
    <3>2. NReady = n
      BY DEF NReady
    <3>3. first_fpgacount + downstream_pos \in Int
      BY <3>1
    <3> HIDE DEF n
    <3>4. n # 0 /\ 1 \in 1 .. n
      BY <2>3, <3>1, EmptySeq
    <3>5. 1 \in DOMAIN Pending
      BY <3>1, <3>4, LenProperties
    <3>6. AbsQueue[1] = Pending[1].ichunk
      BY <3>5 DEF AbsQueue, IchunksOf
    <3>7. AbsQueue[1] = first_fpgacount + downstream_pos
      BY <3>1, <3>3, <3>4 DEF Ramp
    <3>8. FpgaNext = first_fpgacount + downstream_pos
      BY <2>3, <3>6, <3>7 DEF FpgaNext
    <3>9. Hi(0) = first_fpgacount + RingEnd
      <4> DEFINE pos == ringbuf_pos[0] + Size(0) - 1
      <4>1. first_fpgacount # -1
        BY <1>1, <1>6, EmptySeq, Geometry DEF TimeInv, Untouched, Size
      <4>2. pos \in Nat /\ Size(0) \in 1 .. Size(0) /\ RingEnd = pos + 1
        BY <1>1, <1>6, BufferType, Geometry DEF RingEnd
      <4>3. ringbuf[0][Size(0)] = ChunkOf(pos)
        BY <4>2 DEF TimeInv, Level0
      <4> HIDE DEF pos
      <4>4. End(ChunkOf(pos)) = first_fpgacount + pos + 1 /\ first_fpgacount \in Nat
        BY <1>1, <4>1, <4>2, ChunkOfFacts
      <4> QED
        BY <4>2, <4>3, <4>4 DEF Hi
    <3>10. first_fpgacount + downstream_pos + n = first_fpgacount + RingEnd
      BY <3>1 DEF n
    <3> QED
      BY <2>1, <3>2, <3>8, <3>9, <3>10
  <2> QED
    BY <2>2, <2>3
<1> QED
  BY <1>2, <1>5, <1>6 DEF StatsAgree

(* What get_ringbuf_size() reports of the whole buffer is true whenever it   *)
(* is called, in the middle of a put included: fpga_min and fpga_max are     *)
(* attained and bound every chunk, for every number of levels, and fpga_next *)
(* and n_ready are what the next calls of get_assembled_chunk() return.      *)
THEOREM StatsAreTrue == Spec => []StatsAgree
  BY StatsAreRight, Invariance, TimeInvariance, PTL

-----------------------------------------------------------------------------
(* The memory pool: how many slabs can be in use when one more is asked for. *)

LEMMA UnionBound ==
  ASSUME NEW S, IsFiniteSet(S), NEW T, IsFiniteSet(T), NEW m \in Nat, NEW n \in Nat,
         Cardinality(S) <= m, Cardinality(T) <= n
  PROVE  IsFiniteSet(S \cup T) /\ Cardinality(S \cup T) <= m + n
<1>1. /\ IsFiniteSet(S \cup T)
      /\ Cardinality(S \cup T) = Cardinality(S) + Cardinality(T) - Cardinality(S \cap T)
  BY FS_Union
<1>2. IsFiniteSet(S \cap T)
  BY FS_Subset
<1>3. Cardinality(S) \in Nat /\ Cardinality(T) \in Nat /\ Cardinality(S \cap T) \in Nat
  BY <1>2, FS_CardinalityType
<1> QED
  BY <1>1, <1>3

LEMMA SubsetBound ==
  ASSUME NEW S, IsFiniteSet(S), NEW n \in Nat, Cardinality(S) <= n, NEW T \in SUBSET S
  PROVE  IsFiniteSet(T) /\ Cardinality(T) <= n
<1>1. IsFiniteSet(T) /\ Cardinality(T) <= Cardinality(S)
  BY FS_Subset
<1>2. Cardinality(S) \in Nat /\ Cardinality(T) \in Nat
  BY <1>1, FS_CardinalityType
<1> QED
  BY <1>1, <1>2

LEMMA FewElements ==
  /\ \A a : IsFiniteSet({a}) /\ Cardinality({a}) <= 1
  /\ \A a, b : IsFiniteSet({a, b}) /\ Cardinality({a, b}) <= 2
  /\ \A a, b, c : IsFiniteSet({a, b, c}) /\ Cardinality({a, b, c}) <= 3
<1>1. ASSUME NEW a PROVE IsFiniteSet({a}) /\ Cardinality({a}) <= 1
  BY FS_Singleton, SMTT(30)
<1>2. ASSUME NEW a, NEW b PROVE IsFiniteSet({a, b}) /\ Cardinality({a, b}) <= 2
  <2>1. IsFiniteSet({a} \cup {b}) /\ Cardinality({a} \cup {b}) <= 1 + 1
    BY <1>1, UnionBound
  <2>2. {a} \cup {b} = {a, b}
    OBVIOUS
  <2> QED
    BY <2>1, <2>2
<1>3. ASSUME NEW a, NEW b, NEW c PROVE IsFiniteSet({a, b, c}) /\ Cardinality({a, b, c}) <= 3
  <2>1. IsFiniteSet({a, b} \cup {c}) /\ Cardinality({a, b} \cup {c}) <= 2 + 1
    BY <1>1, <1>2, UnionBound
  <2>2. {a, b} \cup {c} = {a, b, c}
    OBVIOUS
  <2> QED
    BY <2>1, <2>2
<1> QED
  BY <1>1, <1>2, <1>3

LEMMA RangeBound ==
  ASSUME NEW V, NEW s \in Seq(V)
  PROVE  IsFiniteSet(RangeOf(s)) /\ Cardinality(RangeOf(s)) <= Len(s)
<1>1. Len(s) \in Nat /\ DOMAIN s = 1 .. Len(s)
  BY LenProperties
<1>2. s \in Surjection(1 .. Len(s), RangeOf(s))
  <2>1. s \in [1 .. Len(s) -> RangeOf(s)]
    <3>1. s = [i \in 1 .. Len(s) |-> s[i]]
      BY <1>1, LenProperties
    <3>2. \A i \in 1 .. Len(s) : s[i] \in RangeOf(s)
      BY <1>1 DEF RangeOf
    <3> QED
      BY <3>1, <3>2, Zenon
  <2>2. \A t \in RangeOf(s) : \E i \in 1 .. Len(s) : s[i] = t
    BY <1>1 DEF RangeOf
  <2> QED
    BY <2>1, <2>2 DEF Surjection
<1>3. IsFiniteSet(1 .. Len(s)) /\ Cardinality(1 .. Len(s)) = Len(s)
  BY <1>1, FS_Interval, SMTT(30)
<1>4. IsFiniteSet(RangeOf(s)) /\ Cardinality(RangeOf(s)) <= Cardinality(1 .. Len(s))
  BY <1>2, <1>3, FS_Surjection
<1> QED
  BY <1>3, <1>4

(* TotalCapacity, a recursive function, is the sum that it is written as. *)
SumStep(f, n) == IF n = 0 THEN 0 ELSE Capacity(n - 1) + f[n - 1]

LEMMA TotalCapacityExists == \E f : f = [n \in 0 .. NumLevels |-> SumStep(f, n)]
<1> DEFINE S == {m \in Nat : \E f : f = [n \in 0 .. m |-> SumStep(f, n)]}
<1>1. 0 \in S
  <2> DEFINE f == [n \in 0 .. 0 |-> 0]
  <2>1. \A n \in 0 .. 0 : SumStep(f, n) = 0
    BY DEF SumStep
  <2>2. f = [n \in 0 .. 0 |-> SumStep(f, n)]
    BY <2>1, Zenon
  <2> QED
    BY <2>2
<1>2. ASSUME NEW m \in Nat, m \in S PROVE m + 1 \in S
  <2>1. PICK f : f = [n \in 0 .. m |-> SumStep(f, n)]
    BY <1>2
  <2> DEFINE g == [n \in 0 .. m + 1 |-> IF n <= m THEN f[n] ELSE SumStep(f, n)]
  <2>2. ASSUME NEW n \in 0 .. m + 1 PROVE g[n] = SumStep(g, n)
    <3>1. SumStep(g, n) = SumStep(f, n)
      BY DEF SumStep
    <3>2. n <= m => f[n] = SumStep(f, n)
      <4>1. n <= m => n \in 0 .. m
        OBVIOUS
      <4> QED
        BY <2>1, <4>1, Zenon
    <3> QED
      BY <3>1, <3>2
  <2>3. g = [n \in 0 .. m + 1 |-> SumStep(g, n)]
    BY <2>2, Zenon
  <2>4. \E h : h = [n \in 0 .. m + 1 |-> SumStep(h, n)]
    BY <2>3
  <2> QED
    BY <2>4
<1> HIDE DEF S
<1>3. NumLevels \in S
  BY <1>1, <1>2, NatSetInduction, Geometry
<1> QED
  BY <1>3 DEF S

LEMMA TotalCapacityIs ==
  ASSUME NEW n \in 0 .. NumLevels
  PROVE  TotalCapacity[n] = IF n = 0 THEN 0 ELSE Capacity(n - 1) + TotalCapacity[n - 1]
<1>1. TotalCapacity = CHOOSE f : f = [k \in 0 .. NumLevels |-> SumStep(f, k)]
  BY DEF TotalCapacity, SumStep
<1>2. TotalCapacity = [k \in 0 .. NumLevels |-> SumStep(TotalCapacity, k)]
  BY <1>1, TotalCapacityExists, Zenon
<1> HIDE DEF TotalCapacity
<1>3. TotalCapacity[n] = SumStep(TotalCapacity, n)
  BY <1>2, Zenon
<1> QED
  BY <1>3 DEF SumStep

Buffered(n) == UNION {RangeOf(ringbuf[ids]) : ids \in 0 .. n - 1}

LEMMA BufferedBound ==
  ASSUME TypeOK, AllLevelsFit
  PROVE  /\ TotalCapacity[NumLevels] \in Nat
         /\ IsFiniteSet(Buffered(NumLevels))
         /\ Cardinality(Buffered(NumLevels)) <= TotalCapacity[NumLevels]
<1> DEFINE S == {n \in Nat : n <= NumLevels => /\ TotalCapacity[n] \in Nat
                                              /\ IsFiniteSet(Buffered(n))
                                              /\ Cardinality(Buffered(n)) <= TotalCapacity[n]}
<1>1. NumLevels \in 1 .. 4 /\ Levels = 0 .. NumLevels - 1
  BY Geometry DEF Levels
<1>2. 0 \in S
  <2>1. Buffered(0) = {}
    BY DEF Buffered
  <2>2. TotalCapacity[0] = 0
    BY <1>1, TotalCapacityIs
  <2>3. IsFiniteSet({}) /\ Cardinality({}) = 0
    BY FS_EmptySet
  <2>4. IsFiniteSet(Buffered(0)) /\ Cardinality(Buffered(0)) = 0
    BY <2>1, <2>3
  <2> HIDE DEF Buffered
  <2> QED
    BY <2>2, <2>4
<1>3. ASSUME NEW n \in Nat, n \in S PROVE n + 1 \in S
  <2> SUFFICES ASSUME n + 1 <= NumLevels
               PROVE  /\ TotalCapacity[n + 1] \in Nat
                      /\ IsFiniteSet(Buffered(n + 1))
                      /\ Cardinality(Buffered(n + 1)) <= TotalCapacity[n + 1]
    OBVIOUS
  <2>1. n \in Levels /\ n <= NumLevels /\ n + 1 \in 0 .. NumLevels /\ (n + 1) - 1 = n
    BY <1>1
  <2>2. /\ TotalCapacity[n] \in Nat /\ IsFiniteSet(Buffered(n))
        /\ Cardinality(Buffered(n)) <= TotalCapacity[n]
    BY <1>3, <2>1
  <2>3. TotalCapacity[n + 1] = Capacity(n) + TotalCapacity[n]
    BY <2>1, TotalCapacityIs
  <2>4. Buffered(n + 1) = RangeOf(ringbuf[n]) \cup Buffered(n)
    <3>1. 0 .. (n + 1) - 1 = {n} \cup (0 .. n - 1)
      BY <2>1
    <3> QED
      BY <3>1, Zenon DEF Buffered
  <2>5. IsFiniteSet(RangeOf(ringbuf[n])) /\ Cardinality(RangeOf(ringbuf[n])) <= Capacity(n)
    <3>1. ringbuf[n] \in Seq(Chunk) /\ Size(n) \in Nat /\ Capacity(n) \in Nat
      BY <2>1, BufferType, Geometry
    <3>2. Size(n) <= Capacity(n)
      BY <2>1 DEF AllLevelsFit, LevelFits
    <3>3. /\ IsFiniteSet(RangeOf(ringbuf[n]))
          /\ Cardinality(RangeOf(ringbuf[n])) <= Size(n)
          /\ Cardinality(RangeOf(ringbuf[n])) \in Nat
      BY <3>1, RangeBound, FS_CardinalityType DEF Size
    <3> QED
      BY <3>1, <3>2, <3>3
  <2>6. Capacity(n) \in Nat
    BY <2>1, Geometry
  <2>7. /\ IsFiniteSet(RangeOf(ringbuf[n]) \cup Buffered(n))
        /\ Cardinality(RangeOf(ringbuf[n]) \cup Buffered(n)) <= Capacity(n) + TotalCapacity[n]
    BY <2>2, <2>5, <2>6, UnionBound
  <2> HIDE DEF Buffered
  <2>8. TotalCapacity[n + 1] \in Nat
    BY <2>2, <2>3, <2>6
  <2> QED
    BY <2>3, <2>4, <2>7, <2>8
<1> HIDE DEF S
<1>4. NumLevels \in S
  BY <1>1, <1>2, <1>3, NatSetInduction
<1> QED
  BY <1>1, <1>4 DEF S

(* What is prepared is dropped at the end of the put. *)
ListsEmpty ==
  assembler \notin {"commit", "finish"} => pushlist = NoLists /\ poplist = NoLists

Hands == (RangeOf(active) \cup {held}) \ {NoChunk}

LEMMA LiveBound ==
  ASSUME TypeOK, AllLevelsFit, ListsEmpty, Captures = {},
         assembler \notin {"commit", "finish"},
         NEW H, IsFiniteSet(H), NEW n \in Nat, Cardinality(H) <= n, Hands \subseteq H
  PROVE  /\ Cardinality(Live) \in Nat
         /\ Cardinality(Live) <= TotalCapacity[NumLevels] + n
         /\ TotalCapacity[NumLevels] \in Nat
<1>1. requests = {}
  BY DEF TypeOK
<1>2. \A ids \in Levels : pushlist[ids] = <<>> /\ poplist[ids] = <<>>
  BY DEF ListsEmpty, NoLists
<1>3. RangeOf(<<>>) = {}
  BY DEF RangeOf
<1>4. Levels = 0 .. NumLevels - 1
  BY DEF Levels
<1>5. Live \subseteq Buffered(NumLevels) \cup H
  <2>1. {r.chunk : r \in requests} = {}
    BY <1>1
  <2>2. \A ids \in Levels : RangeOf(ringbuf[ids]) \cup RangeOf(pushlist[ids])
                              \cup RangeOf(poplist[ids]) = RangeOf(ringbuf[ids])
    BY <1>2, <1>3
  <2> DEFINE held_by_ring == UNION {RangeOf(ringbuf[ids]) \cup RangeOf(pushlist[ids])
                                      \cup RangeOf(poplist[ids]) : ids \in Levels}
             held_by_writers == {r.chunk : r \in requests}
  <2>3. held_by_ring \subseteq Buffered(NumLevels)
    BY <1>4, <2>2, Zenon DEF Buffered
  <2>4. Live = held_by_ring \cup Hands \cup held_by_writers
    BY Zenon DEF Live, Hands
  <2> HIDE DEF held_by_ring, held_by_writers
  <2>5. held_by_writers = {}
    BY <2>1 DEF held_by_writers
  <2> QED
    BY <2>3, <2>4, <2>5
<1>6. /\ TotalCapacity[NumLevels] \in Nat /\ IsFiniteSet(Buffered(NumLevels))
      /\ Cardinality(Buffered(NumLevels)) <= TotalCapacity[NumLevels]
  BY BufferedBound
<1> HIDE DEF TotalCapacity, Buffered
<1>7. /\ IsFiniteSet(Buffered(NumLevels) \cup H)
      /\ Cardinality(Buffered(NumLevels) \cup H) <= TotalCapacity[NumLevels] + n
  BY <1>6, UnionBound
<1>8. TotalCapacity[NumLevels] + n \in Nat
  BY <1>6
<1>9. IsFiniteSet(Live) /\ Cardinality(Live) <= TotalCapacity[NumLevels] + n
  BY <1>5, <1>7, <1>8, SubsetBound
<1> QED
  BY <1>6, <1>9, FS_CardinalityType

LEMMA HandsBound ==
  ASSUME TypeOK
  PROVE  /\ Hands \subseteq {active[1], active[2], held}
         /\ active[1] = NoChunk => Hands \subseteq {active[2], held}
<1>1. DOMAIN active = 1 .. 2
  BY DEF TypeOK
<1>2. RangeOf(active) = {active[1], active[2]}
  BY <1>1 DEF RangeOf
<1> QED
  BY <1>2 DEF Hands

(* The three places where the assembler asks the pool for slabs. *)
LEMMA SlabsSuffice ==
  ASSUME TypeOK, AllLevelsFit, ListsEmpty, Captures = {}, PoolSize >= SlabsNeeded
  PROVE  /\ assembler = "idle" /\ active = <<NoChunk, NoChunk>> => SlabsFree(2)
         /\ assembler = "advance" /\ active[1] = NoChunk => SlabsFree(1)
         /\ assembler = "prepare" => \A ids \in NewLevels : SlabsFree(ids)
<1> DEFINE total == TotalCapacity[NumLevels]
<1>1. SlabsNeeded = total + 2 + (NumLevels - 1) + 1 /\ NumLevels \in 1 .. 4 /\ PoolSize \in Nat
  BY Geometry, ParameterAssumption DEF SlabsNeeded
<1>2. total \in Nat
  BY BufferedBound
<1> HIDE DEF total
<1>3. PoolSize >= total + 2 + (NumLevels - 1) + 1
  BY <1>1
<1>4. ASSUME assembler = "idle", active = <<NoChunk, NoChunk>> PROVE SlabsFree(2)
  <2>1. Hands \subseteq {held}
    BY <1>4, HandsBound DEF Hands
  <2>2. IsFiniteSet({held}) /\ Cardinality({held}) <= 1
    BY FewElements
  <2>3. Cardinality(Live) \in Nat /\ Cardinality(Live) <= total + 1
    BY <1>4, <2>1, <2>2, LiveBound DEF total
  <2> QED
    BY <1>1, <1>2, <1>3, <2>3 DEF SlabsFree
<1>5. ASSUME assembler = "advance", active[1] = NoChunk PROVE SlabsFree(1)
  <2>1. Hands \subseteq {active[2], held}
    BY <1>5, HandsBound
  <2>2. IsFiniteSet({active[2], held}) /\ Cardinality({active[2], held}) <= 2
    BY FewElements
  <2>3. Cardinality(Live) \in Nat /\ Cardinality(Live) <= total + 2
    BY <1>5, <2>1, <2>2, LiveBound DEF total
  <2> QED
    BY <1>1, <1>2, <1>3, <2>3 DEF SlabsFree
<1>6. ASSUME assembler = "prepare", NEW ids \in NewLevels PROVE SlabsFree(ids)
  <2>1. ids \in 0 .. NumLevels - 1
    BY DEF NewLevels, Levels
  <2>2. Hands \subseteq {active[1], active[2], held}
    BY HandsBound
  <2>3. IsFiniteSet({active[1], active[2], held}) /\ Cardinality({active[1], active[2], held}) <= 3
    BY FewElements
  <2>4. Cardinality(Live) \in Nat /\ Cardinality(Live) <= total + 3
    BY <1>6, <2>2, <2>3, LiveBound DEF total
  <2> QED
    BY <1>1, <1>2, <1>3, <2>1, <2>4 DEF SlabsFree
<1> QED
  BY <1>4, <1>5, <1>6

LEMMA NextKeepsPool ==
  ASSUME IInv, ReaderHolds, TimeInv, ListsEmpty, PoolSuffices, [Next]_vars
  PROVE  ListsEmpty' /\ PoolSuffices'
<1> USE DEF listVars, assemblerVars
<1>1. TypeOK /\ AllLevelsFit /\ assembler \in AssemblerStates
  BY DEF IInv, TimeInv, TypeOK
<1>2. ListsEmpty'
  <2>1. CASE \/ FirstPacket \/ AdvancingPacket \/ AdvanceActive \/ EndStream \/ EndStreamDone
    BY <2>1 DEF ListsEmpty, NoLists, FirstPacket, AdvancingPacket, AdvanceActive, EndStream,
                EndStreamDone, Fail
  <2>2. CASE PutPrepare
    BY <2>2 DEF ListsEmpty, NoLists, PutPrepare, Fail
  <2>3. CASE PutCommit
    BY <2>3 DEF ListsEmpty, NoLists, PutCommit, Fail
  <2>4. CASE PutFinish
    BY <2>4 DEF ListsEmpty, NoLists, PutFinish, Fail, Emptied
  <2>5. CASE \/ GetTake \/ GetEnd \/ GetWait \/ GetReturn \/ Release \/ FillMask \/ Terminated
             \/ UNCHANGED vars
             \/ \E top_level_only \in BOOLEAN : Find(top_level_only)
             \/ \E pattern \in Captures \cup {Off} : StreamToFiles(pattern)
             \/ \E r \in requests, success \in BOOLEAN : CompleteRequest(r, success)
    <3>1. UNCHANGED assemblerVars
      BY <2>5 DEF GetTake, GetEnd, GetWait, GetReturn, Release, FillMask, Terminated, Find,
                  StreamToFiles, CompleteRequest, UnchangedByReader, Fail, vars
    <3> QED
      BY <3>1 DEF ListsEmpty, NoLists
  <2> QED
    BY <2>1, <2>2, <2>3, <2>4, <2>5 DEF Next, AssemblerSteps, ReaderSteps
<1>3. PoolSuffices'
  <2> SUFFICES ASSUME Captures = {}, PoolSize >= SlabsNeeded, failure' = "memory" PROVE FALSE
    BY DEF PoolSuffices, SlabsNeeded
  <2>1. failure # "memory"
    BY DEF PoolSuffices
  <2>2. /\ assembler = "idle" /\ active = <<NoChunk, NoChunk>> => SlabsFree(2)
        /\ assembler = "advance" /\ active[1] = NoChunk => SlabsFree(1)
        /\ assembler = "prepare" => \A ids \in NewLevels : SlabsFree(ids)
    BY <1>1, SlabsSuffice
  <2>3. ASSUME FirstPacket PROVE FALSE
    <3>1. assembler = "idle" /\ active = <<NoChunk, NoChunk>>
      BY <2>3 DEF FirstPacket, TimeInv, Untouched
    <3> QED
      BY <2>1, <2>2, <2>3, <3>1 DEF FirstPacket
  <2>4. ASSUME AdvanceActive PROVE FALSE
    <3>1. assembler = "advance" /\ active[1] = NoChunk
      BY <2>4 DEF AdvanceActive, TimeInv, ActiveChunks
    <3> QED
      BY <2>1, <2>2, <2>4, <3>1 DEF AdvanceActive
  <2>5. ASSUME PutPrepare PROVE FALSE
    <3>1. assembler = "prepare"
      BY <2>5 DEF PutPrepare
    <3>2. \A push, pop : \A ids \in Levels : Trouble(push, pop, ids) # "memory"
      BY <2>2, <3>1 DEF Trouble
    <3> QED
      BY <2>1, <2>5, <3>2 DEF PutPrepare, Fail
  <2>6. CASE \/ AdvancingPacket \/ EndStream \/ EndStreamDone \/ PutCommit \/ PutFinish
    BY <2>1, <2>6 DEF AdvancingPacket, EndStream, EndStreamDone, PutCommit, PutFinish, Fail
  <2>7. CASE \/ GetTake \/ GetEnd \/ GetWait \/ GetReturn \/ Release \/ FillMask \/ Terminated
             \/ UNCHANGED vars
             \/ \E top_level_only \in BOOLEAN : Find(top_level_only)
             \/ \E pattern \in Captures \cup {Off} : StreamToFiles(pattern)
             \/ \E r \in requests, success \in BOOLEAN : CompleteRequest(r, success)
    BY <2>1, <2>7 DEF GetTake, GetEnd, GetWait, GetReturn, Release, FillMask, Terminated, Find,
                      StreamToFiles, CompleteRequest, Fail, vars
  <2> QED
    BY <2>3, <2>4, <2>5, <2>6, <2>7 DEF Next, AssemblerSteps, ReaderSteps
<1> QED
  BY <1>2, <1>3

(* A memory pool with a slab for every place of the ring buffer, the active  *)
(* chunks, a downsampled chunk per level and the chunk in the hands of the   *)
(* processing thread never runs out, for every geometry: only the requests   *)
(* of a capture can exhaust it.                                              *)
THEOREM PoolIsLargeEnough == Spec => []PoolSuffices
<1>1. Init => ListsEmpty /\ PoolSuffices
  BY DEF Init, ListsEmpty, PoolSuffices
<1>2. IInv /\ ReaderHolds /\ TimeInv /\ ListsEmpty /\ PoolSuffices /\ [Next]_vars
        => (ListsEmpty /\ PoolSuffices)'
  BY NextKeepsPool
<1> QED
  BY <1>1, <1>2, Invariance, TimeInvariance, PTL DEF Spec
=============================================================================
