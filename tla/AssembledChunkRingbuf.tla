------------------------ MODULE AssembledChunkRingbuf ------------------------
(***************************************************************************)
(* assembled_chunk_ringbuf: the per-beam buffer between the assembler      *)
(* thread and the processing ("downstream") thread.                        *)
(*                                                                         *)
(* The assembler thread fills two active chunks; a packet beyond them      *)
(* pushes the older one into level 0 of a telescoping ring buffer, whose   *)
(* level ids holds chunks downsampled by 2^ids.  _put_assembled_chunk()    *)
(* computes what to push and pop WITHOUT the lock (step 1), changes the    *)
(* buffer WITH the lock (step 2), and does its bookkeeping after the       *)
(* unlock; these are the actions PutPrepare, PutCommit and PutFinish.  The *)
(* processing thread runs between them: it takes chunks, waits on the      *)
(* condition variable, fills RFI masks and drops references.               *)
(*                                                                         *)
(* Data is abstracted: time is counted in chunks (fpga_begin and fpga_end  *)
(* are ichunk and ichunk + binning), a chunk is its place on the time      *)
(* axis, and intensities are left out.  The flags throw_exception_on_*     *)
(* have their default value, false.  An exception in the assembler thread  *)
(* always ends the process (assembler_thread_main() rethrows): it is       *)
(* recorded in "failure", after which nothing moves.                       *)
(***************************************************************************)
EXTENDS Integers, Sequences, FiniteSets

CONSTANTS
  AssembledCapacity,    \* ini_params.assembled_ringbuf_capacity
  TelescopingCapacity,  \* ini_params.telescoping_ringbuf_capacity, a sequence
  RfiMask,              \* ini_params.nrfifreq > 0
  ChunkAlign,           \* ini_params.nt_align / nt_per_assembled_chunk, 0 if off
  PoolSize,             \* number of slabs of ini_params.memory_pool
  Captures,             \* names of captures that stream_to_files() may start
  MaxIchunk,            \* bound: largest time stamp of a packet, in chunks
  MaxFirst,             \* bound: largest time stamp of the first packet
  NoChunk,              \* a null chunk pointer
  Off                   \* the empty stream_pattern

(* The checks of the constructor.  A fifth level would need binning 16,    *)
(* which the assembled_chunk constructor refuses.                          *)
ASSUME CapacityAssumption ==
  /\ AssembledCapacity \in Nat \ {0}
  /\ TelescopingCapacity \in Seq(Nat)
  /\ Len(TelescopingCapacity) <= 4
  /\ \A i \in DOMAIN TelescopingCapacity : TelescopingCapacity[i] >= 2
  /\ TelescopingCapacity = <<>> => AssembledCapacity >= 2

ASSUME ParameterAssumption ==
  /\ RfiMask \in BOOLEAN
  /\ ChunkAlign \in Nat
  /\ PoolSize \in Nat
  /\ MaxIchunk \in Nat
  /\ MaxFirst \in Nat
  /\ NoChunk \notin [ichunk : Nat, binning : Nat]
  /\ Off \notin Captures
  /\ NoChunk \notin Nat /\ Off \notin Nat /\ Off # NoChunk  \* ChunkStream's None, EndOfStream

-----------------------------------------------------------------------------
(* Geometry of the telescoping ring buffer.                                *)

NumLevels == IF TelescopingCapacity = <<>> THEN 1 ELSE Len(TelescopingCapacity)
Levels    == 0 .. NumLevels - 1
Bottom    == NumLevels - 1

(* ringbuf_capacity: level 0 also holds what downstream has not taken yet. *)
Capacity(ids) ==
  (IF ids = 0 THEN AssembledCapacity ELSE 0)
    + (IF TelescopingCapacity = <<>> THEN 0 ELSE TelescopingCapacity[ids + 1])

(* 1 << ids, for the levels that exist. *)
Binning(ids) ==
  CASE ids = 0 -> 1 [] ids = 1 -> 2 [] ids = 2 -> 4 [] OTHER -> 8

Chunk == [ichunk : Nat, binning : {1, 2, 4, 8}]
ChunkAt(i, b) == [ichunk |-> i, binning |-> b]
End(chunk) == chunk.ichunk + chunk.binning

(* nt_align rounds the first chunk UP, possibly past the packet itself. *)
FirstIchunk(p) ==
  IF ChunkAlign > 0
  THEN ((p + ChunkAlign - 1) \div ChunkAlign) * ChunkAlign
  ELSE p

-----------------------------------------------------------------------------
VARIABLES
  ringbuf,          \* [Levels -> Seq(Chunk)]: the entries ringbuf_pos .. ringbuf_pos+size-1
  ringbuf_pos,      \* [Levels -> Nat]: absolute position of the oldest entry
  downstream_pos,   \* absolute position in level 0 of the next chunk to deliver
  doneflag,
  final_fpga,
  has_rfi_mask,     \* the chunks whose RFI mask is filled
  active,           \* <<active_chunk0, active_chunk1>>
  first_fpgacount,  \* -1 until the first packet is received
  assembler,        \* where the assembler thread is
  caller,           \* who called _put_assembled_chunk(): a packet, or end_stream()
  pushlist,         \* its locals in _put_assembled_chunk(), valid from step 1
  poplist,
  num_dropped,
  loc_stream,
  loc_final_fpga,   \* its local in end_stream()
  event_counts,
  max_fpga_flushed,
  max_fpga_retrieved,
  consumer,         \* where the processing thread is
  held,             \* the chunk it holds a reference to
  stream_pattern,   \* arguments of the last stream_to_files()
  requests,         \* write requests not completed yet
  chunks_written,   \* stream_chunks_written
  failure           \* the exception that ended the process, or "none"

ringVars    == <<ringbuf, ringbuf_pos, downstream_pos>>
endVars     == <<doneflag, final_fpga>>
activeVars  == <<active, first_fpgacount>>
listVars    == <<pushlist, poplist>>
dropVars    == <<num_dropped, loc_stream>>
countVars   == <<event_counts, max_fpga_flushed>>
readerVars  == <<consumer, held, max_fpga_retrieved>>
captureVars == <<stream_pattern, requests, chunks_written>>
outsideVars == <<readerVars, captureVars>>
assemblerVars == <<activeVars, assembler, caller, listVars, dropVars, loc_final_fpga, countVars>>
vars == <<ringVars, endVars, has_rfi_mask, assemblerVars, outsideVars, failure>>

AssemblerStates == {"idle", "prepare", "commit", "finish", "advance", "done", "exited"}
Callers == {"packet", "end0", "end1"}
ConsumerStates == {"out", "in", "waiting", "took", "processing", "ended"}
Failures == {"none", "after_end", "rfimask", "memory", "downsample", "empty_pointers",
             "check_invariants", "assert_flushed", "assert_retrieved"}
Events == {"assembled_chunk_queued", "assembled_chunk_dropped"}

-----------------------------------------------------------------------------
(* Moving downstream_pos up to what the buffer still holds. *)
NoClamp(x, y)  == x                         \* mutant: slow reader overlooked
Larger(x, y)   == IF x >= y THEN x ELSE y

RangeOf(s) == {s[i] : i \in DOMAIN s}

Size(ids) == Len(ringbuf[ids])
OverFull(ids) == Size(ids) > Capacity(ids)  \* mutant: off by one
Full(ids) == Size(ids) >= Capacity(ids)
RingEnd   == ringbuf_pos[0] + Size(0)

(* ringbuf_entry(0, ipos): positions are absolute, entries are not. *)
OldestEntry(ipos) == ringbuf[0][1]          \* mutant: position ignored
Entry(ipos) == ringbuf[0][ipos - ringbuf_pos[0] + 1]

(* The chunks somebody holds a pointer to: each occupies a memory slab,    *)
(* which the destructor returns when the last reference goes away.         *)
Live ==
  (UNION {RangeOf(ringbuf[ids]) \cup RangeOf(pushlist[ids])
            \cup RangeOf(poplist[ids]) : ids \in Levels})
    \cup ((RangeOf(active) \cup {held}) \ {NoChunk})
    \cup {r.chunk : r \in requests}

SlabsFree(n) == Cardinality(Live) + n <= PoolSize

(* Chunks of level 0 that downstream has not taken yet, oldest first. *)
Pending == SubSeq(ringbuf[0], downstream_pos - ringbuf_pos[0] + 1, Size(0))

NoLists == [ids \in Levels |-> <<>>]

(* Going out of scope drops the references. *)
Leaked(list)  == list                       \* mutant: references kept
Emptied(list) == NoLists

(* pthread_cond_broadcast(&cond_assembled_chunks_added) *)
NotWoken == consumer                        \* mutant: no broadcast
Woken    == IF consumer = "waiting" THEN "in" ELSE consumer

Running == failure = "none"

Init ==
  /\ ringbuf = [ids \in Levels |-> <<>>]
  /\ ringbuf_pos = [ids \in Levels |-> 0]
  /\ downstream_pos = 0
  /\ doneflag = FALSE
  /\ final_fpga = 0
  /\ has_rfi_mask = {}
  /\ active = <<NoChunk, NoChunk>>
  /\ first_fpgacount = -1
  /\ assembler = "idle"
  /\ caller = "packet"
  /\ pushlist = NoLists
  /\ poplist = NoLists
  /\ num_dropped = 0
  /\ loc_stream = Off
  /\ loc_final_fpga = 0
  /\ event_counts = [e \in Events |-> 0]
  /\ max_fpga_flushed = 0
  /\ max_fpga_retrieved = 0
  /\ consumer = "out"
  /\ held = NoChunk
  /\ stream_pattern = Off
  /\ requests = {}
  /\ chunks_written = 0
  /\ failure = "none"

Fail(why) ==
  /\ failure' = why
  /\ UNCHANGED <<ringVars, endVars, has_rfi_mask, assemblerVars, outsideVars>>

-----------------------------------------------------------------------------
(* The assembler thread: put_unassembled_packet().  A packet inside the    *)
(* two active chunks (a hit) and one before them (a miss) leave everything *)
(* modelled here alone; module NetworkStream counts them.                  *)

ActiveFrom(ichunk) == <<ChunkAt(ichunk, 1), ChunkAt(ichunk + 1, 1)>>

(* FirstIchunk(p) >= p, so the first packet never advances the window. *)
FirstPacket ==
  /\ Running
  /\ assembler = "idle"
  /\ first_fpgacount = -1
  /\ \E p \in 0 .. MaxFirst :
       IF ~SlabsFree(2) THEN Fail("memory")
       ELSE /\ active' = ActiveFrom(FirstIchunk(p))
            /\ first_fpgacount' = FirstIchunk(p)
            /\ UNCHANGED <<ringVars, endVars, has_rfi_mask, assembler, caller, listVars,
                           dropVars, loc_final_fpga, countVars, outsideVars, failure>>

(* Any packet past the window, however far, advances it by one chunk. *)
AdvancingPacket ==
  /\ Running
  /\ assembler = "idle"
  /\ first_fpgacount # -1
  /\ \E p \in 0 .. MaxIchunk : p >= active[1].ichunk + 2
  /\ caller' = "packet"
  /\ assembler' = "prepare"
  /\ UNCHANGED <<ringVars, endVars, has_rfi_mask, activeVars, listVars, dropVars,
                 loc_final_fpga, countVars, outsideVars, failure>>

(* After the put: active_chunk1 becomes active_chunk0, a new chunk follows it. *)
AdvanceActive ==
  /\ Running
  /\ assembler = "advance"
  /\ IF ~SlabsFree(1) THEN Fail("memory")
     ELSE /\ active' = ActiveFrom(active[2].ichunk)
          /\ assembler' = "idle"
          /\ UNCHANGED <<ringVars, endVars, has_rfi_mask, first_fpgacount, caller, listVars,
                         dropVars, loc_final_fpga, countVars, outsideVars, failure>>

-----------------------------------------------------------------------------
(* The assembler thread: _put_assembled_chunk().                           *)

(* The loop of step 1 reaches level ids when every level above is full. *)
Reached(ids) == \A j \in 0 .. ids - 1 : Full(j)

(* What step 1 pops from a level: two chunks to downsample, one at the bottom. *)
PopCount(ids) ==
  IF ~(Reached(ids) /\ Full(ids)) THEN 0 ELSE IF ids = Bottom THEN 1 ELSE 2

Pops(ids) == SubSeq(ringbuf[ids], 1, PopCount(ids))

Pushes(ids, chunk) ==
  CASE ids = 0 -> <<chunk>>
    [] ids > 0 /\ Reached(ids) -> <<ChunkAt(ringbuf[ids - 1][1].ichunk, Binning(ids))>>
    [] OTHER -> <<>>

(* _check_downsample(): its other checks compare parameters that all chunks *)
(* of a beam share, or repeat MayLeave.                                     *)
Downsamples(src1, src2, dst) ==
  /\ src1.binning = src2.binning
  /\ src2.ichunk = End(src1)
  /\ dst.binning = 2 * src1.binning
  /\ dst.ichunk = src1.ichunk

(* With RFI masks, only a chunk whose mask is filled may leave its level. *)
OldestMayLeave(popped) ==                   \* mutant: second chunk not checked
  RfiMask /\ popped # <<>> => popped[1] \in has_rfi_mask
MayLeave(popped) ==
  RfiMask => RangeOf(popped) \subseteq has_rfi_mask

NewLevels == {ids \in Levels \ {0} : Reached(ids)}

(* The exception that iteration ids of the loop ends with, or "none": the   *)
(* masks of what it pops, the slab of the chunk for the next level, and     *)
(* the downsampling into it, in this order.                                 *)
Trouble(push, pop, ids) ==
  IF ~MayLeave(pop[ids]) THEN "rfimask"
  ELSE IF ids + 1 \notin NewLevels THEN "none"
  ELSE IF ~SlabsFree(ids + 1) THEN "memory"
  ELSE IF ~Downsamples(pop[ids][1], pop[ids][2], push[ids + 1][1]) THEN "downsample"
  ELSE "none"

Putting == IF caller = "end1" THEN 2 ELSE 1

(* Step 1, without the lock. *)
PutPrepare ==
  /\ Running
  /\ assembler = "prepare"
  /\ LET chunk == active[Putting]
         push  == [ids \in Levels |-> Pushes(ids, chunk)]
         pop   == [ids \in Levels |-> Pops(ids)]
     IN \/ \E ids \in Levels :
             /\ \A j \in 0 .. ids - 1 : Trouble(push, pop, j) = "none"
             /\ Trouble(push, pop, ids) # "none"
             /\ Fail(Trouble(push, pop, ids))
        \/ /\ \A ids \in Levels : Trouble(push, pop, ids) = "none"
           /\ pushlist' = push
           /\ poplist' = pop
           /\ has_rfi_mask' = has_rfi_mask \cup
                (IF RfiMask THEN {push[ids][1] : ids \in NewLevels} ELSE {})
           /\ active' = [active EXCEPT ![Putting] = NoChunk]
           /\ assembler' = "commit"
           /\ UNCHANGED <<ringVars, endVars, first_fpgacount, caller, dropVars,
                          loc_final_fpga, countVars, outsideVars, failure>>

(* Step 2, with the lock: move the entries, drop what downstream is too    *)
(* slow for, copy the capture settings, wake the processing thread.        *)
PutCommit ==
  /\ Running
  /\ assembler = "commit"
  /\ IF doneflag THEN Fail("after_end")
     ELSE /\ ringbuf' = [ids \in Levels |->
                 SubSeq(ringbuf[ids], Len(poplist[ids]) + 1, Size(ids)) \o pushlist[ids]]
          /\ ringbuf_pos' = [ids \in Levels |-> ringbuf_pos[ids] + Len(poplist[ids])]
          /\ LET max_allowed == ringbuf_pos'[0] + Len(ringbuf'[0]) - AssembledCapacity
             IN /\ downstream_pos' = Larger(downstream_pos, max_allowed)
                /\ num_dropped' = Larger(0, max_allowed - downstream_pos)
          /\ loc_stream' = stream_pattern
          /\ consumer' = Woken
          /\ assembler' = "finish"
          /\ UNCHANGED <<endVars, has_rfi_mask, activeVars, caller, listVars, loc_final_fpga,
                         countVars, held, max_fpga_retrieved, captureVars, failure>>

(* _check_invariants(), as the code runs it after every put. *)
NextChunk(ids, i) ==   \* the chunk that must follow entry i of level ids
  IF i < Size(ids) THEN ringbuf[ids][i + 1] ELSE ringbuf[ids - 1][1]

CheckInvariants ==
  /\ \A ids \in Levels :
       /\ Capacity(ids) >= 2
       /\ Size(ids) <= Capacity(ids)
       /\ \A i \in 1 .. Size(ids) :
            LET chunk == ringbuf[ids][i]
            IN /\ chunk.binning = Binning(ids)
               /\ RfiMask /\ ids > 0 => chunk \in has_rfi_mask
               /\ i = Size(ids) /\ ids > 0 => Size(ids - 1) > 0
               /\ i < Size(ids) \/ ids > 0 => NextChunk(ids, i).ichunk = End(chunk)
  /\ downstream_pos \in ringbuf_pos[0] .. RingEnd
  /\ downstream_pos >= RingEnd - AssembledCapacity

(* After the unlock: hand the new chunk to the capture, check, count.      *)
(* poplist goes out of scope, which may return slabs to the pool.          *)
PutFinish ==
  /\ Running
  /\ assembler = "finish"
  /\ LET chunk == pushlist[0][1]
     IN IF ~CheckInvariants THEN Fail("check_invariants")
        ELSE IF ~(End(chunk) > max_fpga_flushed) THEN Fail("assert_flushed")
        ELSE /\ requests' = requests \cup
                  (IF loc_stream = Off THEN {}
                   ELSE {[chunk |-> chunk, capture |-> loc_stream]})
             /\ event_counts' = [event_counts EXCEPT
                                   !["assembled_chunk_queued"] = @ + 1,
                                   !["assembled_chunk_dropped"] = @ + num_dropped]
             /\ max_fpga_flushed' = End(chunk)
             /\ pushlist' = Emptied(pushlist)
             /\ poplist' = Emptied(poplist)
             /\ num_dropped' = 0
             /\ loc_stream' = Off
             /\ assembler' = CASE caller = "packet" -> "advance"
                               [] caller = "end0"   -> "prepare"
                               [] caller = "end1"   -> "done"
             /\ caller' = IF caller = "end0" THEN "end1" ELSE caller
             /\ UNCHANGED <<ringVars, endVars, has_rfi_mask, activeVars, loc_final_fpga,
                            readerVars, stream_pattern, chunks_written, failure>>

-----------------------------------------------------------------------------
(* The assembler thread: end_stream(), called once, when the thread exits. *)

ShortFinalFpga == active[1].ichunk + 1      \* mutant: active_chunk1 forgotten
FinalFpga == active[1].ichunk + 2

EndStream ==
  /\ Running
  /\ assembler = "idle"
  /\ IF NoChunk \in RangeOf(active) THEN Fail("empty_pointers")
     ELSE /\ loc_final_fpga' = FinalFpga
          /\ caller' = "end0"
          /\ assembler' = "prepare"
          /\ UNCHANGED <<ringVars, endVars, has_rfi_mask, activeVars, listVars, dropVars,
                         countVars, outsideVars, failure>>

(* Both chunks are in the ring buffer: set doneflag under the lock. *)
EndStreamDone ==
  /\ Running
  /\ assembler = "done"
  /\ doneflag' = TRUE
  /\ final_fpga' = loc_final_fpga
  /\ consumer' = Woken
  /\ assembler' = "exited"
  /\ UNCHANGED <<ringVars, has_rfi_mask, activeVars, caller, listVars, dropVars,
                 loc_final_fpga, countVars, held, max_fpga_retrieved, captureVars, failure>>

-----------------------------------------------------------------------------
(* The processing thread: get_assembled_chunk(), find_assembled_chunk(),   *)
(* and what it does with a chunk.  A call with wait = FALSE that finds     *)
(* nothing changes nothing and is not an action.                           *)

UnchangedByReader ==
  UNCHANGED <<ringbuf, ringbuf_pos, endVars, assemblerVars, captureVars>>

InGet == Running /\ consumer \in {"out", "in"}

GetTake ==
  /\ InGet
  /\ downstream_pos < RingEnd
  /\ held' = Entry(downstream_pos)
  /\ downstream_pos' = downstream_pos + 1
  /\ consumer' = "took"
  /\ UnchangedByReader
  /\ UNCHANGED <<has_rfi_mask, max_fpga_retrieved, failure>>

GetEnd ==
  /\ InGet
  /\ ~(downstream_pos < RingEnd)
  /\ doneflag
  /\ consumer' = "ended"
  /\ UnchangedByReader
  /\ UNCHANGED <<has_rfi_mask, downstream_pos, held, max_fpga_retrieved, failure>>

GetWait ==
  /\ InGet
  /\ ~(downstream_pos < RingEnd)
  /\ ~doneflag
  /\ consumer' = "waiting"
  /\ UnchangedByReader
  /\ UNCHANGED <<has_rfi_mask, downstream_pos, held, max_fpga_retrieved, failure>>

(* After the unlock. *)
GetReturn ==
  /\ Running
  /\ consumer = "took"
  /\ IF ~(End(held) > max_fpga_retrieved) THEN Fail("assert_retrieved")
     ELSE /\ max_fpga_retrieved' = End(held)
          /\ consumer' = "processing"
          /\ UnchangedByReader
          /\ UNCHANGED <<has_rfi_mask, downstream_pos, held, failure>>

(* find_assembled_chunk(fpga, top_level_only): the caller looks up a chunk  *)
(* whose mask it has still to fill.  A chunk that is not found is an        *)
(* exception in the caller, which changes nothing here.                     *)
Find(top_level_only) ==
  /\ Running
  /\ consumer = "out"
  /\ \E ids \in (IF top_level_only THEN {0} ELSE Levels) :
       \E chunk \in RangeOf(ringbuf[ids]) \ has_rfi_mask : held' = chunk
  /\ consumer' = "processing"
  /\ UnchangedByReader
  /\ UNCHANGED <<has_rfi_mask, downstream_pos, max_fpga_retrieved, failure>>

FillMask ==
  /\ Running
  /\ RfiMask
  /\ consumer = "processing"
  /\ held \notin has_rfi_mask
  /\ has_rfi_mask' = has_rfi_mask \cup {held}
  /\ UnchangedByReader
  /\ UNCHANGED <<downstream_pos, readerVars, failure>>

(* The last reference may go: has_rfi_mask only matters for live chunks. *)
Release ==
  /\ Running
  /\ consumer = "processing"
  /\ consumer' = "out"
  /\ held' = NoChunk
  /\ UnchangedByReader
  /\ UNCHANGED <<has_rfi_mask, downstream_pos, max_fpga_retrieved, failure>>

-----------------------------------------------------------------------------
(* Captures to disk: the RPC thread starts and stops them, the output      *)
(* device completes their requests (status_changed() calls back            *)
(* chunk_streamed() on success, whichever capture is current by then).     *)

StreamToFiles(pattern) ==
  /\ Running
  /\ stream_pattern' = pattern
  /\ chunks_written' = 0
  /\ UNCHANGED <<ringVars, endVars, has_rfi_mask, assemblerVars, readerVars, requests, failure>>

CompleteRequest(r, success) ==
  /\ Running
  /\ requests' = requests \ {r}
  /\ chunks_written' = chunks_written + (IF success THEN 1 ELSE 0)
  /\ UNCHANGED <<ringVars, endVars, has_rfi_mask, assemblerVars, readerVars, stream_pattern,
                 failure>>

-----------------------------------------------------------------------------
(* The end: the assembler has exited and the processing thread has seen    *)
(* the end of the stream, or an exception ended the process.               *)
Terminated ==
  /\ ~Running \/ (assembler = "exited" /\ consumer = "ended" /\ requests = {})
  /\ UNCHANGED vars

AssemblerSteps == PutPrepare \/ PutCommit \/ PutFinish \/ AdvanceActive \/ EndStreamDone
ReaderSteps == GetTake \/ GetEnd \/ GetWait \/ GetReturn \/ Release

Next ==
  \/ FirstPacket
  \/ AdvancingPacket
  \/ EndStream
  \/ AssemblerSteps
  \/ ReaderSteps
  \/ FillMask
  \/ \E top_level_only \in BOOLEAN : RfiMask /\ Find(top_level_only)
  \/ \E pattern \in Captures \cup {Off} : Captures # {} /\ StreamToFiles(pattern)
  \/ \E r \in requests, success \in BOOLEAN : CompleteRequest(r, success)
  \/ Terminated

Spec == Init /\ [][Next]_vars

(* Threads that can run do run: the assembler finishes the call it is in,  *)
(* the processing thread keeps calling get_assembled_chunk(), and the      *)
(* output device completes its requests.  Nobody promises more packets,    *)
(* the end of the stream, or that a mask is ever filled.                   *)
Fairness ==
  /\ WF_vars(AssemblerSteps)
  /\ WF_vars(ReaderSteps)

FairSpec == Spec /\ Fairness
-----------------------------------------------------------------------------
(* The read-only calls of the RPC thread, under the lock.                  *)

Entries == UNION {RangeOf(ringbuf[ids]) : ids \in Levels}

NonEmptyLevels == {ids \in Levels : Size(ids) > 0}

(* get_ringbuf_size(): *ringbuf_fpga_min, max, next of the whole buffer ... *)
FpgaMin ==
  IF NonEmptyLevels = {} THEN 0
  ELSE LET lev == CHOOSE l \in NonEmptyLevels : \A k \in NonEmptyLevels : k <= l
       IN ringbuf[lev][1].ichunk

OldestFpgaEnd ==                            \* mutant: oldest entry of the level
  LET lev == CHOOSE l \in NonEmptyLevels : \A k \in NonEmptyLevels : l <= k
  IN IF NonEmptyLevels = {} THEN 0 ELSE End(ringbuf[lev][1])
FpgaMax ==
  IF NonEmptyLevels = {} THEN 0
  ELSE LET lev == CHOOSE l \in NonEmptyLevels : \A k \in NonEmptyLevels : l <= k
       IN End(ringbuf[lev][Size(lev)])

FpgaNext ==
  IF Pending # <<>> THEN Pending[1].ichunk
  ELSE IF Size(0) > 0 THEN End(ringbuf[0][Size(0)]) ELSE 0

NReady == RingEnd - downstream_pos

(* ... and *ringbuf_fpga_max of one level, which the code numbers from 1:   *)
(* the end of its oldest entry, where ch_frb_io_internals.hpp:327-332       *)
(* describes the largest FPGA count available in that level.                *)
LevelFpgaMax(level) ==
  IF Size(level - 1) > 0 THEN End(ringbuf[level - 1][1]) ELSE 0

-----------------------------------------------------------------------------
(* Properties.                                                             *)

MaybeChunk == Chunk \cup {NoChunk}

(* Every variable has its type. *)
TypeOK ==
  /\ ringbuf \in [Levels -> Seq(Chunk)]
  /\ ringbuf_pos \in [Levels -> Nat]
  /\ downstream_pos \in Nat
  /\ doneflag \in BOOLEAN
  /\ final_fpga \in Nat
  /\ has_rfi_mask \subseteq Chunk
  /\ active \in [1 .. 2 -> MaybeChunk]
  /\ first_fpgacount \in Nat \cup {-1}
  /\ assembler \in AssemblerStates
  /\ caller \in Callers
  /\ pushlist \in [Levels -> Seq(Chunk)]
  /\ poplist \in [Levels -> Seq(Chunk)]
  /\ num_dropped \in Nat
  /\ loc_stream \in Captures \cup {Off}
  /\ loc_final_fpga \in Nat
  /\ event_counts \in [Events -> Nat]
  /\ max_fpga_flushed \in Nat
  /\ max_fpga_retrieved \in Nat
  /\ consumer \in ConsumerStates
  /\ held \in MaybeChunk
  /\ stream_pattern \in Captures \cup {Off}
  /\ requests \subseteq [chunk : Chunk, capture : Captures]
  /\ chunks_written \in Nat
  /\ failure \in Failures

(* _check_invariants() and the asserts of the put and get paths never fire,   *)
(* and no put comes after doneflag, in any interleaving of the two threads:   *)
(* the puts read the buffer without the lock while the processing thread runs. *)
NoInternalError ==
  failure \notin {"after_end", "downsample", "check_invariants",
                  "assert_flushed", "assert_retrieved"}

(* What step 1 of a put has prepared fits behind what step 2 will leave.      *)
PutFits ==
  assembler = "commit" =>
    \A ids \in Levels : pushlist[ids] # <<>> =>
      /\ Size(ids) > Len(poplist[ids]) =>
           pushlist[ids][1].ichunk = End(ringbuf[ids][Size(ids)])
      /\ pushlist[ids][1].binning = Binning(ids)

(* The active chunks follow the newest chunk, in the buffer or being put.     *)
Newest == IF assembler = "commit" THEN pushlist[0][1] ELSE ringbuf[0][Size(0)]

Successor(chunk, n) == chunk # NoChunk => chunk.ichunk = n

ActiveFollows ==
  Size(0) > 0 =>
    IF active[1] # NoChunk
    THEN Successor(active[1], End(Newest)) /\ Successor(active[2], End(Newest) + 1)
    ELSE Successor(active[2], End(Newest))

(* When the stream has ended, final_fpga, which find_assembled_chunk() uses   *)
(* to tell "past the end" from "no longer here", is the end of the last chunk *)
(* in the buffer, and no chunk is left in the hands of the assembler.         *)
FinalFpgaIsEnd ==
  doneflag => /\ Size(0) > 0
              /\ final_fpga = End(ringbuf[0][Size(0)])
              /\ RangeOf(active) = {NoChunk}

(* The chunks of a beam cover the time axis without gap or overlap, from the  *)
(* oldest entry of the deepest level through the chunk being put to the       *)
(* active chunks, at every moment and not only where the code checks it; and  *)
(* the end that the ring buffer announces is the end of what it covers.       *)
TimelineContiguous ==
  CheckInvariants /\ PutFits /\ ActiveFollows /\ FinalFpgaIsEnd

(* No chunk leaves the telescoping ring buffer, or is downsampled, before its *)
(* RFI mask is filled (the comment in _put_assembled_chunk(): the references  *)
(* in output_device::_awaiting_rfi would otherwise never be released).        *)
LeavesWithMask ==
  [][RfiMask => \A chunk \in Entries \ Entries' : chunk \in has_rfi_mask]_vars

(* A pool with a slab for every entry of the ring buffer, the two active      *)
(* chunks, one chunk per downsampling in flight and the chunk in the hands of *)
(* the processing thread is large enough: "too much memory pressure" needs    *)
(* references that outlive the buffer (the write requests of a capture).      *)
TotalCapacity[n \in 0 .. NumLevels] ==
  IF n = 0 THEN 0 ELSE Capacity(n - 1) + TotalCapacity[n - 1]

SlabsNeeded == TotalCapacity[NumLevels] + 2 + (NumLevels - 1) + 1

PoolSuffices ==
  Captures = {} /\ PoolSize >= SlabsNeeded => failure # "memory"

(* A processing thread asleep in get_assembled_chunk() has nothing to read    *)
(* and the stream has not ended: no wakeup is lost, by a put or by the end.   *)
NoLostWakeup ==
  consumer = "waiting" => downstream_pos = RingEnd /\ ~doneflag

(* get_ringbuf_size() for the whole buffer: fpga_min and fpga_max bound every *)
(* chunk in it and are attained; fpga_next and n_ready describe what the next *)
(* calls of get_assembled_chunk() will return.                                *)
StatsAgree ==
  /\ Entries # {} =>
       /\ FpgaMin \in {c.ichunk : c \in Entries}
       /\ FpgaMax \in {End(c) : c \in Entries}
       /\ \A c \in Entries : FpgaMin <= c.ichunk /\ End(c) <= FpgaMax
  /\ NReady = Len(Pending)
  /\ Size(0) > 0 => FpgaNext + NReady = FpgaMax

(* What the processing thread sees is a ChunkStream.                          *)
IchunksOf(s) == [i \in DOMAIN s |-> s[i].ichunk]

Stream == INSTANCE ChunkStream WITH
  First <- {FirstIchunk(p) : p \in 0 .. MaxFirst},
  Bufsize <- AssembledCapacity,
  None <- NoChunk,
  EndOfStream <- Off,
  queue <- IchunksOf(Pending),
  next <- IF Size(0) = 0 THEN NoChunk ELSE End(ringbuf[0][Size(0)]),
  dropped <- event_counts["assembled_chunk_dropped"] + num_dropped,
  closed <- doneflag,
  out <- IF consumer = "took" THEN held.ichunk
         ELSE IF consumer = "ended" THEN Off ELSE NoChunk

ImplementsChunkStream == Stream!Spec

(* Once the stream has ended, the processing thread is told so: it reads what *)
(* is left and gets the null pointer (unless an exception ends the process).  *)
EndIsSeen == doneflag ~> (consumer = "ended" \/ ~Running)
=============================================================================
