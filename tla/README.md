# ch_frb_io in TLA+

`ch_frb_io` is the networking and buffering library of the CHIME FRB search: it
receives intensity packets from the L0 correlator, assembles them into chunks,
keeps the chunks in a telescoping ring buffer, hands them to a processing thread
and writes some of them to disk.  Almost all of its difficulty is in the threads
and in the data they pass on: a network thread, an assembler thread, one processing thread per beam, RPC
threads, an RFI thread, one i/o thread per disk, and, on the sending side, a
network thread with a throttle; and packets that are encoded, decoded, stored,
downsampled and written to files by reference code and by a second version in AVX2
instructions.  This directory holds TLA+ models of it, TLC configurations that check them on small instances, and TLAPS proofs that do
so for every value of the constants.

Paths such as `assembled_chunk_ringbuf.cpp:384` are relative to `src/`.

## 1. Inventory

### How the parts interact

    send_chunk()                                          (L1 server)
        |                                        +--> processing thread, per beam
        v                                        |    get_assembled_chunk()
    udp_packet_ringbuf --> network thread ~~~UDP~~~> network thread
      (output stream)      throttle, send            recvfrom, fill a list
                                                     |
                                                     v
                                                  udp_packet_ringbuf
                                                     |
                                                     v
        RPC thread                                assembler thread
          | stream_to_files()                        | put_unassembled_packet()
          v                                          v
        assembled_chunk_ringbuf, one per beam  <-----+
          |  write requests           ^ slabs
          v                           |
        output_device, one per disk   memory_slab_pool
          ^ filled_rfi_mask()
        RFI thread

### Components

**assembled_chunk_ringbuf** (`assembled_chunk_ringbuf.cpp`).
State: two active chunks owned by the assembler thread; per level a ring of
chunks with `ringbuf_pos` and `ringbuf_size`, level `ids` downsampled by
`2^ids`; `downstream_pos`, what the processing thread takes next; `doneflag`,
`final_fpga`, event counts, the pattern of a running capture.
Operations: `put_unassembled_packet()`, the three-part `_put_assembled_chunk()`,
`end_stream()`, `get_assembled_chunk()`, `find_assembled_chunk()`,
`get_ringbuf_size()`, `stream_to_files()`, `chunk_streamed()`.
Hard: the put decides what to push and pop *without* the lock and changes the
buffer *with* it, while the processing thread moves `downstream_pos` and other
threads fill RFI masks; chunks must not leave before their mask is filled; a slow
reader is overtaken.
Correct when: the time axis stays contiguous over all levels, no assertion
fires, the reader sees every chunk that is not counted as dropped, in order, and
the end exactly once; a sleeping reader has nothing to do; the memory pool of the
documented size suffices.

**intensity_network_stream** (`intensity_network_stream.cpp`).
State: the flags of the life cycle under `state_lock`, the list being filled, the
list buffer, subcounts of either thread and cumulative event counts, per-host
packet counts with a history.
Operations: `start_stream()`, `end_stream()`, `join_threads()`, the bodies and
exit codes of the two threads, `stream_to_files()` over the beams, queries of the
packet history, many getters.
Hard: every exit path (cancelled, end-of-stream packet, exceptions of either
thread) must flush, end the list buffer and end every beam in the right order;
two threads add to the same counts; several callers join.
Correct when: each packet received is accounted for exactly once; the beams end
only behind the last packet; every shutdown completes; a rate summed over a window
of the history counts no packet twice (it does, see section 5); captures that are
started together do not mix.

**udp_packet_ringbuf, udp_packet_list** (`udp_packet_ringbuf.cpp`,
`udp_packet_list.cpp`).
State: slots with lists, position, size, `stream_ended`; in a list the packets
and their offsets.
Operations: blocking and non-blocking put, get, end.
Hard: lists are exchanged by swapping pointers and reset outside the lock; the
network thread lets `recvfrom()` write behind the packets of a list, one byte more
than the largest datagram.
Correct when: it is a bounded FIFO, no list has two owners, nobody sleeps in vain,
and no datagram is written beyond the buffer of its list.

**output_device** (`output_device.cpp`).
State: the queues `_write_reqs` and `_awaiting_rfi`, shutdown flags, the file
names recorded in each chunk.
Operations: `enqueue_write_request()`, `filled_rfi_mask()`, `pop_write_request()`,
`io_thread_main()`, `end_stream()`, `join_thread()`.
Hard: one condition variable for three kinds of waiters; masks are filled without
the lock and announced later, in the middle of the i/o thread's search for them too;
requests race the shutdown; writes fail.
Correct when: no accepted request is lost, the disk holds what was reported, the
most urgent request goes first, the shutdown completes.

**output_device_pool** (`output_device_pool.cpp`): finds the device whose name is a
prefix of a file name (no name is a prefix of another one) and forwards to it;
sequential.  Correct when the order of the devices never matters.

**memory_slab_pool** (`memory_slab_pool.cpp`).
State: a stack of slabs, its size, the low-water mark.  Operations: `get_slab()`
with and without wait, `put_slab()`.
Hard: slabs come back from whatever thread drops the last reference to a chunk.
Correct when: no slab is in two places, a return finds room, no waiter is
forgotten, the low-water mark is honest.

**intensity_network_ostream** (`intensity_network_ostream.cpp`).
State: the encoded list, the list buffer, time stamps and counters, the network
thread.  Operations: `make()`, `send_chunk()`, `end_stream()`, the thread.
Hard: `make()` passes the address of a local variable to the new thread; the
throttle catches up after delays; a blocked `send_chunk()` depends on a thread
that may fail.
Correct when: what was accepted is sent, once, in order, within the bandwidth;
nobody waits for ever.

**intensity_packet** (`intensity_packet.cpp`): a header of 24 bytes and five
arrays whose places follow from four counts.  Operations: `encode()`, `decode()`,
and the assembler's view of one beam.
Hard: the counts come from the network; encoder and decoder compute the places
independently; constant or masked blocks have no variance to scale by, and a block of
zeros no scale at all.
Correct when: what is decoded is what was encoded, and never read past the datagram.

**assembled_chunk** (`assembled_chunk.cpp`) and **AVX2 kernels**
(`avx2_kernels.cpp`): seven arrays in one slab, `add_packet()`, `decode()`,
`decode_subset()`, and `downsample()`, which runs three kernels per frequency and
half of the chunk and a fourth one for the RFI mask.
Hard: the AVX2 code moves bytes between lanes and between 128-bit halves, and
leaves out the checks of the reference code; packets are late, repeated or lost;
downsampling decodes, averages and encodes again.
Correct when: both implementations agree, what a chunk decodes to is what was
sent or is masked, and a downsampled sample is the average of two valid ones.

**msgpack files** (`assembled_chunk_msgpack.hpp`): a chunk as a file, compressed
or not, under a temporary name until it is complete.  Correct when every file that
has its name reads back, whatever became of the compression.

**HDF5 files** (`intensity_hdf5_ofile.cpp`, `intensity_hdf5_file.cpp`,
`hdf5.cpp`): three datasets that are extended chunk by chunk and read back with
gaps as masked samples.
Hard: six library calls per chunk, each of which may fail; clocks drift; the reader
reconstructs positions from times.
Correct when: a damaged file is refused or masked, never displaced.

**chlog, misc, lexical_cast, python package, tests**: logging, string conversion
and users of the library.

`PROJECT.json` lists the components with their status and every hazard with the
line where it bites.

## 2. Modules

| module | models | state and actions in the code |
|---|---|---|
| `AssembledChunkRingbuf` | `assembled_chunk_ringbuf` of one beam, its assembler and its processing thread | `FirstPacket`, `AdvancingPacket`, `AdvanceActive`: `put_unassembled_packet()`; `PutPrepare`, `PutCommit`, `PutFinish`: the parts of `_put_assembled_chunk()` before, under and after the lock; `EndStream`, `EndStreamDone`; `GetTake`, `GetEnd`, `GetWait`, `GetReturn`: `get_assembled_chunk()`; `Find`, `StreamToFiles`, `CompleteRequest`: RPC threads and captures; `FillMask`, `Release`: the L1 server |
| `ChunkStream` | abstract: what the processing thread is promised | a queue of consecutive chunks, drops that are counted, an end behind the last one |
| `UdpPacketRingbuf` | `udp_packet_ringbuf` with the identity of the swapped lists | `PutSwap`, `PutRejects`, `PutWaits`, `PutThrows`, `PutReturns`; `GetCall`, `GetSwap`, `GetEnd`, `GetWaits`; `EndStream` |
| `BoundedQueue` | abstract: what the list buffer promises | `Accept`, `Deliver`, `Discard`, `Close` |
| `NetworkStream` | `intensity_network_stream`: both threads, composed with the abstract list buffer and with the part of a beam it sees | `ReceivePacket`, `FlushTimeout`, `CheckCancelled`, `Flush`, `NetworkExit*`; `GetPacketList`, `GoodPacket`, `BadPacket`, `MismatchedPacket`, `AssemblerExit*`, `EndBeam`; `StartStream`, `EndStream`, `JoinThreads` |
| `OutputDevice` | `output_device` with its i/o thread | `Enqueue`, `FillMask`, `FilledRfiMask`; `TakeLock`, `CheckMask`, `PopRequest`, `PopNull`, `PopWaits`: `pop_write_request()`, whose search for masks that have arrived goes through the waiting requests one at a time; `WriteFile`, `LinkFile`, `SkipDuplicate`, `WriteFails`, `EndStream`, `EndStreamLoop`, `JoinThread`, `JoinLoop`, `Joined` |
| `MemorySlabPool` | `memory_slab_pool` and threads that pass chunks on | `Get`, `GetFails`, `GetAgain`, `SleepAgain`, `Put`, `HandOver` |
| `NetworkOstream` | `intensity_network_ostream`, composed with `BoundedQueue` | `CreateThread`, `MakeLoop`, `Dereference`, `Started`; `Encode`, `PutAccepts`, `PutRejects`, `PutThrows`; `GetList`, `Stamp`, `Send`, `SendFails`, `Publish`, `SendEndPacket`, `ThreadReturns`, `ThreadRethrows`; `EndStream`, `Join`, `JoinAgain` |
| `StreamMonitor` | `intensity_network_stream` towards its operator: packet history and captures over several beams | `ReceivePacket`, `ReceiveTimeout`, `NetworkFlushPackets`, `UpdatePacketRates`: the network thread; `GetHistory`, `GetPacketRates`: `_get_history()` and its callers; `StreamToFiles`, `TellAssembler`, `PutChunk`, `CompleteRequest`: captures |
| `OutputDevicePool` | `output_device_pool` | operators: `Prefixes`, `PoolAccepts`, `DeviceOf`, `EnqueueThrows` |
| `FixedPoint` | the float arithmetic, as integers of a fixed resolution | operators |
| `IntensityPacket` | `intensity_packet` | operators: `Encoded`, `Acceptable`, `Decodes`, `Decoded`, `OneBeam` |
| `UdpPacketList` | `udp_packet_list` | operators: `AddPacket`, `AddThrows`, `PacketAt` |
| `AssembledChunk` | `assembled_chunk`: memory layout and reference code | operators: `AddPacket`, `DecodedSample`, `DecodedSubset`, `SlowKernel1` to `3`, `SlowRfiMask` |
| `FastAssembledChunk` | `fast_assembled_chunk`: the AVX2 code, a register as a function from lanes to values | operators: the instructions that move lanes, `FastAddPacket`, `FastDecodedChunk`, `FastKernel1` to `3`, `FastRfiMask` |
| `ChunkFile` | msgpack files | operators: `pack_assembled_chunk`, `unpack_assembled_chunk` |
| `DataPath` | the way of the data of one beam, composed of the six modules above | `Arrive`, `StrayArrives`: the network thread fills a list; `ProcessPackets`: the assembler thread empties it; `FillMask`; `StartDownsample`, `Downsample` (one kernel a step); `WriteTemp`, `Rename`, `ReadFile` |
| `IntensityHdf5File` | `intensity_hdf5_ofile` and `intensity_hdf5_file` on extendable datasets | `Construct`, `AppendTimed`, `AppendUntimed`, `Extend`, `Write`, `CallFails`, `Close`, `Read` |
| `MC*` | constants of instances for TLC | |
| `*_proofs` | theorems and proofs of the module of that name; `BufferPools_proofs` those of `UdpPacketRingbuf` and `MemorySlabPool`, `Captures_proofs` those of `StreamMonitor` and `OutputDevice`, `Downsample_proofs` the one of `DataPath` about `downsample()` | |

Common conventions.  A section under a mutex is one action; a wait on a
condition variable puts the thread into a state (or a set `asleep`) from which
only a broadcast takes it, so that a forgotten notify is visible, except in
`NetworkStream` and inside the queue of `NetworkOstream`, where each flag is set
and announced under its lock and a wait is a guard.  What happens outside a lock
is an action of its own wherever another thread can see the difference.  A
definition marked `mutant` is not used by any specification: it is the plausible
mistake that the property it stands beside is known to catch.

Abstractions.  Time on the sky is counted in chunks; a chunk is its place on the
time axis and its RFI-mask flag; a packet is the verdict the assembler reaches on
it; a batch of packets is a number; a file is a name and the chunk it holds.  The
data modules are where packets and chunks have contents: there an intensity is an
integer (a multiple of a resolution that is 1), quotients are truncated to it, and
the half step of the scale that `ReceivedAsSent` and `DownsampledIsAverage` allow includes that; what is said about masks and
about places does not depend on it.  Arrays are flat and indexed from 0, as in the
code.  An exception that leaves a thread ends the process: the models record it and stop.

## 3. Runs

Each run is one question.  "Distinct states" are rough figures.

| run | instance | question and result |
|---|---|---|
| `arb_masks` | two levels of capacity 2, level 0 with 2 more, RFI masks, alignment 2, a pool of exactly `SlabsNeeded` = 10 slabs, time up to 11 chunks (442 000 states) | no assertion of the code fires (`NoInternalError`), the time axis is contiguous at every moment and `final_fpga` is its end (`TimelineContiguous`), `get_ringbuf_size()` describes what is there (`StatsAgree`), chunks leave only with their mask (`LeavesWithMask`), the pool suffices (`PoolSuffices`), no lost wakeup |
| `arb_stream` | one level, captures with write requests that outlive the buffer (73 000) | refinement of `ChunkStream` (`ImplementsChunkStream`), and the end is seen (`EndIsSeen`) |
| `buffers` | list buffer: 2 slots, 5 batches, both put modes, an end at any moment; slab pool: 3 slabs, 3 threads (180 000) | swaps never share a list (`ListsNotShared`), no stale packets, no lost wakeup, refinement of `BoundedQueue`, both threads learn of the end; no slab in two places and returns find room (`SlabsConserved`), no waiter for a slab forgotten |
| `stream` | 2 beams, 2 packets, buffer of 1 list, the `throw_exception_on_*` flags set or not, end-of-stream packets, 2 threads that end and join | every packet is accounted for; joined means complete; the beams end only behind the last packet; every shutdown completes |
| `stream_early_end` | as `stream` | **violated**: `end_stream()` before every beam has had a packet ends the process |
| `output_device` | 4 requests on 2 chunks and 2 files, one name clash, one repetition, masks at any time or never, 2 threads that shut down (236 000) | no request is lost, the disk is correct, masks are awaited, nothing that could have been written when the lock was taken precedes what is written (`MostUrgentFirst`), whoever is in or behind `end_stream()` gets through `join_thread()` unless some mask is missing for ever (`ShutdownCompletes`) |
| `output_end_stream` | the same | **violated**: `end_stream(true)` returns while the last request is being written |
| `ostream` | 3 chunks of 2 packets, buffer of 1 list, 3 time units per packet, blocking or not, a socket that may fail, 2 closing threads (122 000) | accepted packets are sent in order and completely, within the bandwidth; `make()` outlives the use of its local variable; nobody is stuck |
| `data_path` | 2 beams, 2 coarse frequencies, `nupfreq` 2, two chunks of 512 samples; packets in reverse, with losses, or twice; lists of 8 packets or 800 bytes; a block of zeros; stray datagrams of every size near a right one (1 200) | the AVX2 code does what the reference code does (`FastIsReference`), chunks decode to what was sent (`ReceivedAsSent`), downsampled samples are averages (`DownsampledIsAverage`), nothing is read or written outside its buffer (`NothingOutside`), files read back (`ReadBack`) |
| `hdf5_file` | 4 sets of constructor arguments, 3 chunks of 1 or 2 samples, gaps of 1 and of 98, overlaps, drifts within and beyond the tolerance, negative weights, one call that fails (2 370 000) | files are read as they were appended or refused (`ReadAsAppended`), the steps the reader counts are positions, but for the slip of section 5 (`IndexIsPosition`), undamaged files are readable and their summary is right (`UndamagedReadsBack`) |
| `monitor` | 2 beams, 3 devices, 2 threads that start captures; 2 senders, history of 2 entries (53 000) | captures do not mix (`CaptureIsWhole`), one device per file (`OneDevicePerFile`) |
| `packet_rates` | the same | **violated**: `get_packet_rates()` counts a packet more than once (`EachPacketOnce`) |

### Bounds, and why they are enough

* `arb_masks`: the deepest chain of events is a push into level 0 that pops two
  chunks, which are downsampled into level 1, which pops in turn: that needs the
  buffer to be full on both levels, which is so after `2+2+2*2` chunks; `MaxIchunk = 11`
  leaves two more rounds.  Packets may jump ahead by any distance below the bound,
  so gaps, single advances and both active chunks being flushed all occur.  The
  pool is exactly as large as claimed to be necessary and sufficient.
* `arb_stream`: the reader can be overtaken by up to the whole buffer
  (`AssembledCapacity = 2`, time to 4), and one capture is started, stopped and
  restarted while requests of it are pending.
* `buffers`: 2 slots and 5 batches wrap the ring twice; 2 slots are the
  smallest number for which "oldest" and "next free" differ in a full buffer.
  Of the threads at the slab pool one returns and two compete for what it returns;
  threads that hold every slab and wait for one more do stop for ever (`AllAsleep`), but no
  caller in the repository waits.  The list buffer and the slab pool share no variable, so
  each is explored while the other is at its start (`MCBufferPools`).
* `stream`: a buffer of one list makes drops happen with the second packet; 2
  beams are the least that can be in different states.
* `output_device`: each pair of requests differs in one respect that the code
  looks at (priority, chunk, file, mask).  Two requests wait for masks, of
  different chunks and for the same file, so that the search for masks has something
  behind the first it finds, and a mask may come in the middle of it.
* `ostream`: 3 chunks are one in the thread, one queued, one blocked; 2 packets
  per chunk show the position in a list; the clock may run 6 units freely, two
  packets' time, and beyond that only to end a sleep.
* `data_path`: 512 samples are the smallest chunk the AVX2 mask kernel handles,
  16 samples per packet the only number the AVX2 code accepts, `nupfreq` 2 its
  smallest; 2 coarse frequencies and 2 beams make every stride of a packet differ
  from one, and the second chunk makes the time offset differ from zero.  The sky
  has blocks of noise, of constant value, of zeros, around zero and with outliers, and the
  sender masks whole blocks and single samples, so every branch of the encoder is
  taken.  Four packets and a stray of 31 bytes fill a list to one byte below its
  limit.  A list is handed over early only with the first packet, strays come only
  near the end of a schedule, one in a list.
* `hdf5_file`: three chunks are the least with a gap before and after one; a drift
  of 2 units of 1/200 sample is accepted at each append, one of 3 is refused.  With two
  different gaps there are files of single samples, 2 and 99 apart, that no common step
  fits: the reader refuses them, and `UndamagedReadsBack` names them (`Commensurate`).  Over
  a gap of 98 the reader's rounding slips: with a drift of 2 units in the
  smallest step, samples 0, 1 and 100 get the indices 0, 1 and 99, and `IndexIsPosition` allows
  exactly that.
* `monitor` and `packet_rates`: the history overflows (2 entries, 5 packets).  The packet
  history and the captures share no variable, so each is explored while the other is at
  its start (`OnePart`).

### Fairness

Fairness is per thread, and only for what a thread does on its own: a mutex is
held for a bounded time, and a thread that can run does.

* Weak fairness on the steps of the assembler, processing, network and i/o
  threads and on calls that have begun.  Nobody promises packets, the end of a
  stream, or that an RFI mask is ever filled; liveness properties are conditional
  on those.
* Strong fairness on `CheckCancelled` in `NetworkStream`: the read loop passes
  the check (`intensity_network_stream.cpp:816-833`) again and again, because
  `recvfrom()` has a timeout (`:186-190`), but between two checks it may flush, so
  the check is not continuously enabled.
* In `NetworkOstream` time goes on (`WF` on `Tick`), so that a sleep ends.  A send may fail
  at any time; the liveness property allows for the abort of the process.

## 4. Proofs

TLAPS checks the following for **every** value of the constants that the named
assumptions admit.  Those assumptions are the checks of the constructors
(capacities are positive, at most four levels, ...) and typing.

| module | theorems | argument |
|---|---|---|
| `AssembledChunkRingbuf_proofs` | `TypeCorrect`, `NoWakeupLost`, `DownstreamStaysInBuffer`, `AssertsNeverFire`, `TimeIsCovered`, `MaskedOnLeaving`, `StatsAreTrue`, `PoolIsLargeEnough`, `IsChunkStream` | below |
| `BufferPools_proofs`, list buffer | `TypeCorrect`, `ListsNeverShared`, `NoWakeupLost`, `NoPacketsLeft`, `IsBoundedQueue` | `ListsNotShared` is inductive together with the type invariant: each step swaps two owners of lists.  Slot numbers stay in range because of the `%`.  Free slots, the list the producer fills and the list the consumer brings back are empty.  The refinement: entries of the ring are in different slots, since fewer than `Capacity` positions apart, so a swap changes one batch of the queue and no other |
| `Captures_proofs`, output device | `TypeCorrect`, `RequestsNotLost`, `NoWakeupLost`, `FilesAreRight`, `MaskIsWritten`, `TheMostUrgentComesFirst` | what a chunk records (`filename_set`, `filename_map`) is on disk, and only a chunk with its mask is recorded.  `NoWakeupLost` needs `ShutdownOrder`: `join_thread_called` implies `end_stream_called`, so that the notify of `join_thread()` covers the missing notify of `end_stream(true)`.  `TheMostUrgentComesFirst`: what was `ready` when the lock was taken is, during the search, in the queue or still ahead of it, so nothing of it is missing when the search is over |
| `BufferPools_proofs`, slab pool | `PoolTypeCorrect`, `SlabsAreConserved`, `PoolNoWakeupLost`, `LowWaterMarkIsTrue` | typing, "the pool is a stack" and "each slab in one place" are inductive only together; that a return finds room is the pigeonhole principle |
| `NetworkOstream_proofs` | `TypeCorrect`, `PointerValid`, `BandwidthIsLimited`, `NothingLeftBehind` | the queue is the tail of what was accepted and the rest of the list in hand comes before it; packets are numbered by division by the packets of a list.  `Handshake`: the flag is set behind the dereference.  `StampLateEnough`: from the computation of a time stamp to its publication it is late enough for all packets before it |
| `NetworkStream_proofs` | `TypeCorrect`, `EndIsLast`, `JoinIsComplete`, `NoCountIsLost` | `EndInv` follows the end from thread to thread: a network thread that has returned has flushed; an assembler that exits has seen an ended, empty buffer; who joined has waited for both.  The counts: what is in the list buffer is a concatenation of batches, whose parts a put and a get move as a whole |
| `DataPath_proofs` | `NothingGoesOutside`, `DecodedAsEncoded`, `ArraysDisjoint`, `FileReadsBack`, `FilesReadBack`, `FastDecodes`, `FastAndReferenceAgree`, `ReceivedIsSent` | a list that is not full is below both its limits; a datagram is accepted only with the size its counts give, and the five places add up to it.  The places of the encoder are pairwise different, so the decoder finds each array.  `ArraysDisjoint` follows the layout array by array from the bounds of `align()`.  Files, AVX2 and the received data: below |
| `Downsample_proofs` | `DownsampledIsRight` | below |
| `IntensityHdf5File_proofs` | `FilesReadAsAppended`, `IndicesArePositions`, `UndamagedIsReadBack` | below |
| `Captures_proofs`, packet history and captures | `OneDeviceServes`, `CapturesDoNotMix`, `HistoryIsCumulative` | of two names that a file name starts with, the shorter one starts the longer one.  `WholeInv`: the call that holds `stream_lock` tells the capture that is shown, and beams nobody is about to tell agree with it.  `HistoryInv`: counts are the packets in the log, and packets to come are later than every entry; so an entry counts the packets since the start of the stream, which is what makes the sums of `packet_rates` wrong |

The invariant of `AssembledChunkRingbuf`.  `TypeOK` is not inductive: `PutCommit`
reads entries that `PutPrepare` chose in an earlier step, without the lock.
`IInv` is therefore the conjunction of

* `TypeOK`;
* `Handoff`: what the assembler holds between its steps (push and pop lists,
  the active chunks) fits the state it is in;
* `PopsStillValid`: the entries in `poplist` are still the oldest ones of their
  level when the lock is taken, because only the assembler removes entries. This
  is the fact that justifies step 1 without the lock;
* `DownstreamInBuffer`: `downstream_pos` is between the oldest entry of level 0
  and its end.

`ReaderHolds` (the processing thread holds a chunk when it works on one) and
`NoLostWakeup` are then proved on top of it.

The time axis needs a second invariant, `TimeInv`, on top of `IInv`: `NoInternalError`
and `TimelineContiguous` say nothing about what step 1 of a put will find.  It says

* `Level0`, `ActiveChunks`: position `pos` of level 0 holds the chunk `pos` chunks
  after the first one, and the active chunks are those that come next, in every state
  of the assembler;
* `Prepared`: what step 1 put on its lists is what it would put there again when
  step 2 takes the lock.  The processing thread moves `downstream_pos` and adds masks
  in between, and neither takes anything away from what step 1 looked at;
* `AllLevelsFit`: in each level the chunks follow each other with the binning of the
  level, the newest meets the oldest of the level above, and masks are there below
  level 0.  This is what makes `_check_downsample()` and `_check_invariants()` pass;
* `MarksBehind`, `ReaderInReach`, `EndKnown`: the marks that the asserts compare with
  are behind the next chunk, the reader is at most the capacity behind, and
  `end_stream()` computed the end before its two puts;
* `Untouched`: before the first packet there is nothing.

`AssertsNeverFire`, `TimeIsCovered` and `MaskedOnLeaving` follow from it.  For
`IsChunkStream` the chunks that downstream has not taken are consecutive numbers
(`Ramp`), so that each operation of `ChunkStream` is one lemma about `Ramp`: a put
appends and keeps the last `AssembledCapacity`, a get takes the head.  `StreamInv`
adds that drops are counted by the end of the put.  The refinement assumes that the
null pointer and the end marker are not chunk numbers (in `ParameterAssumption`).

`StatsAreTrue` (`StatsAgree`) needs the order along the whole buffer: `AllLevelsFit` says that
each level ends where the one below begins, so levels further up hold older data (by
induction over the levels), and what `get_ringbuf_size()` reports of level 0 and of the
oldest level is then the newest and the oldest of all.  `PoolIsLargeEnough` counts: at
the three places where the assembler asks the pool for slabs its lists are empty, so the live
chunks are those of the levels, at most their capacity, the active pair, of which one
or both may be missing, and the one that the reader holds.

The files of `DataPath`.  `FileReadsBack` is about the operators: `pack_assembled_chunk()`
writes and `unpack_assembled_chunk()` reads the same items in the same order, and
decompression undoes what compression did, if it did anything.  It holds for chunks of
the right shape (the lengths of the arrays follow from the counts in the header, which
the reader computes anew).  `FilesReadBack` shows that the chunks of the system have it:
`SlotsInv` (packets of the stream name frequencies that exist and places inside one of the
two chunks), `ShapeInv` (every packet and kernel writes within the arrays it is given and
leaves the counts alone), `StageInv` (the kernels walk through the frequencies and
halves that exist) and `FileInv` (what is in a file is what the chunk was packed to,
and no packet or kernel changes a chunk whose file was begun).

`FastDecodes` is the equality of the two versions of `decode()` for every chunk and every
prescale.  It rests on two lemmas about lanes: `Upsample8` has one lane of its register in
each of its own, and the shuffles in front of `decode32` put byte `4 * (j % 8) + j / 8`
where the reference code has byte `j`.

`FastAndReferenceAgree` is all of `FastIsReference`, for `FastGeometry`: the geometries that the
constructor of `fast_assembled_chunk` accepts, and a chunk length that the RFI kernel can
work on.  (The instance of the run is one: 16 samples to a packet, 2 channels, chunks of 512.)
Below it are four lemmas about the kernels, each for arrays of any length and content:
`FastKernel1Is`, `FastKernel2Is` and `FastRfiMaskIs` are equalities, `FastKernel3Is` bounds the
difference of two bytes by 1.  Each says which lane of which register holds the sample, the
pair, the row sum or the bit that the reference code computes, through unpacking, horizontal
sums, blends, permutations and packing.  `TwoRowsAreRows` is the same for `add_packet()`, which
copies two rows of a packet at a time.  Above them `ReferenceInv` goes through the steps of the
system: the chunks of the two classes agree in all fields but the count of packets, those
downsampled also but for the rounding of `data`; what kernel 1 leaves in the workspace are
numbers, and what kernel 2 leaves are positive scales, which kernels 2 and 3 need; the bits of an
RFI mask are 0 or 1.  That the AVX2 code omits the checks `add_packet()` of the reference
code makes is no difference: `SlotInChunk` shows that they hold for every packet of the stream.
Sums are exact in the model; the order in which floats are added is not in it.

`ReceivedIsSent` is `ReceivedAsSent`: it follows a number from the sky to what `decode()` gives.
The sender scales a block by its mean and variance and rounds to a byte (`HeldFrom`): that
costs half a step of the scale, and 0 and 255 mean masked.  `Filled(cs, A)` says that
the pair of chunks holds exactly what the packets of the slots in `A` put there, each block whole
and at its place, and zeros elsewhere; one packet extends `A` by its slot, whichever order they come in
and however often.  `BufInv` is about the way there: each entry of the packet list is
a datagram of the stream, as long as `recvfrom()` had room for it, or a stray one.  The two conditions
the property names, and a test would not think of, come out of the proof: a datagram of which `recvfrom()` cut
off a part is not in `A`, and a channel the sender does not have stays masked.
A block whose valid samples are all 0 has scale 0; `encode()` makes NaN of it, and of a NaN a byte that is undefined.
The constant `NanBytes` is that byte, sample by sample, and the assumption `NanAssumption` admits 0 and 255 only, what the
instructions of x86 can yield.  Both mean masked, so such a block is lost, and the theorem says so (`Silent`).

`DownsampledIsRight` is `DownsampledIsAverage`.  A downsampled sample is rounded once: the kernels average the
decoded numbers, and only kernel 3 makes bytes of them, with the scale and offset that kernel 2 left.
The theorem follows what each kernel leaves for the next one and at which places.  `AverageInv` says: before kernels 2 and 3 the
two scratch arrays `ds_data` and `ds_mask` are the averages and the mask of the half that is worked on; before kernel 3 the scale
in the chunk is the one kernel 3 divides by, though it is read from a third scratch array, `ds_w2`; a half that is complete
`Encodes` its averages; and once kernel 4 has run, the RFI mask is the combined one.  It is inductive because what a kernel stores
for a half is at places of that half only (`HalfApart`), and because kernel 4 touches nothing but the RFI mask.
Both implementations get there: `FastAndReferenceAgree` lets a byte of the two differ only when its level is half-way between
two bytes, and either rounding is within half a step.  What remains is arithmetic: a pair of decoded samples is
the pair kernel 1 adds, and a byte decodes to its level.

The files of `IntensityHdf5File`.  Three datasets grow one after the other, and what is in a file depends
on where a write failed.  `IInv` says that there are three cases: `Aligned`, no write failed half-way,
and each column of each dataset belongs to one place of one appended chunk (`Places`); `Masked`, only the last write of
the three failed, which leaves columns of zeros in the dataset of weights; `Displaced`, the datasets differ in
length for ever, because the next append goes on at the length each of them has, and the reader
refuses them.  `FilesReadAsAppended` follows since times increase along the columns, so that no two of them have
the same logical sample, and since sums are sums over rows whatever stands between (`SumSplits`, `SumOfRows`).

`IndicesArePositions` is about the gaps, of any length.  `append_chunk()` lets the clock drift by 1/100 sample
at each chunk, the reader divides each difference of times by the smallest one and rounds.  The smallest one may
be too small by that much, and the quotient of a gap of `n` samples is then wrong by `n` times that: with what the
reader itself tolerates (`StepsAreNear`), the steps counted differ from the positions passed by at most one in a hundred, and
below a hundred steps they do not differ.

`UndamagedIsReadBack` needs the books of the writer as well, `BooksInv`: what it counts, sums and takes the
maximum of is, at each step, what is in the file and in the chunk being written (`Summed`), as long as
nothing failed (`Clean`) and nothing was refused.

Loops and sums are recursive functions.  The induction theorems of the library that take a predicate
as a parameter cannot be used with the provers at hand.  `NatSetInduction`, about a set of
numbers, can; it follows from the well-foundedness of the natural numbers.  That a recursive
function exists, and what it is at each argument, is shown with it at each use.  (`Live` in
`PoolSuffices` is parenthesised because the proof manager reads `UNION X \cup Y` as
`UNION (X \cup Y)`.)

The assumptions about constants are in the modules.  `DataPathAssumption` has the checks of
the constructor of `assembled_chunk`, that chunk numbers and counts are natural numbers,
that an RFI mask has one bit for each sample of each RFI frequency, that the packet list and the
room given to `recvfrom()` have a size, and the typing of the schedules.  `SkyAssumption` says
that what is sent are numbers: one block of integers for each beam and frequency of a packet.
`SenderAssumption` has what the constructor of `intensity_network_ostream` checks of beams, frequencies and
samples per packet.  `Hdf5Assumption` types the arguments of the HDF5 writer and lets frequencies be multiples of a
unit.  Two more are hypotheses of theorems, not of a module: `FastGeometry` (above) and `Hdf5Values`, that weights
and intensities are numbers.

What stays with TLC:

* liveness and anything about fairness or ENABLED, which the prover does not support:
  `EndIsSeen`, `EndReachesBoth`, `ShutdownCompletes`, `NobodyStuck`;
* the three violated properties of section 5, which are counterexamples.

## 5. Findings and observations

Three runs find what a comment promises violated:

1. `output_device.cpp:250`: `end_stream(true)` waits for empty queues, not for the
   request in the hands of the i/o thread, while `ch_frb_io.hpp:956` promises that
   it "blocks until pending writes are complete".
2. `assembled_chunk_ringbuf.cpp:686`: ending a stream before every beam has had a
   packet throws out of the exit code of the assembler thread and ends the process,
   while `intensity_network_stream.cpp:224-227` and `:738` describe a shutdown that completes.
3. `intensity_network_stream.cpp:944`: `_update_packet_rates()` gets `last_packet_counts` by
   value (`:920`), so that the swap that should remember the entry just made is lost, and every entry of the
   history counts from the start of the stream, with the period since then
   (`HistoryIsCumulative`).  The comment at `:930` speaks of differences to the last
   entry, and `ch_frb_io.hpp:481-484` of samples that can be summed: `get_packet_rates()` over
   a window counts the packets of an entry again in each later one, more
   of them than were ever received (`EachPacketOnce`).

What else was seen while translating; the models do what the code does:

* `assembled_chunk_ringbuf.cpp:244`: the per-level maximum of `get_ringbuf_size()`
  comes from the oldest entry; `ch_frb_io_internals.hpp:327-332` describes the largest
  count of that level.
* `intensity_network_ostream.cpp:329`: `network_thread_joined` is tested but never
  set, so a second `end_stream(true)` joins the thread again.
* `intensity_network_stream.cpp:949`: a full history erases its newest entry (`--end()`) and
  keeps its oldest ones, although `ch_frb_io.hpp:378` sizes it for an hour.  Entries are
  filed under the end of their period, so that the one before `start` ends before it, and does not
  "contain" it (`:435`).  `tv` is not initialised before the first packet.
* `intensity_packet.cpp:133-149`: a block whose valid samples are all 0 has variance and scale 0, and
  `x / scale` is 0/0.  The conversion of NaN to `uint8_t` is undefined; with the bytes that x86 code yields the
  block arrives masked (`ReceivedAsSent`).
* `intensity_network_stream.cpp:856`: `recvfrom()` is given `max_packet_size + 1` bytes so that
  a datagram that is too long can be told; `add_packet()` throws for it (and for an
  empty one), which ends the stream, so that the size check of `decode()` never
  sees one.  Nothing compares `max_packet_size` with the 9000 bytes for which the buffer
  has room: `ReadSize \in 1 .. MaxPacketSize` is an assumption of `NothingOutside`.
* `intensity_packet.cpp:41-49`: `ntsamp = 0` passes the test for a power of two and is
  then a divisor; the model treats such a packet as not accepted.
* `assembled_chunk_ringbuf.cpp:347`: a write that completes late is counted for the
  capture its beam has then.
* `assembled_chunk_ringbuf.cpp:675`: `max_fpga_retrieved` is updated after the unlock; with
  one processing thread per beam nothing can go wrong.
* `output_device.cpp:203`: the loop decrements an iterator that may be `begin()`.
* `intensity_network_stream.cpp:584`: `get_statistics()` writes bytes and chunks in
  swapped order.
* `intensity_network_ostream.cpp:260`: an exception in `_encode_chunk()` or behind it
  leaves the encoded list filled, so that later calls throw too.
* `intensity_hdf5_ofile.cpp:124-135`: a chunk refused for a negative weight has already
  been added to the sums that the summary logs.
* `intensity_hdf5_file.cpp:108`, `:112`: the steps of a gap are rounded in units of the smallest difference of
  times.  If a clock drifts within what `append_chunk()` tolerates, a gap of about a hundred samples can be counted one
  step wrong and still pass the check, so that what follows is displaced (`hdf5_file` reaches this; `IndexIsPosition` bounds it).
* `intensity_hdf5_file.cpp:105-110`: gaps of a million steps are refused; the model leaves that out, so
  `UndamagedReadsBack` is about files without them.
* `assembled_chunk.cpp:219`: `time_begin()` multiplies a time in FPGA counts by
  `fpga_counts_per_sample`.

## 6. What is not modelled

* In `assembled_chunk_ringbuf`: `inject_assembled_chunk()` (its comment calls it
  unsafe), `get_ringbuf_snapshot()`, `print_state()`, the `throw_exception_on_*`
  flags (at their defaults; `NetworkStream` has them), several processing threads
  on one beam.
* In `intensity_network_stream`: `get_statistics()` and `print_state()` (formatting),
  `_fetch_frame0()` (a web request), the `fake_packet_from()` hook of the tests.
* In `output_device_pool`: `end_streams()` and `join_threads()`, which call one device
  after the other.
* In `NetworkStream`, the failure of a beam for want of a slab, in `put_unassembled_packet()` or
  `end_stream()`: it ends the process, and `PoolSuffices` says which pool excludes it.
* Rounding of floats: values are multiples of a resolution.  Not-a-number occurs in `encode()` only,
  as a byte that is not known (`NanBytes`); infinities do not occur.
* `fill_with_copy()` and `randomize()` of `assembled_chunk` (tests), its
  `write_hdf5_file()`, msgpack files of version 1, which are read but no longer written.
* bitshuffle and the HDF5 library (vendored or external: outcomes only), logging,
  string conversion, the python package, the tests and tools.
* Overflow of the ever-growing `int` positions (248 days of lists, 68 years of
  chunks).

## 7. Plan

The model covers the components the library is made of, and each safety invariant that a passing run
checks is a theorem, as is the refinement of the list buffer and of the chunk stream.  What is left is liveness, which the prover does not support, and what section 6 leaves out.
