---------------------------- MODULE StreamMonitor ----------------------------
(***************************************************************************)
(* What an intensity_network_stream tells the operator of the telescope    *)
(* and is told by him: the packet counts per sender and their history,     *)
(* which the network thread keeps, and the captures of stream_to_files(),  *)
(* which other threads start while the assembler thread puts chunks.       *)
(*                                                                         *)
(* Time is counted in one unit; the clock advances between two packets.    *)
(* A packet_counts object whose tv was never assigned holds any of the     *)
(* StaleTimes: its constructor leaves tv uninitialised.  The conditions of *)
(* the network thread under which it flushes belong to NetworkStream: here *)
(* it may flush at any time.  fake_packet_from() is for tests only.        *)
(***************************************************************************)
EXTENDS Integers, Sequences, FiniteSets, FiniteSetsExt, Functions, OutputDevicePool

CONSTANTS
  Senders,      \* the hosts that send packets
  StartTime,    \* tv_ini
  StaleTimes,   \* what an uninitialised tv may hold
  Period,       \* ini_params.packet_count_period_usec
  MaxHistory,   \* ini_params.max_packet_history_size
  Beams,        \* ini_params.beam_ids, in the order of the assemblers
  HasRfiMask,   \* nrfifreq > 0
  DeviceNames,  \* the names given to the output_device_pool
  Patterns,     \* file name patterns of captures
  Callers,      \* threads that call stream_to_files()
  MaxTime,      \* bound: the last time a packet arrives
  MaxChunks     \* bound: chunks put per beam

ASSUME MonitorAssumption ==
  /\ {StartTime, Period, MaxTime, MaxChunks} \subseteq Nat
  /\ StartTime > 0
  /\ MaxHistory \in Nat \ {0}
  /\ StaleTimes \subseteq Int
  /\ HasRfiMask \in BOOLEAN
  /\ Beams \in Seq(Range(Beams))
  /\ \A i \in DOMAIN DeviceNames : i \in Nat \ {NoDevice} /\ Len(DeviceNames[i]) \in Nat
  /\ PoolAccepts(DeviceNames)
  /\ <<>> \notin Patterns

VARIABLES
  \* the network thread
  now,                   \* the clock, when the thread last looked at it
  nthread_counts, nthread_tv,     \* network_thread_perhost_packets
  perhost_counts, perhost_tv,     \* perhost_packets
  packet_history,        \* its entries: [tv, period, counts]
  history_timestamp,     \* packet_history_timestamp
  log,                   \* auxiliary: the packets received, [tv, sender]
  \* captures
  capture,               \* stream_filename_pattern and stream_beam_ids
  call,                  \* [Callers -> ...]: the beams a call has yet to tell
  stream_pattern,        \* [beam -> pattern of its assembler]
  stream_chunks_written, \* [beam -> count of its assembler]
  nchunks,               \* [beam -> chunks put]
  requests,              \* write requests enqueued and not finished
  crashed                \* an exception left the assembler thread

historyVars == <<now, nthread_counts, nthread_tv, perhost_counts, perhost_tv, packet_history,
                 history_timestamp, log>>
captureVars == <<capture, call, stream_pattern, stream_chunks_written, nchunks, requests, crashed>>
monitorVars == <<historyVars, captureVars>>

BeamSet == Range(Beams)
Off == <<>>   \* stream_pattern when the beam is not captured: the empty string
NoCapture == [pattern |-> Off, beams |-> {}, need_rfi |-> FALSE]
Zero == [s \in Senders |-> 0]

MonitorInit ==
  /\ now = StartTime
  /\ nthread_counts = Zero /\ nthread_tv \in StaleTimes
  /\ perhost_counts = Zero /\ perhost_tv \in StaleTimes
  /\ packet_history = {} /\ history_timestamp = 0 /\ log = {}
  /\ capture = NoCapture
  /\ call = [c \in Callers |-> [of |-> NoCapture, left |-> <<>>]]
  /\ stream_pattern = [b \in BeamSet |-> [pattern |-> Off, need_rfi |-> FALSE]]
  /\ stream_chunks_written = [b \in BeamSet |-> 0]
  /\ nchunks = [b \in BeamSet |-> 0]
  /\ requests = {} /\ crashed = FALSE

-----------------------------------------------------------------------------
(* The network thread.                                                     *)

ReceivePacket(s) ==
  /\ now < MaxTime
  /\ now' = now + 1
  /\ nthread_counts' = [nthread_counts EXCEPT ![s] = @ + 1]
  /\ nthread_tv' = now'
  /\ log' = log \cup {[tv |-> now', sender |-> s]}
  /\ UNCHANGED <<perhost_counts, perhost_tv, packet_history, history_timestamp>>

ReceiveTimeout ==
  /\ now < MaxTime
  /\ now' = now + 1
  /\ UNCHANGED <<nthread_counts, nthread_tv, perhost_counts, perhost_tv, packet_history,
                 history_timestamp, log>>

(* update() overwrites the counts of the senders it finds: all of them.    *)
Publish ==
  /\ perhost_counts' = nthread_counts
  /\ perhost_tv' = nthread_tv

NetworkFlushPackets ==
  /\ Publish
  /\ UNCHANGED <<now, nthread_counts, nthread_tv, packet_history, history_timestamp, log>>

(* last_packet_counts is a copy of the caller's pointer: the swap at its   *)
(* end changes that copy, and the caller goes on passing what it made at   *)
(* the start of the stream.                                                *)
LastPacketTv     == StartTime
LastPacketCounts == Zero

CountDiff ==
  [tv |-> nthread_tv,
   period |-> nthread_tv - LastPacketTv,
   counts |-> [s \in Senders |-> nthread_counts[s] - LastPacketCounts[s]]]

Newest(history) == CHOOSE e \in history : \A f \in history : f.tv <= e.tv

(* A full history loses its newest entry, --end(), and insert() leaves an  *)
(* entry of the same time as it is.                                        *)
Trimmed(history) ==
  IF Cardinality(history) >= MaxHistory THEN history \ {Newest(history)} ELSE history

Inserted(history, entry) ==
  IF \E e \in history : e.tv = entry.tv THEN history ELSE history \cup {entry}

UpdatePacketRates ==
  /\ now - StartTime > history_timestamp + Period
  /\ history_timestamp' = now - StartTime
  /\ Publish
  /\ packet_history' = Inserted(Trimmed(packet_history), CountDiff)
  /\ UNCHANGED <<now, nthread_counts, nthread_tv, log>>

-----------------------------------------------------------------------------
(* The history as others see it: _get_history() and its two callers.       *)

UpTo(history, t) == {e \in history : e.tv <= t}
From(history, t) == {e \in history : e.tv >= t}

(* A time that is not positive counts back from now.                       *)
Absolute(t) == IF t <= 0 THEN now + t ELSE t

GetHistory(start, end) ==
  CASE packet_history = {} -> {}
    [] packet_history # {} /\ start = 0 -> {Newest(packet_history)}
    [] packet_history # {} /\ start # 0 ->
         LET first == UpTo(packet_history, Absolute(start))   \* what upper_bound() is behind
         IN  IF first = {} THEN {}
             ELSE UpTo(From(packet_history, Newest(first).tv), Absolute(end))

(* get_packet_rates(): the sum over the entries found; tv is the first's.  *)
GetPacketRates(start, period) ==
  LET entries == GetHistory(start, start + period)
  IN  [period |-> MapThenSumSet(LAMBDA e : e.period, entries),
       counts |-> [s \in Senders |-> MapThenSumSet(LAMBDA e : e.counts[s], entries)]]

-----------------------------------------------------------------------------
(* stream_to_files(), under stream_lock, tells one assembler after the     *)
(* other.  A beam of another stream is refused before anything changes.    *)

NobodyTells      == \A c \in Callers : call[c].left = <<>>
LockUnused       == TRUE          \* mutant: stream_lock is not taken
StreamLockIsFree == NobodyTells

StreamToFiles(c, pattern, beams, need_rfi) ==
  /\ call[c].left = <<>>
  /\ StreamLockIsFree
  /\ capture' = [pattern |-> pattern, beams |-> beams, need_rfi |-> need_rfi]
  /\ call' = [call EXCEPT ![c] = [of |-> capture', left |-> Beams]]
  /\ UNCHANGED <<stream_pattern, stream_chunks_written, nchunks, requests, crashed>>

(* assembled_chunk_ringbuf::stream_to_files(): "" ends a capture.          *)
Told(of, b) ==
  IF b \in of.beams THEN [pattern |-> of.pattern, need_rfi |-> of.need_rfi]
  ELSE [pattern |-> Off, need_rfi |-> FALSE]

TellAssembler(c) ==
  /\ call[c].left # <<>>
  /\ LET b == Head(call[c].left) IN
       /\ stream_pattern' = [stream_pattern EXCEPT ![b] = Told(call[c].of, b)]
       /\ stream_chunks_written' = [stream_chunks_written EXCEPT ![b] = 0]
  /\ call' = [call EXCEPT ![c] = [of |-> IF Len(@.left) = 1 THEN NoCapture ELSE @.of,
                                  left |-> Tail(@.left)]]
  /\ UNCHANGED <<capture, nchunks, requests, crashed>>

(* The last part of _put_assembled_chunk(): the chunk is streamed as its   *)
(* assembler was told.  An exception of the pool ends the assembler thread *)
(* and with it the process.                                                *)
FileName(pattern, b, n) == pattern \o <<b, n>>

PutChunk(b) ==
  LET told == stream_pattern[b]
      file == FileName(told.pattern, b, nchunks[b])
      device == DeviceOf(DeviceNames, file)
  IN /\ nchunks[b] < MaxChunks
     /\ nchunks' = [nchunks EXCEPT ![b] = @ + 1]
     /\ IF told.pattern = Off THEN UNCHANGED <<requests, crashed>>
        ELSE IF EnqueueThrows(DeviceNames, file, told.need_rfi, IF HasRfiMask THEN 1 ELSE 0)
        THEN crashed' = TRUE /\ UNCHANGED requests
        ELSE /\ requests' = IF device = NoDevice THEN requests
                            ELSE requests \cup {[beam |-> b, file |-> file, device |-> device]}
             /\ UNCHANGED crashed
     /\ UNCHANGED <<capture, call, stream_pattern, stream_chunks_written>>

(* status_changed() and chunk_streamed(): a file written is counted for    *)
(* the capture its beam has now, which need not be the one it belongs to.  *)
CompleteRequest(r, success) ==
  /\ requests' = requests \ {r}
  /\ stream_chunks_written' =
       [stream_chunks_written EXCEPT ![r.beam] = @ + (IF success THEN 1 ELSE 0)]
  /\ UNCHANGED <<capture, call, stream_pattern, nchunks, crashed>>

(* get_streaming_status(), when nobody holds stream_lock.                  *)
StreamingStatus ==
  [pattern |-> capture.pattern, beams |-> capture.beams,
   chunks_written |-> MapThenSumSet(LAMBDA b : stream_chunks_written[b], capture.beams)]

-----------------------------------------------------------------------------
NetworkThread ==
  \/ \E s \in Senders : ReceivePacket(s)
  \/ ReceiveTimeout
  \/ NetworkFlushPackets
  \/ UpdatePacketRates

Captures ==
  \/ \E c \in Callers, pattern \in Patterns, beams \in SUBSET BeamSet, need_rfi \in BOOLEAN :
       StreamToFiles(c, pattern, beams, need_rfi)
  \/ \E c \in Callers : TellAssembler(c)
  \/ \E b \in BeamSet : PutChunk(b)
  \/ \E r \in requests, success \in BOOLEAN : CompleteRequest(r, success)

MonitorTerminated == crashed /\ UNCHANGED monitorVars

MonitorNext ==
  \/ MonitorTerminated
  \/ ~crashed /\ NetworkThread /\ UNCHANGED captureVars
  \/ ~crashed /\ Captures /\ UNCHANGED historyVars

MonitorSpec == MonitorInit /\ [][MonitorNext]_monitorVars

-----------------------------------------------------------------------------
Told0 == [pattern : Patterns \cup {Off}, need_rfi : BOOLEAN]
Capture == [pattern : Patterns \cup {Off}, beams : SUBSET BeamSet, need_rfi : BOOLEAN]
Entry == [tv : Int, period : Int, counts : [Senders -> Nat]]

(* Every variable has its type.                                            *)
MonitorTypeOK ==
  /\ now \in Nat
  /\ nthread_counts \in [Senders -> Nat] /\ perhost_counts \in [Senders -> Nat]
  /\ nthread_tv \in Int /\ perhost_tv \in Int
  /\ packet_history \subseteq Entry
  /\ history_timestamp \in Nat
  /\ log \subseteq [tv : Nat, sender : Senders]
  /\ capture \in Capture
  /\ \A c \in Callers : call[c].of \in Capture /\ call[c].left \in Seq(BeamSet)
  /\ stream_pattern \in [BeamSet -> Told0]
  /\ stream_chunks_written \in [BeamSet -> Nat] /\ nchunks \in [BeamSet -> Nat]
  /\ \A r \in requests : r.beam \in BeamSet /\ r.device \in DOMAIN DeviceNames
  /\ crashed \in BOOLEAN

-----------------------------------------------------------------------------
Received(s, from, to) ==
  Cardinality({p \in log : p.sender = s /\ p.tv > from /\ p.tv <= to})

Times == 1 .. MaxTime

(* What an entry of the history counts: every packet since the start of    *)
(* the stream, which is the period it gives.                               *)
EntriesAreCumulative ==
  \A e \in packet_history : e.counts # Zero =>
    /\ e.period = e.tv - StartTime
    /\ \A s \in Senders : e.counts[s] = Received(s, StartTime, e.tv)

(* intensity_network_stream.cpp:930 and ch_frb_io.hpp:482: an entry is the *)
(* difference to the one before, so that the entries of a time window can  *)
(* be summed: get_packet_rates() counts no packet twice.                   *)
EachPacketOnce ==
  \A start \in Times : \A end \in start .. MaxTime : \A s \in Senders :
    GetPacketRates(start, end - start).counts[s] <= Received(s, StartTime, now)

(* Two captures started at the same time do not mix: when no call is in    *)
(* progress every assembler streams as get_streaming_status() says.        *)
CaptureIsWhole ==
  NobodyTells => \A b \in BeamSet :
    stream_pattern[b].pattern = IF b \in StreamingStatus.beams THEN StreamingStatus.pattern ELSE Off

(* A request waits at the one device whose name its file name starts with: *)
(* the order in which the devices were given never matters.                *)
OneDevicePerFile ==
  \A r \in requests : Matching(DeviceNames, r.file) = {r.device}
=============================================================================
