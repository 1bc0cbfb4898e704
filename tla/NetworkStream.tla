---------------------------- MODULE NetworkStream ----------------------------
(***************************************************************************)
(* intensity_network_stream: the network thread reads packets and hands    *)
(* them over in lists, the assembler thread takes the lists apart and puts *)
(* each packet into the assembled_chunk_ringbuf of every beam, and other   *)
(* threads start, end and join the stream.  Either thread may also end the *)
(* stream by an exception, which ends the process once the exit code of    *)
(* the thread has run.                                                     *)
(*                                                                         *)
(* The list buffer is the BoundedQueue that module UdpPacketRingbuf        *)
(* implements, with its non-blocking put; a beam is the part of module     *)
(* AssembledChunkRingbuf this class sees: whether it has active chunks,    *)
(* and whether its end_stream() is complete.  A wait on cond_state_changed *)
(* is a guard: each flag is set, and announced, under state_lock.          *)
(*                                                                         *)
(* A packet is the verdict the assembler will reach on it.  Its beam ids   *)
(* and time stamps are chosen when the assembler looks at them.  Packets   *)
(* per host, timing statistics, RPC getters and byte counts are left out.  *)
(***************************************************************************)
EXTENDS Integers, Sequences, FiniteSets, SequencesExt

CONSTANTS
  NumBeams,      \* ini_params.beam_ids.size()
  RingCapacity,  \* ini_params.unassembled_ringbuf_capacity
  ListCapacity,  \* ini_params.max_unassembled_packets_per_list
  ThrowChoices,  \* the sets of flags throw_exception_on_* a stream may have set
  AcceptEos,     \* ini_params.accept_end_of_stream_packets
  Callers,       \* the threads that call join_threads()
  MaxPackets     \* bound: number of packets received

Flags == {"beam_id_mismatch", "packet_mismatch", "buffer_drop", "assembler_miss"}

ASSUME StreamAssumption ==
  /\ {NumBeams, RingCapacity, ListCapacity} \subseteq Nat \ {0}
  /\ ThrowChoices \subseteq SUBSET Flags
  /\ AcceptEos \in BOOLEAN
  /\ MaxPackets \in Nat

Beams == 1 .. NumBeams
Verdicts == {"good", "bad", "mismatch"}

(* event_type, without bytes and the events of AssembledChunkRingbuf. *)
EventType == {"packet_received", "packet_good", "packet_bad", "packet_dropped",
              "packet_end_of_stream", "stream_mismatch", "beam_id_mismatch",
              "assembler_hit", "assembler_miss"}
Zero == [e \in EventType |-> 0]

VARIABLES
  throw_flags,           \* the flags throw_exception_on_* of this stream
  stream_started, stream_end_requested, join_called, threads_joined,
  network,               \* where the network thread is
  cancelled,             \* its flush was caused by stream_end_requested
  network_throws,        \* its exit was caused by an exception
  incoming_packet_list,
  network_subcounts,     \* network_thread_event_subcounts
  unassembled_ringbuf,   \* the lists put and not yet taken
  ringbuf_ended,
  assembler,             \* where the assembler thread is
  assembler_throws,
  packet_list,           \* what is left of the list it works on
  assembler_subcounts,
  active,                \* the beams that have active chunks
  done,                  \* the beams whose end_stream() has returned
  cumulative_event_counts,
  caller,                \* [Callers -> ...]: where a call of join_threads() is
  failure                \* why the process ended, or "none"

stateVars     == <<stream_started, stream_end_requested, join_called, threads_joined>>
networkVars   == <<network, cancelled, network_throws, incoming_packet_list, network_subcounts>>
ringVars      == <<unassembled_ringbuf, ringbuf_ended>>
assemblerVars == <<assembler, assembler_throws, packet_list, assembler_subcounts, active, done>>
vars == <<throw_flags, stateVars, networkVars, ringVars, assemblerVars, cumulative_event_counts, caller, failure>>

Init ==
  /\ throw_flags \in ThrowChoices
  /\ stream_started = FALSE /\ stream_end_requested = FALSE
  /\ join_called = FALSE /\ threads_joined = FALSE
  /\ network = "starting" /\ cancelled = FALSE /\ network_throws = FALSE
  /\ incoming_packet_list = <<>> /\ network_subcounts = Zero
  /\ unassembled_ringbuf = <<>> /\ ringbuf_ended = FALSE
  /\ assembler = "get" /\ assembler_throws = FALSE
  /\ packet_list = <<>> /\ assembler_subcounts = Zero
  /\ active = {} /\ done = {}
  /\ cumulative_event_counts = Zero
  /\ caller = [c \in Callers |-> "out"]
  /\ failure = "none"

Running == failure = "none"

-----------------------------------------------------------------------------
Plus(counts, more) == [e \in EventType |-> counts[e] + more[e]]
Counted(counts, e, n) == [counts EXCEPT ![e] = @ + n]

(* _add_event_counts(): the subcounts are accumulated, and start from zero. *)
Kept(subcounts)    == subcounts             \* mutant: no memset()
Cleared(subcounts) == Zero

AddEventCounts(subcounts) ==
  cumulative_event_counts' = Plus(cumulative_event_counts, subcounts)

(* end_stream(): idempotent, called by anyone. *)
SetEndRequested ==
  /\ stream_started' = TRUE
  /\ stream_end_requested' = TRUE
  /\ UNCHANGED <<join_called, threads_joined>>

-----------------------------------------------------------------------------
(* The network thread: _network_thread_body().                             *)

UnchangedByNetwork == UNCHANGED <<assemblerVars, caller, throw_flags>>

NetworkStart ==
  /\ Running
  /\ network = "starting"
  /\ stream_started \/ stream_end_requested
  /\ network' = IF stream_end_requested THEN "exit_end" ELSE "reading"
  /\ UnchangedByNetwork
  /\ UNCHANGED <<stateVars, cancelled, network_throws, incoming_packet_list, network_subcounts,
                 ringVars, cumulative_event_counts, failure>>

(* bind(), recvfrom() or add_packet() throws. *)
NetworkError ==
  /\ Running
  /\ network = "reading"
  /\ network_throws' = TRUE
  /\ network' = "exit_end"
  /\ UnchangedByNetwork
  /\ UNCHANGED <<stateVars, cancelled, incoming_packet_list, network_subcounts, ringVars,
                 cumulative_event_counts, failure>>

(* The periodic check whether the stream has been cancelled. *)
CheckCancelled ==
  /\ Running
  /\ network = "reading"
  /\ \/ /\ stream_end_requested
        /\ cancelled' = TRUE
        /\ network' = "flush"
        /\ UNCHANGED <<network_subcounts, cumulative_event_counts>>
     \/ /\ ~stream_end_requested
        /\ AddEventCounts(network_subcounts)
        /\ network_subcounts' = Cleared(network_subcounts)
        /\ UNCHANGED <<network, cancelled>>
  /\ UnchangedByNetwork
  /\ UNCHANGED <<stateVars, network_throws, incoming_packet_list, ringVars, failure>>

(* The list has waited for unassembled_ringbuf_timeout_usec. *)
FlushTimeout ==
  /\ Running
  /\ network = "reading"
  /\ network' = "flush"
  /\ UnchangedByNetwork
  /\ UNCHANGED <<stateVars, cancelled, network_throws, incoming_packet_list, network_subcounts,
                 ringVars, cumulative_event_counts, failure>>

Arrived == cumulative_event_counts["packet_received"] + network_subcounts["packet_received"]

(* udp_packet_list::add_packet(): is_full, by the number of packets. *)
IsOverfull(list) == Len(list) > ListCapacity     \* mutant: off by one
IsFull(list)     == Len(list) >= ListCapacity

ReceivePacket(verdict) ==
  /\ Running
  /\ network = "reading"
  /\ Arrived < MaxPackets
  /\ network_subcounts' = Counted(network_subcounts, "packet_received", 1)
  /\ incoming_packet_list' = Append(incoming_packet_list, verdict)
  /\ network' = IF IsFull(incoming_packet_list') THEN "flush" ELSE "reading"
  /\ UnchangedByNetwork
  /\ UNCHANGED <<stateVars, cancelled, network_throws, ringVars, cumulative_event_counts, failure>>

ReceiveEndOfStream ==
  /\ Running
  /\ network = "reading"
  /\ Arrived < MaxPackets
  /\ network_subcounts' =
       Counted(Counted(network_subcounts, "packet_received", 1), "packet_end_of_stream", 1)
  /\ network' = IF AcceptEos THEN "exit_end" ELSE "reading"
  /\ UnchangedByNetwork
  /\ UNCHANGED <<stateVars, cancelled, network_throws, incoming_packet_list, ringVars,
                 cumulative_event_counts, failure>>

(* _put_unassembled_packets() in _network_flush_packets() and on exit.     *)
(* put_packet_list() throws if the list buffer has ended, otherwise the    *)
(* list is accepted, or rejected and reset.                                *)
NoPacketsDropped == 0                       \* mutant: drop not counted
PacketsDropped == Len(incoming_packet_list)

Accept ==
  /\ ~ringbuf_ended
  /\ Len(unassembled_ringbuf) < RingCapacity
  /\ unassembled_ringbuf' = Append(unassembled_ringbuf, incoming_packet_list)
  /\ incoming_packet_list' = <<>>
  /\ UNCHANGED network_subcounts

Reject ==
  /\ ~ringbuf_ended
  /\ ~(Len(unassembled_ringbuf) < RingCapacity)
  /\ network_subcounts' = Counted(network_subcounts, "packet_dropped", PacketsDropped)
  /\ incoming_packet_list' = <<>>
  /\ UNCHANGED unassembled_ringbuf

Put ==
  \/ incoming_packet_list = <<>> /\ UNCHANGED <<unassembled_ringbuf, incoming_packet_list, network_subcounts>>
  \/ incoming_packet_list # <<>> /\ Accept
  \/ incoming_packet_list # <<>> /\ Reject /\ "buffer_drop" \notin throw_flags

PutThrows ==
  /\ incoming_packet_list # <<>>
  /\ \/ ringbuf_ended /\ UNCHANGED <<unassembled_ringbuf, incoming_packet_list, network_subcounts>>
     \/ Reject /\ "buffer_drop" \in throw_flags

(* An exception in the body leads to the exit code, one in it ends the process. *)
Flush ==
  /\ Running
  /\ network \in {"flush", "exit_flush"}
  /\ \/ /\ Put
        /\ network' = IF network = "flush" THEN "count" ELSE "exit_count"
        /\ UNCHANGED <<network_throws, failure>>
     \/ /\ PutThrows
        /\ network_throws' = TRUE
        /\ network' = "exit_end"
        /\ failure' = IF network = "flush" THEN failure ELSE "network_exception"
  /\ UnchangedByNetwork
  /\ UNCHANGED <<stateVars, cancelled, ringbuf_ended, cumulative_event_counts>>

(* The thread reads on, unless it flushed because the stream was cancelled. *)
ReadOn         == "reading"                 \* mutant: no return after the flush
NextAfterFlush == IF cancelled THEN "exit_end" ELSE "reading"

NetworkCount ==
  /\ Running
  /\ network \in {"count", "exit_count"}
  /\ AddEventCounts(network_subcounts)
  /\ network_subcounts' = Cleared(network_subcounts)
  /\ network' = IF network = "exit_count" THEN "exit_ring" ELSE NextAfterFlush
  /\ UnchangedByNetwork
  /\ UNCHANGED <<stateVars, cancelled, network_throws, incoming_packet_list, ringVars, failure>>

(* _network_thread_exit(): set the flag, flush, count, end the list buffer. *)
EndBeforeFlush == "exit_ring"               \* mutant: the last list is forgotten
NextAfterEnd   == "exit_flush"

NetworkExitEnd ==
  /\ Running
  /\ network = "exit_end"
  /\ SetEndRequested
  /\ network' = NextAfterEnd
  /\ UnchangedByNetwork
  /\ UNCHANGED <<cancelled, network_throws, incoming_packet_list, network_subcounts, ringVars,
                 cumulative_event_counts, failure>>

NetworkExitRing ==
  /\ Running
  /\ network = "exit_ring"
  /\ ringbuf_ended' = TRUE
  /\ network' = "returned"
  /\ failure' = IF network_throws THEN "network_exception" ELSE failure
  /\ UnchangedByNetwork
  /\ UNCHANGED <<stateVars, cancelled, network_throws, incoming_packet_list, network_subcounts,
                 unassembled_ringbuf, cumulative_event_counts>>

-----------------------------------------------------------------------------
(* The assembler thread: _assembler_thread_body().                         *)

UnchangedByAssembler == UNCHANGED <<networkVars, caller, throw_flags>>

GetPacketList ==
  /\ Running
  /\ assembler = "get"
  /\ unassembled_ringbuf # <<>>
  /\ packet_list' = Head(unassembled_ringbuf)
  /\ unassembled_ringbuf' = Tail(unassembled_ringbuf)
  /\ assembler' = "packets"
  /\ UnchangedByAssembler
  /\ UNCHANGED <<stateVars, ringbuf_ended, assembler_throws, assembler_subcounts, active, done,
                 cumulative_event_counts, failure>>

GetEnd ==
  /\ Running
  /\ assembler = "get"
  /\ unassembled_ringbuf = <<>>
  /\ ringbuf_ended
  /\ assembler' = "exit_end"
  /\ UnchangedByAssembler
  /\ UNCHANGED <<stateVars, ringVars, assembler_throws, packet_list, assembler_subcounts, active,
                 done, cumulative_event_counts, failure>>

(* _fetch_frame0() throws, or put_unassembled_packet() for a reason that   *)
(* module AssembledChunkRingbuf models (no memory, RFI mask not filled).   *)
AssemblerError ==
  /\ Running
  /\ assembler = "packets"
  /\ assembler_throws' = TRUE
  /\ assembler' = "exit_end"
  /\ UnchangedByAssembler
  /\ UNCHANGED <<stateVars, ringVars, packet_list, assembler_subcounts, active, done,
                 cumulative_event_counts, failure>>

UnchangedByPacket == UNCHANGED <<stateVars, ringVars, done, cumulative_event_counts, failure>>

BadPacket ==
  /\ Running
  /\ assembler = "packets" /\ packet_list # <<>>
  /\ Head(packet_list) = "bad"
  /\ packet_list' = Tail(packet_list)
  /\ assembler_subcounts' = Counted(assembler_subcounts, "packet_bad", 1)
  /\ UnchangedByAssembler /\ UnchangedByPacket
  /\ UNCHANGED <<assembler, assembler_throws, active>>

MismatchedPacket ==
  /\ Running
  /\ assembler = "packets" /\ packet_list # <<>>
  /\ Head(packet_list) = "mismatch"
  /\ packet_list' = Tail(packet_list)
  /\ \/ /\ "packet_mismatch" \in throw_flags
        /\ assembler_throws' = TRUE
        /\ assembler' = "exit_end"
        /\ UNCHANGED assembler_subcounts
     \/ /\ "packet_mismatch" \notin throw_flags
        /\ assembler_subcounts' = Counted(assembler_subcounts, "stream_mismatch", 1)
        /\ UNCHANGED <<assembler, assembler_throws>>
  /\ UnchangedByAssembler /\ UnchangedByPacket
  /\ UNCHANGED active

(* A good packet has NumBeams parts.  Part i is for beam ids[i], where 0   *)
(* is no beam of this stream, and the parts in "late" miss the active      *)
(* chunks of their beam.  The first part that throws is the last.          *)
PartThrows(ids, late, i) ==
  \/ ids[i] = 0 /\ "beam_id_mismatch" \in throw_flags
  \/ ids[i] # 0 /\ i \in late /\ "assembler_miss" \in throw_flags

Parts(ids, late) ==
  {i \in Beams : \A j \in 1 .. i - 1 : ~PartThrows(ids, late, j)}

GoodPacket(ids, late) ==
  /\ Running
  /\ assembler = "packets" /\ packet_list # <<>>
  /\ Head(packet_list) = "good"
  /\ packet_list' = Tail(packet_list)
  /\ LET parts == Parts(ids, late)
         known == {i \in parts : ids[i] # 0}
         throws == \E i \in parts : PartThrows(ids, late, i)
     IN /\ assembler_subcounts' = Plus(assembler_subcounts,
             [Zero EXCEPT !["packet_good"] = 1,
                          !["beam_id_mismatch"] = Cardinality(parts \ known),
                          !["assembler_hit"] = Cardinality(known \ late),
                          !["assembler_miss"] = Cardinality(known \cap late)])
        /\ active' = active \cup {ids[i] : i \in known}
        /\ assembler_throws' = throws
        /\ assembler' = IF throws THEN "exit_end" ELSE assembler
  /\ UnchangedByAssembler /\ UnchangedByPacket

ListDone ==
  /\ Running
  /\ assembler = "packets" /\ packet_list = <<>>
  /\ AddEventCounts(assembler_subcounts)
  /\ assembler_subcounts' = Cleared(assembler_subcounts)
  /\ assembler' = "get"
  /\ UnchangedByAssembler
  /\ UNCHANGED <<stateVars, ringVars, assembler_throws, packet_list, active, done, failure>>

(* _assembler_thread_exit(): set the flag, end the list buffer, end the    *)
(* beams one after the other, count.                                       *)
AssemblerExitEnd ==
  /\ Running
  /\ assembler = "exit_end"
  /\ SetEndRequested
  /\ assembler' = "exit_ring"
  /\ UnchangedByAssembler
  /\ UNCHANGED <<ringVars, assembler_throws, packet_list, assembler_subcounts, active, done,
                 cumulative_event_counts, failure>>

AssemblerExitRing ==
  /\ Running
  /\ assembler = "exit_ring"
  /\ ringbuf_ended' = TRUE
  /\ assembler' = "exit_beams"
  /\ UnchangedByAssembler
  /\ UNCHANGED <<stateVars, unassembled_ringbuf, assembler_throws, packet_list,
                 assembler_subcounts, active, done, cumulative_event_counts, failure>>

(* assembled_chunk_ringbuf::end_stream() throws for a beam without active  *)
(* chunks, that is, one that never had a good packet.  Here, as in         *)
(* GoodPacket, the memory pool is taken to have the slabs that the beams   *)
(* ask for: that it can is PoolSuffices of AssembledChunkRingbuf.          *)
EndBeam ==
  /\ Running
  /\ assembler = "exit_beams"
  /\ done # Beams
  /\ LET beam == Cardinality(done) + 1
     IN IF beam \in active
        THEN done' = done \cup {beam} /\ UNCHANGED failure
        ELSE failure' = "empty_pointers" /\ UNCHANGED done
  /\ UnchangedByAssembler
  /\ UNCHANGED <<stateVars, ringVars, assembler, assembler_throws, packet_list,
                 assembler_subcounts, active, cumulative_event_counts>>

AssemblerExitCount ==
  /\ Running
  /\ assembler = "exit_beams"
  /\ done = Beams
  /\ AddEventCounts(assembler_subcounts)
  /\ assembler_subcounts' = Cleared(assembler_subcounts)
  /\ assembler' = "returned"
  /\ failure' = IF assembler_throws THEN "assembler_exception" ELSE failure
  /\ UnchangedByAssembler
  /\ UNCHANGED <<stateVars, ringVars, assembler_throws, packet_list, active, done>>

-----------------------------------------------------------------------------
(* The other threads.  A call that throws changes nothing.                 *)

UnchangedByCaller ==
  UNCHANGED <<throw_flags, networkVars, ringVars, assemblerVars, cumulative_event_counts, failure>>

StartStream ==
  /\ Running
  /\ ~(stream_end_requested \/ join_called)
  /\ stream_started' = TRUE
  /\ UnchangedByCaller
  /\ UNCHANGED <<stream_end_requested, join_called, threads_joined, caller>>

EndStream ==
  /\ Running
  /\ SetEndRequested
  /\ UnchangedByCaller
  /\ UNCHANGED caller

(* join_threads(): the first caller joins, the others wait for it. *)
JoinThreads(c) ==
  /\ Running
  /\ caller[c] = "out"
  /\ stream_started
  /\ join_called' = TRUE
  /\ caller' = [caller EXCEPT ![c] = IF join_called THEN "waiting" ELSE "joining"]
  /\ UnchangedByCaller
  /\ UNCHANGED <<stream_started, stream_end_requested, threads_joined>>

NetworkReturned == network = "returned"     \* mutant: assembler not joined
BothReturned == network = "returned" /\ assembler = "returned"

Joined(c) ==
  /\ Running
  /\ caller[c] = "joining"
  /\ BothReturned
  /\ threads_joined' = TRUE
  /\ caller' = [caller EXCEPT ![c] = "joined"]
  /\ UnchangedByCaller
  /\ UNCHANGED <<stream_started, stream_end_requested, join_called>>

WaitedForJoin(c) ==
  /\ Running
  /\ caller[c] = "waiting"
  /\ threads_joined
  /\ caller' = [caller EXCEPT ![c] = "joined"]
  /\ UnchangedByCaller
  /\ UNCHANGED stateVars

-----------------------------------------------------------------------------
Terminated ==
  /\ ~Running \/ (threads_joined /\ \A c \in Callers : caller[c] = "joined")
  /\ UNCHANGED vars

NetworkSteps == NetworkStart \/ Flush \/ NetworkCount \/ NetworkExitEnd \/ NetworkExitRing
GoodPackets == \E ids \in [Beams -> 0 .. NumBeams], late \in SUBSET Beams : GoodPacket(ids, late)
AssemblerSteps ==
  \/ GetPacketList \/ GetEnd \/ BadPacket \/ MismatchedPacket \/ GoodPackets \/ ListDone
  \/ AssemblerExitEnd \/ AssemblerExitRing \/ EndBeam \/ AssemblerExitCount
JoinSteps(c) == Joined(c) \/ WaitedForJoin(c)

Next ==
  \/ NetworkSteps \/ NetworkError \/ CheckCancelled \/ FlushTimeout
  \/ (\E v \in Verdicts : ReceivePacket(v)) \/ ReceiveEndOfStream
  \/ AssemblerSteps \/ AssemblerError
  \/ StartStream \/ EndStream
  \/ \E c \in Callers : JoinThreads(c) \/ JoinSteps(c)
  \/ Terminated

Spec == Init /\ [][Next]_vars

(* Each thread finishes what it is in.  The read loop checks for the end   *)
(* of the stream again and again, whatever else it does in between: its    *)
(* recvfrom() has a timeout, and the check comes before the flush.         *)
FairSpec ==
  /\ Spec
  /\ WF_vars(NetworkSteps)
  /\ SF_vars(CheckCancelled)
  /\ WF_vars(AssemblerSteps)
  /\ \A c \in Callers : WF_vars(JoinSteps(c))

-----------------------------------------------------------------------------
(* Properties.                                                             *)

(* Every variable has its type. *)
TypeOK ==
  /\ throw_flags \in ThrowChoices
  /\ {stream_started, stream_end_requested, join_called, threads_joined} \subseteq BOOLEAN
  /\ network \in {"starting", "reading", "flush", "count", "exit_end", "exit_flush",
                  "exit_count", "exit_ring", "returned"}
  /\ {cancelled, network_throws, ringbuf_ended, assembler_throws} \subseteq BOOLEAN
  /\ incoming_packet_list \in Seq(Verdicts) /\ Len(incoming_packet_list) <= ListCapacity
  /\ unassembled_ringbuf \in Seq(Seq(Verdicts)) /\ Len(unassembled_ringbuf) <= RingCapacity
  /\ assembler \in {"get", "packets", "exit_end", "exit_ring", "exit_beams", "returned"}
  /\ packet_list \in Seq(Verdicts)
  /\ network_subcounts \in [EventType -> Nat]
  /\ assembler_subcounts \in [EventType -> Nat]
  /\ cumulative_event_counts \in [EventType -> Nat]
  /\ active \subseteq Beams /\ done \subseteq Beams
  /\ caller \in [Callers -> {"out", "joining", "waiting", "joined"}]
  /\ failure \in {"none", "network_exception", "empty_pointers", "assembler_exception"}

Total(e) == cumulative_event_counts[e] + network_subcounts[e] + assembler_subcounts[e]

InFlight ==
  Len(incoming_packet_list) + Len(FlattenSeq(unassembled_ringbuf)) + Len(packet_list)

(* Every packet received is counted under exactly one verdict or is still in  *)
(* a list, and every good packet counts one event per beam: no hand-over      *)
(* between the threads and no accumulation loses or doubles a count.  (An     *)
(* exception in the assembler leaves a packet half counted.)                  *)
EventsAccounted ==
  ~assembler_throws =>
    /\ Total("packet_received") =
         Total("packet_good") + Total("packet_bad") + Total("stream_mismatch")
           + Total("packet_dropped") + Total("packet_end_of_stream") + InFlight
    /\ Total("assembler_hit") + Total("assembler_miss") + Total("beam_id_mismatch") =
         NumBeams * Total("packet_good")

(* When join_threads() returns, the counts that get_event_counts() gives are  *)
(* complete, and every beam has announced its end.                            *)
JoinedMeansComplete ==
  \A c \in Callers : caller[c] = "joined" =>
    /\ network_subcounts = Zero /\ assembler_subcounts = Zero
    /\ InFlight = 0
    /\ done = Beams

(* The list buffer is ended only behind the last packet, unless the assembler *)
(* itself failed, so the network thread never puts into an ended buffer, and  *)
(* the first beam told of the end has every packet that was not dropped.      *)
EndsBehindLastPacket ==
  ~assembler_throws =>
    /\ ringbuf_ended => incoming_packet_list = <<>> /\ network = "returned"
    /\ done # {} => InFlight = 0

(* However the end of the stream is requested, both threads finish and every  *)
(* thread in join_threads() returns, unless an exception ends the process.    *)
ShutdownCompletes ==
  stream_end_requested ~>
    (~Running \/ (/\ BothReturned /\ done = Beams
                  /\ \A c \in Callers : caller[c] \notin {"joining", "waiting"}))

(* intensity_network_stream.cpp:224-227 and :738: after an end_stream(), also *)
(* an early one, the assembler thread flushes what it has and exits; it does  *)
(* not end the process.                                                       *)
EndStreamIsClean == failure # "empty_pointers"
=============================================================================
