--------------------------- MODULE NetworkOstream ---------------------------
(***************************************************************************)
(* intensity_network_ostream: send_chunk() encodes a chunk into a list of  *)
(* packets and puts it in a udp_packet_ringbuf; a network thread sends the *)
(* packets one by one, slowed down to a target bandwidth.  make() starts   *)
(* that thread and hands it a pointer to a variable on its own stack.      *)
(*                                                                         *)
(* The ring buffer is the BoundedQueue that UdpPacketRingbuf is shown to   *)
(* implement; a queue element is the number of a chunk.  All packets of a  *)
(* stream have the same size, so bytes are counted in packets and the      *)
(* target bandwidth is the time one packet takes.  An exception in the     *)
(* network thread is rethrown by network_pthread_main() and nobody catches *)
(* it: the process aborts.                                                 *)
(***************************************************************************)
EXTENDS Integers, Sequences, FiniteSets

CONSTANTS
  Capacity,         \* constants::output_ringbuf_capacity
  PacketsPerChunk,  \* npackets_per_chunk
  Interval,         \* microseconds per packet at target_gbps; 0: no throttling
  IsBlocking,       \* ini_params.is_blocking: a set of values
  Closers,          \* the threads that call end_stream()
  EndPackets,       \* 5 end-of-stream packets, 0 without the flag
  MaxChunks,        \* bound: number of chunks sent
  MaxClock          \* bound: the clock goes further only to end a sleep

ASSUME OstreamAssumption ==
  /\ Capacity \in Nat \ {0}
  /\ PacketsPerChunk \in Nat \ {0}
  /\ Interval \in Nat
  /\ IsBlocking \subseteq BOOLEAN
  /\ EndPackets \in Nat /\ MaxChunks \in Nat /\ MaxClock \in Nat

VARIABLES
  queue, closed, given,    \* the ring buffer and the list last taken from it
  is_blocking,
  make,                    \* where make() is
  network_thread_started,
  sender,                  \* the thread that calls send_chunk()
  tmp_packet_list,         \* the chunk encoded in it, 0 if it is empty
  nchunks,                 \* chunks encoded so far
  accepted,                \* those put_packet_list() accepted, in order
  network,                 \* where the network thread is
  ipacket,                 \* packets sent of the list it holds
  sent,                    \* what it has sent: pairs of chunk and packet
  clock,
  tv_ini,                  \* when it took the first timestamp
  tstamp,                  \* timestamp of the packet at hand, from tv_ini
  prev_tstamp,             \* ... of the packet before it
  npackets_sent,           \* the shared copies that get_statistics() reads
  curr_timestamp,
  nend,                    \* end-of-stream packets sent
  closer                   \* [Closers -> ...]: where a closing thread is

makeVars    == <<make, network_thread_started>>
senderVars  == <<sender, tmp_packet_list, nchunks, accepted>>
sentVars    == <<ipacket, sent>>
timeVars    == <<tv_ini, tstamp, prev_tstamp>>
statVars    == <<npackets_sent, curr_timestamp>>
networkVars == <<network, sentVars, timeVars, statVars, nend>>
queueVars   == <<queue, closed, given>>
vars == <<queueVars, is_blocking, makeVars, senderVars, networkVars, clock, closer>>

Ring == INSTANCE BoundedQueue WITH Batches <- 1 .. MaxChunks, Nothing <- 0

Init ==
  /\ Ring!Init
  /\ is_blocking \in IsBlocking
  /\ make = "creating" /\ network_thread_started = FALSE
  /\ sender = "out" /\ tmp_packet_list = 0 /\ nchunks = 0 /\ accepted = <<>>
  /\ network = "none" /\ ipacket = 0 /\ sent = <<>>
  /\ clock = 0 /\ tv_ini = 0 /\ tstamp = 0 /\ prev_tstamp = 0
  /\ npackets_sent = 0 /\ curr_timestamp = 0
  /\ nend = 0
  /\ closer = [c \in Closers |-> "out"]

(* Until an exception leaves the network thread. *)
Running == network # "aborted"
InUse == Running /\ make = "returned"

-----------------------------------------------------------------------------
(* make(), in the thread of the caller.                                    *)

CreateThread ==
  /\ make = "creating"
  /\ make' = "checking"
  /\ network' = "created"
  /\ UNCHANGED <<queueVars, is_blocking, network_thread_started, senderVars, sentVars,
                 timeVars, statVars, nend, clock, closer>>

MakeDoesNotWait == TRUE                          \* mutant: no handshake
MakeMayReturn   == network_thread_started

MakeLoop ==
  /\ Running
  /\ make = "checking"
  /\ make' = IF MakeMayReturn THEN "returned" ELSE "waiting"
  /\ UNCHANGED <<queueVars, is_blocking, network_thread_started, senderVars,
                 networkVars, clock, closer>>

-----------------------------------------------------------------------------
(* send_chunk(): _encode_chunk() throws, and changes nothing, when the     *)
(* fpga_count is not a multiple of a packet or the list is not empty.      *)

Encode ==
  /\ InUse
  /\ sender = "out"
  /\ tmp_packet_list = 0
  /\ nchunks < MaxChunks
  /\ nchunks' = nchunks + 1
  /\ tmp_packet_list' = nchunks + 1
  /\ sender' = "putting"
  /\ UNCHANGED <<queueVars, is_blocking, makeVars, accepted, networkVars, clock, closer>>

(* put_packet_list() accepts the list, rejects it, or throws because the   *)
(* stream has ended; it resets the list unless it throws.  Whether         *)
(* send_chunk() then throws for a rejected list changes no state.          *)
PutAccepts ==
  /\ InUse
  /\ sender = "putting"
  /\ Ring!Accept(tmp_packet_list)
  /\ accepted' = Append(accepted, tmp_packet_list)
  /\ tmp_packet_list' = 0
  /\ sender' = "out"
  /\ UNCHANGED <<is_blocking, makeVars, nchunks, networkVars, clock, closer>>

PutRejects ==
  /\ InUse
  /\ sender = "putting"
  /\ ~closed /\ Len(queue) = Capacity
  /\ ~is_blocking
  /\ tmp_packet_list' = 0
  /\ sender' = "out"
  /\ UNCHANGED <<queueVars, is_blocking, makeVars, nchunks, accepted, networkVars,
                 clock, closer>>

PutThrows ==
  /\ InUse
  /\ sender = "putting"
  /\ closed
  /\ sender' = "out"
  /\ UNCHANGED <<queueVars, is_blocking, makeVars, tmp_packet_list, nchunks, accepted,
                 networkVars, clock, closer>>

-----------------------------------------------------------------------------
(* The network thread.                                                     *)

UnchangedByNetwork ==
  UNCHANGED <<is_blocking, senderVars, clock, closer>>

(* network_pthread_main() copies the shared_ptr that its argument points   *)
(* to, a local variable of make().                                         *)
Dereference ==
  /\ network = "created"
  /\ network' = "starting"
  /\ UNCHANGED <<queueVars, makeVars, sentVars, timeVars, statVars, nend>>
  /\ UnchangedByNetwork

MakeAsleep == make                               \* mutant: no broadcast
MakeWoken  == IF make = "waiting" THEN "checking" ELSE make

Started ==
  /\ network = "starting"
  /\ network_thread_started' = TRUE
  /\ make' = MakeWoken
  /\ network' = "getting"
  /\ UNCHANGED <<queueVars, sentVars, timeVars, statVars, nend>>
  /\ UnchangedByNetwork

GetList ==
  /\ network = "getting"
  /\ Ring!Deliver
  /\ ipacket' = 0
  /\ network' = "stamping"
  /\ UNCHANGED <<makeVars, sent, timeVars, statVars, nend>>
  /\ UnchangedByNetwork

EndUndrained == closed                           \* mutant: queue not drained
EndSeen      == closed /\ queue = <<>>

GetEnd ==
  /\ network = "getting"
  /\ EndSeen
  /\ given' = 0
  /\ network' = "ending"
  /\ UNCHANGED <<queue, closed, makeVars, sentVars, timeVars, statVars, nend>>
  /\ UnchangedByNetwork

npackets_tot == Len(sent)

(* The earliest time for the next packet: t1 keeps the whole stream within *)
(* the bandwidth, t2 the one packet within 1.25 times the bandwidth.       *)
TargetAfterPrevious ==                           \* mutant: t1 forgotten
  IF npackets_tot > 0 THEN prev_tstamp + (8 * Interval) \div 10 ELSE 0
TargetTimestamp ==
  IF npackets_tot > 0
    THEN LET t1 == npackets_tot * Interval
             t2 == prev_tstamp + (8 * Interval) \div 10
         IN IF t1 > t2 THEN t1 ELSE t2
    ELSE 0

OneTooMany  == ipacket <= PacketsPerChunk        \* mutant: off by one
MorePackets == ipacket < PacketsPerChunk

Stamp ==
  /\ network = "stamping"
  /\ MorePackets
  /\ tv_ini' = IF npackets_tot = 0 THEN clock ELSE tv_ini
  /\ LET now == clock - tv_ini'
     IN tstamp' = IF now < TargetTimestamp THEN TargetTimestamp ELSE now
  /\ network' = "sending"
  /\ UNCHANGED <<queueVars, makeVars, sentVars, prev_tstamp, statVars, nend>>
  /\ UnchangedByNetwork

(* The sleep is over when the clock has reached the timestamp. *)
Asleep == network = "sending" /\ clock < tv_ini + tstamp

Send ==
  /\ network = "sending"
  /\ ~Asleep
  /\ sent' = Append(sent, <<given, ipacket>>)
  /\ ipacket' = ipacket + 1
  /\ prev_tstamp' = tstamp
  /\ network' = "publishing"
  /\ UNCHANGED <<queueVars, makeVars, tv_ini, tstamp, statVars, nend>>
  /\ UnchangedByNetwork

SendFails ==
  /\ network = "sending"
  /\ ~Asleep
  /\ network' = "throwing"
  /\ UNCHANGED <<queueVars, makeVars, sentVars, timeVars, statVars, nend>>
  /\ UnchangedByNetwork

(* The counters, under statistics_lock. *)
Publish ==
  /\ network = "publishing"
  /\ npackets_sent' = npackets_tot
  /\ curr_timestamp' = tstamp
  /\ network' = "stamping"
  /\ UNCHANGED <<queueVars, makeVars, sentVars, timeVars, nend>>
  /\ UnchangedByNetwork

ListDone ==
  /\ network = "stamping"
  /\ ~MorePackets
  /\ network' = "getting"
  /\ UNCHANGED <<queueVars, makeVars, sentVars, timeVars, statVars, nend>>
  /\ UnchangedByNetwork

(* _send_end_of_stream_packets() gives up at the first one that fails. *)
SendEndPacket ==
  /\ network = "ending"
  /\ nend < EndPackets
  /\ \/ nend' = nend + 1 /\ UNCHANGED network
     \/ network' = "closing" /\ UNCHANGED nend
  /\ UNCHANGED <<queueVars, makeVars, sentVars, timeVars, statVars>>
  /\ UnchangedByNetwork

EndPacketsDone ==
  /\ network = "ending"
  /\ nend = EndPackets
  /\ network' = "closing"
  /\ UNCHANGED <<queueVars, makeVars, sentVars, timeVars, statVars, nend>>
  /\ UnchangedByNetwork

(* end_stream(false), at the end and in the exception handler. *)
ThreadReturns ==
  /\ network = "closing"
  /\ Ring!Close
  /\ network' = "exited"
  /\ UNCHANGED <<makeVars, sentVars, timeVars, statVars, nend>>
  /\ UnchangedByNetwork

ThreadRethrows ==
  /\ network = "throwing"
  /\ Ring!Close
  /\ network' = "aborted"
  /\ UNCHANGED <<makeVars, sentVars, timeVars, statVars, nend>>
  /\ UnchangedByNetwork

-----------------------------------------------------------------------------
(* end_stream(join_network_thread), by any thread.                         *)

CloserStep(c, where) ==
  /\ InUse
  /\ closer' = [closer EXCEPT ![c] = where]
  /\ UNCHANGED <<is_blocking, makeVars, senderVars, networkVars, clock>>

EndStream(c, join) ==
  /\ closer[c] = "out"
  /\ Ring!Close
  /\ CloserStep(c, IF join THEN "joining" ELSE "ended")

(* network_thread_joined is read here but assigned nowhere, so every       *)
(* caller gets to pthread_join().                                          *)
Joins == {c \in Closers : closer[c] \in {"joined", "failed"}}

Join(c) ==
  /\ closer[c] = "joining"
  /\ network = "exited"
  /\ Joins = {}
  /\ CloserStep(c, "joined")
  /\ UNCHANGED queueVars

(* Joining a thread that another caller joins or has joined is undefined;  *)
(* it may return normally or report an error, which becomes an exception.  *)
JoinAgain(c) ==
  /\ closer[c] = "joining"
  /\ \E other \in Closers \ {c} : closer[other] \in {"joining", "joined", "failed"}
  /\ \/ CloserStep(c, "failed")
     \/ network = "exited" /\ CloserStep(c, "joined")
  /\ UNCHANGED queueVars

-----------------------------------------------------------------------------
Tick ==
  /\ Running
  /\ clock < MaxClock \/ Asleep
  /\ clock' = clock + 1
  /\ UNCHANGED <<queueVars, is_blocking, makeVars, senderVars, networkVars, closer>>

(* The process is gone, the stream is over, or nobody calls any more. *)
Terminated ==
  /\ \/ ~Running
     \/ network = "exited" /\ \A c \in Closers : closer[c] # "out"
     \/ nchunks = MaxChunks /\ network = "getting"
  /\ UNCHANGED vars

MakeSteps == CreateThread \/ MakeLoop
SenderSteps == PutAccepts \/ PutRejects \/ PutThrows
NetworkSteps ==
  \/ Dereference \/ Started
  \/ GetList \/ GetEnd
  \/ Stamp \/ Send \/ SendFails \/ Publish \/ ListDone
  \/ SendEndPacket \/ EndPacketsDone \/ ThreadReturns \/ ThreadRethrows

Next ==
  \/ MakeSteps \/ Encode \/ SenderSteps \/ NetworkSteps
  \/ \E c \in Closers :
       (\E join \in BOOLEAN : EndStream(c, join)) \/ Join(c) \/ JoinAgain(c)
  \/ Tick \/ Terminated

Spec == Init /\ [][Next]_vars

(* Every thread finishes the call it is in, and time goes on. *)
FairSpec ==
  /\ Spec
  /\ WF_vars(MakeSteps) /\ WF_vars(SenderSteps) /\ WF_vars(NetworkSteps)
  /\ \A c \in Closers : WF_vars(Join(c) \/ JoinAgain(c))
  /\ WF_vars(Tick)

-----------------------------------------------------------------------------
(* Properties.                                                             *)

NetworkStates == {"none", "created", "starting", "getting", "stamping", "sending",
                  "publishing", "ending", "closing", "throwing", "exited", "aborted"}

Packets == (1 .. MaxChunks) \X (0 .. PacketsPerChunk - 1)

(* Every variable has its type, and the thread is inside a list only while it *)
(* holds one.                                                                 *)
TypeOK ==
  /\ queue \in Seq(1 .. MaxChunks) /\ Len(queue) <= Capacity
  /\ {closed, is_blocking, network_thread_started} \subseteq BOOLEAN
  /\ given \in 0 .. MaxChunks
  /\ make \in {"creating", "checking", "waiting", "returned"}
  /\ sender \in {"out", "putting"}
  /\ tmp_packet_list \in 0 .. MaxChunks
  /\ sender = "putting" => tmp_packet_list # 0
  /\ nchunks \in 0 .. MaxChunks
  /\ accepted \in Seq(1 .. MaxChunks)
  /\ network \in NetworkStates
  /\ ipacket \in 0 .. PacketsPerChunk
  /\ network \in {"stamping", "sending", "publishing"} => given # 0
  /\ network = "sending" => ipacket < PacketsPerChunk
  /\ sent \in Seq(Packets)
  /\ clock \in Nat /\ tv_ini \in Nat
  /\ tstamp \in Nat /\ prev_tstamp \in Nat
  /\ npackets_sent \in Nat /\ curr_timestamp \in Nat
  /\ nend \in 0 .. EndPackets
  /\ closer \in [Closers -> {"out", "joining", "joined", "failed", "ended"}]

(* The packets of the accepted chunks, in order. *)
AcceptedPackets ==
  [i \in 1 .. Len(accepted) * PacketsPerChunk |->
     <<accepted[(i - 1) \div PacketsPerChunk + 1], (i - 1) % PacketsPerChunk>>]

(* What goes out on the network is what send_chunk() accepted, packet by      *)
(* packet and in order; and a network thread that has returned, for whatever  *)
(* reason the stream ended, has sent all of it, also what was accepted while  *)
(* another thread was in end_stream().                                        *)
SentAsAccepted ==
  /\ Len(sent) <= Len(AcceptedPackets)
  /\ sent = SubSeq(AcceptedPackets, 1, Len(sent))
  /\ network \in {"ending", "closing", "exited"} => sent = AcceptedPackets

(* At no time has more been sent than the target bandwidth allows since the   *)
(* first packet, however late the packets before were; and neither say the    *)
(* statistics so.                                                             *)
BandwidthLimited ==
  /\ Len(sent) > 0 => clock - tv_ini >= Interval * (Len(sent) - 1)
  /\ npackets_sent > 0 => curr_timestamp >= Interval * (npackets_sent - 1)

(* The comment in make(): the variable the network thread dereferences is on  *)
(* the stack of make(), so make() must not return before.                     *)
PointerStillValid ==
  make = "returned" => network \notin {"none", "created"}

(* make() returns, a send_chunk() blocked on a full buffer goes on, and       *)
(* whoever joins the network thread gets back, unless the process aborts.     *)
NobodyStuck ==
  /\ make # "returned" ~> (make = "returned" \/ ~Running)
  /\ sender = "putting" ~> (sender = "out" \/ ~Running)
  /\ \A c \in Closers :
       closer[c] = "joining" ~> (closer[c] \in {"joined", "failed"} \/ ~Running)

(* intensity_network_ostream.cpp:329-331: a second attempt to join the thread *)
(* is refused, before it gets to pthread_join().                              *)
JoinedOnce ==
  Cardinality({c \in Closers : closer[c] \in {"joining", "joined"}}) <= 1
=============================================================================
