-------------------------- MODULE UdpPacketRingbuf --------------------------
(***************************************************************************)
(* udp_packet_ringbuf: the bounded buffer between a thread that fills      *)
(* udp_packet_lists and a thread that empties them.  It is used twice: the *)
(* network thread of an intensity_network_stream puts without blocking, so *)
(* that a slow assembler thread makes it drop packets; the caller of       *)
(* intensity_network_ostream::send_chunk() blocks until there is room.     *)
(*                                                                         *)
(* No list is allocated after the construction: put and get swap the       *)
(* caller's list with the one in a slot, so the identity of the lists is   *)
(* modelled, and the packets in a list are one batch number, 0 when it is  *)
(* empty.  The reset() of a list takes place outside the lock.             *)
(***************************************************************************)
EXTENDS Integers, Sequences, FiniteSets

CONSTANTS
  Capacity,    \* ringbuf_capacity
  Modes,       \* the is_blocking arguments the producer may use
  Lists,       \* the udp_packet_lists: one per slot, one for each thread
  MaxBatches   \* bound: number of batches the producer puts

ASSUME RingbufAssumption ==
  /\ Capacity \in Nat \ {0}
  /\ Modes \subseteq BOOLEAN
  /\ IsFiniteSet(Lists) /\ Cardinality(Lists) = Capacity + 2
  /\ MaxBatches \in Nat

Slots == 0 .. Capacity - 1

VARIABLES
  ringbuf,        \* [Slots -> Lists]
  ringbuf_pos,
  ringbuf_size,
  stream_ended,
  contents,       \* [Lists -> Nat]: the batch in a list
  producer,       \* where the producer is
  producer_list,  \* the list it owns
  batch,          \* number of its last batch
  is_blocking,    \* argument of its put_packet_list()
  rejected,       \* the batches put_packet_list() returned FALSE for
  consumer,
  consumer_list

ringVars == <<ringbuf, ringbuf_pos, ringbuf_size>>
callVars == <<batch, is_blocking>>
producerVars == <<producer, producer_list, callVars, rejected>>
consumerVars == <<consumer, consumer_list>>
vars == <<ringVars, stream_ended, contents, producerVars, consumerVars>>

Init ==
  /\ ringbuf \in [Slots -> Lists]
  /\ producer_list \in Lists
  /\ consumer_list \in Lists \ {producer_list}
  /\ \A i, j \in Slots : i # j => ringbuf[i] # ringbuf[j]
  /\ \A i \in Slots : ringbuf[i] \notin {producer_list, consumer_list}
  /\ ringbuf_pos = 0
  /\ ringbuf_size = 0
  /\ stream_ended = FALSE
  /\ contents = [l \in Lists |-> 0]
  /\ producer = "filling"
  /\ batch = 0
  /\ is_blocking = FALSE
  /\ rejected = {}
  /\ consumer = "working"

-----------------------------------------------------------------------------
(* The slot of the i-th entry, counted from the oldest one. *)
Slot(i) == (ringbuf_pos + i) % Capacity

HasRoomForOneMore == ringbuf_size <= Capacity    \* mutant: off by one
HasRoom == ringbuf_size < Capacity

(* p.swap(ringbuf[i]): the buffer with the caller's list in slot i. *)
CopiedIn(i, list)  == ringbuf                    \* mutant: copied, not swapped
SwappedIn(i, list) == [ringbuf EXCEPT ![i] = list]

(* pthread_cond_broadcast() on packets_added, on packets_removed. *)
ConsumerAsleep == consumer                       \* mutant: no broadcast
ConsumerWoken  == IF consumer = "waiting" THEN "get" ELSE consumer
ProducerAsleep == producer                       \* mutant: no broadcast
ProducerWoken  == IF producer = "waiting" THEN "put" ELSE producer

(* reset() of a list. *)
NotReset(list) == contents                       \* mutant: packets left in
Reset(list)    == [contents EXCEPT ![list] = 0]

-----------------------------------------------------------------------------
(* The producer fills its list and calls put_packet_list().                *)

Fill ==
  /\ producer = "filling"
  /\ batch < MaxBatches
  /\ batch' = batch + 1
  /\ is_blocking' \in Modes
  /\ contents' = [contents EXCEPT ![producer_list] = batch + 1]
  /\ producer' = "put"
  /\ UNCHANGED <<ringVars, stream_ended, producer_list, rejected, consumerVars>>

PutThrows ==
  /\ producer = "put"
  /\ stream_ended
  /\ producer' = "thrown"
  /\ UNCHANGED <<ringVars, stream_ended, contents, producer_list, callVars,
                 rejected, consumerVars>>

PutSwap ==
  /\ producer = "put"
  /\ ~stream_ended
  /\ HasRoom
  /\ LET i == Slot(ringbuf_size)
     IN /\ ringbuf' = SwappedIn(i, producer_list)
        /\ producer_list' = ringbuf[i]
  /\ ringbuf_size' = ringbuf_size + 1
  /\ consumer' = ConsumerWoken
  /\ producer' = "reset"
  /\ UNCHANGED <<ringbuf_pos, stream_ended, contents, callVars, rejected, consumer_list>>

PutRejects ==
  /\ producer = "put"
  /\ ~stream_ended
  /\ ~HasRoom
  /\ ~is_blocking
  /\ rejected' = rejected \cup {contents[producer_list]}
  /\ producer' = "reset"
  /\ UNCHANGED <<ringVars, stream_ended, contents, producer_list, callVars, consumerVars>>

PutWaits ==
  /\ producer = "put"
  /\ ~stream_ended
  /\ ~HasRoom
  /\ is_blocking
  /\ producer' = "waiting"
  /\ UNCHANGED <<ringVars, stream_ended, contents, producer_list, callVars,
                 rejected, consumerVars>>

(* p->reset(), after the unlock, on both successful exits of the loop. *)
PutReturns ==
  /\ producer = "reset"
  /\ contents' = Reset(producer_list)
  /\ producer' = "filling"
  /\ UNCHANGED <<ringVars, stream_ended, producer_list, callVars, rejected, consumerVars>>

-----------------------------------------------------------------------------
(* The consumer calls get_packet_list(), which starts with p->reset().     *)

GetCall ==
  /\ consumer = "working"
  /\ contents' = Reset(consumer_list)
  /\ consumer' = "get"
  /\ UNCHANGED <<ringVars, stream_ended, producerVars, consumer_list>>

GetSwap ==
  /\ consumer = "get"
  /\ ringbuf_size > 0
  /\ LET i == Slot(0)
     IN /\ ringbuf' = SwappedIn(i, consumer_list)
        /\ consumer_list' = ringbuf[i]
  /\ ringbuf_pos' = ringbuf_pos + 1
  /\ ringbuf_size' = ringbuf_size - 1
  /\ producer' = ProducerWoken
  /\ consumer' = "working"
  /\ UNCHANGED <<stream_ended, contents, producer_list, callVars, rejected>>

GetEnd ==
  /\ consumer = "get"
  /\ ringbuf_size = 0
  /\ stream_ended
  /\ consumer' = "ended"
  /\ UNCHANGED <<ringVars, stream_ended, contents, producerVars, consumer_list>>

GetWaits ==
  /\ consumer = "get"
  /\ ringbuf_size = 0
  /\ ~stream_ended
  /\ consumer' = "waiting"
  /\ UNCHANGED <<ringVars, stream_ended, contents, producerVars, consumer_list>>

-----------------------------------------------------------------------------
(* end_stream(): called by either thread or by a third one, any number of  *)
(* times; only the first call changes anything.                            *)
EndStream ==
  /\ ~stream_ended
  /\ stream_ended' = TRUE
  /\ consumer' = ConsumerWoken
  /\ producer' = ProducerWoken
  /\ UNCHANGED <<ringVars, contents, producer_list, callVars, rejected, consumer_list>>

Terminated ==
  /\ consumer = "ended"
  /\ producer = "thrown" \/ (producer = "filling" /\ batch = MaxBatches)
  /\ UNCHANGED vars

ProducerSteps == PutThrows \/ PutSwap \/ PutRejects \/ PutWaits \/ PutReturns
ConsumerSteps == GetCall \/ GetSwap \/ GetEnd \/ GetWaits

Next == Fill \/ ProducerSteps \/ ConsumerSteps \/ EndStream \/ Terminated

Spec == Init /\ [][Next]_vars

(* Both threads finish the call they are in, and the consumer calls again. *)
FairSpec == Spec /\ WF_vars(ProducerSteps) /\ WF_vars(ConsumerSteps)

-----------------------------------------------------------------------------
(* Properties.                                                             *)

(* Every variable has its type, and no more lists are queued than slots.      *)
TypeOK ==
  /\ ringbuf \in [Slots -> Lists]
  /\ ringbuf_pos \in Nat
  /\ ringbuf_size \in 0 .. Capacity
  /\ stream_ended \in BOOLEAN
  /\ contents \in [Lists -> Nat]
  /\ producer \in {"filling", "put", "waiting", "reset", "thrown"}
  /\ producer_list \in Lists
  /\ batch \in 0 .. MaxBatches
  /\ is_blocking \in BOOLEAN
  /\ rejected \subseteq Nat
  /\ consumer \in {"working", "get", "waiting", "ended"}
  /\ consumer_list \in Lists

(* The swaps lose and duplicate no list: the producer, the consumer and each  *)
(* slot own one of their own, so nobody writes packets into a list that       *)
(* another thread reads.                                                      *)
ListsNotShared ==
  /\ producer_list # consumer_list
  /\ \A i \in Slots : ringbuf[i] \notin {producer_list, consumer_list}
  /\ \A i, j \in Slots : i # j => ringbuf[i] # ringbuf[j]

(* A list that holds no queued batch is empty: the producer starts to fill an *)
(* empty list, and no slot keeps packets of a batch already handed over.      *)
Occupied == {Slot(i) : i \in 0 .. ringbuf_size - 1}
NoStalePackets ==
  /\ \A i \in Slots \ Occupied : contents[ringbuf[i]] = 0
  /\ producer = "filling" => contents[producer_list] = 0

(* A thread asleep on a condition variable has nothing to do: the consumer    *)
(* sleeps only on an empty buffer, the producer only on a full one, and       *)
(* neither of them once the stream has ended.                                 *)
NoLostWakeup ==
  /\ consumer = "waiting" => ringbuf_size = 0 /\ ~stream_ended
  /\ producer = "waiting" => ~HasRoom /\ ~stream_ended

(* To its users the buffer is a BoundedQueue: FIFO, nothing accepted is lost. *)
Queue == INSTANCE BoundedQueue WITH
  Batches <- 1 .. MaxBatches,
  Nothing <- 0,
  queue <- [i \in 1 .. ringbuf_size |-> contents[ringbuf[Slot(i - 1)]]],
  closed <- stream_ended,
  given <- IF consumer = "working" THEN contents[consumer_list] ELSE 0

ImplementsBoundedQueue == Queue!Spec

(* After end_stream() the consumer drains the buffer and is told of the end,  *)
(* and a producer blocked on a full buffer gets its exception.                *)
EndReachesBoth ==
  /\ stream_ended ~> consumer = "ended"
  /\ (stream_ended /\ producer = "waiting") ~> producer = "thrown"
=============================================================================
