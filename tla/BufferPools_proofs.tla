------------------------ MODULE BufferPools_proofs ------------------------
(***************************************************************************)
(* Proofs about the components that lend buffers to the threads of the     *)
(* stream: udp_packet_ringbuf (UdpPacketRingbuf), for every capacity,      *)
(* every set of lists and any number of batches, and memory_slab_pool      *)
(* (MemorySlabPool), for every set of slabs and of threads.                *)
(***************************************************************************)
EXTENDS UdpPacketRingbuf, MemorySlabPool, FiniteSetTheorems, TLAPS

(* A slot number is within the buffer, however far ringbuf_pos has run. *)
LEMMA SlotInBuffer ==
  ASSUME TypeOK, NEW i \in Nat
  PROVE  Slot(i) \in Slots
  BY RingbufAssumption DEF TypeOK, Slot, Slots

(* The type invariant of the list buffer. *)
THEOREM TypeCorrect == Spec => []TypeOK
<1>1. Init => TypeOK
  <2> SUFFICES ASSUME Init PROVE TypeOK
    OBVIOUS
  <2>1. 0 \in 0 .. Capacity /\ 0 \in 0 .. MaxBatches
    BY RingbufAssumption
  <2> QED
    BY <2>1 DEF Init, TypeOK
<1>2. TypeOK /\ [Next]_vars => TypeOK'
  <2> SUFFICES ASSUME TypeOK, [Next]_vars PROVE TypeOK'
    OBVIOUS
  <2> USE RingbufAssumption DEF TypeOK
  <2>1. CASE Fill
    BY <2>1 DEF Fill, ringVars, consumerVars
  <2>2. CASE ProducerSteps
    <3>1. CASE PutThrows
      BY <3>1 DEF PutThrows, ringVars, callVars, consumerVars
    <3>2. CASE PutSwap
      <4>1. Slot(ringbuf_size) \in Slots
        BY SlotInBuffer
      <4> QED
        BY <3>2, <4>1 DEF PutSwap, HasRoom, SwappedIn, ConsumerWoken, callVars
    <3>3. CASE PutRejects
      BY <3>3 DEF PutRejects, ringVars, callVars, consumerVars
    <3>4. CASE PutWaits
      BY <3>4 DEF PutWaits, ringVars, callVars, consumerVars
    <3>5. CASE PutReturns
      BY <3>5 DEF PutReturns, Reset, ringVars, callVars, consumerVars
    <3> QED
      BY <2>2, <3>1, <3>2, <3>3, <3>4, <3>5 DEF ProducerSteps
  <2>3. CASE ConsumerSteps
    <3>1. CASE GetCall
      BY <3>1 DEF GetCall, Reset, ringVars, producerVars, callVars
    <3>2. CASE GetSwap
      <4>1. Slot(0) \in Slots
        BY SlotInBuffer
      <4> QED
        BY <3>2, <4>1 DEF GetSwap, SwappedIn, ProducerWoken, callVars
    <3>3. CASE GetEnd
      BY <3>3 DEF GetEnd, ringVars, producerVars, callVars
    <3>4. CASE GetWaits
      BY <3>4 DEF GetWaits, ringVars, producerVars, callVars
    <3> QED
      BY <2>3, <3>1, <3>2, <3>3, <3>4 DEF ConsumerSteps
  <2>4. CASE EndStream
    BY <2>4 DEF EndStream, ConsumerWoken, ProducerWoken, ringVars, callVars
  <2>5. CASE UNCHANGED vars
    BY <2>5 DEF vars, ringVars, producerVars, callVars, consumerVars
  <2> QED
    BY <2>1, <2>2, <2>3, <2>4, <2>5 DEF Next, Terminated
<1> QED
  BY <1>1, <1>2, PTL DEF Spec

(* Every list has one owner at any time: the swaps of put_packet_list() and *)
(* get_packet_list() exchange two owners' lists and touch no other.         *)
THEOREM ListsNeverShared == Spec => []ListsNotShared
<1>1. Init => ListsNotShared
  BY DEF Init, ListsNotShared
<1>2. TypeOK /\ ListsNotShared /\ [Next]_vars => ListsNotShared'
  <2> SUFFICES ASSUME TypeOK, ListsNotShared, [Next]_vars PROVE ListsNotShared'
    OBVIOUS
  <2>1. CASE PutSwap
    <3> DEFINE i == Slot(ringbuf_size)
    <3>1. i \in Slots
      BY SlotInBuffer, RingbufAssumption DEF TypeOK
    <3>2. ringbuf' = [ringbuf EXCEPT ![i] = producer_list]
      BY <2>1 DEF PutSwap, SwappedIn
    <3>3. producer_list' = ringbuf[i] /\ consumer_list' = consumer_list
      BY <2>1 DEF PutSwap
    <3> HIDE DEF i
    <3> QED
      BY <3>1, <3>2, <3>3 DEF TypeOK, ListsNotShared
  <2>2. CASE GetSwap
    <3> DEFINE i == Slot(0)
    <3>1. i \in Slots
      BY SlotInBuffer
    <3>2. ringbuf' = [ringbuf EXCEPT ![i] = consumer_list]
      BY <2>2 DEF GetSwap, SwappedIn
    <3>3. consumer_list' = ringbuf[i] /\ producer_list' = producer_list
      BY <2>2 DEF GetSwap
    <3> HIDE DEF i
    <3> QED
      BY <3>1, <3>2, <3>3 DEF TypeOK, ListsNotShared
  <2>3. CASE UNCHANGED <<ringbuf, producer_list, consumer_list>>
    BY <2>3 DEF ListsNotShared
  <2>4. PutSwap \/ GetSwap \/ UNCHANGED <<ringbuf, producer_list, consumer_list>>
    BY DEF Next, ProducerSteps, ConsumerSteps, Fill, PutThrows, PutRejects, PutWaits, PutReturns,
           GetCall, GetEnd, GetWaits, EndStream, Terminated, vars, ringVars, producerVars,
           consumerVars
  <2> QED
    BY <2>1, <2>2, <2>3, <2>4
<1> QED
  BY <1>1, <1>2, TypeCorrect, PTL DEF Spec

(* A blocked get_packet_list() or put_packet_list() has nothing to do: every *)
(* change that could give it something broadcasts to its condition variable. *)
THEOREM NoWakeupLost == Spec => []NoLostWakeup
<1>1. Init => NoLostWakeup
  BY DEF Init, NoLostWakeup
<1>2. TypeOK /\ NoLostWakeup /\ [Next]_vars => NoLostWakeup'
  <2> SUFFICES ASSUME TypeOK, NoLostWakeup, [Next]_vars PROVE NoLostWakeup'
    OBVIOUS
  <2> USE DEF NoLostWakeup, HasRoom
  <2>1. CASE Fill
    BY <2>1 DEF Fill, ringVars, consumerVars
  <2>2. CASE PutSwap
    BY <2>2 DEF PutSwap, ConsumerWoken
  <2>3. CASE PutThrows \/ PutRejects \/ PutWaits \/ PutReturns
    BY <2>3 DEF PutThrows, PutRejects, PutWaits, PutReturns, ringVars, consumerVars
  <2>4. CASE GetSwap
    BY <2>4 DEF GetSwap, ProducerWoken
  <2>5. CASE GetCall \/ GetEnd \/ GetWaits
    BY <2>5 DEF GetCall, GetEnd, GetWaits, ringVars, producerVars
  <2>6. CASE EndStream
    BY <2>6 DEF EndStream, ConsumerWoken, ProducerWoken
  <2>7. CASE UNCHANGED vars
    BY <2>7 DEF vars, ringVars, producerVars, consumerVars
  <2> QED
    BY <2>1, <2>2, <2>3, <2>4, <2>5, <2>6, <2>7
       DEF Next, ProducerSteps, ConsumerSteps, Terminated
<1> QED
  BY <1>1, <1>2, TypeCorrect, PTL DEF Spec

(* What an occupied slot is after a put and after a get.                    *)
LEMMA OccupiedAfter ==
  ASSUME TypeOK
  PROVE  /\ PutSwap => Occupied \subseteq Occupied' /\ Slot(ringbuf_size) \in Occupied'
         /\ GetSwap => Occupied \subseteq Occupied' \cup {Slot(0)}
<1>1. ASSUME PutSwap PROVE Occupied \subseteq Occupied' /\ Slot(ringbuf_size) \in Occupied'
  <2>1. ringbuf_pos' = ringbuf_pos /\ ringbuf_size' = ringbuf_size + 1 /\ ringbuf_size \in Nat
    BY <1>1, RingbufAssumption DEF PutSwap, TypeOK
  <2>2. Occupied' = {Slot(i) : i \in 0 .. ringbuf_size}
    BY <2>1 DEF Occupied, Slot
  <2> QED
    BY <2>1, <2>2 DEF Occupied
<1>2. ASSUME GetSwap PROVE Occupied \subseteq Occupied' \cup {Slot(0)}
  <2>1. ringbuf_pos' = ringbuf_pos + 1 /\ ringbuf_size' = ringbuf_size - 1
        /\ ringbuf_size \in Nat /\ ringbuf_pos \in Nat
    BY <1>2, RingbufAssumption DEF GetSwap, TypeOK
  <2>2. ASSUME NEW i \in 1 .. ringbuf_size - 1 PROVE Slot(i) \in Occupied'
    <3>1. i - 1 \in 0 .. ringbuf_size' - 1 /\ ringbuf_pos' + (i - 1) = ringbuf_pos + i
      BY <2>1
    <3>2. Slot(i - 1)' = Slot(i)
      BY <3>1 DEF Slot
    <3>3. Occupied' = {(ringbuf_pos' + j) % Capacity : j \in 0 .. ringbuf_size' - 1}
      BY DEF Occupied, Slot
    <3> QED
      BY <3>1, <3>3 DEF Slot
  <2>3. \A i \in 0 .. ringbuf_size - 1 : i = 0 \/ i \in 1 .. ringbuf_size - 1
    BY <2>1
  <2> QED
    BY <2>2, <2>3 DEF Occupied
<1> QED
  BY <1>1, <1>2

(* Each list that is empty: those of the free slots, that of the producer   *)
(* when it starts to fill, and that of the consumer while it gets.          *)
Clean ==
  /\ NoStalePackets
  /\ consumer \in {"get", "waiting"} => contents[consumer_list] = 0

(* No slot keeps packets already handed over, and the producer always fills *)
(* an empty list, although lists are reset outside the lock.                *)
THEOREM NoPacketsLeft == Spec => []NoStalePackets
<1>1. Init => Clean
  <2> SUFFICES ASSUME Init PROVE Clean
    OBVIOUS
  <2>1. \A l \in Lists : contents[l] = 0
    BY DEF Init
  <2>2. \A i \in Slots : ringbuf[i] \in Lists
    BY DEF Init
  <2> QED
    BY <2>1, <2>2 DEF Init, Clean, NoStalePackets
<1>2. TypeOK /\ ListsNotShared /\ Clean /\ [Next]_vars => Clean'
  <2> SUFFICES ASSUME TypeOK, ListsNotShared, Clean, [Next]_vars PROVE Clean'
    OBVIOUS
  <2>0. /\ contents \in [Lists -> Nat] /\ ringbuf \in [Slots -> Lists]
        /\ producer_list \in Lists /\ consumer_list \in Lists
    BY DEF TypeOK
  <2>1. CASE Fill
    <3>1. /\ contents' = [contents EXCEPT ![producer_list] = batch + 1] /\ producer' = "put"
          /\ UNCHANGED <<ringbuf, ringbuf_pos, ringbuf_size, consumer, consumer_list>>
      BY <2>1 DEF Fill, ringVars, consumerVars
    <3>2. Occupied' = Occupied
      BY <3>1 DEF Occupied, Slot
    <3>3. \A l \in Lists \ {producer_list} : contents'[l] = contents[l]
      BY <2>0, <3>1
    <3> QED
      BY <2>0, <3>1, <3>2, <3>3 DEF Clean, NoStalePackets, ListsNotShared
  <2>2. CASE PutReturns \/ GetCall
    <3>1. UNCHANGED <<ringbuf, ringbuf_pos, ringbuf_size, producer_list, consumer_list>>
      BY <2>2 DEF PutReturns, GetCall, ringVars, consumerVars, producerVars
    <3>2. Occupied' = Occupied
      BY <3>1 DEF Occupied, Slot
    <3>3. CASE PutReturns
      <4>1. contents' = [contents EXCEPT ![producer_list] = 0] /\ UNCHANGED consumer
        BY <3>3 DEF PutReturns, Reset, consumerVars
      <4> QED
        BY <2>0, <3>1, <3>2, <4>1 DEF Clean, NoStalePackets
    <3>4. CASE GetCall
      <4>1. contents' = [contents EXCEPT ![consumer_list] = 0] /\ UNCHANGED producer
        BY <3>4 DEF GetCall, Reset, producerVars
      <4> QED
        BY <2>0, <3>1, <3>2, <4>1 DEF Clean, NoStalePackets
    <3> QED
      BY <2>2, <3>3, <3>4
  <2>3. CASE PutSwap
    <3> DEFINE i == Slot(ringbuf_size)
    <3>1. /\ i \in Slots
          /\ ringbuf' = [ringbuf EXCEPT ![i] = producer_list]
          /\ producer' = "reset" /\ UNCHANGED <<contents, consumer_list>>
          /\ consumer' \in {"get", "waiting"} => consumer \in {"get", "waiting"}
      BY <2>3, SlotInBuffer, RingbufAssumption DEF PutSwap, SwappedIn, ConsumerWoken, TypeOK
    <3>2. Occupied \subseteq Occupied' /\ i \in Occupied'
      BY <2>3, OccupiedAfter
    <3> HIDE DEF i
    <3>3. \A j \in Slots \ Occupied' : j \in Slots \ Occupied /\ ringbuf'[j] = ringbuf[j]
      BY <2>0, <3>1, <3>2
    <3> QED
      BY <3>1, <3>3 DEF Clean, NoStalePackets
  <2>4. CASE GetSwap
    <3> DEFINE i == Slot(0)
    <3>1. /\ i \in Slots
          /\ ringbuf' = [ringbuf EXCEPT ![i] = consumer_list]
          /\ consumer' = "working" /\ UNCHANGED <<contents, producer_list>>
          /\ producer' = "filling" => producer = "filling"
          /\ contents[consumer_list] = 0
      BY <2>4, SlotInBuffer DEF GetSwap, SwappedIn, ProducerWoken, Clean
    <3>2. Occupied \subseteq Occupied' \cup {i}
      BY <2>4, OccupiedAfter
    <3> HIDE DEF i
    <3>3. \A j \in Slots \ Occupied' :
            \/ j = i /\ ringbuf'[j] = consumer_list
            \/ j \in Slots \ Occupied /\ ringbuf'[j] = ringbuf[j]
      BY <2>0, <3>1, <3>2
    <3> QED
      BY <3>1, <3>3 DEF Clean, NoStalePackets
  <2>5. CASE /\ UNCHANGED <<ringbuf, ringbuf_pos, ringbuf_size, contents, producer_list, consumer_list>>
             /\ producer' = "filling" => producer = "filling"
             /\ consumer' \in {"get", "waiting"} => consumer \in {"get", "waiting"}
    <3>1. Occupied' = Occupied
      BY <2>5 DEF Occupied, Slot
    <3> QED
      BY <2>5, <3>1 DEF Clean, NoStalePackets
  <2>6. PutThrows \/ PutRejects \/ PutWaits \/ GetEnd \/ GetWaits \/ EndStream \/ UNCHANGED vars
        => /\ UNCHANGED <<ringbuf, ringbuf_pos, ringbuf_size, contents, producer_list, consumer_list>>
           /\ producer' = "filling" => producer = "filling"
           /\ consumer' \in {"get", "waiting"} => consumer \in {"get", "waiting"}
    BY DEF PutThrows, PutRejects, PutWaits, GetEnd, GetWaits, EndStream, vars, ringVars,
           producerVars, consumerVars, ConsumerWoken, ProducerWoken
  <2> QED
    BY <2>1, <2>2, <2>3, <2>4, <2>5, <2>6 DEF Next, ProducerSteps, ConsumerSteps, Terminated
<1> QED
  BY <1>1, <1>2, TypeCorrect, ListsNeverShared, PTL DEF Clean, Spec

-----------------------------------------------------------------------------
(* UdpPacketRingbuf implements BoundedQueue.                                 *)

(* What the refinement maps the buffer to. *)
AbstractQueue == [i \in 1 .. ringbuf_size |-> contents[ringbuf[Slot(i - 1)]]]
AbstractGiven == IF consumer = "working" THEN contents[consumer_list] ELSE 0

(* The producer calls put_packet_list() with its last batch. *)
BatchInHand ==
  producer \in {"put", "waiting"} =>
    contents[producer_list] = batch /\ batch \in 1 .. MaxBatches

LEMMA NoGap ==
  ASSUME NEW n \in Nat \ {0}, NEW x \in Int, NEW y \in Int, x < y
  PROVE  n * x + n <= n * y
<1>1. PICK d \in Nat : y = x + 1 + d
  <2>1. y - x - 1 \in Nat /\ y = x + 1 + (y - x - 1)
    OBVIOUS
  <2> QED
    BY <2>1
<1>2. n * y = n * x + n + n * d
  BY <1>1
<1>3. n * d >= 0 /\ n * d \in Int /\ n * x \in Int
  BY <1>1
<1> QED
  BY <1>2, <1>3

LEMMA DivMod ==
  ASSUME NEW n \in Nat \ {0}, NEW x \in Nat
  PROVE  /\ x = n * (x \div n) + (x % n)
         /\ x \div n \in Nat /\ x % n \in 0 .. n - 1
  OBVIOUS

(* Fewer than Capacity entries in a row are in different slots. *)
LEMMA SlotsDiffer ==
  ASSUME TypeOK, NEW i \in Nat, NEW j \in Nat, i < j, j - i < Capacity
  PROVE  Slot(i) # Slot(j)
<1> DEFINE x == ringbuf_pos + i
           y == ringbuf_pos + j
           p == x \div Capacity
           q == y \div Capacity
<1>1. Capacity \in Nat \ {0} /\ x \in Nat /\ y \in Nat /\ x < y /\ y - x < Capacity
  BY RingbufAssumption DEF TypeOK
<1> SUFFICES ASSUME x % Capacity = y % Capacity PROVE FALSE
  BY DEF Slot
<1> HIDE DEF x, y
<1>2. x = Capacity * p + (x % Capacity) /\ p \in Nat /\ x % Capacity \in 0 .. Capacity - 1
  BY <1>1, DivMod
<1>3. y = Capacity * q + (y % Capacity) /\ q \in Nat /\ y % Capacity \in 0 .. Capacity - 1
  BY <1>1, DivMod
<1> HIDE DEF p, q
<1>4. Capacity * p \in Int /\ Capacity * q \in Int /\ Capacity * p < Capacity * q
      /\ Capacity * q < Capacity * p + Capacity
  BY <1>1, <1>2, <1>3
<1>5. ~(p < q)
  <2>1. ASSUME p < q PROVE Capacity * p + Capacity <= Capacity * q
    BY <1>1, <1>2, <1>3, <2>1, NoGap
  <2> QED
    BY <1>1, <1>4, <2>1
<1>6. ~(q < p)
  <2>1. ASSUME q < p PROVE Capacity * q + Capacity <= Capacity * p
    BY <1>1, <1>2, <1>3, <2>1, NoGap
  <2> QED
    BY <1>1, <1>4, <2>1
<1>7. p = q
  BY <1>2, <1>3, <1>5, <1>6
<1> QED
  BY <1>4, <1>7

LEMMA BatchKept == Spec => []BatchInHand
<1>1. Init => BatchInHand
  BY DEF Init, BatchInHand
<1>2. TypeOK /\ ListsNotShared /\ BatchInHand /\ [Next]_vars => BatchInHand'
  <2> SUFFICES ASSUME TypeOK, ListsNotShared, BatchInHand, [Next]_vars PROVE BatchInHand'
    OBVIOUS
  <2> USE DEF BatchInHand, TypeOK, callVars, producerVars
  <2>1. CASE Fill
    BY <2>1, RingbufAssumption DEF Fill
  <2>2. CASE PutThrows \/ PutSwap \/ PutRejects \/ PutReturns
    BY <2>2 DEF PutThrows, PutSwap, PutRejects, PutReturns
  <2>3. CASE PutWaits
    BY <2>3 DEF PutWaits
  <2>4. CASE GetCall
    BY <2>4 DEF GetCall, Reset, ListsNotShared
  <2>5. CASE GetSwap \/ EndStream
    BY <2>5 DEF GetSwap, EndStream, ProducerWoken
  <2>6. CASE GetEnd \/ GetWaits \/ UNCHANGED vars
    BY <2>6 DEF GetEnd, GetWaits, vars
  <2> QED
    BY <2>1, <2>2, <2>3, <2>4, <2>5, <2>6 DEF Next, ProducerSteps, ConsumerSteps, Terminated
<1> QED
  BY <1>1, <1>2, TypeCorrect, ListsNeverShared, PTL DEF Spec

(* A list that only the producer or the consumer owns may change. *)
LEMMA OwnListChanges ==
  ASSUME TypeOK, ListsNotShared, UNCHANGED ringVars,
         NEW list \in {producer_list, consumer_list}, NEW value,
         contents' = [contents EXCEPT ![list] = value]
  PROVE  AbstractQueue' = AbstractQueue
<1>1. ASSUME NEW i \in 1 .. ringbuf_size
      PROVE  contents'[ringbuf[Slot(i - 1)]] = contents[ringbuf[Slot(i - 1)]]
  <2>1. Slot(i - 1) \in Slots
    BY SlotInBuffer DEF TypeOK
  <2> QED
    BY <2>1 DEF TypeOK, ListsNotShared
<1>2. ringbuf_size' = ringbuf_size /\ ringbuf' = ringbuf
      /\ \A i \in 1 .. ringbuf_size : Slot(i - 1)' = Slot(i - 1)
  BY DEF ringVars, Slot
<1> QED
  BY <1>1, <1>2 DEF AbstractQueue

LEMMA PutAccepts ==
  ASSUME TypeOK, ListsNotShared, BatchInHand, PutSwap
  PROVE  /\ batch \in 1 .. MaxBatches /\ Len(AbstractQueue) < Capacity
         /\ AbstractQueue' = Append(AbstractQueue, batch)
         /\ AbstractGiven' = AbstractGiven /\ ~stream_ended /\ UNCHANGED stream_ended
<1>1. /\ ~stream_ended /\ ringbuf_size < Capacity /\ ringbuf_size \in Nat
      /\ ringbuf' = [ringbuf EXCEPT ![Slot(ringbuf_size)] = producer_list]
      /\ ringbuf_size' = ringbuf_size + 1
      /\ UNCHANGED <<ringbuf_pos, stream_ended, contents, consumer_list>>
      /\ consumer' = ConsumerWoken
  BY RingbufAssumption DEF PutSwap, SwappedIn, HasRoom, TypeOK
<1>2. contents[producer_list] = batch /\ batch \in 1 .. MaxBatches
  BY DEF PutSwap, BatchInHand
<1>3. \A i \in Nat : Slot(i)' = Slot(i)
  BY <1>1 DEF Slot
<1>4. AbstractQueue' = [i \in 1 .. ringbuf_size + 1 |-> contents[ringbuf'[Slot(i - 1)]]]
  BY <1>1, <1>3 DEF AbstractQueue
<1>5. contents[ringbuf'[Slot(ringbuf_size)]] = batch
  BY <1>1, <1>2, SlotInBuffer DEF TypeOK
<1>6. ASSUME NEW i \in 1 .. ringbuf_size
      PROVE  ringbuf'[Slot(i - 1)] = ringbuf[Slot(i - 1)]
  <2>1. /\ i - 1 \in Nat /\ i - 1 < ringbuf_size
        /\ ringbuf_size - (i - 1) <= ringbuf_size
    BY <1>1
  <2>2. ringbuf_size - (i - 1) < Capacity
    BY <1>1, <2>1, RingbufAssumption
  <2>3. Slot(i - 1) # Slot(ringbuf_size)
    BY <1>1, <2>1, <2>2, SlotsDiffer
  <2>4. Slot(i - 1) \in Slots
    BY <2>1, SlotInBuffer
  <2> QED
    BY <1>1, <2>3, <2>4 DEF TypeOK
<1>7. Len(AbstractQueue) = ringbuf_size
  BY <1>1 DEF AbstractQueue
<1>8. AbstractQueue' = Append(AbstractQueue, batch)
  <2>1. Append(AbstractQueue, batch)
          = [i \in 1 .. ringbuf_size + 1 |-> IF i = ringbuf_size + 1 THEN batch ELSE AbstractQueue[i]]
    BY <1>1, <1>7 DEF AbstractQueue
  <2>2. ASSUME NEW i \in 1 .. ringbuf_size + 1
        PROVE  contents[ringbuf'[Slot(i - 1)]]
                 = IF i = ringbuf_size + 1 THEN batch ELSE AbstractQueue[i]
    <3>1. CASE i = ringbuf_size + 1
      <4>1. i - 1 = ringbuf_size
        BY <1>1, <3>1
      <4> QED
        BY <1>5, <3>1, <4>1
    <3>2. CASE i \in 1 .. ringbuf_size
      BY <1>1, <1>6, <3>2 DEF AbstractQueue
    <3> QED
      BY <1>1, <3>1, <3>2
  <2> QED
    BY <1>4, <2>1, <2>2
<1>9. AbstractGiven' = AbstractGiven
  BY <1>1 DEF AbstractGiven, ConsumerWoken
<1> QED
  BY <1>1, <1>2, <1>7, <1>8, <1>9

LEMMA GetDelivers ==
  ASSUME TypeOK, ListsNotShared, GetSwap
  PROVE  /\ AbstractQueue # <<>>
         /\ AbstractGiven' = Head(AbstractQueue)
         /\ AbstractQueue' = Tail(AbstractQueue)
         /\ UNCHANGED stream_ended
<1>1. /\ ringbuf_size \in Nat \ {0} /\ ringbuf_size <= Capacity
      /\ ringbuf' = [ringbuf EXCEPT ![Slot(0)] = consumer_list]
      /\ consumer_list' = ringbuf[Slot(0)]
      /\ ringbuf_pos' = ringbuf_pos + 1 /\ ringbuf_size' = ringbuf_size - 1
      /\ consumer' = "working"
      /\ UNCHANGED <<stream_ended, contents>>
  BY RingbufAssumption DEF GetSwap, SwappedIn, TypeOK
<1>2. ASSUME NEW i \in 1 .. ringbuf_size - 1
      PROVE  contents'[ringbuf'[Slot(i - 1)']] = AbstractQueue[i + 1]
  <2>1. i \in Nat /\ 0 < i /\ i - 0 < Capacity /\ i + 1 \in 1 .. ringbuf_size /\ (i + 1) - 1 = i
    BY <1>1, RingbufAssumption
  <2>2. Slot(i - 1)' = Slot(i)
    <3>1. ringbuf_pos' + (i - 1) = ringbuf_pos + i
      BY <1>1 DEF TypeOK
    <3> QED
      BY <3>1 DEF Slot
  <2>3. Slot(i) # Slot(0) /\ Slot(i) \in Slots
    BY <2>1, SlotsDiffer, SlotInBuffer
  <2>4. ringbuf'[Slot(i)] = ringbuf[Slot(i)]
    BY <1>1, <2>3 DEF TypeOK
  <2> QED
    BY <1>1, <2>1, <2>2, <2>4 DEF AbstractQueue
<1>3. AbstractQueue' = [i \in 1 .. ringbuf_size - 1 |-> contents'[ringbuf'[Slot(i - 1)']]]
  BY <1>1 DEF AbstractQueue
<1>4. /\ Len(AbstractQueue) = ringbuf_size /\ AbstractQueue # <<>>
      /\ Tail(AbstractQueue) = [i \in 1 .. ringbuf_size - 1 |-> AbstractQueue[i + 1]]
  <2>1. Len(AbstractQueue) = ringbuf_size
    BY <1>1 DEF AbstractQueue
  <2>2. AbstractQueue # <<>>
    BY <1>1, <2>1
  <2>3. Tail(AbstractQueue) = [i \in 1 .. ringbuf_size - 1 |-> AbstractQueue[i + 1]]
    BY <1>1, <2>1 DEF AbstractQueue
  <2> QED
    BY <2>1, <2>2, <2>3
<1>5. Head(AbstractQueue) = contents[ringbuf[Slot(0)]]
  <2>1. 1 \in 1 .. ringbuf_size /\ 1 - 1 = 0
    BY <1>1
  <2>2. AbstractQueue[1] = contents[ringbuf[Slot(0)]]
    BY <2>1 DEF AbstractQueue
  <2> QED
    BY <2>2
<1> QED
  BY <1>1, <1>2, <1>3, <1>4, <1>5 DEF AbstractGiven

(* What the users of the buffer see of a step: a list goes in, the oldest    *)
(* one comes out, the consumer gives its list back, the end, or nothing.     *)
LEMMA StepAbstract ==
  ASSUME TypeOK, ListsNotShared, BatchInHand, [Next]_vars
  PROVE  \/ /\ ~stream_ended /\ batch \in 1 .. MaxBatches /\ Len(AbstractQueue) < Capacity
            /\ AbstractQueue' = Append(AbstractQueue, batch)
            /\ AbstractGiven' = AbstractGiven /\ UNCHANGED stream_ended
         \/ /\ AbstractQueue # <<>> /\ AbstractGiven' = Head(AbstractQueue)
            /\ AbstractQueue' = Tail(AbstractQueue) /\ UNCHANGED stream_ended
         \/ AbstractGiven' = 0 /\ AbstractQueue' = AbstractQueue /\ UNCHANGED stream_ended
         \/ stream_ended' = TRUE /\ AbstractGiven' = AbstractGiven /\ AbstractQueue' = AbstractQueue
         \/ AbstractGiven' = AbstractGiven /\ AbstractQueue' = AbstractQueue /\ UNCHANGED stream_ended
<1> USE DEF ringVars, callVars, producerVars, consumerVars
<1>1. CASE Fill
  <2>1. /\ contents' = [contents EXCEPT ![producer_list] = batch + 1]
        /\ UNCHANGED <<ringVars, stream_ended, consumerVars>>
    BY <1>1 DEF Fill
  <2>2. AbstractQueue' = AbstractQueue
    BY <2>1, OwnListChanges
  <2>3. AbstractGiven' = AbstractGiven
    BY <2>1 DEF AbstractGiven, TypeOK, ListsNotShared
  <2> QED
    BY <2>1, <2>2, <2>3
<1>2. CASE PutReturns
  <2>1. /\ contents' = [contents EXCEPT ![producer_list] = 0]
        /\ UNCHANGED <<ringVars, stream_ended, consumerVars>>
    BY <1>2 DEF PutReturns, Reset
  <2>2. AbstractQueue' = AbstractQueue
    BY <2>1, OwnListChanges
  <2>3. AbstractGiven' = AbstractGiven
    BY <2>1 DEF AbstractGiven, TypeOK, ListsNotShared
  <2> QED
    BY <2>1, <2>2, <2>3
<1>3. CASE GetCall
  <2>1. /\ contents' = [contents EXCEPT ![consumer_list] = 0] /\ consumer' = "get"
        /\ UNCHANGED <<ringVars, stream_ended>>
    BY <1>3 DEF GetCall, Reset
  <2>2. AbstractQueue' = AbstractQueue
    BY <2>1, OwnListChanges
  <2> QED
    BY <2>1, <2>2 DEF AbstractGiven
<1>4. CASE PutSwap
  BY <1>4, PutAccepts
<1>5. CASE GetSwap
  BY <1>5, GetDelivers
<1>6. ASSUME UNCHANGED <<ringVars, contents, consumer_list>>,
             consumer = "working" <=> consumer' = "working"
      PROVE  AbstractGiven' = AbstractGiven /\ AbstractQueue' = AbstractQueue
  BY <1>6 DEF AbstractGiven, AbstractQueue, Slot
<1>7. CASE PutThrows \/ PutRejects \/ PutWaits
  BY <1>6, <1>7 DEF PutThrows, PutRejects, PutWaits
<1>8. CASE GetEnd \/ GetWaits
  BY <1>6, <1>8 DEF GetEnd, GetWaits
<1>9. CASE EndStream
  BY <1>6, <1>9 DEF EndStream, ConsumerWoken
<1>10. CASE UNCHANGED vars
  BY <1>6, <1>10 DEF vars
<1> QED
  BY <1>1, <1>2, <1>3, <1>4, <1>5, <1>7, <1>8, <1>9, <1>10
     DEF Next, ProducerSteps, ConsumerSteps, Terminated

(* To its users udp_packet_ringbuf is a bounded FIFO, although lists are     *)
(* swapped and reset outside the lock: what put_packet_list() accepts is     *)
(* delivered once and in order, also after end_stream().                     *)
THEOREM IsBoundedQueue == Spec => ImplementsBoundedQueue
<1>1. Init => Queue!Init
  <2> SUFFICES ASSUME Init PROVE Queue!Init
    OBVIOUS
  <2>1. ringbuf_size = 0 /\ stream_ended = FALSE /\ consumer_list \in Lists
        /\ contents = [l \in Lists |-> 0]
    BY DEF Init
  <2>2. [i \in 1 .. ringbuf_size |-> contents[ringbuf[Slot(i - 1)]]] = <<>>
    BY <2>1
  <2> QED
    BY <2>1, <2>2 DEF Queue!Init
<1>2. TypeOK /\ ListsNotShared /\ BatchInHand /\ [Next]_vars => [Queue!Next]_(Queue!vars)
  <2> SUFFICES ASSUME TypeOK, ListsNotShared, BatchInHand, [Next]_vars
               PROVE  [Queue!Next]_(Queue!vars)
    OBVIOUS
  <2> QED
    BY StepAbstract DEF Queue!Next, Queue!Accept, Queue!Deliver, Queue!Discard, Queue!Close,
       Queue!vars, AbstractQueue, AbstractGiven
<1> QED
  BY <1>1, <1>2, TypeCorrect, ListsNeverShared, BatchKept, PTL
     DEF Spec, Queue!Spec, ImplementsBoundedQueue

-----------------------------------------------------------------------------
(* The pool of slabs.                                                      *)

LEMMA NSlabsType == NSlabs \in Nat \ {0}
  BY PoolAssumption, FS_CardinalityType DEF NSlabs

(* The type of the slab get_slab() takes and the place put_slab() fills     *)
(* depend on the pool being a stack, and the stack on the slabs having one  *)
(* place each: only together are the three inductive.                       *)
IInv == PoolTypeOK /\ PoolIsStack /\ OnePlaceEach

(* A place of the pool below curr_size holds a slab no thread holds. *)
LEMMA InPoolNotHeld ==
  ASSUME OnePlaceEach, NEW i \in 0 .. curr_size - 1, NEW t \in Threads
  PROVE  slabs[i] \notin held[t]
  BY DEF OnePlaceEach, InPool

LEMMA InitIInv == PoolInit => IInv
<1> SUFFICES ASSUME PoolInit PROVE IInv
  OBVIOUS
<1> USE NSlabsType, PoolAssumption DEF PoolInit
<1>1. PoolTypeOK
  <2>1. slabs \in [Places -> Slabs \cup {Null}]
    <3>1. slabs \in [Places -> Slabs]
      OBVIOUS
    <3> QED
      BY <3>1
  <2>2. curr_size \in 0 .. NSlabs /\ low_water_mark \in 0 .. NSlabs
    OBVIOUS
  <2>3. held \in [Threads -> SUBSET Slabs]
    OBVIOUS
  <2>4. thread \in [Threads -> {"working", "asleep", "woken"}] /\ denied \in BOOLEAN
    OBVIOUS
  <2> QED
    BY <2>1, <2>2, <2>3, <2>4 DEF PoolTypeOK
<1>2. PoolIsStack
  BY DEF PoolIsStack, Places
<1>3. OnePlaceEach
  BY DEF OnePlaceEach, InPool, Places
<1> QED
  BY <1>1, <1>2, <1>3 DEF IInv

(* Taking the slab on top of the stack. *)
LEMMA TakeStep ==
  ASSUME IInv, NEW t \in Threads, Take(t)
  PROVE  IInv'
<1> DEFINE top == slabs[curr_size - 1]
<1> USE NSlabsType, PoolAssumption DEF IInv, PoolTypeOK
<1>1. curr_size \in 1 .. NSlabs /\ curr_size - 1 \in Places
  BY DEF Take, Places
<1>2. top \in Slabs
  BY <1>1 DEF PoolIsStack
<1>3. /\ slabs' = [slabs EXCEPT ![curr_size - 1] = Null]
      /\ curr_size' = curr_size - 1
      /\ held' = [held EXCEPT ![t] = @ \cup {top}]
  BY DEF Take, TakenFrom
<1>4. PoolTypeOK'
  BY <1>1, <1>2, <1>3 DEF Take, LowWater
<1>5. PoolIsStack'
  BY <1>1, <1>3 DEF PoolIsStack, Places
<1>6. \A i \in 0 .. curr_size' - 1 :
        i \in Places /\ i \in 0 .. curr_size - 1 /\ slabs'[i] = slabs[i] /\ slabs[i] # top
  BY <1>1, <1>3 DEF OnePlaceEach, Places
<1>7. OnePlaceEach'
  <2>1. \A i, j \in 0 .. curr_size' - 1 : i # j => slabs'[i] # slabs'[j]
    BY <1>6 DEF OnePlaceEach
  <2>2. \A u \in Threads, i \in 0 .. curr_size' - 1 : slabs'[i] \notin held'[u]
    BY <1>3, <1>6, InPoolNotHeld
  <2>3. \A u \in Threads : top \notin held[u]
    BY <1>1, InPoolNotHeld
  <2>4. \A u, v \in Threads : u # v => held'[u] \cap held'[v] = {}
    BY <1>3, <2>3 DEF OnePlaceEach
  <2> QED
    BY <2>1, <2>2, <2>4 DEF OnePlaceEach, InPool
<1> QED
  BY <1>4, <1>5, <1>7

(* Returning a slab on top of the stack. *)
LEMMA PutStep ==
  ASSUME IInv, NEW t \in Threads, NEW s \in Slabs, Put(t, s)
  PROVE  IInv'
<1> USE NSlabsType, PoolAssumption DEF IInv, PoolTypeOK
<1>1. /\ curr_size \in Places
      /\ s \in held[t]
      /\ slabs' = [slabs EXCEPT ![curr_size] = s]
      /\ curr_size' = curr_size + 1
      /\ held' = [held EXCEPT ![t] = @ \ {s}]
  BY DEF Put, PoolBroken, Places
<1>2. PoolTypeOK'
  BY <1>1 DEF Put, AllWoken, Waiters, Places
<1>3. PoolIsStack'
  BY <1>1 DEF PoolIsStack, Places
<1>4. \A i \in 0 .. curr_size' - 1 :
        \/ i = curr_size /\ slabs'[i] = s
        \/ i \in 0 .. curr_size - 1 /\ slabs'[i] = slabs[i] /\ slabs[i] # s
  <2> TAKE i \in 0 .. curr_size' - 1
  <2>1. CASE i = curr_size
    BY <1>1, <2>1
  <2>2. CASE i # curr_size
    <3>1. i \in 0 .. curr_size - 1 /\ slabs'[i] = slabs[i]
      BY <1>1, <2>2 DEF Places
    <3> QED
      BY <1>1, <3>1, InPoolNotHeld
  <2> QED
    BY <2>1, <2>2
<1>5. OnePlaceEach'
  <2>1. \A i, j \in 0 .. curr_size' - 1 : i # j => slabs'[i] # slabs'[j]
    BY <1>4 DEF OnePlaceEach
  <2>2. \A u \in Threads : s \notin held'[u]
    BY <1>1 DEF OnePlaceEach
  <2>3. \A u \in Threads, i \in 0 .. curr_size' - 1 : slabs'[i] \notin held'[u]
    BY <1>1, <1>4, <2>2, InPoolNotHeld
  <2>4. \A u, v \in Threads : u # v => held'[u] \cap held'[v] = {}
    BY <1>1 DEF OnePlaceEach
  <2> QED
    BY <2>1, <2>3, <2>4 DEF OnePlaceEach, InPool
<1> QED
  BY <1>2, <1>3, <1>5

(* Passing a chunk to another thread. *)
LEMMA HandOverStep ==
  ASSUME IInv, NEW t \in Threads, NEW u \in Threads \ {t}, NEW s \in Slabs,
         HandOver(t, u, s)
  PROVE  IInv'
<1> USE DEF IInv, PoolTypeOK
<1>1. /\ s \in held[t]
      /\ held' = [held EXCEPT ![t] = @ \ {s}, ![u] = @ \cup {s}]
      /\ UNCHANGED <<slabs, curr_size, low_water_mark, thread, denied>>
  BY DEF HandOver
<1>2. PoolTypeOK' /\ PoolIsStack'
  BY <1>1 DEF PoolIsStack
<1>3. \A v \in Threads, i \in 0 .. curr_size' - 1 : slabs'[i] \notin held'[v]
  BY <1>1, InPoolNotHeld
<1>4. \A v, w \in Threads : v # w => held'[v] \cap held'[w] = {}
  BY <1>1 DEF OnePlaceEach
<1>5. OnePlaceEach'
  BY <1>1, <1>3, <1>4 DEF OnePlaceEach, InPool
<1> QED
  BY <1>2, <1>5

LEMMA NextIInv == IInv /\ [PoolNext]_poolVars => IInv'
<1> SUFFICES ASSUME IInv, [PoolNext]_poolVars PROVE IInv'
  OBVIOUS
<1>1. CASE UNCHANGED poolVars
  BY <1>1 DEF poolVars, IInv, PoolTypeOK, PoolIsStack, OnePlaceEach, InPool
<1>2. ASSUME NEW t \in Threads, Get(t) \/ GetAgain(t) PROVE IInv'
  BY <1>2, TakeStep DEF Get, GetAgain
<1>3. ASSUME NEW t \in Threads, SleepAgain(t) PROVE IInv'
  BY <1>3 DEF SleepAgain, IInv, PoolTypeOK, PoolIsStack, OnePlaceEach, InPool
<1>4. ASSUME NEW t \in Threads, NEW wait \in BOOLEAN, GetFails(t, wait) PROVE IInv'
  BY <1>4 DEF GetFails, IInv, PoolTypeOK, PoolIsStack, OnePlaceEach, InPool
<1>5. ASSUME NEW t \in Threads, NEW s \in Slabs, Put(t, s) PROVE IInv'
  BY <1>5, PutStep
<1>6. ASSUME NEW t \in Threads, NEW u \in Threads \ {t}, NEW s \in Slabs,
             HandOver(t, u, s)
      PROVE  IInv'
  BY <1>6, HandOverStep
<1> QED
  BY <1>1, <1>2, <1>3, <1>4, <1>5, <1>6 DEF PoolNext

(* A thread that holds a slab finds the pool neither full nor its next place *)
(* taken: as many slabs as there are places do not fit beside the held one.  *)
LEMMA HeldLeavesRoom == IInv => RoomToReturn
<1> SUFFICES ASSUME IInv, NEW t \in Threads, NEW s \in held[t] PROVE ~PoolBroken
  BY DEF RoomToReturn
<1> USE NSlabsType, PoolAssumption DEF IInv, PoolTypeOK
<1>1. curr_size # NSlabs
  <2> SUFFICES ASSUME curr_size = NSlabs PROVE FALSE
    OBVIOUS
  <2> DEFINE Others == Slabs \ {s}
  <2>1. \A i \in Places : i \in 0 .. curr_size - 1 /\ slabs[i] \in Others
    <3> TAKE i \in Places
    <3>1. i \in 0 .. curr_size - 1
      BY DEF Places
    <3>2. slabs[i] # s
      BY <3>1, InPoolNotHeld
    <3> QED
      BY <3>1, <3>2 DEF PoolIsStack, Places
  <2>2. slabs \in [Places -> Others]
    BY <2>1
  <2>3. IsFiniteSet(Others) /\ Cardinality(Others) = NSlabs - 1
    BY FS_RemoveElement DEF NSlabs
  <2>4. IsFiniteSet(Places) /\ Cardinality(Places) = NSlabs
    BY FS_Interval DEF Places
  <2>5. PICK i, j \in Places : i # j /\ slabs[i] = slabs[j]
    <3> HIDE DEF Others
    <3> QED
      BY <2>2, <2>3, <2>4, FS_PigeonHole
  <2> QED
    BY <2>1, <2>5 DEF OnePlaceEach
<1> QED
  BY <1>1 DEF PoolIsStack, PoolBroken, Places

(* The type invariant of the pool. *)
THEOREM PoolTypeCorrect == PoolSpec => []PoolTypeOK
<1>1. IInv => PoolTypeOK
  BY DEF IInv
<1> QED
  BY <1>1, InitIInv, NextIInv, PTL DEF PoolSpec

(* No slab is ever in two places, and put_slab() never throws. *)
THEOREM SlabsAreConserved == PoolSpec => []SlabsConserved
<1>1. IInv => SlabsConserved
  BY HeldLeavesRoom DEF IInv, SlabsConserved
<1> QED
  BY <1>1, InitIInv, NextIInv, PTL DEF PoolSpec

(* No thread sleeps in get_slab() while there is a slab: put_slab() wakes    *)
(* all, and only a thread that has just seen the empty pool goes to sleep.   *)
THEOREM PoolNoWakeupLost == PoolSpec => []PoolNoLostWakeup
<1>1. PoolInit => PoolNoLostWakeup
  BY DEF PoolInit, PoolNoLostWakeup, Waiters
<1>2. IInv /\ PoolNoLostWakeup /\ [PoolNext]_poolVars => PoolNoLostWakeup'
  <2> SUFFICES ASSUME IInv, PoolNoLostWakeup, [PoolNext]_poolVars PROVE PoolNoLostWakeup'
    OBVIOUS
  <2> USE DEF PoolNoLostWakeup, Waiters
  <2>1. ASSUME NEW t \in Threads, Take(t) PROVE PoolNoLostWakeup'
    BY <2>1 DEF Take, IInv, PoolTypeOK
  <2>2. ASSUME NEW t \in Threads, NEW s \in Slabs, Put(t, s) PROVE PoolNoLostWakeup'
    BY <2>2 DEF Put, AllWoken, IInv, PoolTypeOK
  <2>3. ASSUME NEW t \in Threads, SleepAgain(t) PROVE PoolNoLostWakeup'
    BY <2>3 DEF SleepAgain
  <2>4. ASSUME NEW t \in Threads, NEW wait \in BOOLEAN, GetFails(t, wait)
        PROVE  PoolNoLostWakeup'
    BY <2>4 DEF GetFails
  <2>5. ASSUME NEW t \in Threads, NEW u \in Threads \ {t}, NEW s \in Slabs,
               HandOver(t, u, s)
        PROVE  PoolNoLostWakeup'
    BY <2>5 DEF HandOver
  <2>6. CASE UNCHANGED poolVars
    BY <2>6 DEF poolVars
  <2> QED
    BY <2>1, <2>2, <2>3, <2>4, <2>5, <2>6 DEF PoolNext, Get, GetAgain
<1> QED
  BY <1>1, <1>2, InitIInv, NextIInv, PTL DEF PoolSpec

(* low_water_mark is never above the number of slabs in the pool, and is 0   *)
(* once a thread has found the pool empty.                                   *)
THEOREM LowWaterMarkIsTrue == PoolSpec => []LowWaterMarkTrue
<1>1. PoolInit => LowWaterMarkTrue
  BY NSlabsType DEF PoolInit, LowWaterMarkTrue
<1>2. IInv /\ LowWaterMarkTrue /\ [PoolNext]_poolVars => LowWaterMarkTrue'
  <2> SUFFICES ASSUME IInv, LowWaterMarkTrue, [PoolNext]_poolVars PROVE LowWaterMarkTrue'
    OBVIOUS
  <2> USE NSlabsType DEF LowWaterMarkTrue, IInv, PoolTypeOK
  <2>1. ASSUME NEW t \in Threads, Take(t) PROVE LowWaterMarkTrue'
    BY <2>1 DEF Take, LowWater
  <2>2. ASSUME NEW t \in Threads, NEW s \in Slabs, Put(t, s) PROVE LowWaterMarkTrue'
    BY <2>2 DEF Put
  <2>3. ASSUME NEW t \in Threads, SleepAgain(t) PROVE LowWaterMarkTrue'
    BY <2>3 DEF SleepAgain
  <2>4. ASSUME NEW t \in Threads, NEW wait \in BOOLEAN, GetFails(t, wait)
        PROVE  LowWaterMarkTrue'
    BY <2>4 DEF GetFails
  <2>5. ASSUME NEW t \in Threads, NEW u \in Threads \ {t}, NEW s \in Slabs,
               HandOver(t, u, s)
        PROVE  LowWaterMarkTrue'
    BY <2>5 DEF HandOver
  <2>6. CASE UNCHANGED poolVars
    BY <2>6 DEF poolVars
  <2> QED
    BY <2>1, <2>2, <2>3, <2>4, <2>5, <2>6 DEF PoolNext, Get, GetAgain
<1> QED
  BY <1>1, <1>2, InitIInv, NextIInv, PTL DEF PoolSpec
===========================================================================
