----------------------- MODULE NetworkOstream_proofs -----------------------
(***************************************************************************)
(* Proofs about NetworkOstream, for every capacity, packet number, target  *)
(* bandwidth and set of closing threads.                                   *)
(***************************************************************************)
EXTENDS NetworkOstream, SequenceTheorems, TLAPS

(* make() outlives the network thread's use of its local variable: the flag  *)
(* is set behind the dereference, and make() returns only behind the flag.   *)
Handshake ==
  /\ make = "creating" => network = "none"
  /\ network_thread_started => network \notin {"none", "created", "starting"}

LEMMA HandshakeKept == Spec => [](Handshake /\ PointerStillValid)
<1> DEFINE IInv == Handshake /\ PointerStillValid
<1>1. Init => IInv
  BY DEF Init, Handshake, PointerStillValid
<1>2. IInv /\ [Next]_vars => IInv'
  <2> SUFFICES ASSUME IInv, [Next]_vars PROVE IInv'
    OBVIOUS
  <2> USE DEF Handshake, PointerStillValid
  <2>1. CASE MakeSteps
    BY <2>1 DEF MakeSteps, CreateThread, MakeLoop, MakeMayReturn, networkVars
  <2>2. CASE Encode \/ SenderSteps
    BY <2>2 DEF Encode, SenderSteps, PutAccepts, PutRejects, PutThrows, makeVars, networkVars
  <2>3. CASE NetworkSteps
    BY <2>3 DEF NetworkSteps, Dereference, Started, MakeWoken, GetList, GetEnd, Stamp, Send,
                SendFails, Publish, ListDone, SendEndPacket, EndPacketsDone, ThreadReturns,
                ThreadRethrows, makeVars
  <2>4. ASSUME NEW c \in Closers,
               (\E join \in BOOLEAN : EndStream(c, join)) \/ Join(c) \/ JoinAgain(c)
        PROVE  IInv'
    BY <2>4 DEF EndStream, Join, JoinAgain, CloserStep, makeVars, networkVars
  <2>5. CASE Tick \/ UNCHANGED vars
    BY <2>5 DEF Tick, vars, makeVars, networkVars
  <2> QED
    BY <2>1, <2>2, <2>3, <2>4, <2>5 DEF Next, Terminated
<1> QED
  BY <1>1, <1>2, PTL DEF Spec

(* The comment in make(), src/intensity_network_ostream.cpp:38-41. *)
THEOREM PointerValid == Spec => []PointerStillValid
  BY HandshakeKept, PTL

-----------------------------------------------------------------------------
LEMMA InitTypeOK == Init => TypeOK
<1> SUFFICES ASSUME Init PROVE TypeOK
  OBVIOUS
<1> USE OstreamAssumption DEF Init, Ring!Init, TypeOK
<1>1. queue \in Seq(1 .. MaxChunks) /\ Len(queue) <= Capacity
  BY EmptySeq
<1>2. accepted \in Seq(1 .. MaxChunks) /\ sent \in Seq(Packets)
  BY EmptySeq
<1>3. {closed, is_blocking, network_thread_started} \subseteq BOOLEAN
  OBVIOUS
<1>4. /\ clock \in Nat /\ tv_ini \in Nat /\ tstamp \in Nat /\ prev_tstamp \in Nat
      /\ npackets_sent \in Nat /\ curr_timestamp \in Nat
  OBVIOUS
<1>5. closer \in [Closers -> {"out", "joining", "joined", "failed", "ended"}]
  OBVIOUS
<1>6. /\ given \in 0 .. MaxChunks /\ tmp_packet_list \in 0 .. MaxChunks
      /\ nchunks \in 0 .. MaxChunks /\ ipacket \in 0 .. PacketsPerChunk
      /\ nend \in 0 .. EndPackets
  OBVIOUS
<1> QED
  BY <1>1, <1>2, <1>3, <1>4, <1>5, <1>6 DEF NetworkStates

(* The first timestamp lies in the past, so that no timestamp is negative. *)
TimeOK == TypeOK /\ tv_ini <= clock

LEMMA SenderTimeOK ==
  ASSUME TimeOK, Encode \/ SenderSteps
  PROVE  TimeOK'
<1> USE OstreamAssumption DEF TimeOK, TypeOK, makeVars, networkVars, sentVars, timeVars, statVars
<1>1. CASE Encode
  BY <1>1 DEF Encode, queueVars
<1>2. CASE PutAccepts
  <2>1. /\ tmp_packet_list \in 1 .. MaxChunks
        /\ queue' = Append(queue, tmp_packet_list)
        /\ accepted' = Append(accepted, tmp_packet_list)
        /\ Len(queue) < Capacity
        /\ UNCHANGED <<closed, given>>
    BY <1>2 DEF PutAccepts, Ring!Accept
  <2>2. queue' \in Seq(1 .. MaxChunks) /\ Len(queue') <= Capacity
    <3>1. queue' \in Seq(1 .. MaxChunks) /\ Len(queue') = Len(queue) + 1
      BY <2>1, AppendProperties
    <3>2. Len(queue) \in Nat
      BY LenProperties
    <3> QED
      BY <2>1, <3>1, <3>2
  <2>3. accepted' \in Seq(1 .. MaxChunks)
    BY <2>1, AppendProperties
  <2> QED
    BY <1>2, <2>1, <2>2, <2>3 DEF PutAccepts
<1>3. CASE PutRejects
  BY <1>3 DEF PutRejects, queueVars
<1>4. CASE PutThrows
  BY <1>4 DEF PutThrows, queueVars
<1> QED
  BY <1>1, <1>2, <1>3, <1>4 DEF SenderSteps

LEMMA TargetType == ASSUME TypeOK PROVE TargetTimestamp \in Nat
<1>1. npackets_tot \in Nat
  BY LenProperties DEF TypeOK, npackets_tot
<1>2. npackets_tot * Interval \in Nat
  BY <1>1, OstreamAssumption
<1>3. prev_tstamp + (8 * Interval) \div 10 \in Nat
  <2>1. \A n \in Nat : n \div 10 \in Nat
    OBVIOUS
  <2>2. 8 * Interval \in Nat /\ prev_tstamp \in Nat
    BY OstreamAssumption DEF TypeOK
  <2> QED
    BY <2>1, <2>2
<1> QED
  BY <1>2, <1>3 DEF TargetTimestamp

LEMMA EndPacketType ==
  ASSUME nend \in 0 .. EndPackets, SendEndPacket \/ EndPacketsDone
  PROVE  nend' \in 0 .. EndPackets
<1>1. nend' = nend \/ (nend < EndPackets /\ nend' = nend + 1)
  BY DEF SendEndPacket, EndPacketsDone
<1> QED
  BY <1>1, OstreamAssumption

LEMMA CloseKeepsTimeOK ==
  ASSUME TimeOK, ThreadReturns \/ ThreadRethrows
  PROVE  TimeOK'
<1>1. closed' = TRUE /\ UNCHANGED <<queue, given>>
  BY DEF ThreadReturns, ThreadRethrows, Ring!Close
<1>2. network' = "exited" \/ network' = "aborted"
  BY DEF ThreadReturns, ThreadRethrows
<1>3. UNCHANGED <<is_blocking, makeVars, senderVars, sentVars, timeVars, statVars, nend,
                  clock, closer>>
  BY DEF ThreadReturns, ThreadRethrows, UnchangedByNetwork
<1> QED
  BY <1>1, <1>2, <1>3, SMTT(30) DEF TimeOK, TypeOK, NetworkStates, makeVars, senderVars,
     sentVars, timeVars, statVars

LEMMA NetworkTimeOK ==
  ASSUME TimeOK, NetworkSteps
  PROVE  TimeOK'
<1> USE OstreamAssumption DEF TimeOK, TypeOK, UnchangedByNetwork, makeVars, queueVars,
        senderVars, sentVars, timeVars, statVars, NetworkStates
<1>1. CASE Dereference
  BY <1>1, SMTT(30) DEF Dereference
<1>2. CASE Started
  BY <1>2, SMTT(30) DEF Started, MakeWoken
<1>3. CASE GetList
  <2>1. /\ queue # <<>> /\ given' = Head(queue) /\ queue' = Tail(queue)
        /\ UNCHANGED closed
    BY <1>3, SMTT(30) DEF GetList, Ring!Deliver
  <2>2. given' \in 1 .. MaxChunks /\ queue' \in Seq(1 .. MaxChunks) /\ Len(queue') <= Capacity
    <3>1. Head(queue) \in 1 .. MaxChunks /\ Tail(queue) \in Seq(1 .. MaxChunks)
      BY <2>1, HeadTailProperties
    <3>2. Len(Tail(queue)) = Len(queue) - 1 /\ Len(queue) \in Nat
      BY <2>1, HeadTailProperties, LenProperties
    <3> QED
      BY <2>1, <3>1, <3>2
  <2>3. given' \in 0 .. MaxChunks /\ given' # 0
    BY <2>2
  <2> QED
    BY <1>3, <2>1, <2>2, <2>3, SMTT(30) DEF GetList
<1>4. CASE GetEnd
  BY <1>4, SMTT(30) DEF GetEnd
<1>5. CASE Stamp
  <2>1. /\ tv_ini' = IF npackets_tot = 0 THEN clock ELSE tv_ini
        /\ clock' = clock
    BY <1>5, SMTT(30) DEF Stamp
  <2>2. tv_ini' \in Nat /\ tv_ini' <= clock /\ clock - tv_ini' \in Nat
    BY <2>1
  <2>3. tstamp' \in Nat
    BY <1>5, <2>2, TargetType DEF Stamp
  <2> QED
    BY <1>5, <2>1, <2>2, <2>3, SMTT(30) DEF Stamp, MorePackets
<1>6. CASE Send
  <2>1. <<given, ipacket>> \in Packets
    <3>1. given \in 1 .. MaxChunks
      BY <1>6, SMTT(30) DEF Send
    <3>2. ipacket \in 0 .. PacketsPerChunk - 1
      BY <1>6, SMTT(30) DEF Send
    <3> QED
      BY <3>1, <3>2 DEF Packets
  <2>2. sent' \in Seq(Packets)
    BY <1>6, <2>1, AppendProperties DEF Send
  <2> QED
    BY <1>6, <2>2, SMTT(30) DEF Send
<1>7. CASE SendFails
  BY <1>7, SMTT(30) DEF SendFails
<1>8. CASE Publish
  <2>1. npackets_tot \in Nat
    BY LenProperties DEF npackets_tot
  <2> QED
    BY <1>8, <2>1, SMTT(30) DEF Publish
<1>9. CASE ListDone
  BY <1>9, SMTT(30) DEF ListDone
<1>10. CASE SendEndPacket \/ EndPacketsDone
  <2>1. nend' \in 0 .. EndPackets
    BY <1>10, EndPacketType
  <2>2. network' \in {"ending", "closing"}
    BY <1>10, SMTT(30) DEF SendEndPacket, EndPacketsDone
  <2> QED
    BY <1>10, <2>1, <2>2, SMTT(60) DEF SendEndPacket, EndPacketsDone
<1>11. CASE ThreadReturns \/ ThreadRethrows
  BY <1>11, CloseKeepsTimeOK
<1> QED
  BY <1>1, <1>2, <1>3, <1>4, <1>5, <1>6, <1>7, <1>8, <1>9, <1>10, <1>11 DEF NetworkSteps

LEMMA CloserTimeOK ==
  ASSUME TimeOK, NEW c \in Closers,
         (\E join \in BOOLEAN : EndStream(c, join)) \/ Join(c) \/ JoinAgain(c)
  PROVE  TimeOK'
<1>1. PICK where \in {"joining", "joined", "failed", "ended"} : CloserStep(c, where)
  BY DEF EndStream, Join, JoinAgain
<1>2. UNCHANGED <<queue, given>> /\ closed' \in BOOLEAN
  BY DEF EndStream, Join, JoinAgain, Ring!Close, queueVars, TimeOK, TypeOK
<1> QED
  BY <1>1, <1>2 DEF CloserStep, TimeOK, TypeOK, makeVars, senderVars, networkVars,
     sentVars, timeVars, statVars

LEMMA InitTimeOK == Init => TimeOK
  BY InitTypeOK DEF Init, TimeOK

LEMMA NextTimeOK == TimeOK /\ [Next]_vars => TimeOK'
<1> SUFFICES ASSUME TimeOK, [Next]_vars PROVE TimeOK'
  OBVIOUS
<1> USE DEF TimeOK, TypeOK, makeVars, senderVars, networkVars, sentVars, timeVars, statVars,
        queueVars, NetworkStates
<1>1. CASE MakeSteps
  BY <1>1 DEF MakeSteps, CreateThread, MakeLoop, MakeMayReturn
<1>2. CASE Tick
  BY <1>2 DEF Tick
<1>3. CASE UNCHANGED vars
  BY <1>3 DEF vars
<1> HIDE DEF TimeOK
<1> QED
  BY <1>1, <1>2, <1>3, SenderTimeOK, NetworkTimeOK, CloserTimeOK DEF Next, Terminated

(* The type invariant of the output stream. *)
THEOREM TypeCorrect == Spec => []TypeOK
<1>1. TimeOK => TypeOK
  BY DEF TimeOK
<1> QED
  BY <1>1, InitTimeOK, NextTimeOK, PTL DEF Spec

-----------------------------------------------------------------------------
(* The timestamp of the packet at hand is late enough for the packets before *)
(* it: from Stamp, which computes it, to Publish, which shows it to others.  *)
StampLateEnough ==
  /\ network = "sending" /\ Len(sent) > 0 => tstamp >= Interval * Len(sent)
  /\ network = "publishing" => Len(sent) > 0 /\ tstamp >= Interval * (Len(sent) - 1)

InTime == StampLateEnough /\ BandwidthLimited

LEMMA InitInTime == Init => InTime
  BY EmptySeq DEF Init, InTime, StampLateEnough, BandwidthLimited

LEMMA NextInTime == TimeOK /\ InTime /\ [Next]_vars => InTime'
<1> SUFFICES ASSUME TimeOK, InTime, [Next]_vars PROVE InTime'
  OBVIOUS
<1> DEFINE n == Len(sent)
<1>a. n \in Nat
  BY LenProperties DEF TimeOK, TypeOK
<1>b. /\ clock \in Nat /\ tv_ini \in Nat /\ tstamp \in Nat /\ npackets_sent \in Nat
      /\ curr_timestamp \in Nat /\ Interval \in Nat /\ tv_ini <= clock
  BY OstreamAssumption DEF TimeOK, TypeOK
<1>c. Interval * n \in Nat /\ Interval * (n - 1) \in Int /\ Interval * (n - 1) = Interval * n - Interval
  BY <1>a, <1>b
<1> USE DEF InTime, StampLateEnough, BandwidthLimited
(* Most steps keep what is sent, and neither enter Send nor Publish. *)
<1>1. ASSUME UNCHANGED <<sentVars, timeVars, statVars>>, clock' \in {clock, clock + 1},
             network' = network \/ network' \notin {"sending", "publishing"}
      PROVE  InTime'
  BY <1>a, <1>b, <1>c, <1>1 DEF sentVars, timeVars, statVars
<1>2. CASE MakeSteps \/ Encode \/ SenderSteps \/ Tick \/ UNCHANGED vars
  <2>1. UNCHANGED <<sentVars, timeVars, statVars>>
    BY <1>2 DEF MakeSteps, CreateThread, MakeLoop, Encode, SenderSteps, PutAccepts,
                PutRejects, PutThrows, Tick, vars, networkVars, sentVars, timeVars, statVars
  <2>2. clock' \in {clock, clock + 1}
    BY <1>2 DEF MakeSteps, CreateThread, MakeLoop, Encode, SenderSteps, PutAccepts,
                PutRejects, PutThrows, Tick, vars
  <2>3. network' = network \/ network' = "created"
    BY <1>2 DEF MakeSteps, CreateThread, MakeLoop, Encode, SenderSteps, PutAccepts,
                PutRejects, PutThrows, Tick, vars, networkVars
  <2> QED
    BY <1>1, <2>1, <2>2, <2>3
<1>3. ASSUME NEW c \in Closers,
             (\E join \in BOOLEAN : EndStream(c, join)) \/ Join(c) \/ JoinAgain(c)
      PROVE  InTime'
  <2>1. UNCHANGED <<networkVars, clock>>
    BY <1>3 DEF EndStream, Join, JoinAgain, CloserStep
  <2> QED
    BY <1>1, <2>1 DEF networkVars
<1>4. CASE NetworkSteps
  <2> USE DEF UnchangedByNetwork
  <2>1. CASE Stamp
    <3>1. n = 0 \/ tstamp' >= Interval * n
      <4>1. ASSUME n > 0 PROVE TargetTimestamp >= Interval * n
        <5>1. npackets_tot = n /\ n * Interval = Interval * n
          BY <1>a, <1>b DEF npackets_tot
        <5>2. TargetTimestamp >= n * Interval
          BY <1>a, <1>b, <4>1, <5>1, TargetType DEF TargetTimestamp, TimeOK, TypeOK
        <5> QED
          BY <5>1, <5>2
      <4>2. /\ tv_ini' \in Nat /\ clock - tv_ini' \in Int
            /\ tstamp' = IF clock - tv_ini' < TargetTimestamp THEN TargetTimestamp
                         ELSE clock - tv_ini'
        BY <1>b, <2>1 DEF Stamp
      <4>3. TargetTimestamp \in Nat
        BY TargetType DEF TimeOK
      <4> QED
        BY <1>a, <1>c, <4>1, <4>2, <4>3
    <3>2. n > 0 => tv_ini' = tv_ini
      BY <1>a, <2>1 DEF Stamp, npackets_tot
    <3>3. UNCHANGED <<sentVars, statVars, clock>> /\ network' = "sending"
      BY <2>1 DEF Stamp
    <3> QED
      BY <1>a, <3>1, <3>2, <3>3 DEF sentVars, statVars
  <2>2. CASE Send
    <3>1. Len(sent') = n + 1
      BY <2>2, AppendProperties DEF Send, TimeOK, TypeOK, Packets
    <3>2. clock >= tv_ini + tstamp
      BY <1>b, <2>2 DEF Send, Asleep
    <3>3. tstamp >= Interval * n
      BY <1>a, <1>b, <1>c, <2>2 DEF Send
    <3>4. Interval * (Len(sent') - 1) = Interval * n
      BY <1>a, <3>1
    <3>5. /\ UNCHANGED <<tv_ini, tstamp, npackets_sent, curr_timestamp, clock>>
          /\ network' = "publishing"
      BY <2>2 DEF Send, statVars
    <3> QED
      BY <1>a, <1>b, <1>c, <3>1, <3>2, <3>3, <3>4, <3>5
  <2>3. CASE Publish
    <3>1. npackets_sent' = n /\ curr_timestamp' = tstamp
      BY <2>3 DEF Publish, npackets_tot
    <3>2. UNCHANGED <<sent, tv_ini, clock>> /\ network' = "stamping"
      BY <2>3 DEF Publish, sentVars, timeVars
    <3> QED
      BY <2>3, <3>1, <3>2 DEF Publish
  <2>4. CASE ~(Stamp \/ Send \/ Publish)
    <3>1. UNCHANGED <<sentVars, timeVars, statVars>> \/ GetList
      BY <1>4, <2>4 DEF NetworkSteps, Dereference, Started, GetEnd, SendFails, ListDone,
         SendEndPacket, EndPacketsDone, ThreadReturns, ThreadRethrows
    <3>2. /\ clock' = clock
          /\ network' = network \/ network' \notin {"sending", "publishing"}
      BY <1>4, <2>4 DEF NetworkSteps, Dereference, Started, GetList, GetEnd, SendFails, ListDone,
         SendEndPacket, EndPacketsDone, ThreadReturns, ThreadRethrows
    <3>3. CASE GetList
      BY <3>2, <3>3 DEF GetList, timeVars, statVars
    <3> QED
      BY <1>1, <3>1, <3>2, <3>3
  <2> QED
    BY <2>1, <2>2, <2>3, <2>4
<1> QED
  BY <1>2, <1>3, <1>4 DEF Next, Terminated

(* The throttling logic, src/intensity_network_ostream.cpp:419-438: however  *)
(* late earlier packets were sent, the stream never exceeds its bandwidth.   *)
THEOREM BandwidthIsLimited == Spec => []BandwidthLimited
<1>1. InTime => BandwidthLimited
  BY DEF InTime
<1> QED
  BY <1>1, InitTimeOK, NextTimeOK, InitInTime, NextInTime, PTL DEF Spec

-----------------------------------------------------------------------------
(* Packets are numbered through all lists: division by PacketsPerChunk gives *)
(* the list back, and the place in it.                                       *)
LEMMA NoGap ==
  ASSUME NEW n \in Nat \ {0}, NEW x \in Int, NEW y \in Int, x < y
  PROVE  n * x + n <= n * y
<1>1. PICK d \in Nat : y = x + 1 + d
  <2>1. y - x - 1 \in Nat /\ y = x + 1 + (y - x - 1)
    OBVIOUS
  <2> QED
    BY <2>1
<1>2. n * y = n * x + n + n * d
  BY <1>1
<1>3. n * d >= 0 /\ n * d \in Int /\ n * x \in Int
  BY <1>1
<1> QED
  BY <1>2, <1>3

LEMMA OneMore ==
  ASSUME NEW n \in Nat, NEW d \in Nat \ {0}
  PROVE  n * d = n * (d - 1) + n /\ n * (d - 1) \in Nat
<1>1. PICK e \in Nat : d = e + 1
  <2>1. d - 1 \in Nat /\ d = (d - 1) + 1
    OBVIOUS
  <2> QED
    BY <2>1
<1>2. n * (e + 1) = n * e + n /\ n * e \in Nat /\ d - 1 = e
  BY <1>1
<1> QED
  BY <1>1, <1>2

LEMMA DivMod ==
  ASSUME NEW n \in Nat \ {0}, NEW x \in Nat
  PROVE  /\ x = n * (x \div n) + (x % n)
         /\ x \div n \in Nat /\ x % n \in 0 .. n - 1
  OBVIOUS

LEMMA Numbering ==
  ASSUME NEW n \in Nat \ {0}, NEW q \in Nat, NEW k \in 0 .. n - 1
  PROVE  (n * q + k) \div n = q /\ (n * q + k) % n = k
<1> DEFINE x == n * q + k
           r == x \div n
           j == x % n
<1>1. n * q \in Nat /\ x \in Nat /\ x = n * q + k
  OBVIOUS
<1>2. x = n * r + j /\ r \in Nat /\ j \in 0 .. n - 1
  BY <1>1, DivMod
<1> HIDE DEF x, r, j
<1>3. n * r \in Nat
  BY <1>2
<1>4. ~(q < r)
  <2>1. ASSUME q < r PROVE n * q + n <= n * r
    BY <1>2, <2>1, NoGap
  <2> QED
    BY <1>1, <1>2, <1>3, <2>1
<1>5. ~(r < q)
  <2>1. ASSUME r < q PROVE n * r + n <= n * q
    BY <1>2, <2>1, NoGap
  <2> QED
    BY <1>1, <1>2, <1>3, <2>1
<1>6. q = r
  BY <1>2, <1>4, <1>5
<1>7. k = j
  BY <1>1, <1>2, <1>3, <1>6
<1> QED
  BY <1>6, <1>7 DEF x, r, j

LEMMA InsideFirst ==
  ASSUME NEW n \in Nat \ {0}, NEW d \in Nat, NEW i \in 1 .. n * d
  PROVE  (i - 1) \div n + 1 \in 1 .. d /\ (i - 1) % n \in 0 .. n - 1
<1> DEFINE q == (i - 1) \div n
           j == (i - 1) % n
<1>0. n * d \in Nat /\ i - 1 \in Nat /\ i <= n * d
  OBVIOUS
<1>1. i - 1 = n * q + j /\ q \in Nat /\ j \in 0 .. n - 1
  BY <1>0, DivMod
<1> HIDE DEF q, j
<1>2. n * q \in Nat
  BY <1>1
<1>3. ~(d < q)
  <2>1. ASSUME d < q PROVE n * d + n <= n * q
    BY <1>1, <2>1, NoGap
  <2> QED
    BY <1>0, <1>1, <1>2, <2>1
<1>4. d # q
  BY <1>0, <1>1, <1>2
<1>5. q + 1 \in 1 .. d
  BY <1>1, <1>3, <1>4
<1> QED
  BY <1>1, <1>5 DEF q, j

(* The lists taken from the ring buffer, and the packet number i of all that *)
(* was accepted.                                                             *)
Delivered == Len(accepted) - Len(queue)
PacketAt(i) == <<accepted[(i - 1) \div PacketsPerChunk + 1], (i - 1) % PacketsPerChunk>>

InList == network \in {"stamping", "sending", "publishing"}
BetweenLists == network \in {"none", "created", "starting", "getting", "ending", "closing", "exited"}

(* The ring buffer holds the end of what was accepted, the thread the list   *)
(* before it, and the network all lists before that one.                     *)
QueueIsTail ==
  /\ Delivered \in Nat
  /\ \A j \in 1 .. Len(queue) : queue[j] = accepted[Delivered + j]

SentInOrder ==
  /\ Len(sent) <= PacketsPerChunk * Delivered
  /\ \A i \in 1 .. Len(sent) : sent[i] = PacketAt(i)

Progress ==
  /\ InList => /\ Delivered # 0 /\ given = accepted[Delivered]
               /\ Len(sent) = PacketsPerChunk * (Delivered - 1) + ipacket
  /\ BetweenLists => Len(sent) = PacketsPerChunk * Delivered
  /\ network \in {"ending", "closing", "exited"} => closed /\ queue = <<>>

OrderInv == QueueIsTail /\ SentInOrder /\ Progress

LEMMA InitOrderInv == Init => OrderInv
<1> SUFFICES ASSUME Init PROVE OrderInv
  OBVIOUS
<1>1. queue = <<>> /\ accepted = <<>> /\ sent = <<>> /\ network = "none"
  BY DEF Init, Ring!Init
<1>2. Delivered = 0 /\ Len(sent) = 0 /\ Len(queue) = 0
  BY <1>1 DEF Delivered
<1>3. PacketsPerChunk * 0 = 0
  BY OstreamAssumption
<1> QED
  BY <1>1, <1>2, <1>3 DEF OrderInv, QueueIsTail, SentInOrder, Progress, InList, BetweenLists

(* Typing of what the steps below compute with. *)
LEMMA OrderTypes ==
  ASSUME TypeOK, QueueIsTail
  PROVE  /\ Len(sent) \in Nat /\ Len(queue) \in Nat /\ Len(accepted) \in Nat
         /\ Delivered \in Nat /\ PacketsPerChunk \in Nat \ {0}
         /\ Delivered <= Len(accepted) /\ PacketsPerChunk * Delivered \in Nat
         /\ ipacket \in 0 .. PacketsPerChunk
<1>1. Len(sent) \in Nat /\ Len(queue) \in Nat /\ Len(accepted) \in Nat
  BY LenProperties DEF TypeOK
<1>2. Delivered \in Nat /\ PacketsPerChunk \in Nat \ {0} /\ ipacket \in 0 .. PacketsPerChunk
  BY OstreamAssumption DEF QueueIsTail, TypeOK
<1> QED
  BY <1>1, <1>2 DEF Delivered

(* A list accepted at the end changes nothing before it. *)
LEMMA AcceptKeepsOrder ==
  ASSUME TypeOK, OrderInv, PutAccepts
  PROVE  OrderInv'
<1> USE OrderTypes DEF OrderInv
<1>1. /\ ~closed /\ tmp_packet_list \in 1 .. MaxChunks
      /\ queue' = Append(queue, tmp_packet_list)
      /\ accepted' = Append(accepted, tmp_packet_list)
      /\ UNCHANGED <<closed, given, network, sent, ipacket>>
  BY DEF PutAccepts, Ring!Accept, TypeOK, networkVars, sentVars
<1>2. /\ Len(queue') = Len(queue) + 1
      /\ \A j \in 1 .. Len(queue) : queue'[j] = queue[j]
      /\ queue'[Len(queue) + 1] = tmp_packet_list
  BY <1>1, AppendProperties DEF TypeOK
<1>3. /\ Len(accepted') = Len(accepted) + 1
      /\ \A j \in 1 .. Len(accepted) : accepted'[j] = accepted[j]
      /\ accepted'[Len(accepted) + 1] = tmp_packet_list
  BY <1>1, AppendProperties DEF TypeOK
<1>4. Delivered' = Delivered
  BY <1>2, <1>3 DEF Delivered
<1>5. QueueIsTail'
  <2> SUFFICES ASSUME NEW j \in 1 .. Len(queue) + 1
               PROVE  queue'[j] = accepted'[Delivered + j]
    BY <1>2, <1>4 DEF QueueIsTail
  <2>1. CASE j = Len(queue) + 1
    <3>1. Delivered + j = Len(accepted) + 1
      BY <2>1 DEF Delivered
    <3> QED
      BY <1>2, <1>3, <2>1, <3>1
  <2>2. CASE j \in 1 .. Len(queue)
    <3>1. Delivered + j \in 1 .. Len(accepted)
      BY <2>2 DEF Delivered
    <3> QED
      BY <1>2, <1>3, <2>2, <3>1 DEF QueueIsTail
  <2> QED
    BY <2>1, <2>2
<1>6. SentInOrder'
  <2> SUFFICES ASSUME NEW i \in 1 .. Len(sent) PROVE sent[i] = PacketAt(i)'
    BY <1>1, <1>4 DEF SentInOrder
  <2>1. i \in 1 .. PacketsPerChunk * Delivered
    BY DEF SentInOrder
  <2>2. (i - 1) \div PacketsPerChunk + 1 \in 1 .. Delivered
    BY <2>1, InsideFirst
  <2>3. (i - 1) \div PacketsPerChunk + 1 \in 1 .. Len(accepted)
    BY <2>2
  <2>4. PacketAt(i)' = PacketAt(i)
    BY <1>3, <2>3 DEF PacketAt
  <2> QED
    BY <2>4 DEF SentInOrder
<1>7. Progress'
  <2>1. Delivered # 0 => accepted'[Delivered] = accepted[Delivered]
    BY <1>3
  <2> QED
    BY <1>1, <1>4, <2>1 DEF Progress, InList, BetweenLists
<1> QED
  BY <1>5, <1>6, <1>7

(* The thread takes the oldest list of the ring buffer. *)
LEMMA GetKeepsOrder ==
  ASSUME TypeOK, OrderInv, GetList
  PROVE  OrderInv'
<1> USE OrderTypes DEF OrderInv
<1>1. /\ queue # <<>> /\ given' = Head(queue) /\ queue' = Tail(queue)
      /\ network = "getting" /\ network' = "stamping" /\ ipacket' = 0
      /\ UNCHANGED <<accepted, sent>>
  BY DEF GetList, Ring!Deliver, UnchangedByNetwork, senderVars
<1>2. /\ Len(queue') = Len(queue) - 1
      /\ \A j \in 1 .. Len(queue) - 1 : queue'[j] = queue[j + 1]
      /\ given' = queue[1] /\ Len(queue) > 0
  BY <1>1, HeadTailProperties, EmptySeq DEF TypeOK
<1>3. Delivered' = Delivered + 1
  BY <1>1, <1>2 DEF Delivered
<1>4. /\ PacketsPerChunk * (Delivered + 1) = PacketsPerChunk * Delivered + PacketsPerChunk
      /\ PacketsPerChunk * Delivered <= PacketsPerChunk * (Delivered + 1)
      /\ (Delivered + 1) - 1 = Delivered /\ Delivered + 1 # 0
  BY SMTT(30)
<1>5. QueueIsTail'
  <2> SUFFICES ASSUME NEW j \in 1 .. Len(queue) - 1
               PROVE  queue'[j] = accepted[Delivered + 1 + j]
    BY <1>1, <1>2, <1>3 DEF QueueIsTail
  <2>1. j + 1 \in 1 .. Len(queue) /\ Delivered + (j + 1) = Delivered + 1 + j
    OBVIOUS
  <2> QED
    BY <1>2, <2>1 DEF QueueIsTail
<1>6. SentInOrder'
  <2>1. Len(sent) <= PacketsPerChunk * (Delivered + 1)
    BY <1>4 DEF SentInOrder
  <2> QED
    BY <1>1, <1>3, <2>1 DEF SentInOrder, PacketAt
<1>7. Progress'
  <2>1. given' = accepted[Delivered + 1]
    BY <1>2 DEF QueueIsTail
  <2>2. Len(sent) = PacketsPerChunk * Delivered
    BY <1>1 DEF Progress, BetweenLists
  <2>3. Delivered' - 1 = Delivered /\ Delivered' # 0
    BY <1>3
  <2>4. Len(sent) = PacketsPerChunk * (Delivered' - 1) + 0
    BY <2>2, <2>3
  <2> QED
    BY <1>1, <1>3, <2>1, <2>3, <2>4 DEF Progress, InList, BetweenLists
<1> QED
  BY <1>5, <1>6, <1>7

(* The packet that goes out is the next one of all that was accepted. *)
LEMMA SendKeepsOrder ==
  ASSUME TypeOK, OrderInv, Send
  PROVE  OrderInv'
<1> USE OrderTypes DEF OrderInv
<1> DEFINE n == Len(sent)
           base == PacketsPerChunk * (Delivered - 1)
<1>1. /\ network = "sending" /\ network' = "publishing"
      /\ sent' = Append(sent, <<given, ipacket>>) /\ ipacket' = ipacket + 1
      /\ UNCHANGED <<queue, given, closed, accepted>>
  BY DEF Send, UnchangedByNetwork, senderVars, queueVars
<1>2. /\ Delivered \in Nat \ {0} /\ Delivered - 1 \in Nat
      /\ given = accepted[Delivered] /\ n = base + ipacket
  BY <1>1, SMTT(30) DEF Progress, InList
<1>3. ipacket \in 0 .. PacketsPerChunk - 1 /\ given \in 1 .. MaxChunks
  BY <1>1, SMTT(30) DEF TypeOK
<1>4. <<given, ipacket>> \in Packets
  BY <1>3 DEF Packets
<1>5. /\ Len(sent') = n + 1 /\ sent'[n + 1] = <<given, ipacket>>
      /\ \A i \in 1 .. n : sent'[i] = sent[i]
  BY <1>1, <1>4, AppendProperties, SMTT(30) DEF TypeOK
<1>6. Delivered' = Delivered /\ QueueIsTail'
  BY <1>1 DEF Delivered, QueueIsTail
<1>7. PacketsPerChunk * Delivered = base + PacketsPerChunk /\ base \in Nat
  BY <1>2, OneMore
<1>8. sent'[n + 1] = PacketAt(n + 1)
  <2>1. (n + 1) - 1 = base + ipacket
    BY <1>2
  <2>2. /\ (base + ipacket) \div PacketsPerChunk = Delivered - 1
        /\ (base + ipacket) % PacketsPerChunk = ipacket
    BY <1>2, <1>3, Numbering
  <2>3. (Delivered - 1) + 1 = Delivered
    OBVIOUS
  <2> HIDE DEF base, n
  <2> QED
    BY <1>2, <1>5, <2>1, <2>2, <2>3 DEF PacketAt
<1> HIDE DEF base
<1>9. SentInOrder'
  <2>1. n + 1 <= PacketsPerChunk * Delivered
    BY <1>2, <1>3, <1>7
  <2>2. \A i \in 1 .. n + 1 : sent'[i] = PacketAt(i)
    BY <1>5, <1>8, SMTT(30) DEF SentInOrder
  <2> QED
    BY <1>1, <1>5, <1>6, <2>1, <2>2 DEF SentInOrder, PacketAt
<1>10. Progress'
  <2>1. n + 1 = base + (ipacket + 1)
    BY <1>2, <1>3, <1>7
  <2> QED
    BY <1>1, <1>2, <1>5, <1>6, <2>1 DEF Progress, InList, BetweenLists, base
<1> QED
  BY <1>6, <1>9, <1>10

LEMMA NextOrderInv == TypeOK /\ Handshake /\ OrderInv /\ [Next]_vars => OrderInv'
<1> SUFFICES ASSUME TypeOK, Handshake, OrderInv, [Next]_vars PROVE OrderInv'
  OBVIOUS
(* Steps that move no packet: the thread stays inside or between its lists. *)
<1>1. ASSUME UNCHANGED <<queue, accepted, sent>>, closed => closed',
             network' = network \/ (~BetweenLists' /\ ~InList')
               \/ (BetweenLists /\ BetweenLists'),
             InList' => InList /\ UNCHANGED <<given, ipacket>>,
             network' \in {"ending", "closing", "exited"} =>
               network \in {"ending", "closing", "exited"} \/ (closed /\ queue = <<>>)
      PROVE  OrderInv'
  <2>1. Delivered' = Delivered
    BY <1>1 DEF Delivered
  <2>2. QueueIsTail' /\ SentInOrder'
    BY <1>1, <2>1 DEF OrderInv, QueueIsTail, SentInOrder, PacketAt
  <2>3. BetweenLists' => BetweenLists
    BY <1>1 DEF BetweenLists
  <2>4. Progress'
    BY <1>1, <2>1, <2>3 DEF OrderInv, Progress
  <2> QED
    BY <2>2, <2>4 DEF OrderInv
<1>2. CASE Encode \/ PutRejects \/ PutThrows \/ Tick \/ UNCHANGED vars
  <2>1. UNCHANGED <<queue, accepted, sent, closed, network, given, ipacket>>
    BY <1>2 DEF Encode, PutRejects, PutThrows, Tick, vars, queueVars, senderVars, networkVars,
                sentVars
  <2> QED
    BY <1>1, <2>1 DEF InList
<1>3. CASE MakeSteps
  <2>1. UNCHANGED <<queue, accepted, sent, closed, given, ipacket>>
    BY <1>3 DEF MakeSteps, CreateThread, MakeLoop, queueVars, senderVars, networkVars, sentVars
  <2>2. network' = network \/ network' = "created"
    BY <1>3 DEF MakeSteps, CreateThread, MakeLoop, networkVars
  <2>3. network' = network \/ network = "none"
    BY <1>3 DEF MakeSteps, CreateThread, MakeLoop, networkVars, Handshake
  <2> QED
    BY <1>1, <2>1, <2>2, <2>3 DEF BetweenLists, InList
<1>4. CASE NetworkSteps
  <2> USE DEF UnchangedByNetwork, senderVars, queueVars, sentVars
  <2>1. CASE GetList
    BY <2>1, GetKeepsOrder
  <2>2. CASE Send
    BY <2>2, SendKeepsOrder
  <2>3. CASE ListDone
    <3>1. /\ network = "stamping" /\ network' = "getting" /\ ~(ipacket < PacketsPerChunk)
          /\ UNCHANGED <<queue, accepted, sent, closed, given, ipacket>>
      BY <2>3 DEF ListDone, MorePackets
    <3>2. Delivered' = Delivered
      BY <3>1 DEF Delivered
    <3>3. Delivered \in Nat /\ PacketsPerChunk \in Nat /\ ipacket = PacketsPerChunk
      BY <3>1, OrderTypes DEF OrderInv
    <3>4. Delivered # 0
      BY <3>1 DEF OrderInv, Progress, InList
    <3>5. Len(sent) = PacketsPerChunk * (Delivered - 1) + PacketsPerChunk
      BY <3>1, <3>3 DEF OrderInv, Progress, InList
    <3>6. PacketsPerChunk * (Delivered - 1) + PacketsPerChunk = PacketsPerChunk * Delivered
      BY <3>3, <3>4, OneMore
    <3> QED
      BY <3>1, <3>2, <3>5, <3>6
         DEF OrderInv, QueueIsTail, SentInOrder, PacketAt, Progress, InList, BetweenLists
  <2>4. CASE Dereference \/ Started
    BY <1>1, <2>4 DEF Dereference, Started, BetweenLists, InList
  <2>5. CASE GetEnd
    BY <1>1, <2>5 DEF GetEnd, EndSeen, BetweenLists, InList
  <2>6. CASE Stamp \/ Publish \/ SendFails
    <3>1. /\ UNCHANGED <<queue, accepted, sent, closed, given, ipacket>>
          /\ InList
          /\ InList' \/ network' = "throwing"
          /\ ~BetweenLists' /\ network' \notin {"ending", "closing", "exited"}
      BY <2>6 DEF Stamp, Publish, SendFails, InList, BetweenLists
    <3>2. Delivered' = Delivered
      BY <3>1 DEF Delivered
    <3> QED
      BY <3>1, <3>2 DEF OrderInv, QueueIsTail, SentInOrder, PacketAt, Progress
  <2>7. CASE SendEndPacket \/ EndPacketsDone
    BY <1>1, <2>7 DEF SendEndPacket, EndPacketsDone, BetweenLists, InList
  <2>8. CASE ThreadReturns \/ ThreadRethrows
    BY <1>1, <2>8 DEF ThreadReturns, ThreadRethrows, Ring!Close, BetweenLists, InList
  <2> QED
    BY <1>4, <2>1, <2>2, <2>3, <2>4, <2>5, <2>6, <2>7, <2>8 DEF NetworkSteps
<1>5. ASSUME NEW c \in Closers,
             (\E join \in BOOLEAN : EndStream(c, join)) \/ Join(c) \/ JoinAgain(c)
      PROVE  OrderInv'
  <2>1. /\ UNCHANGED <<queue, accepted, sent, network, given, ipacket>>
        /\ closed => closed'
    BY <1>5 DEF EndStream, Join, JoinAgain, CloserStep, Ring!Close, queueVars, senderVars,
                networkVars, sentVars
  <2> QED
    BY <1>1, <2>1 DEF InList
<1> QED
  BY <1>2, <1>3, <1>4, <1>5, AcceptKeepsOrder DEF Next, SenderSteps, Terminated

LEMMA OrderImpliesProperty == TypeOK /\ OrderInv => SentAsAccepted
<1> SUFFICES ASSUME TypeOK, OrderInv PROVE SentAsAccepted
  OBVIOUS
<1> USE OrderTypes DEF OrderInv
<1> DEFINE n == Len(accepted) * PacketsPerChunk
<1>1. PacketsPerChunk * Delivered <= n /\ n \in Nat
  <2>1. CASE Delivered = Len(accepted)
    BY <2>1
  <2>2. CASE Delivered < Len(accepted)
    <3>1. PacketsPerChunk * Delivered + PacketsPerChunk <= PacketsPerChunk * Len(accepted)
      BY <2>2, NoGap, SMTT(30)
    <3> QED
      BY <3>1
  <2> QED
    BY <2>1, <2>2
<1>2. Len(sent) <= n
  BY <1>1 DEF SentInOrder
<1>3. AcceptedPackets = [i \in 1 .. n |-> PacketAt(i)]
  BY DEF AcceptedPackets, PacketAt
<1> HIDE DEF n
<1>4. Len(AcceptedPackets) = n
  BY <1>1, <1>3
<1>5. \A i \in 1 .. Len(sent) : sent[i] = AcceptedPackets[i]
  BY <1>1, <1>2, <1>3 DEF SentInOrder
<1>6. sent = SubSeq(AcceptedPackets, 1, Len(sent))
  <2> DEFINE t == SubSeq(AcceptedPackets, 1, Len(sent))
  <2>1. \A i \in 1 .. Len(sent) : AcceptedPackets[i] \in Packets
    BY <1>5, ElementOfSeq DEF TypeOK
  <2>2. /\ t \in Seq(Packets) /\ Len(t) = Len(sent)
        /\ \A i \in 1 .. Len(sent) : t[i] = AcceptedPackets[1 + i - 1]
    BY <2>1, SubSeqProperties
  <2>3. \A i \in 1 .. Len(sent) : 1 + i - 1 = i
    OBVIOUS
  <2> HIDE DEF t
  <2>4. sent = t
    BY <1>5, <2>2, <2>3, SeqEqual DEF TypeOK
  <2> QED
    BY <2>4 DEF t
<1>7. ASSUME network \in {"ending", "closing", "exited"}
      PROVE  sent = AcceptedPackets
  <2>1. Len(sent) = PacketsPerChunk * Delivered /\ Len(queue) = 0
    BY <1>7, EmptySeq DEF Progress, BetweenLists
  <2>2. Delivered = Len(accepted)
    BY <2>1 DEF Delivered
  <2>3. Len(sent) = n
    BY <2>1, <2>2 DEF n
  <2>4. sent = [i \in 1 .. Len(sent) |-> sent[i]]
    BY SMTT(30) DEF TypeOK
  <2>5. [i \in 1 .. n |-> sent[i]] = [i \in 1 .. n |-> PacketAt(i)]
    BY <1>3, <1>5, <2>3
  <2> QED
    BY <1>3, <2>3, <2>4, <2>5
<1> QED
  BY <1>2, <1>4, <1>6, <1>7 DEF SentAsAccepted

(* The network gets what send_chunk() accepted, every packet once and in     *)
(* order, and all of it when the network thread returns: nothing accepted    *)
(* before the end of the stream is left behind.                              *)
THEOREM NothingLeftBehind == Spec => []SentAsAccepted
<1>1. TimeOK => TypeOK
  BY DEF TimeOK
<1> QED
  BY <1>1, InitTimeOK, NextTimeOK, HandshakeKept, InitOrderInv, NextOrderInv,
     OrderImpliesProperty, PTL DEF Spec
=============================================================================
