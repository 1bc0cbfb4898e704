------------------------ MODULE NetworkStream_proofs ------------------------
(***************************************************************************)
(* Proofs about NetworkStream, for any number of beams, any capacities,    *)
(* every set of throw_exception_on_* flags and any number of callers: the  *)
(* order in which the threads end, and the counts of packets.              *)
(***************************************************************************)
EXTENDS NetworkStream, FiniteSetTheorems, WellFoundedInduction, TLAPS

(* The exit code of the assembler thread. *)
AssemblerExiting == assembler \in {"exit_end", "exit_ring", "exit_beams", "returned"}

(* How the two threads come to their end.  The flush in the exit code of the *)
(* network thread leaves no packet behind; the assembler thread, unless it   *)
(* failed, sees the end of the list buffer behind the last list.             *)
NetworkEnd ==
  /\ network \in {"exit_count", "exit_ring", "returned"} => incoming_packet_list = <<>>
  /\ network \in {"exit_ring", "returned"} => network_subcounts = Zero

AssemblerEnd ==
  /\ assembler_throws \in BOOLEAN
  /\ assembler \in {"get", "packets"} \/ AssemblerExiting
  /\ assembler_throws => AssemblerExiting
  /\ assembler = "get" => packet_list = <<>>
  /\ done # {} => assembler \in {"exit_beams", "returned"}
  /\ assembler = "returned" => assembler_subcounts = Zero /\ done = Beams
  /\ assembler = "returned" /\ assembler_throws => ~Running

BufferEnd ==
  ~assembler_throws =>
    /\ ringbuf_ended => network = "returned"
    /\ AssemblerExiting => ringbuf_ended /\ unassembled_ringbuf = <<>> /\ packet_list = <<>>

JoinEnd ==
  /\ threads_joined => BothReturned /\ ~assembler_throws
  /\ caller \in [Callers -> {"out", "joining", "waiting", "joined"}]
  /\ \A c \in Callers : caller[c] = "joined" => threads_joined

EndInv == NetworkEnd /\ AssemblerEnd /\ BufferEnd /\ JoinEnd

LEMMA NetworkKeepsEnd ==
  ASSUME EndInv, NetworkSteps \/ NetworkError \/ CheckCancelled \/ FlushTimeout
                 \/ (\E v \in Verdicts : ReceivePacket(v)) \/ ReceiveEndOfStream
  PROVE  EndInv'
<1> USE DEF UnchangedByNetwork, assemblerVars, ringVars
<1>1. UNCHANGED <<assemblerVars, caller>> /\ threads_joined' = threads_joined
  BY DEF NetworkSteps, NetworkStart, Flush, NetworkCount, NetworkExitEnd, NetworkExitRing,
         NetworkError, CheckCancelled, FlushTimeout, ReceivePacket, ReceiveEndOfStream,
         SetEndRequested, stateVars
<1>2. failure' = failure \/ failure' = "network_exception"
  BY DEF NetworkSteps, NetworkStart, Flush, NetworkCount, NetworkExitEnd, NetworkExitRing,
         NetworkError, CheckCancelled, FlushTimeout, ReceivePacket, ReceiveEndOfStream
<1>3. network # "returned"
  BY DEF NetworkSteps, NetworkStart, Flush, NetworkCount, NetworkExitEnd, NetworkExitRing,
         NetworkError, CheckCancelled, FlushTimeout, ReceivePacket, ReceiveEndOfStream
<1>4. AssemblerEnd'
  BY <1>1, <1>2 DEF EndInv, AssemblerEnd, AssemblerExiting, Running
<1>5. JoinEnd'
  BY <1>1, <1>3 DEF EndInv, JoinEnd, BothReturned
<1>6. NetworkEnd'
  <2>1. CASE Flush
    <3>1. Put => incoming_packet_list' = <<>>
      BY DEF Put, Accept, Reject
    <3>2. \/ Put /\ network' \in {"count", "exit_count"}
          \/ network' = "exit_end"
      BY <2>1 DEF Flush
    <3> QED
      BY <3>1, <3>2 DEF NetworkEnd
  <2>2. CASE NetworkCount
    BY <2>2 DEF NetworkCount, Cleared, NextAfterFlush, EndInv, NetworkEnd
  <2>3. CASE NetworkExitEnd \/ NetworkExitRing
    BY <2>3 DEF NetworkExitEnd, NetworkExitRing, NextAfterEnd, EndInv, NetworkEnd
  <2>4. CASE NetworkStart \/ NetworkError \/ CheckCancelled \/ FlushTimeout
    BY <2>4 DEF NetworkStart, NetworkError, CheckCancelled, FlushTimeout, NetworkEnd
  <2>5. CASE (\E v \in Verdicts : ReceivePacket(v)) \/ ReceiveEndOfStream
    BY <2>5 DEF ReceivePacket, ReceiveEndOfStream, NetworkEnd
  <2> QED
    BY <2>1, <2>2, <2>3, <2>4, <2>5 DEF NetworkSteps
<1>7. BufferEnd'
  <2> SUFFICES ASSUME ~assembler_throws PROVE BufferEnd'
    BY <1>1 DEF BufferEnd
  <2>1. ~ringbuf_ended /\ ~AssemblerExiting
    BY <1>3 DEF EndInv, BufferEnd
  <2>2. ~AssemblerExiting'
    BY <1>1, <2>1 DEF AssemblerExiting
  <2>3. ringbuf_ended' => network' = "returned"
    BY <2>1 DEF NetworkSteps, NetworkStart, Flush, NetworkCount, NetworkExitEnd, NetworkExitRing,
         NetworkError, CheckCancelled, FlushTimeout, ReceivePacket, ReceiveEndOfStream
  <2> QED
    BY <2>2, <2>3 DEF BufferEnd
<1> QED
  BY <1>4, <1>5, <1>6, <1>7 DEF EndInv

LEMMA AssemblerKeepsEnd ==
  ASSUME EndInv, AssemblerSteps \/ AssemblerError
  PROVE  EndInv'
<1> USE DEF UnchangedByAssembler, UnchangedByPacket, networkVars, ringVars
<1>1. Running /\ UNCHANGED <<networkVars, caller>> /\ threads_joined' = threads_joined
  BY DEF AssemblerSteps, GetPacketList, GetEnd, BadPacket, MismatchedPacket, GoodPackets,
         GoodPacket, ListDone, AssemblerExitEnd, AssemblerExitRing, EndBeam, AssemblerExitCount,
         AssemblerError, SetEndRequested, stateVars
<1>2. assembler # "returned"
  BY DEF AssemblerSteps, GetPacketList, GetEnd, BadPacket, MismatchedPacket, GoodPackets,
         GoodPacket, ListDone, AssemblerExitEnd, AssemblerExitRing, EndBeam, AssemblerExitCount,
         AssemblerError
<1>3. NetworkEnd'
  BY <1>1 DEF EndInv, NetworkEnd
<1>4. JoinEnd'
  BY <1>1, <1>2 DEF EndInv, JoinEnd, BothReturned
<1>5. AssemblerEnd' /\ BufferEnd'
  <2> USE DEF EndInv, AssemblerEnd, BufferEnd, AssemblerExiting
  <2>1. CASE GetPacketList
    BY <1>1, <2>1 DEF GetPacketList
  <2>2. CASE GetEnd
    BY <1>1, <2>2 DEF GetEnd
  <2>3. CASE AssemblerError
    BY <1>1, <2>3 DEF AssemblerError
  <2>4. CASE BadPacket \/ MismatchedPacket
    <3>1. /\ assembler = "packets"
          /\ UNCHANGED <<ringbuf_ended, unassembled_ringbuf, done, failure>>
      BY <2>4 DEF BadPacket, MismatchedPacket
    <3>2. \/ assembler' = "packets" /\ assembler_throws' = assembler_throws
          \/ assembler' = "exit_end" /\ assembler_throws' = TRUE
      BY <2>4, <3>1 DEF BadPacket, MismatchedPacket
    <3>3. CASE assembler' = "packets" /\ assembler_throws' = assembler_throws
      BY <1>1, <3>1, <3>3
    <3>4. CASE assembler' = "exit_end" /\ assembler_throws' = TRUE
      BY <1>1, <3>1, <3>4
    <3> QED
      BY <3>2, <3>3, <3>4
  <2>5. CASE GoodPackets
    <3>1. PICK throws \in BOOLEAN :
            /\ assembler_throws' = throws
            /\ assembler' = IF throws THEN "exit_end" ELSE assembler
      BY <2>5 DEF GoodPackets, GoodPacket
    <3>2. /\ assembler = "packets"
          /\ UNCHANGED <<ringbuf_ended, unassembled_ringbuf, done, failure>>
      BY <2>5 DEF GoodPackets, GoodPacket
    <3> QED
      BY <1>1, <3>1, <3>2
  <2>6. CASE ListDone
    BY <1>1, <2>6 DEF ListDone
  <2>7. CASE AssemblerExitEnd \/ AssemblerExitRing
    BY <1>1, <2>7 DEF AssemblerExitEnd, AssemblerExitRing
  <2>8. CASE EndBeam
    BY <1>1, <2>8 DEF EndBeam
  <2>9. CASE AssemblerExitCount
    BY <1>1, <2>9 DEF AssemblerExitCount, Cleared, Running
  <2> QED
    BY <2>1, <2>2, <2>3, <2>4, <2>5, <2>6, <2>7, <2>8, <2>9 DEF AssemblerSteps
<1> QED
  BY <1>3, <1>4, <1>5 DEF EndInv

LEMMA CallersKeepEnd ==
  ASSUME EndInv, StartStream \/ EndStream \/ (\E c \in Callers : JoinThreads(c) \/ JoinSteps(c))
  PROVE  EndInv'
<1>1. UNCHANGED <<networkVars, ringVars, assemblerVars, failure>>
  BY DEF StartStream, EndStream, JoinThreads, JoinSteps, Joined, WaitedForJoin, UnchangedByCaller
<1>2. NetworkEnd' /\ AssemblerEnd' /\ BufferEnd'
  BY <1>1 DEF EndInv, NetworkEnd, AssemblerEnd, BufferEnd, AssemblerExiting, Running,
              networkVars, ringVars, assemblerVars
<1>3. JoinEnd'
  <2> USE DEF EndInv, JoinEnd
  <2>1. CASE StartStream \/ EndStream
    BY <1>1, <2>1 DEF StartStream, EndStream, SetEndRequested, BothReturned, networkVars,
                      assemblerVars
  <2>2. ASSUME NEW c \in Callers, JoinThreads(c) PROVE JoinEnd'
    BY <1>1, <2>2 DEF JoinThreads, BothReturned, networkVars, assemblerVars
  <2>3. ASSUME NEW c \in Callers, Joined(c) PROVE JoinEnd'
    <3>1. ~assembler_throws
      BY <2>3 DEF Joined, BothReturned, AssemblerEnd
    <3> QED
      BY <1>1, <2>3, <3>1 DEF Joined, BothReturned, networkVars, assemblerVars
  <2>4. ASSUME NEW c \in Callers, WaitedForJoin(c) PROVE JoinEnd'
    BY <1>1, <2>4 DEF WaitedForJoin, BothReturned, networkVars, assemblerVars, stateVars
  <2> QED
    BY <2>1, <2>2, <2>3, <2>4 DEF JoinSteps
<1> QED
  BY <1>2, <1>3 DEF EndInv

LEMMA EndInvariant == Spec => []EndInv
<1>1. Init => EndInv
  BY DEF Init, EndInv, NetworkEnd, AssemblerEnd, AssemblerExiting, BufferEnd, JoinEnd
<1>2. EndInv /\ [Next]_vars => EndInv'
  <2> SUFFICES ASSUME EndInv, [Next]_vars PROVE EndInv'
    OBVIOUS
  <2>1. CASE UNCHANGED vars
    BY <2>1 DEF vars, networkVars, ringVars, assemblerVars, stateVars, EndInv, NetworkEnd,
       AssemblerEnd, AssemblerExiting, BufferEnd, JoinEnd, BothReturned, Running
  <2> QED
    BY <2>1, NetworkKeepsEnd, AssemblerKeepsEnd, CallersKeepEnd DEF Next, Terminated
<1> QED
  BY <1>1, <1>2, PTL DEF Spec

(* No list is left once the buffers of both threads are empty. *)
LEMMA NothingInFlight ==
  ASSUME incoming_packet_list = <<>>, unassembled_ringbuf = <<>>, packet_list = <<>>
  PROVE  InFlight = 0
<1>1. FlattenSeq(<<>>) = <<>>
  BY DEF FlattenSeq
<1> QED
  BY <1>1 DEF InFlight

(* The network thread ends the list buffer behind its last list, and the     *)
(* first beam is told of the end behind the last packet, whoever asked for   *)
(* the end and whenever.                                                     *)
THEOREM EndIsLast == Spec => []EndsBehindLastPacket
<1>1. EndInv => EndsBehindLastPacket
  <2> SUFFICES ASSUME EndInv, ~assembler_throws
               PROVE  /\ ringbuf_ended => incoming_packet_list = <<>> /\ network = "returned"
                      /\ done # {} => InFlight = 0
    BY DEF EndsBehindLastPacket
  <2>1. ringbuf_ended => incoming_packet_list = <<>> /\ network = "returned"
    BY DEF EndInv, BufferEnd, NetworkEnd
  <2>2. done # {} => AssemblerExiting
    BY DEF EndInv, AssemblerEnd, AssemblerExiting
  <2>3. AssemblerExiting => ringbuf_ended /\ unassembled_ringbuf = <<>> /\ packet_list = <<>>
    BY DEF EndInv, BufferEnd
  <2> QED
    BY <2>1, <2>2, <2>3, NothingInFlight
<1> QED
  BY <1>1, EndInvariant, PTL

(* join_threads() returns to nobody before both threads have returned, the   *)
(* counts are complete, and every beam has announced its end.                *)
THEOREM JoinIsComplete == Spec => []JoinedMeansComplete
<1>1. EndInv => JoinedMeansComplete
  <2> SUFFICES ASSUME EndInv, NEW c \in Callers, caller[c] = "joined"
               PROVE  /\ network_subcounts = Zero /\ assembler_subcounts = Zero
                      /\ InFlight = 0 /\ done = Beams
    BY DEF JoinedMeansComplete
  <2>1. network = "returned" /\ assembler = "returned" /\ ~assembler_throws
    BY DEF EndInv, JoinEnd, BothReturned
  <2>2. /\ incoming_packet_list = <<>> /\ unassembled_ringbuf = <<>> /\ packet_list = <<>>
        /\ network_subcounts = Zero /\ assembler_subcounts = Zero /\ done = Beams
    BY <2>1 DEF EndInv, NetworkEnd, AssemblerEnd, BufferEnd, AssemblerExiting
  <2> QED
    BY <2>2, NothingInFlight
<1> QED
  BY <1>1, EndInvariant, PTL

-----------------------------------------------------------------------------
(* How many packets the lists of a buffer hold.  FlattenSeq is a recursive   *)
(* function, so what it does to a list that is put or taken needs induction: *)
(* a set of numbers that has 0 and all successors is Nat, because it misses  *)
(* no least number.                                                          *)

LEMMA NatSetInduction ==
  ASSUME NEW S, 0 \in S, \A n \in Nat : n \in S => n + 1 \in S
  PROVE  Nat \subseteq S
<1> SUFFICES ASSUME Nat \ S # {} PROVE FALSE
  OBVIOUS
<1>1. IsWellFoundedOn(OpToRel(<, Nat), Nat)
  BY NatLessThanWellFounded
<1>2. PICK least \in Nat \ S : \A n \in Nat \ S : ~(<<n, least>> \in OpToRel(<, Nat))
  BY <1>1, WFMin
<1>3. \A n \in Nat : n < least => n \in S
  BY <1>2 DEF OpToRel
<1>4. least # 0 /\ least - 1 \in Nat /\ least - 1 < least
  OBVIOUS
<1>5. least - 1 \in S
  BY <1>3, <1>4
<1>6. (least - 1) + 1 = least
  OBVIOUS
<1> QED
  BY <1>4, <1>5, <1>6

(* The function FlattenSeq computes, up to list i. *)
FlatStep(s, f, i) == IF i = 1 THEN s[i] ELSE f[i - 1] \o s[i]
Flattening(s) == CHOOSE f : f = [i \in 1 .. Len(s) |-> IF i = 1 THEN s[i] ELSE f[i - 1] \o s[i]]

LEMMA FlattenUnfolded ==
  ASSUME NEW s, Len(s) # 0
  PROVE  FlattenSeq(s) = Flattening(s)[Len(s)]
BY DEF FlattenSeq, Flattening

LEMMA FlatteningExists ==
  ASSUME NEW V, NEW s \in Seq(Seq(V))
  PROVE  \E f : f = [i \in 1 .. Len(s) |-> FlatStep(s, f, i)]
<1> DEFINE S == {n \in Nat : n <= Len(s) => \E f : f = [i \in 1 .. n |-> FlatStep(s, f, i)]}
<1>1. 0 \in S
  <2> DEFINE f == [i \in 1 .. 0 |-> 0]
  <2>1. f = [i \in 1 .. 0 |-> FlatStep(s, f, i)]
    OBVIOUS
  <2> QED
    BY <2>1
<1>2. ASSUME NEW n \in Nat, n \in S PROVE n + 1 \in S
  <2> SUFFICES ASSUME n + 1 <= Len(s)
               PROVE  \E f : f = [i \in 1 .. n + 1 |-> FlatStep(s, f, i)]
    OBVIOUS
  <2>1. PICK f : f = [i \in 1 .. n |-> FlatStep(s, f, i)]
    BY <1>2
  <2> DEFINE g == [i \in 1 .. n + 1 |-> IF i <= n THEN f[i] ELSE FlatStep(s, f, i)]
  <2>2. ASSUME NEW i \in 1 .. n + 1 PROVE g[i] = FlatStep(s, g, i)
    <3>1. FlatStep(s, g, i) = FlatStep(s, f, i)
      BY DEF FlatStep
    <3>2. i <= n => f[i] = FlatStep(s, f, i)
      <4>1. i <= n => i \in 1 .. n
        OBVIOUS
      <4> QED
        BY <2>1, <4>1, Zenon
    <3> QED
      BY <3>1, <3>2
  <2>3. g = [i \in 1 .. n + 1 |-> FlatStep(s, g, i)]
    BY <2>2, Zenon
  <2> QED
    BY <2>3
<1>3. Len(s) \in S
  <2>1. Nat \subseteq S
    BY <1>1, <1>2, NatSetInduction
  <2>2. Len(s) \in Nat
    OBVIOUS
  <2> QED
    BY <2>1, <2>2
<1> QED
  BY <1>3

LEMMA FlatteningIs ==
  ASSUME NEW V, NEW s \in Seq(Seq(V)), NEW i \in 1 .. Len(s)
  PROVE  Flattening(s)[i] = IF i = 1 THEN s[i] ELSE Flattening(s)[i - 1] \o s[i]
<1> DEFINE F == Flattening(s)
<1>1. PICK f : f = [j \in 1 .. Len(s) |-> FlatStep(s, f, j)]
  BY FlatteningExists
<1>2. f = [j \in 1 .. Len(s) |-> IF j = 1 THEN s[j] ELSE f[j - 1] \o s[j]]
  BY <1>1, Zenon DEF FlatStep
<1>3. F = [j \in 1 .. Len(s) |-> IF j = 1 THEN s[j] ELSE F[j - 1] \o s[j]]
  BY <1>2, Zenon DEF Flattening
<1> QED
  BY <1>3, Zenon

LEMMA LenType == ASSUME NEW V, NEW s \in Seq(V) PROVE Len(s) \in Nat
OBVIOUS

LEMMA AddAssociative == \A a, b, c \in Nat : (a + b) + c = a + (b + c)
OBVIOUS

LEMMA FlatteningType ==
  ASSUME NEW V, NEW s \in Seq(Seq(V))
  PROVE  \A i \in 1 .. Len(s) : Flattening(s)[i] \in Seq(V)
<1> DEFINE S == {n \in Nat : n \in 1 .. Len(s) => Flattening(s)[n] \in Seq(V)}
<1>1. 0 \in S
  OBVIOUS
<1>2. ASSUME NEW n \in Nat, n \in S PROVE n + 1 \in S
  <2> SUFFICES ASSUME n + 1 \in 1 .. Len(s) PROVE Flattening(s)[n + 1] \in Seq(V)
    OBVIOUS
  <2>1. s[n + 1] \in Seq(V)
    OBVIOUS
  <2>2. Flattening(s)[n + 1] = IF n + 1 = 1 THEN s[n + 1] ELSE Flattening(s)[(n + 1) - 1] \o s[n + 1]
    BY FlatteningIs
  <2>3. CASE n = 0
    BY <2>1, <2>2, <2>3
  <2>4. CASE n # 0
    <3>1. Flattening(s)[n] \in Seq(V)
      BY <1>2, <2>4
    <3>2. n + 1 # 1 /\ (n + 1) - 1 = n
      BY <2>4
    <3>3. Flattening(s)[n + 1] = Flattening(s)[n] \o s[n + 1]
      BY <2>2, <3>2, Zenon
    <3> QED
      BY <2>1, <3>1, <3>3
  <2> QED
    BY <2>3, <2>4
<1>3. Nat \subseteq S
  BY <1>1, <1>2, NatSetInduction
<1> QED
  BY <1>3

LEMMA FlatteningOfAppend ==
  ASSUME NEW V, NEW s \in Seq(Seq(V)), NEW x \in Seq(V)
  PROVE  \A i \in 1 .. Len(s) : Flattening(Append(s, x))[i] = Flattening(s)[i]
<1> DEFINE t == Append(s, x)
           S == {n \in Nat : n \in 1 .. Len(s) => Flattening(t)[n] = Flattening(s)[n]}
<1>1. t \in Seq(Seq(V)) /\ Len(t) = Len(s) + 1 /\ \A i \in 1 .. Len(s) : t[i] = s[i]
  OBVIOUS
<1> HIDE DEF t
<1>2. 0 \in S
  OBVIOUS
<1>3. ASSUME NEW n \in Nat, n \in S PROVE n + 1 \in S
  <2> SUFFICES ASSUME n + 1 \in 1 .. Len(s) PROVE Flattening(t)[n + 1] = Flattening(s)[n + 1]
    OBVIOUS
  <2>1. Flattening(s)[n + 1] = IF n + 1 = 1 THEN s[n + 1] ELSE Flattening(s)[(n + 1) - 1] \o s[n + 1]
    BY FlatteningIs
  <2>2. Flattening(t)[n + 1] = IF n + 1 = 1 THEN t[n + 1] ELSE Flattening(t)[(n + 1) - 1] \o t[n + 1]
    BY <1>1, FlatteningIs, SMTT(30)
  <2>3. n # 0 => Flattening(t)[(n + 1) - 1] = Flattening(s)[(n + 1) - 1]
    BY <1>3
  <2> QED
    BY <1>1, <2>1, <2>2, <2>3
<1>4. Nat \subseteq S
  BY <1>2, <1>3, NatSetInduction
<1> QED
  BY <1>4 DEF t

LEMMA FlatteningOfTail ==
  ASSUME NEW V, NEW s \in Seq(Seq(V)), s # <<>>
  PROVE  \A i \in 1 .. Len(Tail(s)) :
           Len(Flattening(s)[i + 1]) = Len(Head(s)) + Len(Flattening(Tail(s))[i])
<1> DEFINE t == Tail(s)
           Holds(n) == Len(Flattening(s)[n + 1]) = Len(Head(s)) + Len(Flattening(t)[n])
           S == {n \in Nat : n \in 1 .. Len(t) => Holds(n)}
<1>1. /\ t \in Seq(Seq(V)) /\ Len(s) = Len(t) + 1
      /\ \A i \in 1 .. Len(t) : t[i] = s[i + 1]
      /\ Head(s) = s[1] /\ s[1] \in Seq(V)
  OBVIOUS
<1> HIDE DEF t, Holds
<1>2. 0 \in S
  BY <1>1
<1>3. ASSUME NEW n \in Nat, n \in S PROVE n + 1 \in S
  <2> SUFFICES ASSUME n + 1 \in 1 .. Len(t) PROVE Holds(n + 1)
    OBVIOUS
  <2>1. /\ (n + 1) + 1 \in 1 .. Len(s) /\ n + 1 \in 1 .. Len(s) /\ 1 \in 1 .. Len(s)
        /\ (n + 1) + 1 # 1 /\ ((n + 1) + 1) - 1 = n + 1 /\ (n + 1) - 1 = n
    BY <1>1
  <2>2. Flattening(s)[(n + 1) + 1] = Flattening(s)[n + 1] \o s[(n + 1) + 1]
    BY <2>1, FlatteningIs
  <2>3. /\ s[(n + 1) + 1] = t[n + 1] /\ t[n + 1] \in Seq(V)
        /\ Flattening(s)[n + 1] \in Seq(V)
    BY <1>1, <2>1, FlatteningType, SMTT(30)
  <2>4. Len(Flattening(s)[(n + 1) + 1]) = Len(Flattening(s)[n + 1]) + Len(t[n + 1])
    BY <2>2, <2>3
  <2>5. CASE n = 0
    <3>1. Flattening(s)[1] = s[1] /\ Flattening(t)[1] = t[1]
      BY <1>1, <2>1, <2>5, FlatteningIs
    <3>2. n + 1 = 1
      BY <2>5
    <3>3. Len(Flattening(s)[(n + 1) + 1]) = Len(Head(s)) + Len(Flattening(t)[n + 1])
      BY <1>1, <2>4, <3>1, <3>2, Zenon
    <3> QED
      BY <3>3 DEF Holds
  <2>6. CASE n # 0
    <3>1. n \in 1 .. Len(t) /\ n + 1 # 1
      BY <2>6, <1>1
    <3>2. Flattening(t)[n + 1] = Flattening(t)[n] \o t[n + 1]
      BY <1>1, <2>1, <3>1, FlatteningIs
    <3>3. Flattening(t)[n] \in Seq(V)
      BY <1>1, <3>1, FlatteningType
    <3>4. Len(Flattening(t)[n + 1]) = Len(Flattening(t)[n]) + Len(t[n + 1])
      BY <2>3, <3>2, <3>3
    <3>5. Len(Flattening(s)[n + 1]) = Len(Head(s)) + Len(Flattening(t)[n])
      BY <1>3, <3>1 DEF Holds
    <3>6. /\ Len(Flattening(t)[n]) \in Nat /\ Len(t[n + 1]) \in Nat /\ Len(Head(s)) \in Nat
      BY <1>1, <2>3, <3>3, LenType
    <3>7. Len(Flattening(s)[(n + 1) + 1]) =
            (Len(Head(s)) + Len(Flattening(t)[n])) + Len(t[n + 1])
      BY <2>4, <3>5, Zenon
    <3>8. (Len(Head(s)) + Len(Flattening(t)[n])) + Len(t[n + 1]) =
            Len(Head(s)) + (Len(Flattening(t)[n]) + Len(t[n + 1]))
      BY <3>6, AddAssociative
    <3>9. Len(Flattening(s)[(n + 1) + 1]) = Len(Head(s)) + Len(Flattening(t)[n + 1])
      BY <3>4, <3>7, <3>8, Zenon
    <3> QED
      BY <3>9 DEF Holds
  <2> QED
    BY <2>5, <2>6
<1>4. Nat \subseteq S
  BY <1>2, <1>3, NatSetInduction
<1> QED
  BY <1>1, <1>4 DEF t, Holds

(* The packets in a buffer, before and after a list is put or taken. *)
LEMMA FlattenOfEmpty == FlattenSeq(<<>>) = <<>>
BY DEF FlattenSeq

LEMMA FlattenType ==
  ASSUME NEW V, NEW s \in Seq(Seq(V))
  PROVE  FlattenSeq(s) \in Seq(V)
<1>1. CASE s = <<>>
  <2>1. FlattenSeq(s) = <<>>
    BY <1>1, FlattenOfEmpty, Zenon
  <2> QED
    BY <2>1
<1>2. CASE s # <<>>
  <2>1. Len(s) # 0 /\ Len(s) \in 1 .. Len(s)
    BY <1>2
  <2> QED
    BY <2>1, FlattenUnfolded, FlatteningType
<1> QED
  BY <1>1, <1>2

LEMMA FlattenOfAppend ==
  ASSUME NEW V, NEW s \in Seq(Seq(V)), NEW x \in Seq(V)
  PROVE  Len(FlattenSeq(Append(s, x))) = Len(FlattenSeq(s)) + Len(x)
<1> DEFINE t == Append(s, x)
           n == Len(s) + 1
<1>1. t \in Seq(Seq(V)) /\ Len(t) = n /\ t[n] = x /\ n \in 1 .. Len(t) /\ n # 0
  OBVIOUS
<1>2. FlattenSeq(t) = Flattening(t)[n]
  BY <1>1, FlattenUnfolded
<1>3. Flattening(t)[n] = IF n = 1 THEN x ELSE Flattening(t)[n - 1] \o x
  BY <1>1, FlatteningIs
<1>4. CASE s = <<>>
  <2>1. Len(FlattenSeq(s)) = 0 /\ n = 1
    BY <1>4, FlattenOfEmpty
  <2> QED
    BY <1>2, <1>3, <2>1
<1>5. CASE s # <<>>
  <2>1. n # 1 /\ n - 1 = Len(s) /\ n - 1 \in 1 .. Len(s) /\ Len(s) # 0
    BY <1>5
  <2>2. Flattening(t)[n - 1] = FlattenSeq(s)
    BY <2>1, FlattenUnfolded, FlatteningOfAppend
  <2>3. FlattenSeq(t) = FlattenSeq(s) \o x /\ FlattenSeq(s) \in Seq(V)
    BY <1>2, <1>3, <2>1, <2>2, FlattenType
  <2> QED
    BY <2>3
<1> QED
  BY <1>4, <1>5

LEMMA FlattenOfTail ==
  ASSUME NEW V, NEW s \in Seq(Seq(V)), s # <<>>
  PROVE  Len(FlattenSeq(s)) = Len(Head(s)) + Len(FlattenSeq(Tail(s)))
<1> DEFINE t == Tail(s)
<1>1. t \in Seq(Seq(V)) /\ Len(s) = Len(t) + 1 /\ Len(s) # 0 /\ Len(t) \in Nat
  OBVIOUS
<1>2. FlattenSeq(s) = Flattening(s)[Len(s)]
  BY <1>1, FlattenUnfolded
<1>3. CASE t = <<>>
  <2> HIDE DEF t
  <2>1. Len(t) = 0
    <3>1. Len(<<>>) = 0
      OBVIOUS
    <3> QED
      BY <1>3, <3>1, Zenon
  <2>2. Len(s) = 1 /\ 1 \in 1 .. Len(s) /\ s[1] = Head(s) /\ Head(s) \in Seq(V)
    BY <1>1, <2>1
  <2>3. Flattening(s)[1] = s[1]
    BY <2>2, FlatteningIs
  <2>4. FlattenSeq(t) = <<>>
    BY <1>3, FlattenOfEmpty, Zenon
  <2>5. Len(FlattenSeq(t)) = 0 /\ Len(Head(s)) \in Nat
    BY <2>2, <2>4
  <2>6. FlattenSeq(s) = Head(s)
    BY <1>2, <2>2, <2>3
  <2>7. Len(FlattenSeq(s)) = Len(Head(s)) + Len(FlattenSeq(t))
    BY <2>5, <2>6
  <2> QED
    BY <2>7, Zenon DEF t
<1>4. CASE t # <<>>
  <2> HIDE DEF t
  <2>1. Len(t) \in 1 .. Len(t) /\ Len(t) # 0
    BY <1>1, <1>4
  <2>2. Len(Flattening(s)[Len(t) + 1]) = Len(Head(s)) + Len(Flattening(t)[Len(t)])
    BY <2>1, FlatteningOfTail DEF t
  <2> QED
    BY <1>1, <1>2, <2>1, <2>2, FlattenUnfolded DEF t
<1> QED
  BY <1>3, <1>4

-----------------------------------------------------------------------------
(* Types, with what keeps a list from growing past its capacity: the thread  *)
(* that reads packets has room for one more, and a flush leaves none.        *)

ListFill ==
  /\ network \in {"starting", "count"} => incoming_packet_list = <<>>
  /\ network = "reading" => Len(incoming_packet_list) < ListCapacity

TypeInv == TypeOK /\ ListFill

CountsType == [EventType -> Nat]

LEMMA CountTypes ==
  ASSUME NEW counts \in CountsType, NEW more \in CountsType
  PROVE  /\ Plus(counts, more) \in CountsType
         /\ Zero \in CountsType
         /\ \A e \in EventType, n \in Nat : Counted(counts, e, n) \in CountsType
BY DEF Plus, Zero, Counted, CountsType

(* The parts of TypeOK, by the thread that changes them. *)
NetworkType ==
  /\ network \in {"starting", "reading", "flush", "count", "exit_end", "exit_flush",
                  "exit_count", "exit_ring", "returned"}
  /\ cancelled \in BOOLEAN /\ network_throws \in BOOLEAN
  /\ incoming_packet_list \in Seq(Verdicts) /\ Len(incoming_packet_list) <= ListCapacity
  /\ network_subcounts \in CountsType

AssemblerType ==
  /\ assembler \in {"get", "packets", "exit_end", "exit_ring", "exit_beams", "returned"}
  /\ assembler_throws \in BOOLEAN
  /\ packet_list \in Seq(Verdicts)
  /\ assembler_subcounts \in CountsType
  /\ active \subseteq Beams /\ done \subseteq Beams

SharedType ==
  /\ ringbuf_ended \in BOOLEAN
  /\ unassembled_ringbuf \in Seq(Seq(Verdicts)) /\ Len(unassembled_ringbuf) <= RingCapacity
  /\ cumulative_event_counts \in CountsType
  /\ failure \in {"none", "network_exception", "empty_pointers", "assembler_exception"}

CallerType ==
  /\ throw_flags \in ThrowChoices
  /\ stream_started \in BOOLEAN /\ stream_end_requested \in BOOLEAN
  /\ join_called \in BOOLEAN /\ threads_joined \in BOOLEAN
  /\ caller \in [Callers -> {"out", "joining", "waiting", "joined"}]

LEMMA TypeParts == TypeOK <=> NetworkType /\ AssemblerType /\ SharedType /\ CallerType
BY DEF TypeOK, NetworkType, AssemblerType, SharedType, CallerType, CountsType

LEMMA TypePartsPrime == (NetworkType /\ AssemblerType /\ SharedType /\ CallerType)' => TypeOK'
BY DEF TypeOK, NetworkType, AssemblerType, SharedType, CallerType, CountsType

LEMMA NetworkKeepsType ==
  ASSUME TypeInv, NetworkSteps \/ NetworkError \/ CheckCancelled \/ FlushTimeout
                  \/ (\E v \in Verdicts : ReceivePacket(v)) \/ ReceiveEndOfStream
  PROVE  TypeInv'
<1> USE DEF TypeInv
<1>1. NetworkType /\ AssemblerType /\ SharedType /\ CallerType /\ ListFill
  BY TypeParts
<1>2. RingCapacity \in Nat /\ ListCapacity \in Nat /\ ListCapacity > 0
  BY StreamAssumption
<1>3. AssemblerType'
  <2>1. UNCHANGED assemblerVars
    BY DEF NetworkSteps, NetworkStart, Flush, NetworkCount, NetworkExitEnd, NetworkExitRing,
           NetworkError, CheckCancelled, FlushTimeout, ReceivePacket, ReceiveEndOfStream,
           UnchangedByNetwork
  <2> QED
    BY <1>1, <2>1 DEF AssemblerType, assemblerVars
<1>4. CallerType'
  BY <1>1 DEF CallerType, NetworkSteps, NetworkStart, Flush, NetworkCount, NetworkExitEnd,
         NetworkExitRing, NetworkError, CheckCancelled, FlushTimeout, ReceivePacket,
         ReceiveEndOfStream, UnchangedByNetwork, SetEndRequested, stateVars
<1>5. NetworkType' /\ SharedType' /\ ListFill'
  <2>1. CASE NetworkStart \/ NetworkError \/ FlushTimeout \/ NetworkExitEnd \/ NetworkExitRing
    <3>1. UNCHANGED <<incoming_packet_list, network_subcounts, unassembled_ringbuf,
                      cumulative_event_counts, cancelled>>
      BY <2>1 DEF NetworkStart, NetworkError, FlushTimeout, NetworkExitEnd, NetworkExitRing,
                  ringVars
    <3>2. /\ network_throws' \in BOOLEAN /\ ringbuf_ended' \in BOOLEAN
          /\ failure' \in {failure, "network_exception"}
          /\ \/ network' \in {"flush", "exit_end", "exit_flush", "returned"}
             \/ network' = "reading" /\ network = "starting"
      BY <1>1, <2>1 DEF NetworkStart, NetworkError, FlushTimeout, NetworkExitEnd,
                  NetworkExitRing, NextAfterEnd, ringVars, NetworkType, SharedType
    <3> QED
      BY <1>1, <1>2, <3>1, <3>2 DEF NetworkType, SharedType, ListFill
  <2>2. CASE CheckCancelled \/ NetworkCount
    <3>1. UNCHANGED <<incoming_packet_list, unassembled_ringbuf, ringbuf_ended, failure,
                      network_throws>>
      BY <2>2 DEF CheckCancelled, NetworkCount, ringVars
    <3>2. network_subcounts' \in CountsType /\ cumulative_event_counts' \in CountsType
      BY <1>1, <2>2, CountTypes DEF CheckCancelled, NetworkCount, NetworkType, SharedType,
                                    Cleared, AddEventCounts
    <3>3. cancelled' \in BOOLEAN
      BY <1>1, <2>2 DEF CheckCancelled, NetworkCount, NetworkType
    <3>4. \/ network' \in {"flush", "exit_ring", "exit_end"}
          \/ network' = "reading" /\ network \in {"count", "reading"}
      BY <1>1, <2>2 DEF CheckCancelled, NetworkCount, NextAfterFlush, NetworkType
    <3> QED
      BY <1>1, <1>2, <3>1, <3>2, <3>3, <3>4 DEF NetworkType, SharedType, ListFill
  <2>3. ASSUME NEW v \in Verdicts, ReceivePacket(v)
        PROVE  NetworkType' /\ SharedType' /\ ListFill'
    <3>1. /\ incoming_packet_list' = Append(incoming_packet_list, v)
          /\ network = "reading"
          /\ network' = IF Len(incoming_packet_list') >= ListCapacity THEN "flush" ELSE "reading"
          /\ UNCHANGED <<unassembled_ringbuf, ringbuf_ended, failure, network_throws, cancelled,
                         cumulative_event_counts>>
      BY <2>3 DEF ReceivePacket, IsFull, ringVars
    <3>2. network_subcounts' \in CountsType
      BY <1>1, <2>3, CountTypes DEF ReceivePacket, NetworkType, EventType
    <3>3. /\ incoming_packet_list' \in Seq(Verdicts)
          /\ Len(incoming_packet_list') = Len(incoming_packet_list) + 1
          /\ Len(incoming_packet_list) \in Nat
      BY <1>1, <3>1 DEF NetworkType
    <3> QED
      BY <1>1, <1>2, <3>1, <3>2, <3>3 DEF NetworkType, SharedType, ListFill
  <2>4. CASE ReceiveEndOfStream
    <3>1. /\ UNCHANGED <<unassembled_ringbuf, ringbuf_ended, failure, network_throws, cancelled,
                         cumulative_event_counts, incoming_packet_list>>
          /\ network = "reading" /\ network' \in {"exit_end", "reading"}
      BY <2>4 DEF ReceiveEndOfStream, ringVars
    <3>2. network_subcounts' \in CountsType
      BY <1>1, <2>4, CountTypes DEF ReceiveEndOfStream, NetworkType, EventType
    <3> QED
      BY <1>1, <3>1, <3>2 DEF NetworkType, SharedType, ListFill
  <2>5. CASE Flush
    <3>1. /\ network_throws' \in BOOLEAN
          /\ failure' \in {failure, "network_exception"}
          /\ UNCHANGED <<cancelled, ringbuf_ended, cumulative_event_counts>>
          /\ \/ Put /\ network' \in {"count", "exit_count"}
             \/ PutThrows /\ network' = "exit_end"
      BY <1>1, <2>5 DEF Flush, NetworkType
    <3>2. \/ UNCHANGED <<unassembled_ringbuf, incoming_packet_list, network_subcounts>>
          \/ Accept \/ Reject
      BY <3>1 DEF Put, PutThrows
    <3>3. CASE UNCHANGED <<unassembled_ringbuf, incoming_packet_list, network_subcounts>>
      <4>1. Put => incoming_packet_list' = <<>>
        BY <3>3 DEF Put, Accept, Reject
      <4> QED
        BY <1>1, <3>1, <3>3, <4>1 DEF NetworkType, SharedType, ListFill
    <3>4. CASE Accept \/ Reject
      <4>0. incoming_packet_list' = <<>>
        BY <3>4, Zenon DEF Accept, Reject
      <4>1. /\ incoming_packet_list' = <<>> /\ incoming_packet_list' \in Seq(Verdicts)
            /\ Len(incoming_packet_list') = 0
        BY <4>0
      <4>2. network_subcounts' \in CountsType
        <5>1. Len(incoming_packet_list) \in Nat
          BY <1>1 DEF NetworkType
        <5> QED
          BY <1>1, <3>4, <5>1, CountTypes
             DEF Accept, Reject, PacketsDropped, EventType, NetworkType
      <4>3. /\ unassembled_ringbuf' \in Seq(Seq(Verdicts))
            /\ Len(unassembled_ringbuf') <= RingCapacity
        <5>1. /\ unassembled_ringbuf \in Seq(Seq(Verdicts))
              /\ Len(unassembled_ringbuf) <= RingCapacity
              /\ incoming_packet_list \in Seq(Verdicts)
          BY <1>1, Zenon DEF NetworkType, SharedType
        <5>2. CASE Accept
          <6>1. /\ Len(unassembled_ringbuf) < RingCapacity
                /\ unassembled_ringbuf' = Append(unassembled_ringbuf, incoming_packet_list)
            BY <5>2 DEF Accept
          <6> HIDE DEF TypeInv, UnchangedByAssembler, UnchangedByPacket
          <6> QED
            BY <1>2, <5>1, <6>1
        <5>3. CASE Reject
          <6>1. unassembled_ringbuf' = unassembled_ringbuf
            BY <5>3 DEF Reject
          <6> QED
            BY <5>1, <6>1
        <5> QED
          BY <3>4, <5>2, <5>3
      <4> QED
        BY <1>1, <1>2, <3>1, <4>1, <4>2, <4>3 DEF NetworkType, SharedType, ListFill
    <3> QED
      BY <3>2, <3>3, <3>4
  <2> QED
    BY <2>1, <2>2, <2>3, <2>4, <2>5 DEF NetworkSteps
<1> QED
  BY <1>3, <1>4, <1>5, TypePartsPrime

LEMMA PartsFinite ==
  ASSUME NEW S, S \subseteq Beams
  PROVE  IsFiniteSet(S) /\ Cardinality(S) \in Nat
<1>1. IsFiniteSet(Beams)
  BY FS_Interval, StreamAssumption DEF Beams
<1>2. IsFiniteSet(S)
  BY <1>1, FS_Subset
<1> QED
  BY <1>2, FS_CardinalityType

LEMMA AssemblerKeepsType ==
  ASSUME TypeInv, AssemblerSteps \/ AssemblerError
  PROVE  TypeInv'
<1> USE DEF TypeInv, UnchangedByAssembler, UnchangedByPacket
<1>1. NetworkType /\ AssemblerType /\ SharedType /\ CallerType /\ ListFill
  BY TypeParts
<1>2. UNCHANGED <<networkVars, caller, throw_flags>>
  BY DEF AssemblerSteps, GetPacketList, GetEnd, BadPacket, MismatchedPacket, GoodPackets,
         GoodPacket, ListDone, AssemblerExitEnd, AssemblerExitRing, EndBeam, AssemblerExitCount,
         AssemblerError
<1>3. NetworkType' /\ ListFill'
  BY <1>1, <1>2 DEF NetworkType, ListFill, networkVars
<1>4. CallerType'
  <2>1. CASE AssemblerExitEnd
    BY <1>1, <1>2, <2>1 DEF CallerType, AssemblerExitEnd, SetEndRequested
  <2>2. CASE ~AssemblerExitEnd
    <3>1. UNCHANGED stateVars
      BY <2>2 DEF AssemblerSteps, GetPacketList, GetEnd, BadPacket, MismatchedPacket,
         GoodPackets, GoodPacket, ListDone, AssemblerExitRing, EndBeam, AssemblerExitCount,
         AssemblerError
    <3> QED
      BY <1>1, <1>2, <3>1 DEF CallerType, stateVars
  <2> QED
    BY <2>1, <2>2
<1>5. AssemblerType' /\ SharedType'
  <2>1. CASE GetPacketList
    <3>1. /\ packet_list' \in Seq(Verdicts)
          /\ unassembled_ringbuf' \in Seq(Seq(Verdicts))
          /\ Len(unassembled_ringbuf') <= RingCapacity
      BY <1>1, <2>1, StreamAssumption DEF GetPacketList, SharedType
    <3>2. /\ assembler' = "packets"
          /\ UNCHANGED <<assembler_throws, assembler_subcounts, active, done, ringbuf_ended,
                         cumulative_event_counts, failure>>
      BY <2>1 DEF GetPacketList
    <3> QED
      BY <1>1, <3>1, <3>2 DEF AssemblerType, SharedType
  <2>2. CASE GetEnd \/ AssemblerError \/ AssemblerExitEnd \/ AssemblerExitRing
    BY <1>1, <2>2 DEF GetEnd, AssemblerError, AssemblerExitEnd, AssemblerExitRing, AssemblerType,
                      SharedType, ringVars
  <2>3. CASE BadPacket \/ MismatchedPacket
    <3>1. /\ UNCHANGED <<unassembled_ringbuf, ringbuf_ended, cumulative_event_counts, failure,
                         active, done>>
          /\ packet_list' = Tail(packet_list) /\ packet_list # <<>>
          /\ assembler' \in {assembler, "exit_end"}
      BY <2>3 DEF BadPacket, MismatchedPacket, ringVars
    <3>2. packet_list' \in Seq(Verdicts)
      BY <1>1, <3>1 DEF AssemblerType
    <3>3. assembler_throws' \in BOOLEAN
      BY <1>1, <2>3 DEF BadPacket, MismatchedPacket, AssemblerType
    <3>4. assembler_subcounts' \in CountsType
      BY <1>1, <2>3, CountTypes DEF BadPacket, MismatchedPacket, AssemblerType, EventType
    <3> QED
      BY <1>1, <3>1, <3>2, <3>3, <3>4 DEF AssemblerType, SharedType
  <2>4. ASSUME NEW ids \in [Beams -> 0 .. NumBeams], NEW late \in SUBSET Beams,
               GoodPacket(ids, late)
        PROVE  AssemblerType' /\ SharedType'
    <3> DEFINE parts == Parts(ids, late)
               known == {i \in parts : ids[i] # 0}
               more == [Zero EXCEPT !["packet_good"] = 1,
                          !["beam_id_mismatch"] = Cardinality(parts \ known),
                          !["assembler_hit"] = Cardinality(known \ late),
                          !["assembler_miss"] = Cardinality(known \cap late)]
               throws == \E i \in parts : PartThrows(ids, late, i)
    <3>1. /\ assembler_subcounts' = Plus(assembler_subcounts, more)
          /\ active' = active \cup {ids[i] : i \in known}
          /\ assembler_throws' = throws
          /\ assembler' = IF throws THEN "exit_end" ELSE assembler
          /\ packet_list' = Tail(packet_list) /\ packet_list # <<>>
          /\ UNCHANGED <<unassembled_ringbuf, ringbuf_ended, cumulative_event_counts, failure,
                         done>>
      BY <2>4 DEF GoodPacket, ringVars
    <3>2. parts \subseteq Beams /\ known \subseteq parts
      BY DEF Parts
    <3>3. more \in CountsType
      <4>1. /\ Cardinality(parts \ known) \in Nat
            /\ Cardinality(known \ late) \in Nat
            /\ Cardinality(known \cap late) \in Nat
        BY <3>2, PartsFinite
      <4> HIDE DEF parts, known
      <4> QED
        BY <4>1 DEF CountsType, Zero
    <3>4. active' \subseteq Beams
      <4>1. \A i \in known : ids[i] \in Beams
        BY <3>2, StreamAssumption DEF Beams
      <4> HIDE DEF known
      <4> QED
        BY <1>1, <3>1, <4>1 DEF AssemblerType
    <3>5. packet_list' \in Seq(Verdicts)
      BY <1>1, <3>1 DEF AssemblerType
    <3>6. assembler_subcounts' \in CountsType
      BY <1>1, <3>1, <3>3, CountTypes DEF AssemblerType
    <3>7. assembler_throws' \in BOOLEAN
      BY <3>1
    <3> HIDE DEF throws
    <3> QED
      BY <1>1, <3>1, <3>4, <3>5, <3>6, <3>7 DEF AssemblerType, SharedType
  <2>5. CASE ListDone \/ AssemblerExitCount
    <3>1. /\ UNCHANGED <<unassembled_ringbuf, ringbuf_ended, packet_list, active, done,
                         assembler_throws>>
          /\ failure' \in {failure, "assembler_exception"}
          /\ assembler' \in {"get", "returned"}
      BY <2>5 DEF ListDone, AssemblerExitCount, ringVars
    <3>2. assembler_subcounts' \in CountsType /\ cumulative_event_counts' \in CountsType
      BY <1>1, <2>5, CountTypes DEF ListDone, AssemblerExitCount, AddEventCounts, Cleared,
                                    AssemblerType, SharedType
    <3> QED
      BY <1>1, <3>1, <3>2 DEF AssemblerType, SharedType
  <2>6. CASE EndBeam
    <3>1. active \subseteq Beams
      BY <1>1 DEF AssemblerType
    <3>2. done' \subseteq Beams
      BY <1>1, <2>6, <3>1 DEF EndBeam, AssemblerType
    <3> QED
      BY <1>1, <2>6, <3>2 DEF EndBeam, AssemblerType, SharedType, ringVars
  <2> QED
    BY <2>1, <2>2, <2>3, <2>4, <2>5, <2>6 DEF AssemblerSteps, GoodPackets
<1> QED
  BY <1>3, <1>4, <1>5, TypePartsPrime

LEMMA CallersKeepType ==
  ASSUME TypeInv, StartStream \/ EndStream \/ (\E c \in Callers : JoinThreads(c) \/ JoinSteps(c))
  PROVE  TypeInv'
<1>1. NetworkType /\ AssemblerType /\ SharedType /\ CallerType /\ ListFill
  BY TypeParts DEF TypeInv
<1>2. UNCHANGED <<throw_flags, networkVars, ringVars, assemblerVars, cumulative_event_counts,
                  failure>>
  BY DEF StartStream, EndStream, JoinThreads, JoinSteps, Joined, WaitedForJoin, UnchangedByCaller
<1>3. NetworkType' /\ AssemblerType' /\ SharedType' /\ ListFill'
  BY <1>1, <1>2 DEF NetworkType, AssemblerType, SharedType, ListFill, networkVars, ringVars,
                    assemblerVars
<1>4. CallerType'
  BY <1>1, <1>2 DEF CallerType, StartStream, EndStream, SetEndRequested, JoinThreads, JoinSteps,
                    Joined, WaitedForJoin, stateVars
<1> QED
  BY <1>3, <1>4, TypePartsPrime DEF TypeInv

LEMMA TypeInvariant == Spec => []TypeInv
<1>1. Init => TypeInv
  <2> SUFFICES ASSUME Init PROVE TypeInv
    OBVIOUS
  <2>1. Zero \in CountsType
    BY DEF Zero, CountsType
  <2>2. RingCapacity \in Nat /\ ListCapacity \in Nat /\ ListCapacity > 0
    BY StreamAssumption
  <2>3. /\ <<>> \in Seq(Verdicts) /\ <<>> \in Seq(Seq(Verdicts)) /\ Len(<<>>) = 0
    OBVIOUS
  <2>4. NetworkType /\ ListFill
    <3>1. incoming_packet_list = <<>>
      BY DEF Init
    <3>2. incoming_packet_list \in Seq(Verdicts) /\ Len(incoming_packet_list) = 0
      BY <2>3, <3>1, Zenon
    <3>3. /\ network = "starting" /\ network_subcounts = Zero
          /\ cancelled = FALSE /\ network_throws = FALSE
      BY DEF Init
    <3>4. network_subcounts \in CountsType
      BY <2>1, <3>3
    <3>5. Len(incoming_packet_list) <= ListCapacity
      BY <2>2, <3>2
    <3> QED
      BY <3>1, <3>2, <3>3, <3>4, <3>5 DEF NetworkType, ListFill
  <2>5. AssemblerType /\ SharedType
    <3>1. unassembled_ringbuf = <<>> /\ packet_list = <<>>
      BY DEF Init
    <3>2. /\ unassembled_ringbuf \in Seq(Seq(Verdicts)) /\ Len(unassembled_ringbuf) = 0
          /\ packet_list \in Seq(Verdicts)
      BY <2>3, <3>1, Zenon
    <3>3. /\ assembler = "get" /\ assembler_throws = FALSE /\ ringbuf_ended = FALSE
          /\ assembler_subcounts = Zero /\ cumulative_event_counts = Zero
          /\ active = {} /\ done = {} /\ failure = "none"
      BY DEF Init
    <3>4. assembler_subcounts \in CountsType /\ cumulative_event_counts \in CountsType
      BY <2>1, <3>3
    <3>5. Len(unassembled_ringbuf) <= RingCapacity
      BY <2>2, <3>2
    <3> QED
      BY <3>2, <3>3, <3>4, <3>5 DEF AssemblerType, SharedType
  <2>6. CallerType
    BY DEF Init, CallerType
  <2> QED
    BY <2>4, <2>5, <2>6, TypeParts DEF TypeInv
<1>2. TypeInv /\ [Next]_vars => TypeInv'
  <2> SUFFICES ASSUME TypeInv, [Next]_vars PROVE TypeInv'
    OBVIOUS
  <2>1. CASE UNCHANGED vars
    BY <2>1 DEF vars, networkVars, ringVars, assemblerVars, stateVars, TypeInv, TypeOK, ListFill
  <2> QED
    BY <2>1, NetworkKeepsType, AssemblerKeepsType, CallersKeepType DEF Next, Terminated
<1> QED
  BY <1>1, <1>2, PTL DEF Spec

(* The type invariant, the capacities of the list buffer and of the list the *)
(* network thread fills included.                                            *)
THEOREM TypeCorrect == Spec => []TypeOK
<1>1. TypeInv => TypeOK
  BY DEF TypeInv
<1> QED
  BY <1>1, TypeInvariant, PTL

-----------------------------------------------------------------------------
(* The accounts.  A step adds "more" to the totals and moves packets; they   *)
(* balance after it if what it adds balances.                                *)

Only(e, n) == [Zero EXCEPT ![e] = n]

LEMMA TotalTypes ==
  ASSUME TypeInv
  PROVE  /\ \A e \in EventType : Total(e) \in Nat
         /\ Len(incoming_packet_list) \in Nat
         /\ Len(FlattenSeq(unassembled_ringbuf)) \in Nat
         /\ Len(packet_list) \in Nat
         /\ InFlight \in Nat
<1>1. NetworkType /\ AssemblerType /\ SharedType
  BY TypeParts DEF TypeInv
<1>2. FlattenSeq(unassembled_ringbuf) \in Seq(Verdicts)
  BY <1>1, FlattenType DEF SharedType
<1>3. /\ Len(incoming_packet_list) \in Nat
      /\ Len(FlattenSeq(unassembled_ringbuf)) \in Nat
      /\ Len(packet_list) \in Nat
  BY <1>1, <1>2, LenType DEF NetworkType, AssemblerType
<1>4. \A e \in EventType : Total(e) \in Nat
  BY <1>1 DEF Total, NetworkType, AssemblerType, SharedType, CountsType
<1> QED
  BY <1>3, <1>4 DEF InFlight

LEMMA InFlightType ==
  ASSUME NEW a \in Seq(Verdicts), NEW b \in Seq(Seq(Verdicts)), NEW c \in Seq(Verdicts)
  PROVE  Len(a) + Len(FlattenSeq(b)) + Len(c) \in Nat
<1>1. FlattenSeq(b) \in Seq(Verdicts)
  BY FlattenType
<1> QED
  BY <1>1, LenType

LEMMA AddToNetwork ==
  ASSUME TypeInv, NEW more \in CountsType,
         network_subcounts' = Plus(network_subcounts, more),
         UNCHANGED <<assembler_subcounts, cumulative_event_counts>>
  PROVE  \A e \in EventType : Total(e)' = Total(e) + more[e]
<1>1. NetworkType /\ AssemblerType /\ SharedType
  BY TypeParts DEF TypeInv
<1> QED
  BY <1>1 DEF Total, Plus, NetworkType, AssemblerType, SharedType, CountsType

LEMMA AddToAssembler ==
  ASSUME TypeInv, NEW more \in CountsType,
         assembler_subcounts' = Plus(assembler_subcounts, more),
         UNCHANGED <<network_subcounts, cumulative_event_counts>>
  PROVE  \A e \in EventType : Total(e)' = Total(e) + more[e]
<1>1. NetworkType /\ AssemblerType /\ SharedType
  BY TypeParts DEF TypeInv
<1> QED
  BY <1>1 DEF Total, Plus, NetworkType, AssemblerType, SharedType, CountsType

(* _add_event_counts() moves counts and adds none. *)
LEMMA Accumulate ==
  ASSUME TypeInv,
         \/ /\ cumulative_event_counts' = Plus(cumulative_event_counts, network_subcounts)
            /\ network_subcounts' = Zero
            /\ UNCHANGED assembler_subcounts
         \/ /\ cumulative_event_counts' = Plus(cumulative_event_counts, assembler_subcounts)
            /\ assembler_subcounts' = Zero
            /\ UNCHANGED network_subcounts
         \/ UNCHANGED <<cumulative_event_counts, network_subcounts, assembler_subcounts>>
  PROVE  \A e \in EventType : Total(e)' = Total(e) + Zero[e]
<1>1. NetworkType /\ AssemblerType /\ SharedType
  BY TypeParts DEF TypeInv
<1> QED
  BY <1>1 DEF Total, Plus, Zero, NetworkType, AssemblerType, SharedType, CountsType

LEMMA CountedIsPlus ==
  ASSUME NEW counts \in CountsType, NEW e \in EventType, NEW n \in Nat
  PROVE  /\ Counted(counts, e, n) = Plus(counts, Only(e, n))
         /\ Only(e, n) \in CountsType
         /\ Only(e, n)[e] = n
         /\ \A other \in EventType \ {e} : Only(e, n)[other] = 0
<1>1. /\ Only(e, n) \in CountsType
      /\ Only(e, n)[e] = n
      /\ \A other \in EventType \ {e} : Only(e, n)[other] = 0
  BY DEF Only, Zero, CountsType
<1>2. ASSUME NEW x \in EventType PROVE Counted(counts, e, n)[x] = Plus(counts, Only(e, n))[x]
  BY <1>1 DEF Counted, Plus, CountsType
<1>3. /\ Counted(counts, e, n) = [x \in EventType |-> Counted(counts, e, n)[x]]
      /\ Plus(counts, Only(e, n)) = [x \in EventType |-> Plus(counts, Only(e, n))[x]]
  BY DEF Counted, Plus, CountsType
<1> QED
  BY <1>1, <1>2, <1>3

(* How many packets "more" says got a verdict. *)
Judged(more) ==
  more["packet_good"] + more["packet_bad"] + more["stream_mismatch"]
    + more["packet_dropped"] + more["packet_end_of_stream"]

Balances(more) ==
  /\ InFlight + more["packet_received"] = InFlight' + Judged(more)
  /\ more["assembler_hit"] + more["assembler_miss"] + more["beam_id_mismatch"] =
       NumBeams * more["packet_good"]

LEMMA AccountsBalance ==
  ASSUME TypeInv, TypeInv', EventsAccounted, NEW more \in CountsType,
         \A e \in EventType : Total(e)' = Total(e) + more[e],
         assembler_throws' = assembler_throws,
         ~assembler_throws => Balances(more)
  PROVE  EventsAccounted'
<1> SUFFICES ASSUME ~assembler_throws
             PROVE  /\ Total("packet_received")' =
                         Total("packet_good")' + Total("packet_bad")' + Total("stream_mismatch")'
                           + Total("packet_dropped")' + Total("packet_end_of_stream")' + InFlight'
                    /\ Total("assembler_hit")' + Total("assembler_miss")'
                          + Total("beam_id_mismatch")' = NumBeams * Total("packet_good")'
  BY DEF EventsAccounted
<1>1. \A e \in EventType : Total(e) \in Nat /\ more[e] \in Nat
  BY TotalTypes DEF CountsType
<1>2. InFlight \in Nat
  BY TotalTypes
<1>3. InFlight' \in Nat
  BY InFlightType DEF TypeInv, TypeOK, InFlight
<1>4. NumBeams * (Total("packet_good") + more["packet_good"]) =
        NumBeams * Total("packet_good") + NumBeams * more["packet_good"]
  <2>1. \A a, b, c \in Nat : a * (b + c) = a * b + a * c
    OBVIOUS
  <2>2. Total("packet_good") \in Nat /\ more["packet_good"] \in Nat /\ NumBeams \in Nat
    BY <1>1, StreamAssumption DEF EventType
  <2> QED
    BY <2>1, <2>2
<1>5. /\ \A e \in {"packet_received", "packet_good", "packet_bad", "stream_mismatch",
                   "packet_dropped", "packet_end_of_stream"} :
           Total(e) \in Nat /\ more[e] \in Nat /\ Total(e)' = Total(e) + more[e]
      /\ \A e \in {"assembler_hit", "assembler_miss", "beam_id_mismatch", "packet_good"} :
           Total(e) \in Nat /\ more[e] \in Nat /\ Total(e)' = Total(e) + more[e]
  BY <1>1 DEF EventType
<1>6. Total("packet_received")' =
        Total("packet_good")' + Total("packet_bad")' + Total("stream_mismatch")'
          + Total("packet_dropped")' + Total("packet_end_of_stream")' + InFlight'
  <2>1. Total("packet_received") =
          Total("packet_good") + Total("packet_bad") + Total("stream_mismatch")
            + Total("packet_dropped") + Total("packet_end_of_stream") + InFlight
    BY DEF EventsAccounted
  <2>2. InFlight + more["packet_received"] = InFlight' + Judged(more)
    BY DEF Balances
  <2> DEFINE judged == Total("packet_good") + Total("packet_bad") + Total("stream_mismatch")
                         + Total("packet_dropped") + Total("packet_end_of_stream")
  <2>3. judged \in Nat /\ Judged(more) \in Nat
    BY <1>5 DEF Judged
  <2>4. judged' = judged + Judged(more)
    BY <1>5 DEF Judged
  <2>5. Total("packet_received")' = Total("packet_received") + more["packet_received"]
    BY <1>5
  <2>6. Total("packet_received") \in Nat /\ more["packet_received"] \in Nat
    BY <1>5
  <2>7. Total("packet_received") = judged + InFlight
    BY <2>1
  <2> HIDE DEF judged
  <2>8. Total("packet_received")' = judged' + InFlight'
    BY <1>2, <1>3, <2>2, <2>3, <2>4, <2>5, <2>6, <2>7
  <2> QED
    BY <2>8 DEF judged
<1>7. Total("assembler_hit")' + Total("assembler_miss")' + Total("beam_id_mismatch")' =
        NumBeams * Total("packet_good")'
  <2>1. /\ Total("assembler_hit") + Total("assembler_miss") + Total("beam_id_mismatch") =
             NumBeams * Total("packet_good")
        /\ more["assembler_hit"] + more["assembler_miss"] + more["beam_id_mismatch"] =
             NumBeams * more["packet_good"]
    BY DEF EventsAccounted, Balances
  <2>2. NumBeams * Total("packet_good")' =
          NumBeams * Total("packet_good") + NumBeams * more["packet_good"]
    BY <1>4, <1>5
  <2> QED
    BY <1>5, <2>1, <2>2
<1> QED
  BY <1>6, <1>7

LEMMA ZeroBalances ==
  ASSUME InFlight' = InFlight, TypeInv
  PROVE  Zero \in CountsType /\ Balances(Zero)
<1>1. \A e \in EventType : Zero[e] = 0
  BY DEF Zero
<1>2. /\ Zero["packet_received"] = 0 /\ Zero["packet_good"] = 0 /\ Zero["packet_bad"] = 0
      /\ Zero["stream_mismatch"] = 0 /\ Zero["packet_dropped"] = 0
      /\ Zero["packet_end_of_stream"] = 0 /\ Zero["assembler_hit"] = 0
      /\ Zero["assembler_miss"] = 0 /\ Zero["beam_id_mismatch"] = 0
  BY <1>1 DEF EventType
<1>3. InFlight \in Nat /\ NumBeams \in Nat
  BY TotalTypes, StreamAssumption
<1>4. Zero \in CountsType
  BY DEF Zero, CountsType
<1> HIDE DEF Zero
<1> QED
  BY <1>2, <1>3, <1>4 DEF Balances, Judged

LEMMA NetworkKeepsAccounts ==
  ASSUME TypeInv, TypeInv', EventsAccounted,
         NetworkSteps \/ NetworkError \/ CheckCancelled \/ FlushTimeout
           \/ (\E v \in Verdicts : ReceivePacket(v)) \/ ReceiveEndOfStream
  PROVE  EventsAccounted'
<1>1. NetworkType /\ AssemblerType /\ SharedType
  BY TypeParts DEF TypeInv
<1>2. UNCHANGED <<packet_list, assembler_subcounts, assembler_throws>>
  BY DEF NetworkSteps, NetworkStart, Flush, NetworkCount, NetworkExitEnd, NetworkExitRing,
         NetworkError, CheckCancelled, FlushTimeout, ReceivePacket, ReceiveEndOfStream,
         UnchangedByNetwork, assemblerVars
<1>3. /\ Len(incoming_packet_list) \in Nat /\ Len(packet_list) \in Nat
      /\ Len(FlattenSeq(unassembled_ringbuf)) \in Nat
  BY TotalTypes
<1>4. CASE \/ NetworkStart \/ NetworkCount \/ NetworkExitEnd \/ NetworkExitRing
           \/ NetworkError \/ CheckCancelled \/ FlushTimeout
  <2>1. UNCHANGED <<incoming_packet_list, unassembled_ringbuf>>
    BY <1>4 DEF NetworkStart, NetworkCount, NetworkExitEnd, NetworkExitRing, NetworkError,
                CheckCancelled, FlushTimeout, ringVars
  <2>2. \/ /\ cumulative_event_counts' = Plus(cumulative_event_counts, network_subcounts)
           /\ network_subcounts' = Zero
        \/ UNCHANGED <<cumulative_event_counts, network_subcounts>>
    BY <1>4 DEF NetworkStart, NetworkCount, NetworkExitEnd, NetworkExitRing, NetworkError,
                CheckCancelled, FlushTimeout, AddEventCounts, Cleared
  <2>3. InFlight' = InFlight
    BY <1>2, <2>1 DEF InFlight
  <2> QED
    BY <1>2, <2>2, <2>3, Accumulate, ZeroBalances, AccountsBalance
<1>5. ASSUME NEW v \in Verdicts, ReceivePacket(v)
      PROVE  EventsAccounted'
  <2> DEFINE more == Only("packet_received", 1)
  <2>1. network_subcounts' = Plus(network_subcounts, more) /\ more \in CountsType
    BY <1>1, <1>5, CountedIsPlus DEF ReceivePacket, NetworkType, EventType
  <2>2. more["packet_received"] = 1 /\ \A e \in EventType \ {"packet_received"} : more[e] = 0
    BY CountedIsPlus, <1>1 DEF NetworkType, EventType
  <2>3. /\ more["packet_good"] = 0 /\ more["packet_bad"] = 0 /\ more["stream_mismatch"] = 0
        /\ more["packet_dropped"] = 0 /\ more["packet_end_of_stream"] = 0
        /\ more["assembler_hit"] = 0 /\ more["assembler_miss"] = 0
        /\ more["beam_id_mismatch"] = 0
    BY <2>2 DEF EventType
  <2>4. /\ incoming_packet_list' = Append(incoming_packet_list, v)
        /\ UNCHANGED <<unassembled_ringbuf, cumulative_event_counts>>
    BY <1>5 DEF ReceivePacket, ringVars
  <2>5. Len(incoming_packet_list') = Len(incoming_packet_list) + 1
    BY <1>1, <2>4 DEF NetworkType
  <2>6. InFlight' = InFlight + 1 /\ InFlight \in Nat
    BY <1>2, <1>3, <2>4, <2>5 DEF InFlight
  <2>7. \A e \in EventType : Total(e)' = Total(e) + more[e]
    BY <1>2, <2>1, <2>4, AddToNetwork
  <2> HIDE DEF more
  <2>8. Balances(more)
    BY <2>2, <2>3, <2>6, StreamAssumption DEF Balances, Judged
  <2> QED
    BY <1>2, <2>1, <2>7, <2>8, AccountsBalance
<1>6. CASE ReceiveEndOfStream
  <2> DEFINE first == Only("packet_received", 1)
             second == Only("packet_end_of_stream", 1)
             more == Plus(first, second)
  <2>1. first \in CountsType /\ second \in CountsType /\ more \in CountsType
    BY <1>1, CountedIsPlus, CountTypes DEF NetworkType, EventType
  <2>2. network_subcounts' = Plus(Plus(network_subcounts, first), second)
    <3>1. Plus(network_subcounts, first) \in CountsType
      BY <1>1, <2>1, CountTypes DEF NetworkType
    <3> QED
      BY <1>1, <1>6, <3>1, CountedIsPlus DEF ReceiveEndOfStream, NetworkType, EventType
  <2>3. network_subcounts' = Plus(network_subcounts, more)
    BY <1>1, <2>1, <2>2 DEF Plus, CountsType, NetworkType
  <2>4. /\ first["packet_received"] = 1 /\ second["packet_end_of_stream"] = 1
        /\ \A e \in EventType \ {"packet_received"} : first[e] = 0
        /\ \A e \in EventType \ {"packet_end_of_stream"} : second[e] = 0
    BY CountedIsPlus, <1>1 DEF NetworkType, EventType
  <2>5. /\ more["packet_good"] = 0 /\ more["packet_bad"] = 0 /\ more["stream_mismatch"] = 0
        /\ more["packet_dropped"] = 0 /\ more["packet_end_of_stream"] = 1
        /\ more["assembler_hit"] = 0 /\ more["assembler_miss"] = 0
        /\ more["beam_id_mismatch"] = 0 /\ more["packet_received"] = 1
    BY <2>4 DEF Plus, EventType
  <2>6. UNCHANGED <<incoming_packet_list, unassembled_ringbuf, cumulative_event_counts>>
    BY <1>6 DEF ReceiveEndOfStream, ringVars
  <2>7. InFlight' = InFlight /\ InFlight \in Nat
    BY <1>2, <2>6, TotalTypes DEF InFlight
  <2>8. \A e \in EventType : Total(e)' = Total(e) + more[e]
    BY <1>2, <2>1, <2>3, <2>6, AddToNetwork
  <2> HIDE DEF more
  <2>9. Balances(more)
    BY <2>5, <2>7, StreamAssumption DEF Balances, Judged
  <2> QED
    BY <1>2, <2>1, <2>8, <2>9, AccountsBalance
<1>7. CASE Flush
  <2>0. cumulative_event_counts' = cumulative_event_counts
    BY <1>7 DEF Flush
  <2>1. \/ UNCHANGED <<unassembled_ringbuf, incoming_packet_list, network_subcounts>>
        \/ Accept \/ Reject
    BY <1>7 DEF Flush, Put, PutThrows
  <2>2. CASE UNCHANGED <<unassembled_ringbuf, incoming_packet_list, network_subcounts>>
    <3>1. InFlight' = InFlight
      BY <1>2, <2>2 DEF InFlight
    <3> QED
      BY <1>2, <2>0, <2>2, <3>1, Accumulate, ZeroBalances, AccountsBalance
  <2>3. CASE Accept
    <3>1. Len(FlattenSeq(unassembled_ringbuf')) =
            Len(FlattenSeq(unassembled_ringbuf)) + Len(incoming_packet_list)
      BY <1>1, <2>3, FlattenOfAppend DEF Accept, NetworkType, SharedType
    <3>2. Len(incoming_packet_list') = 0
      BY <2>3 DEF Accept
    <3>3. InFlight' = InFlight
      BY <1>2, <1>3, <3>1, <3>2 DEF InFlight
    <3>4. network_subcounts' = network_subcounts
      BY <2>3 DEF Accept
    <3> QED
      BY <1>2, <2>0, <3>3, <3>4, Accumulate, ZeroBalances, AccountsBalance
  <2>4. CASE Reject
    <3> DEFINE n == Len(incoming_packet_list)
               more == Only("packet_dropped", n)
    <3>1. network_subcounts' = Plus(network_subcounts, more) /\ more \in CountsType
      BY <1>1, <1>3, <2>4, CountedIsPlus DEF Reject, PacketsDropped, NetworkType, EventType
    <3>2. more["packet_dropped"] = n /\ \A e \in EventType \ {"packet_dropped"} : more[e] = 0
      BY CountedIsPlus, <1>1, <1>3 DEF NetworkType, EventType
    <3>3. /\ more["packet_good"] = 0 /\ more["packet_bad"] = 0 /\ more["stream_mismatch"] = 0
          /\ more["packet_received"] = 0 /\ more["packet_end_of_stream"] = 0
          /\ more["assembler_hit"] = 0 /\ more["assembler_miss"] = 0
          /\ more["beam_id_mismatch"] = 0
      BY <3>2 DEF EventType
    <3>4. Len(incoming_packet_list') = 0 /\ unassembled_ringbuf' = unassembled_ringbuf
      BY <2>4 DEF Reject
    <3>5. InFlight = InFlight' + n /\ n \in Nat /\ InFlight \in Nat /\ InFlight' \in Nat
      BY <1>2, <1>3, <3>4 DEF InFlight
    <3>6. \A e \in EventType : Total(e)' = Total(e) + more[e]
      BY <1>2, <2>0, <3>1, AddToNetwork
    <3> HIDE DEF more, n
    <3>7. Judged(more) = n
      BY <3>2, <3>3, <3>5 DEF Judged
    <3>8. Balances(more)
      <4>1. InFlight + 0 = InFlight
        BY <3>5
      <4>2. NumBeams * 0 = 0 /\ 0 + 0 + 0 = 0
        BY StreamAssumption
      <4> QED
        BY <3>3, <3>5, <3>7, <4>1, <4>2, Zenon DEF Balances
    <3> QED
      BY <1>2, <3>1, <3>6, <3>8, AccountsBalance
  <2> QED
    BY <2>1, <2>2, <2>3, <2>4
<1> QED
  BY <1>4, <1>5, <1>6, <1>7 DEF NetworkSteps

(* A good packet that raises no exception has a part for every beam. *)
LEMMA AllParts ==
  ASSUME NEW ids \in [Beams -> 0 .. NumBeams], NEW late \in SUBSET Beams,
         ~\E i \in Parts(ids, late) : PartThrows(ids, late, i)
  PROVE  Parts(ids, late) = Beams
<1> SUFFICES ASSUME NEW i \in Beams, i \notin Parts(ids, late) PROVE FALSE
  BY DEF Parts
<1> DEFINE Bad == {j \in Nat : j \in Beams /\ PartThrows(ids, late, j)}
<1>1. \E j \in Bad : \A k \in Bad : ~(k < j)
  <2>1. Bad # {}
    <3>1. PICK j \in 1 .. i - 1 : PartThrows(ids, late, j)
      BY DEF Parts
    <3>2. j \in Nat /\ j \in Beams
      BY StreamAssumption DEF Beams
    <3> QED
      BY <3>1, <3>2
  <2>2. IsWellFoundedOn(OpToRel(<, Nat), Nat)
    BY NatLessThanWellFounded
  <2>3. PICK j \in Bad : \A k \in Bad : ~(<<k, j>> \in OpToRel(<, Nat))
    BY <2>1, <2>2, WFMin
  <2> QED
    BY <2>3 DEF OpToRel
<1>2. PICK j \in Bad : \A k \in Bad : ~(k < j)
  BY <1>1
<1>3. j \in Parts(ids, late)
  BY <1>2, StreamAssumption DEF Parts, Beams
<1> QED
  BY <1>2, <1>3

LEMMA PartsAddUp ==
  ASSUME NEW known, NEW late, known \subseteq Beams
  PROVE  Cardinality(known \ late) + Cardinality(known \cap late)
           + Cardinality(Beams \ known) = NumBeams
<1>1. IsFiniteSet(Beams) /\ Cardinality(Beams) = NumBeams
  BY FS_Interval, StreamAssumption DEF Beams
<1>2. IsFiniteSet(known)
  BY <1>1, FS_Subset
<1>3. Cardinality(known \ late) = Cardinality(known) - Cardinality(known \cap late)
  BY <1>2, FS_Difference
<1>4. Cardinality(Beams \ known) = Cardinality(Beams) - Cardinality(Beams \cap known)
  BY <1>1, FS_Difference
<1>5. Beams \cap known = known
  OBVIOUS
<1>6. /\ Cardinality(known) \in Nat /\ Cardinality(known \cap late) \in Nat
      /\ Cardinality(known \ late) \in Nat /\ Cardinality(Beams \ known) \in Nat
      /\ NumBeams \in Nat
  BY PartsFinite, StreamAssumption
<1>7. Cardinality(Beams \ known) = NumBeams - Cardinality(known)
  BY <1>1, <1>4, <1>5, Zenon
<1> QED
  BY <1>3, <1>6, <1>7

LEMMA GoodPacketBalances ==
  ASSUME TypeInv, TypeInv', EventsAccounted, EndInv, ~assembler_throws',
         NEW ids \in [Beams -> 0 .. NumBeams], NEW late \in SUBSET Beams,
         GoodPacket(ids, late)
  PROVE  EventsAccounted'
<1> DEFINE parts == Parts(ids, late)
           known == {i \in parts : ids[i] # 0}
           more == [Zero EXCEPT !["packet_good"] = 1,
                      !["beam_id_mismatch"] = Cardinality(parts \ known),
                      !["assembler_hit"] = Cardinality(known \ late),
                      !["assembler_miss"] = Cardinality(known \cap late)]
           throws == \E i \in parts : PartThrows(ids, late, i)
<1>1. /\ assembler_subcounts' = Plus(assembler_subcounts, more)
      /\ assembler_throws' = throws
      /\ packet_list' = Tail(packet_list) /\ packet_list # <<>>
      /\ UNCHANGED <<unassembled_ringbuf, incoming_packet_list, network_subcounts,
                     cumulative_event_counts>>
  BY DEF GoodPacket, ringVars, networkVars, UnchangedByAssembler, UnchangedByPacket
<1>2. parts = Beams
  BY <1>1, AllParts
<1>3. known \subseteq Beams
  BY <1>2
<1> HIDE DEF throws
<1>4. /\ Cardinality(parts \ known) \in Nat /\ Cardinality(known \ late) \in Nat
      /\ Cardinality(known \cap late) \in Nat
      /\ Cardinality(known \ late) + Cardinality(known \cap late)
           + Cardinality(parts \ known) = NumBeams
  <2>1. parts \ known \subseteq Beams /\ known \ late \subseteq Beams
        /\ known \cap late \subseteq Beams
    BY <1>2, <1>3
  <2> HIDE DEF known, parts
  <2> QED
    BY <1>2, <1>3, <2>1, PartsFinite, PartsAddUp
<1> HIDE DEF known, parts
<1>5. /\ more \in CountsType
      /\ more["packet_good"] = 1 /\ more["packet_bad"] = 0 /\ more["stream_mismatch"] = 0
      /\ more["packet_dropped"] = 0 /\ more["packet_end_of_stream"] = 0
      /\ more["packet_received"] = 0
      /\ more["assembler_hit"] = Cardinality(known \ late)
      /\ more["assembler_miss"] = Cardinality(known \cap late)
      /\ more["beam_id_mismatch"] = Cardinality(parts \ known)
  BY <1>4 DEF CountsType, Zero, EventType
<1> HIDE DEF more
<1>6. packet_list \in Seq(Verdicts)
  BY DEF TypeInv, TypeOK
<1>7. Len(packet_list') + 1 = Len(packet_list) /\ Len(packet_list') \in Nat
  BY <1>1, <1>6
<1>8. InFlight = InFlight' + 1 /\ InFlight \in Nat /\ InFlight' \in Nat
  BY <1>1, <1>7, TotalTypes DEF InFlight
<1>9. \A e \in EventType : Total(e)' = Total(e) + more[e]
  BY <1>1, <1>5, AddToAssembler
<1>10. Balances(more)
  <2>1. InFlight + more["packet_received"] = InFlight' + Judged(more)
    <3>1. Judged(more) = 1
      BY <1>5 DEF Judged
    <3>2. InFlight + 0 = InFlight
      BY <1>8
    <3> QED
      BY <1>5, <1>8, <3>1, <3>2, Zenon
  <2>2. more["assembler_hit"] + more["assembler_miss"] + more["beam_id_mismatch"] =
          NumBeams * more["packet_good"]
    BY <1>4, <1>5, StreamAssumption
  <2> QED
    BY <2>1, <2>2 DEF Balances
<1>11. ~assembler_throws
  BY DEF EndInv, AssemblerEnd, AssemblerExiting, GoodPacket
<1>12. assembler_throws' = assembler_throws
  BY <1>11 DEF TypeInv, TypeOK
<1> QED
  BY <1>5, <1>9, <1>10, <1>12, AccountsBalance

LEMMA AssemblerKeepsAccounts ==
  ASSUME TypeInv, TypeInv', EndInv, EventsAccounted, AssemblerSteps \/ AssemblerError
  PROVE  EventsAccounted'
<1> SUFFICES ASSUME ~assembler_throws' PROVE EventsAccounted'
  BY DEF EventsAccounted
<1> USE DEF UnchangedByAssembler, UnchangedByPacket
<1>1. NetworkType /\ AssemblerType /\ SharedType
  BY TypeParts DEF TypeInv
<1>2. UNCHANGED <<incoming_packet_list, network_subcounts>>
  BY DEF AssemblerSteps, GetPacketList, GetEnd, BadPacket, MismatchedPacket, GoodPackets,
         GoodPacket, ListDone, AssemblerExitEnd, AssemblerExitRing, EndBeam, AssemblerExitCount,
         AssemblerError, networkVars
<1>3. /\ Len(incoming_packet_list) \in Nat /\ Len(packet_list) \in Nat
      /\ Len(FlattenSeq(unassembled_ringbuf)) \in Nat
  BY TotalTypes
<1>4. CASE GetPacketList
  <2>1. /\ packet_list = <<>>
        /\ packet_list' = Head(unassembled_ringbuf)
        /\ unassembled_ringbuf # <<>> /\ unassembled_ringbuf' = Tail(unassembled_ringbuf)
        /\ UNCHANGED <<assembler_throws, assembler_subcounts, cumulative_event_counts>>
    BY <1>4 DEF GetPacketList, EndInv, AssemblerEnd
  <2>2. Len(FlattenSeq(unassembled_ringbuf)) =
          Len(packet_list') + Len(FlattenSeq(unassembled_ringbuf'))
    BY <1>1, <2>1, FlattenOfTail DEF SharedType
  <2>3. Len(packet_list) = 0
    BY <2>1
  <2>4. Len(packet_list') \in Nat /\ Len(FlattenSeq(unassembled_ringbuf')) \in Nat
    BY LenType, FlattenType DEF TypeInv, TypeOK
  <2>5. InFlight' = InFlight
    BY <1>2, <1>3, <2>2, <2>3, <2>4 DEF InFlight
  <2> QED
    BY <1>2, <2>1, <2>5, Accumulate, ZeroBalances, AccountsBalance
<1>5. CASE \/ GetEnd \/ AssemblerExitEnd \/ AssemblerExitRing \/ EndBeam \/ ListDone
           \/ AssemblerExitCount
  <2>1. UNCHANGED <<packet_list, unassembled_ringbuf, assembler_throws>>
    BY <1>5 DEF GetEnd, AssemblerExitEnd, AssemblerExitRing, EndBeam, ListDone,
                AssemblerExitCount, ringVars
  <2>2. \/ /\ cumulative_event_counts' = Plus(cumulative_event_counts, assembler_subcounts)
           /\ assembler_subcounts' = Zero
        \/ UNCHANGED <<cumulative_event_counts, assembler_subcounts>>
    BY <1>5 DEF GetEnd, AssemblerExitEnd, AssemblerExitRing, EndBeam, ListDone,
                AssemblerExitCount, AddEventCounts, Cleared
  <2>3. InFlight' = InFlight
    BY <1>2, <2>1 DEF InFlight
  <2> QED
    BY <1>2, <2>1, <2>2, <2>3, Accumulate, ZeroBalances, AccountsBalance
<1>6. CASE AssemblerError
  BY <1>6 DEF AssemblerError
<1>7. ASSUME NEW e \in {"packet_bad", "stream_mismatch"},
             assembler_subcounts' = Counted(assembler_subcounts, e, 1),
             packet_list # <<>>, packet_list' = Tail(packet_list),
             UNCHANGED <<assembler_throws, unassembled_ringbuf, cumulative_event_counts>>
      PROVE  EventsAccounted'
  <2> DEFINE more == Only(e, 1)
  <2>1. assembler_subcounts' = Plus(assembler_subcounts, more) /\ more \in CountsType
    BY <1>1, <1>7, CountedIsPlus DEF AssemblerType, EventType
  <2>2. more[e] = 1 /\ \A x \in EventType \ {e} : more[x] = 0
    BY CountedIsPlus, <1>1 DEF AssemblerType, EventType
  <2>3. /\ more["packet_good"] = 0 /\ more["packet_received"] = 0
        /\ more["packet_dropped"] = 0 /\ more["packet_end_of_stream"] = 0
        /\ more["assembler_hit"] = 0 /\ more["assembler_miss"] = 0
        /\ more["beam_id_mismatch"] = 0
        /\ \/ more["packet_bad"] = 1 /\ more["stream_mismatch"] = 0
           \/ more["packet_bad"] = 0 /\ more["stream_mismatch"] = 1
    BY <2>2 DEF EventType
  <2> HIDE DEF more
  <2>4. Len(packet_list) = Len(packet_list') + 1 /\ Len(packet_list') \in Nat
    BY <1>1, <1>7 DEF AssemblerType
  <2>5. InFlight = InFlight' + 1 /\ InFlight \in Nat /\ InFlight' \in Nat
    BY <1>2, <1>3, <1>7, <2>4 DEF InFlight
  <2>6. \A x \in EventType : Total(x)' = Total(x) + more[x]
    BY <1>2, <1>7, <2>1, AddToAssembler
  <2>7. Balances(more)
    <3>1. Judged(more) = 1
      BY <2>3 DEF Judged
    <3>2. InFlight + 0 = InFlight
      BY <2>5
    <3>3. NumBeams * 0 = 0 /\ 0 + 0 + 0 = 0
      BY StreamAssumption
    <3> QED
      BY <2>3, <2>5, <3>1, <3>2, <3>3, Zenon DEF Balances
  <2> QED
    BY <1>7, <2>1, <2>6, <2>7, AccountsBalance
<1>8. CASE BadPacket
  BY <1>7, <1>8 DEF BadPacket, ringVars
<1>9. CASE MismatchedPacket
  BY <1>7, <1>9 DEF MismatchedPacket, ringVars
<1>10. CASE GoodPackets
  BY <1>10, GoodPacketBalances DEF GoodPackets
<1> QED
  BY <1>4, <1>5, <1>6, <1>8, <1>9, <1>10 DEF AssemblerSteps

(* EventsAccounted: for any sequence of packets, lists and flushes, every    *)
(* packet received is counted under one verdict or is still in a list, and   *)
(* every good packet counts one event per beam.                              *)
THEOREM NoCountIsLost == Spec => []EventsAccounted
<1>1. Init => EventsAccounted
  <2> SUFFICES ASSUME Init PROVE EventsAccounted
    OBVIOUS
  <2>1. incoming_packet_list = <<>> /\ unassembled_ringbuf = <<>> /\ packet_list = <<>>
    BY DEF Init
  <2>2. InFlight = 0
    BY <2>1, NothingInFlight
  <2>3. \A e \in EventType : Total(e) = 0
    BY DEF Init, Total, Zero
  <2> QED
    BY <2>2, <2>3, StreamAssumption DEF EventsAccounted, EventType
<1>2. TypeInv /\ TypeInv' /\ EndInv /\ EventsAccounted /\ [Next]_vars => EventsAccounted'
  <2> SUFFICES ASSUME TypeInv, TypeInv', EndInv, EventsAccounted, [Next]_vars
               PROVE  EventsAccounted'
    OBVIOUS
  <2>1. CASE \/ UNCHANGED vars \/ StartStream \/ EndStream
             \/ \E c \in Callers : JoinThreads(c) \/ JoinSteps(c)
    <3>1. UNCHANGED <<incoming_packet_list, unassembled_ringbuf, packet_list, network_subcounts,
                      assembler_subcounts, assembler_throws, cumulative_event_counts>>
      BY <2>1 DEF StartStream, EndStream, JoinThreads, JoinSteps, Joined, WaitedForJoin,
                  UnchangedByCaller, vars, networkVars, ringVars, assemblerVars
    <3> QED
      BY <3>1 DEF EventsAccounted, Total, InFlight
  <2> QED
    BY <2>1, NetworkKeepsAccounts, AssemblerKeepsAccounts DEF Next, Terminated
<1> QED
  BY <1>1, <1>2, TypeInvariant, EndInvariant, PTL DEF Spec
=============================================================================
