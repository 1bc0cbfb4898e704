-------------------------- MODULE Captures_proofs --------------------------
(***************************************************************************)
(* Proofs about a capture, from the call to the file: StreamMonitor, for   *)
(* every set of senders, beams, devices, file names and callers and every  *)
(* bound of time and of chunks (the choice of a device, captures, the      *)
(* packet history and its queries); and OutputDevice, for every set of     *)
(* requests, chunks, files and closing threads (no request is lost, files  *)
(* are what was reported, the order of requests, and the shutdown).        *)
(***************************************************************************)
EXTENDS StreamMonitor, OutputDevice, SequenceTheorems, FiniteSetTheorems, WellFoundedInduction, TLAPS

(* Of two names that a file name starts with, the shorter one starts the   *)
(* longer one, which the pool does not accept.                             *)
LEMMA MatchIsUnique ==
  ASSUME NEW file, NEW i \in Matching(DeviceNames, file), NEW j \in Matching(DeviceNames, file)
  PROVE  i = j
<1> SUFFICES ASSUME i # j PROVE FALSE
  OBVIOUS
<1>1. /\ Prefixes(DeviceNames[i], file) /\ Prefixes(DeviceNames[j], file)
      /\ i \in DOMAIN DeviceNames /\ j \in DOMAIN DeviceNames
  BY DEF Matching
<1>2. Len(DeviceNames[i]) \in Nat /\ Len(DeviceNames[j]) \in Nat
  BY <1>1, MonitorAssumption
<1>3. ~Prefixes(DeviceNames[i], DeviceNames[j]) /\ ~Prefixes(DeviceNames[j], DeviceNames[i])
  BY <1>1, MonitorAssumption DEF PoolAccepts
<1>4. CASE Len(DeviceNames[i]) <= Len(DeviceNames[j])
  <2>1. Prefixes(DeviceNames[i], DeviceNames[j])
    BY <1>1, <1>2, <1>4 DEF Prefixes
  <2> QED
    BY <1>3, <2>1
<1>5. CASE Len(DeviceNames[j]) <= Len(DeviceNames[i])
  <2>1. Prefixes(DeviceNames[j], DeviceNames[i])
    BY <1>1, <1>2, <1>5 DEF Prefixes
  <2> QED
    BY <1>3, <2>1
<1> QED
  BY <1>2, <1>4, <1>5

LEMMA DeviceMatches ==
  ASSUME NEW file, DeviceOf(DeviceNames, file) # NoDevice
  PROVE  Matching(DeviceNames, file) = {DeviceOf(DeviceNames, file)}
<1> DEFINE M == Matching(DeviceNames, file)
<1>1. M # {} /\ DeviceOf(DeviceNames, file) = CHOOSE i \in M : \A j \in M : i <= j
  BY DEF DeviceOf
<1>2. PICK i \in M : TRUE
  BY <1>1
<1>3. \A j \in M : j = i
  BY <1>2, MatchIsUnique
<1>4. i \in Nat
  BY <1>2, MonitorAssumption DEF Matching
<1> HIDE DEF M
<1>5. \E k \in M : \A j \in M : k <= j
  BY <1>2, <1>3, <1>4
<1>6. DeviceOf(DeviceNames, file) \in M
  BY <1>1, <1>5
<1> QED
  BY <1>3, <1>6 DEF M

(* A write request waits at the only device whose name its file name       *)
(* starts with, for every list of names the constructor of the pool        *)
(* accepts and every file name.                                            *)
THEOREM OneDeviceServes == MonitorSpec => []OneDevicePerFile
<1>1. MonitorInit => OneDevicePerFile
  BY DEF MonitorInit, OneDevicePerFile
<1>2. OneDevicePerFile /\ [MonitorNext]_monitorVars => OneDevicePerFile'
  <2> SUFFICES ASSUME OneDevicePerFile, [MonitorNext]_monitorVars PROVE OneDevicePerFile'
    OBVIOUS
  <2>1. CASE UNCHANGED requests
    BY <2>1 DEF OneDevicePerFile
  <2>2. ASSUME NEW b \in BeamSet, PutChunk(b) PROVE OneDevicePerFile'
    <3> DEFINE file == FileName(stream_pattern[b].pattern, b, nchunks[b])
               device == DeviceOf(DeviceNames, file)
               new == [beam |-> b, file |-> file, device |-> device]
    <3>1. CASE UNCHANGED requests
      BY <3>1 DEF OneDevicePerFile
    <3>2. CASE device # NoDevice /\ requests' = requests \cup {new}
      <4>1. Matching(DeviceNames, new.file) = {new.device}
        BY <3>2, DeviceMatches
      <4> HIDE DEF new
      <4> QED
        BY <3>2, <4>1 DEF OneDevicePerFile
    <3>3. UNCHANGED requests \/ (device # NoDevice /\ requests' = requests \cup {new})
      BY <2>2 DEF PutChunk
    <3> QED
      BY <3>1, <3>2, <3>3
  <2>3. ASSUME NEW r \in requests, NEW success, CompleteRequest(r, success)
        PROVE  OneDevicePerFile'
    BY <2>3 DEF CompleteRequest, OneDevicePerFile
  <2>4. \/ UNCHANGED requests
        \/ \E b \in BeamSet : PutChunk(b)
        \/ \E r \in requests, success \in BOOLEAN : CompleteRequest(r, success)
    BY DEF MonitorNext, MonitorTerminated, Captures, StreamToFiles, TellAssembler, captureVars, monitorVars
  <2> QED
    BY <2>1, <2>2, <2>3, <2>4
<1> QED
  BY <1>1, <1>2, PTL DEF MonitorSpec

-----------------------------------------------------------------------------
(* A call in progress tells the capture that get_streaming_status() shows, *)
(* there is at most one, and the beams it has told already agree with it.  *)
CallsType ==
  /\ DOMAIN call = Callers /\ DOMAIN stream_pattern = BeamSet
  /\ \A c \in Callers : call[c].left \in Seq(BeamSet)

Pending(b) == \E c \in Callers : b \in Range(call[c].left)

WholeInv ==
  /\ CallsType
  /\ \A c \in Callers : call[c].left # <<>> => call[c].of = capture
  /\ \A c, d \in Callers : call[c].left # <<>> /\ call[d].left # <<>> => c = d
  /\ \A b \in BeamSet : ~Pending(b) => stream_pattern[b] = Told(capture, b)

LEMMA RangeOfTail ==
  ASSUME NEW S, NEW s \in Seq(S), s # <<>>
  PROVE  /\ Head(s) \in S /\ Tail(s) \in Seq(S)
         /\ Range(s) = {Head(s)} \cup Range(Tail(s))
<1>1. /\ Head(s) \in S /\ Tail(s) \in Seq(S) /\ Len(Tail(s)) = Len(s) - 1
      /\ \A i \in 1 .. Len(Tail(s)) : Tail(s)[i] = s[i + 1]
  BY HeadTailProperties
<1>2. Len(s) \in Nat /\ DOMAIN s = 1 .. Len(s) /\ DOMAIN Tail(s) = 1 .. Len(Tail(s)) /\ Head(s) = s[1]
  BY <1>1
<1>3. Len(s) > 0
  BY <1>2
<1>4. ASSUME NEW x \in Range(s) PROVE x \in {Head(s)} \cup Range(Tail(s))
  <2>1. PICK i \in 1 .. Len(s) : x = s[i]
    BY <1>2 DEF Range
  <2>2. CASE i = 1
    BY <1>2, <2>1, <2>2
  <2>3. CASE i # 1
    <3>1. i - 1 \in 1 .. Len(Tail(s)) /\ Tail(s)[i - 1] = s[i]
      BY <1>1, <1>2, <2>1, <2>3
    <3> QED
      BY <1>2, <2>1, <3>1 DEF Range
  <2> QED
    BY <2>2, <2>3
<1>5. ASSUME NEW x \in Range(Tail(s)) PROVE x \in Range(s)
  <2>1. PICK i \in 1 .. Len(Tail(s)) : x = Tail(s)[i]
    BY <1>2 DEF Range
  <2>2. i + 1 \in 1 .. Len(s) /\ x = s[i + 1]
    BY <1>1, <1>2, <2>1
  <2> QED
    BY <1>2, <2>2 DEF Range
<1>6. Head(s) \in Range(s)
  BY <1>2, <1>3 DEF Range
<1> QED
  BY <1>1, <1>4, <1>5, <1>6

LEMMA EmptyRange == Range(<<>>) = {}
  BY DEF Range

LEMMA InitWhole == MonitorInit => WholeInv
<1> SUFFICES ASSUME MonitorInit PROVE WholeInv
  OBVIOUS
<1>1. \A c \in Callers : call[c].left = <<>>
  BY DEF MonitorInit
<1>2. CallsType
  <2>1. <<>> \in Seq(BeamSet)
    OBVIOUS
  <2>2. DOMAIN call = Callers /\ DOMAIN stream_pattern = BeamSet
    BY DEF MonitorInit
  <2> QED
    BY <1>1, <2>1, <2>2 DEF CallsType
<1>3. \A b \in BeamSet : stream_pattern[b] = Told(capture, b)
  BY DEF MonitorInit, Told, NoCapture
<1> QED
  BY <1>1, <1>2, <1>3 DEF WholeInv

LEMMA StreamToFilesWhole ==
  ASSUME WholeInv, NEW c \in Callers, NEW pattern, NEW beams, NEW need_rfi,
         StreamToFiles(c, pattern, beams, need_rfi)
  PROVE  WholeInv'
<1>1. /\ \A d \in Callers : call[d].left = <<>>
      /\ call' = [call EXCEPT ![c] = [of |-> capture', left |-> Beams]]
      /\ UNCHANGED stream_pattern
  BY DEF StreamToFiles, StreamLockIsFree, NobodyTells
<1>2. /\ call'[c].left = Beams /\ call'[c].of = capture'
      /\ \A d \in Callers \ {c} : call'[d] = call[d]
      /\ DOMAIN call' = Callers
  BY <1>1 DEF WholeInv, CallsType
<1>3. CallsType'
  BY <1>1, <1>2, MonitorAssumption DEF WholeInv, CallsType, BeamSet
<1>4. \A b \in BeamSet : Pending(b)'
  BY <1>2 DEF Pending, BeamSet
<1> QED
  BY <1>1, <1>2, <1>3, <1>4 DEF WholeInv

LEMMA TellAssemblerWhole ==
  ASSUME WholeInv, NEW c \in Callers, TellAssembler(c)
  PROVE  WholeInv'
<1> DEFINE left == call[c].left
           b == Head(left)
<1>1. /\ left # <<>> /\ left \in Seq(BeamSet) /\ call[c].of = capture
      /\ UNCHANGED capture
  BY DEF WholeInv, CallsType, TellAssembler
<1>2. /\ call'[c].left = Tail(left)
      /\ call'[c].of = IF Len(left) = 1 THEN NoCapture ELSE capture
      /\ \A d \in Callers \ {c} : call'[d] = call[d]
      /\ DOMAIN call' = Callers
  BY <1>1 DEF TellAssembler, WholeInv, CallsType
<1>3. b \in BeamSet /\ Tail(left) \in Seq(BeamSet) /\ Range(left) = {b} \cup Range(Tail(left))
  BY <1>1, RangeOfTail
<1>4. /\ stream_pattern'[b] = Told(capture, b)
      /\ \A x \in BeamSet \ {b} : stream_pattern'[x] = stream_pattern[x]
      /\ DOMAIN stream_pattern' = BeamSet
  BY <1>1, <1>3 DEF TellAssembler, WholeInv, CallsType
<1>5. CallsType'
  BY <1>2, <1>3, <1>4 DEF WholeInv, CallsType
<1>6. \A d \in Callers \ {c} : call[d].left = <<>>
  BY <1>1 DEF WholeInv
<1>7. Tail(left) # <<>> => Len(left) # 1
  <2>1. Len(Tail(left)) = Len(left) - 1 /\ Len(left) \in Nat
    BY <1>1, HeadTailProperties
  <2>2. Len(left) = 1 => Len(Tail(left)) = 0
    BY <2>1
  <2> QED
    BY <1>3, <2>2, EmptySeq
<1>8. ASSUME NEW x \in BeamSet, ~Pending(x)' PROVE stream_pattern'[x] = Told(capture', x)
  <2>1. CASE x = b
    BY <1>1, <1>4, <2>1
  <2>2. CASE x # b
    <3>1. x \notin Range(Tail(left))
      BY <1>2, <1>8 DEF Pending
    <3>2. ~Pending(x)
      <4>1. x \notin Range(call[c].left)
        BY <1>3, <2>2, <3>1
      <4> QED
        BY <1>6, <4>1, EmptyRange DEF Pending
    <3> QED
      BY <1>1, <1>4, <2>2, <3>2 DEF WholeInv
  <2> QED
    BY <2>1, <2>2
<1>9. \A d \in Callers : call'[d].left # <<>> => d = c /\ call'[d].of = capture'
  BY <1>1, <1>2, <1>6, <1>7
<1> QED
  BY <1>5, <1>8, <1>9 DEF WholeInv

LEMMA NextWhole == WholeInv /\ [MonitorNext]_monitorVars => WholeInv'
<1> SUFFICES ASSUME WholeInv, [MonitorNext]_monitorVars PROVE WholeInv'
  OBVIOUS
<1>1. CASE UNCHANGED <<capture, call, stream_pattern>>
  BY <1>1 DEF WholeInv, CallsType, Pending
<1>2. \/ UNCHANGED <<capture, call, stream_pattern>>
      \/ \E c \in Callers, pattern \in Patterns, beams \in SUBSET BeamSet, need_rfi \in BOOLEAN :
           StreamToFiles(c, pattern, beams, need_rfi)
      \/ \E c \in Callers : TellAssembler(c)
  BY DEF MonitorNext, MonitorTerminated, Captures, PutChunk, CompleteRequest, captureVars, monitorVars
<1> QED
  BY <1>1, <1>2, StreamToFilesWhole, TellAssemblerWhole

(* Whatever calls of stream_to_files() come together, once none is in      *)
(* progress every assembler streams what get_streaming_status() shows, for *)
(* every number of beams and of callers.                                   *)
THEOREM CapturesDoNotMix == MonitorSpec => []CaptureIsWhole
<1>1. WholeInv => CaptureIsWhole
  <2> SUFFICES ASSUME WholeInv, NobodyTells, NEW b \in BeamSet
               PROVE  stream_pattern[b].pattern =
                        IF b \in StreamingStatus.beams THEN StreamingStatus.pattern ELSE Off
    BY DEF CaptureIsWhole
  <2>1. ~Pending(b)
    BY EmptyRange DEF NobodyTells, Pending
  <2>2. stream_pattern[b] = Told(capture, b)
    BY <2>1 DEF WholeInv
  <2> QED
    BY <2>2 DEF Told, StreamingStatus
<1> QED
  BY <1>1, InitWhole, NextWhole, PTL DEF MonitorSpec

-----------------------------------------------------------------------------
(* What the network thread has counted is what it received since the start *)
(* of the stream; packets still to come are later than any entry.          *)
Before(s, t) == {p \in log : p.sender = s /\ p.tv > StartTime /\ p.tv <= t}

LogType ==
  /\ now \in Nat /\ now >= StartTime
  /\ IsFiniteSet(log)
  /\ \A p \in log : p.tv \in Nat /\ p.tv > StartTime /\ p.tv <= now

CountsTrue ==
  /\ nthread_counts \in [Senders -> Nat]
  /\ \A s \in Senders : nthread_counts[s] = Cardinality({p \in log : p.sender = s})
  /\ nthread_counts # Zero =>
       nthread_tv \in Nat /\ nthread_tv <= now /\ \A p \in log : p.tv <= nthread_tv

EntryTrue(e) ==
  e.counts # Zero =>
    /\ e.tv \in Nat /\ e.tv <= now /\ e.period = e.tv - StartTime
    /\ \A s \in Senders : e.counts[s] = Cardinality(Before(s, e.tv))

HistoryInv == LogType /\ CountsTrue /\ \A e \in packet_history : EntryTrue(e)

LEMMA InitHistory == MonitorInit => HistoryInv
<1> SUFFICES ASSUME MonitorInit PROVE HistoryInv
  OBVIOUS
<1>1. LogType
  BY MonitorAssumption, FS_EmptySet DEF MonitorInit, LogType
<1>2. CountsTrue
  <2>1. \A s \in Senders : {p \in log : p.sender = s} = {}
    BY DEF MonitorInit
  <2> QED
    BY <2>1, FS_EmptySet DEF MonitorInit, CountsTrue, Zero
<1> QED
  BY <1>1, <1>2 DEF MonitorInit, HistoryInv

LEMMA ReceiveHistory ==
  ASSUME HistoryInv, NEW s \in Senders, ReceivePacket(s)
  PROVE  HistoryInv'
<1> DEFINE new == [tv |-> now + 1, sender |-> s]
           Of(r, l) == {p \in l : p.sender = r}
<1>1. /\ now' = now + 1 /\ nthread_tv' = now + 1
      /\ nthread_counts' = [nthread_counts EXCEPT ![s] = @ + 1]
      /\ log' = log \cup {new}
      /\ UNCHANGED packet_history
  BY DEF ReceivePacket
<1>2. /\ now \in Nat /\ now >= StartTime /\ StartTime \in Nat
      /\ IsFiniteSet(log) /\ \A p \in log : p.tv \in Nat /\ p.tv > StartTime /\ p.tv <= now
  BY MonitorAssumption DEF HistoryInv, LogType
<1>3. new.tv = now + 1 /\ new.sender = s /\ new \notin log
  BY <1>2
<1> HIDE DEF new
<1>4. LogType'
  <2>1. IsFiniteSet(log')
    BY <1>1, <1>2, FS_AddElement
  <2> QED
    BY <1>1, <1>2, <1>3, <2>1 DEF LogType
<1>5. ASSUME NEW r \in Senders
      PROVE  nthread_counts'[r] = Cardinality(Of(r, log'))
  <2>1. nthread_counts[r] = Cardinality(Of(r, log)) /\ nthread_counts[r] \in Nat
    BY DEF HistoryInv, CountsTrue
  <2>2. CASE r = s
    <3>1. Of(r, log') = Of(r, log) \cup {new} /\ new \notin Of(r, log)
      BY <1>1, <1>3, <2>2
    <3>2. IsFiniteSet(Of(r, log))
      BY <1>2, FS_Subset
    <3>3. Cardinality(Of(r, log')) = Cardinality(Of(r, log)) + 1
      BY <3>1, <3>2, FS_AddElement
    <3> QED
      BY <1>1, <2>1, <2>2, <3>3 DEF HistoryInv, CountsTrue
  <2>3. CASE r # s
    <3>1. Of(r, log') = Of(r, log)
      BY <1>1, <1>3, <2>3
    <3> QED
      BY <1>1, <2>1, <2>3, <3>1 DEF HistoryInv, CountsTrue
  <2> QED
    BY <2>2, <2>3
<1>6. CountsTrue'
  <2>1. nthread_counts' \in [Senders -> Nat]
    BY <1>1 DEF HistoryInv, CountsTrue
  <2>2. nthread_tv' \in Nat /\ nthread_tv' <= now' /\ \A p \in log' : p.tv <= nthread_tv'
    BY <1>1, <1>2, <1>3
  <2> QED
    BY <1>5, <2>1, <2>2 DEF CountsTrue
<1>7. ASSUME NEW e \in packet_history PROVE EntryTrue(e)'
  <2> SUFFICES ASSUME e.counts # Zero
               PROVE  /\ e.tv \in Nat /\ e.tv <= now' /\ e.period = e.tv - StartTime
                      /\ \A r \in Senders : e.counts[r] = Cardinality(Before(r, e.tv)')
    BY DEF EntryTrue, Zero
  <2>1. /\ e.tv \in Nat /\ e.tv <= now /\ e.period = e.tv - StartTime
        /\ \A r \in Senders : e.counts[r] = Cardinality(Before(r, e.tv))
    BY DEF HistoryInv, EntryTrue
  <2>2. \A r \in Senders : Before(r, e.tv)' = Before(r, e.tv)
    BY <1>1, <1>2, <1>3, <2>1 DEF Before
  <2> QED
    BY <1>1, <1>2, <2>1, <2>2
<1> QED
  BY <1>1, <1>4, <1>6, <1>7 DEF HistoryInv

LEMMA UpdateHistory ==
  ASSUME HistoryInv, UpdatePacketRates
  PROVE  HistoryInv'
<1>1. /\ UNCHANGED <<now, nthread_counts, nthread_tv, log>>
      /\ packet_history' \subseteq packet_history \cup {CountDiff}
  BY DEF UpdatePacketRates, Inserted, Trimmed
<1>2. LogType' /\ CountsTrue'
  BY <1>1 DEF HistoryInv, LogType, CountsTrue
<1>3. \A e \in packet_history : EntryTrue(e)'
  BY <1>1 DEF HistoryInv, EntryTrue, Before, Zero
<1>4. EntryTrue(CountDiff)
  <2> DEFINE e == CountDiff
  <2>1. e.tv = nthread_tv /\ e.period = nthread_tv - StartTime
    BY DEF CountDiff, LastPacketTv
  <2>2. e.counts = nthread_counts
    <3>1. \A s \in Senders : nthread_counts[s] - LastPacketCounts[s] = nthread_counts[s]
      BY DEF LastPacketCounts, Zero, HistoryInv, CountsTrue
    <3>2. e.counts = [s \in Senders |-> nthread_counts[s] - LastPacketCounts[s]]
      BY DEF CountDiff
    <3>3. e.counts = [s \in Senders |-> nthread_counts[s]]
      BY <3>1, <3>2
    <3> QED
      BY <3>3 DEF HistoryInv, CountsTrue
  <2> HIDE DEF e
  <2> SUFFICES ASSUME nthread_counts # Zero
               PROVE  /\ nthread_tv \in Nat /\ nthread_tv <= now
                      /\ \A s \in Senders : nthread_counts[s] = Cardinality(Before(s, nthread_tv))
    BY <2>1, <2>2 DEF EntryTrue, e
  <2>3. \A s \in Senders : Before(s, nthread_tv) = {p \in log : p.sender = s}
    BY DEF HistoryInv, CountsTrue, LogType, Before
  <2> QED
    BY <2>3 DEF HistoryInv, CountsTrue
<1>5. \A e \in packet_history' : EntryTrue(e)'
  <2> SUFFICES ASSUME NEW e \in packet_history' PROVE EntryTrue(e)'
    OBVIOUS
  <2>1. CASE e \in packet_history
    BY <1>3, <2>1
  <2>2. CASE e = CountDiff
    BY <1>4, <1>1, <2>2 DEF EntryTrue, Before, Zero
  <2> QED
    BY <1>1, <2>1, <2>2
<1> QED
  BY <1>2, <1>5 DEF HistoryInv

LEMMA NextHistory == HistoryInv /\ [MonitorNext]_monitorVars => HistoryInv'
<1> SUFFICES ASSUME HistoryInv, [MonitorNext]_monitorVars PROVE HistoryInv'
  OBVIOUS
<1>1. CASE UNCHANGED <<now, nthread_counts, nthread_tv, packet_history, log>>
  BY <1>1 DEF HistoryInv, LogType, CountsTrue, EntryTrue, Before, Zero
<1>2. CASE ReceiveTimeout
  <2>1. /\ now' = now + 1 /\ now \in Nat
        /\ UNCHANGED <<nthread_counts, nthread_tv, packet_history, log>>
    BY <1>2 DEF ReceiveTimeout, HistoryInv, LogType
  <2>2. LogType'
    BY <2>1, MonitorAssumption DEF HistoryInv, LogType
  <2>3. CountsTrue'
    BY <2>1 DEF HistoryInv, CountsTrue, Zero
  <2>4. \A e \in packet_history : EntryTrue(e)'
    BY <2>1 DEF HistoryInv, EntryTrue, Before, Zero
  <2> QED
    BY <2>1, <2>2, <2>3, <2>4 DEF HistoryInv
<1>3. \/ UNCHANGED <<now, nthread_counts, nthread_tv, packet_history, log>>
      \/ \E s \in Senders : ReceivePacket(s)
      \/ ReceiveTimeout
      \/ UpdatePacketRates
  BY DEF MonitorNext, MonitorTerminated, NetworkThread, NetworkFlushPackets, historyVars, monitorVars
<1> QED
  BY <1>1, <1>2, <1>3, ReceiveHistory, UpdateHistory

(* Nothing that the network thread flushes or publishes in between makes    *)
(* the counts wrong: however the clock, the packets and the flushes          *)
(* interleave, an entry of the packet history counts exactly the packets    *)
(* since the start of the stream.  It is never the difference to the entry  *)
(* before that get_packet_rates() sums (EachPacketOnce).                    *)
THEOREM HistoryIsCumulative == MonitorSpec => []EntriesAreCumulative
<1>1. HistoryInv => EntriesAreCumulative
  BY DEF HistoryInv, EntryTrue, EntriesAreCumulative, Received, Before
<1> QED
  BY <1>1, InitHistory, NextHistory, PTL DEF MonitorSpec

-----------------------------------------------------------------------------
(* The output device.                                                      *)
LEMMA RequestTypes ==
  /\ NoRequest \notin Requests
  /\ "io" \notin Closers
  /\ \A r \in Requests : ChunkOf[r] \in Chunks /\ FileOf[r] \in Files
  BY RequestAssumption DEF Chunks

(* The type invariant of the output device. *)
THEOREM TypeCorrect == Spec => []TypeOK
<1> USE RequestTypes
<1>1. Init => TypeOK
  BY DEF Init, TypeOK, Outcomes
<1>2. TypeOK /\ [Next]_vars => TypeOK'
  <2> SUFFICES ASSUME TypeOK, [Next]_vars PROVE TypeOK'
    OBVIOUS
  <2> USE DEF TypeOK, Outcomes, queueVars, flagVars, ioVars, fileVars, maskVars
  <2>1. ASSUME NEW r \in Requests, Enqueue(r) PROVE TypeOK'
    BY <2>1 DEF Enqueue, NotifyAll
  <2>2. ASSUME NEW c \in Chunks, FillMask(c) \/ FilledRfiMask(c) PROVE TypeOK'
    BY <2>2 DEF FillMask, FilledRfiMask, AfterMask
  <2>3. CASE PopSteps
    <3>1. MaskReceived \subseteq Requests
      BY DEF MaskReceived
    <3>2. ASSUME NEW r \in Requests, CheckMask(r) PROVE TypeOK'
      BY <3>2 DEF CheckMask, SearchOn
    <3>3. ASSUME NEW r \in Requests, PopRequest(r) PROVE TypeOK'
      BY <3>3 DEF PopRequest, NotifyAll
    <3>4. CASE TakeLock
      BY <3>1, <3>4 DEF TakeLock
    <3>5. CASE PopNull \/ PopWaits
      BY <3>5 DEF PopNull, PopWaits, Searched
    <3> QED
      BY <2>3, <3>2, <3>3, <3>4, <3>5 DEF PopSteps
  <2>4. CASE SkipDuplicate \/ WriteFile \/ LinkFile \/ WriteFails
    <3>1. /\ Writing
          /\ \E success \in BOOLEAN : Report(success)
      BY <2>4 DEF SkipDuplicate, WriteFile, LinkFile, WriteFails
    <3>2. current \in Requests /\ FileNow \in Files /\ ChunkNow \in Chunks
      BY <3>1 DEF Writing, FileNow, ChunkNow
    <3>3. /\ filename_set' \in [Chunks -> SUBSET Files]
          /\ filename_map' \in [Chunks -> SUBSET Files]
          /\ DOMAIN disk' \subseteq Files
      <4>1. CASE UNCHANGED fileVars
        BY <4>1
      <4>2. CASE Record /\ \E c : PutOnDisk(c)
        BY <3>2, <4>2 DEF Record, PutOnDisk
      <4> QED
        BY <2>4, <4>1, <4>2 DEF SkipDuplicate, WriteFile, LinkFile, WriteFails
    <3> QED
      BY <3>1, <3>2, <3>3 DEF Report, Released, Writing
  <2>5. ASSUME NEW c \in Closers, NEW wait \in BOOLEAN, EndStream(c, wait) PROVE TypeOK'
    BY <2>5 DEF EndStream, NotifyAll, UnchangedByCloser
  <2>6. ASSUME NEW c \in Closers, CloserSteps(c) PROVE TypeOK'
    <3>1. CASE EndStreamLoop(c)
      BY <3>1 DEF EndStreamLoop, UnchangedByCloser
    <3>2. CASE JoinThread(c)
      BY <3>2 DEF JoinThread, AfterJoin, UnchangedByCloser
    <3>3. CASE Joined(c)
      BY <3>3 DEF Joined, NotifyAll, UnchangedByCloser
    <3>4. CASE JoinLoop(c)
      BY <3>4 DEF JoinLoop, UnchangedByCloser
    <3> QED
      BY <2>6, <3>1, <3>2, <3>3, <3>4 DEF CloserSteps
  <2>7. CASE UNCHANGED vars
    BY <2>7 DEF vars
  <2> QED
    BY <2>1, <2>2, <2>3, <2>4, <2>5, <2>6, <2>7 DEF Next, IoSteps, Terminated
<1> QED
  BY <1>1, <1>2, PTL DEF Spec

(* The order of a shutdown: nobody joins the thread, and the thread does not *)
(* exit, before end_stream() was called.  Requests are refused from then on. *)
ShutdownOrder ==
  /\ io = "exited" => end_stream_called
  /\ join_thread_called => end_stream_called
  /\ \A c \in Closers : closer[c] # "out" => end_stream_called

LEMMA ShutdownOrdered == Spec => []ShutdownOrder
<1>1. Init => ShutdownOrder
  BY DEF Init, ShutdownOrder
<1>2. TypeOK /\ ShutdownOrder /\ [Next]_vars => ShutdownOrder'
  <2> SUFFICES ASSUME TypeOK, ShutdownOrder, [Next]_vars PROVE ShutdownOrder'
    OBVIOUS
  <2> USE DEF ShutdownOrder, TypeOK, queueVars, flagVars, ioVars, fileVars, maskVars
  <2>1. CASE (\E r \in Requests : Enqueue(r)) \/ (\E c \in Chunks : FillMask(c) \/ FilledRfiMask(c))
    BY <2>1 DEF Enqueue, FillMask, FilledRfiMask
  <2>2. CASE PopSteps
    BY <2>2 DEF PopSteps, TakeLock, CheckMask, PopRequest, PopNull, PopWaits, MayExit
  <2>3. CASE SkipDuplicate \/ WriteFile \/ LinkFile \/ WriteFails
    BY <2>3 DEF SkipDuplicate, WriteFile, LinkFile, WriteFails, Report
  <2>4. ASSUME NEW c \in Closers, NEW wait \in BOOLEAN, EndStream(c, wait) PROVE ShutdownOrder'
    BY <2>4 DEF EndStream, UnchangedByCloser
  <2>5. ASSUME NEW c \in Closers, CloserSteps(c) PROVE ShutdownOrder'
    BY <2>5 DEF CloserSteps, EndStreamLoop, JoinThread, Joined, JoinLoop, UnchangedByCloser
  <2>6. CASE UNCHANGED vars
    BY <2>6 DEF vars
  <2> QED
    BY <2>1, <2>2, <2>3, <2>4, <2>5, <2>6 DEF Next, IoSteps, Terminated
<1> QED
  BY <1>1, <1>2, TypeCorrect, PTL DEF Spec

(* No accepted request is lost: it is in one queue, or in the hands of the   *)
(* i/o thread, until its outcome is known, and the thread outlives them all. *)
THEOREM RequestsNotLost == Spec => []NoRequestLost
<1> USE RequestTypes
<1>1. Init => NoRequestLost
  BY DEF Init, NoRequestLost, QueuesEmpty
<1>2. TypeOK /\ ShutdownOrder /\ NoRequestLost /\ [Next]_vars => NoRequestLost'
  <2> SUFFICES ASSUME TypeOK, ShutdownOrder, NoRequestLost, [Next]_vars PROVE NoRequestLost'
    OBVIOUS
  <2> USE DEF NoRequestLost, QueuesEmpty, TypeOK, queueVars, ioVars
  <2>1. ASSUME NEW r \in Requests, Enqueue(r) PROVE NoRequestLost'
    <3>1. r \notin write_reqs \cup awaiting_rfi \cup {current}
      BY <2>1 DEF Enqueue
    <3>2. io = "exited" => end_stream_called
      BY DEF ShutdownOrder
    <3> QED
      BY <2>1, <3>1, <3>2 DEF Enqueue
  <2>2. CASE \E c \in Chunks : FillMask(c) \/ FilledRfiMask(c)
    BY <2>2 DEF FillMask, FilledRfiMask
  <2>3. CASE PopSteps
    <3>1. ASSUME NEW r \in Requests, CheckMask(r) PROVE NoRequestLost'
      BY <3>1 DEF CheckMask
    <3>2. ASSUME NEW r \in Requests, PopRequest(r) PROVE NoRequestLost'
      BY <3>2 DEF PopRequest, Searched
    <3>3. CASE TakeLock
      BY <3>3 DEF TakeLock
    <3>4. CASE PopNull
      BY <3>4 DEF PopNull, Searched, MayExit
    <3>5. CASE PopWaits
      BY <3>5 DEF PopWaits, Searched
    <3> QED
      BY <2>3, <3>1, <3>2, <3>3, <3>4, <3>5 DEF PopSteps
  <2>4. CASE SkipDuplicate \/ WriteFile \/ LinkFile \/ WriteFails
    BY <2>4 DEF SkipDuplicate, WriteFile, LinkFile, WriteFails, Report, Released, Writing
  <2>5. ASSUME NEW c \in Closers, NEW wait \in BOOLEAN, EndStream(c, wait) PROVE NoRequestLost'
    BY <2>5 DEF EndStream, UnchangedByCloser
  <2>6. ASSUME NEW c \in Closers, CloserSteps(c) PROVE NoRequestLost'
    BY <2>6 DEF CloserSteps, EndStreamLoop, JoinThread, Joined, JoinLoop, UnchangedByCloser
  <2>7. CASE UNCHANGED vars
    BY <2>7 DEF vars
  <2> QED
    BY <2>1, <2>2, <2>3, <2>4, <2>5, <2>6, <2>7 DEF Next, IoSteps, Terminated
<1> QED
  BY <1>1, <1>2, TypeCorrect, ShutdownOrdered, PTL DEF Spec

(* Why the i/o thread never sleeps through work: a mask that arrives behind  *)
(* its search is announced only after the search, when the thread sleeps or  *)
(* has found something else to do.                                           *)
WakeupInv ==
  /\ NoLostWakeup
  /\ "io" \in asleep => io = "pop"
  /\ \A r \in passed : ChunkOf[r] \in has_rfi_mask => ChunkOf[r] \in unannounced

LEMMA InitWakeup == Init => WakeupInv
  BY RequestTypes DEF Init, WakeupInv, NoLostWakeup

LEMMA PopWakeup ==
  ASSUME TypeOK, ShutdownOrder, WakeupInv, PopSteps
  PROVE  WakeupInv'
<1> USE RequestTypes
<1> USE DEF WakeupInv, NoLostWakeup, MaskReceived, queueVars, flagVars, maskVars
<1>1. CASE TakeLock
  BY <1>1 DEF TakeLock
<1>2. ASSUME NEW r \in Requests, CheckMask(r) PROVE WakeupInv'
  BY <1>2 DEF CheckMask, SearchOn, MustWait
<1>3. ASSUME NEW r \in Requests, PopRequest(r) PROVE WakeupInv'
  BY <1>3 DEF PopRequest, NotifyAll
<1>4. CASE PopNull
  BY <1>4 DEF PopNull, Searched
<1>5. CASE PopWaits
  <2>1. /\ write_reqs' = {} /\ passed' = {} /\ io' = "pop"
        /\ awaiting_rfi' = passed
        /\ ~(end_stream_called /\ awaiting_rfi' = {})
        /\ UNCHANGED <<flagVars, maskVars>>
    BY <1>5 DEF PopWaits, Searched, MayExit
  <2> QED
    BY <2>1 DEF ShutdownOrder
<1> QED
  BY <1>1, <1>2, <1>3, <1>4, <1>5 DEF PopSteps

LEMMA NextWakeup == TypeOK /\ ShutdownOrder /\ WakeupInv /\ [Next]_vars => WakeupInv'
<1> USE RequestTypes
<1> SUFFICES ASSUME TypeOK, ShutdownOrder, WakeupInv, [Next]_vars PROVE WakeupInv'
  OBVIOUS
<1> USE DEF WakeupInv, NoLostWakeup, MaskReceived, queueVars, flagVars, ioVars, maskVars
<1>1. ASSUME NEW r \in Requests, Enqueue(r) PROVE WakeupInv'
  BY <1>1 DEF Enqueue, NotifyAll, MustWait
<1>2. ASSUME NEW c \in Chunks, FillMask(c) PROVE WakeupInv'
  BY <1>2 DEF FillMask
<1>3. ASSUME NEW c \in Chunks, FilledRfiMask(c) PROVE WakeupInv'
  BY <1>3 DEF FilledRfiMask, AfterMask, LockFree, TypeOK
<1>4. CASE SkipDuplicate \/ WriteFile \/ LinkFile \/ WriteFails
  BY <1>4 DEF SkipDuplicate, WriteFile, LinkFile, WriteFails, Writing, Report
<1>5. ASSUME NEW c \in Closers, NEW wait \in BOOLEAN, EndStream(c, wait) PROVE WakeupInv'
  BY <1>5 DEF EndStream, NotifyAll, UnchangedByCloser
<1>6. ASSUME NEW c \in Closers, CloserSteps(c) PROVE WakeupInv'
  BY <1>6 DEF CloserSteps, EndStreamLoop, JoinThread, AfterJoin, Joined, NotifyAll, JoinLoop,
              UnchangedByCloser
<1>7. CASE UNCHANGED vars
  BY <1>7 DEF vars
<1> QED
  BY <1>1, <1>2, <1>3, <1>4, <1>5, <1>6, <1>7, PopWakeup DEF Next, IoSteps, Terminated

(* The i/o thread never sleeps through work: every change that could give it *)
(* something to do notifies it, or is followed by a call that will, also a   *)
(* mask that is filled while the thread looks for those that have arrived.   *)
THEOREM NoWakeupLost == Spec => []NoLostWakeup
<1>1. WakeupInv => NoLostWakeup
  BY DEF WakeupInv
<1> QED
  BY <1>1, InitWakeup, NextWakeup, TypeCorrect, ShutdownOrdered, PTL DEF Spec

-----------------------------------------------------------------------------
(* What the chunks remember is on disk, and only chunks with a mask are      *)
(* remembered: so a duplicate or a hard link may stand for a write.          *)
RecordsHold ==
  \A c \in Chunks :
    /\ \A f \in filename_set[c] \cup filename_map[c] : f \in DOMAIN disk /\ disk[f] = c
    /\ filename_set[c] \cup filename_map[c] # {} => c \in has_rfi_mask

DiskInv == RecordsHold /\ DiskCorrect /\ WrittenWithMask

(* A request that has succeeded: its name was recorded already, or its chunk *)
(* is written or linked under a new name.                                    *)
LEMMA AfterWrite ==
  ASSUME TypeOK, DiskInv, SkipDuplicate \/ WriteFile \/ LinkFile \/ WriteFails
  PROVE  DiskInv'
<1> USE RequestTypes
<1>1. /\ current \in Requests /\ FileNow \in Files /\ ChunkNow \in Chunks
      /\ FileNow = FileOf[current] /\ ChunkNow = ChunkOf[current]
      /\ has_rfi_mask' = has_rfi_mask
  BY DEF SkipDuplicate, WriteFile, LinkFile, WriteFails, Writing, Report, FileNow, ChunkNow,
         TypeOK, maskVars
<1>2. CASE WriteFails
  <2>1. /\ outcome' = [outcome EXCEPT ![current] = "failed"]
        /\ UNCHANGED <<filename_set, filename_map, disk>>
    BY <1>2 DEF WriteFails, Report, fileVars
  <2> QED
    BY <1>1, <2>1 DEF DiskInv, RecordsHold, DiskCorrect, WrittenWithMask, TypeOK
<1>3. CASE SkipDuplicate
  <2>1. /\ outcome' = [outcome EXCEPT ![current] = "succeeded"]
        /\ UNCHANGED <<filename_set, filename_map, disk>>
        /\ FileNow \in filename_set[ChunkNow]
    BY <1>3 DEF SkipDuplicate, Report, fileVars, Duplicate
  <2>2. FileNow \in DOMAIN disk /\ disk[FileNow] = ChunkNow /\ ChunkNow \in has_rfi_mask
    BY <1>1, <2>1 DEF DiskInv, RecordsHold
  <2> QED
    BY <1>1, <2>1, <2>2 DEF DiskInv, RecordsHold, DiskCorrect, WrittenWithMask, TypeOK
<1>4. CASE WriteFile \/ LinkFile
  <2>1. /\ outcome' = [outcome EXCEPT ![current] = "succeeded"]
        /\ FileNow \notin DOMAIN disk
        /\ Record
    BY <1>4 DEF WriteFile, LinkFile, Report, FileExists
  <2>2. PutOnDisk(ChunkNow) /\ ChunkNow \in has_rfi_mask
    <3>1. CASE WriteFile
      BY <3>1 DEF WriteFile, MaskWritable
    <3>2. CASE LinkFile
      <4>1. PICK source \in filename_map[ChunkNow] : PutOnDisk(disk[source])
        BY <3>2 DEF LinkFile, LinkSource
      <4>2. disk[source] = ChunkNow /\ ChunkNow \in has_rfi_mask
        BY <1>1 DEF DiskInv, RecordsHold
      <4> QED
        BY <4>1, <4>2
    <3> QED
      BY <1>4, <3>1, <3>2
  <2>3. /\ DOMAIN disk' = DOMAIN disk \cup {FileNow}
        /\ disk'[FileNow] = ChunkNow
        /\ \A f \in DOMAIN disk : f \in DOMAIN disk' /\ disk'[f] = disk[f]
    BY <2>1, <2>2 DEF PutOnDisk
  <2>4. \A c \in Chunks :
          filename_set'[c] \cup filename_map'[c]
            \subseteq filename_set[c] \cup filename_map[c] \cup (IF c = ChunkNow THEN {FileNow} ELSE {})
    BY <1>1, <2>1 DEF Record, TypeOK
  <2>5. RecordsHold'
    <3> SUFFICES ASSUME NEW c \in Chunks,
                        NEW f \in filename_set'[c] \cup filename_map'[c]
                 PROVE  f \in DOMAIN disk' /\ disk'[f] = c /\ c \in has_rfi_mask
      BY <1>1 DEF RecordsHold
    <3>1. CASE f \in filename_set[c] \cup filename_map[c]
      BY <2>3, <3>1 DEF DiskInv, RecordsHold
    <3>2. CASE c = ChunkNow /\ f = FileNow
      BY <2>2, <2>3, <3>2
    <3> QED
      BY <2>4, <3>1, <3>2
  <2>6. ASSUME NEW r \in Requests, outcome'[r] = "succeeded"
        PROVE  /\ FileOf[r] \in DOMAIN disk' /\ disk'[FileOf[r]] = ChunkOf[r]
               /\ ChunkOf[r] \in has_rfi_mask
    <3>1. CASE r = current
      BY <1>1, <2>2, <2>3, <3>1
    <3>2. CASE r # current
      <4>1. outcome[r] = "succeeded"
        BY <2>1, <2>6, <3>2 DEF TypeOK
      <4> QED
        BY <2>3, <4>1 DEF DiskInv, DiskCorrect, WrittenWithMask
    <3> QED
      BY <3>1, <3>2
  <2> QED
    BY <1>1, <2>5, <2>6 DEF DiskInv, DiskCorrect, WrittenWithMask, RecordsHold
<1> QED
  BY <1>2, <1>3, <1>4

LEMMA DiskInvariant == Spec => []DiskInv
<1> USE RequestTypes
<1>1. Init => DiskInv
  BY DEF Init, DiskInv, RecordsHold, DiskCorrect, WrittenWithMask
<1>2. TypeOK /\ DiskInv /\ [Next]_vars => DiskInv'
  <2> SUFFICES ASSUME TypeOK, DiskInv, [Next]_vars PROVE DiskInv'
    OBVIOUS
  <2>1. CASE SkipDuplicate \/ WriteFile \/ LinkFile \/ WriteFails
    BY <2>1, AfterWrite
  <2>2. ASSUME UNCHANGED <<filename_set, filename_map, disk>>,
               has_rfi_mask \subseteq has_rfi_mask',
               \A r \in Requests : outcome'[r] = "succeeded" => outcome[r] = "succeeded"
        PROVE  DiskInv'
    BY <2>2 DEF DiskInv, RecordsHold, DiskCorrect, WrittenWithMask
  <2>3. ASSUME NEW r \in Requests, Enqueue(r) PROVE DiskInv'
    BY <2>2, <2>3 DEF Enqueue, fileVars, maskVars, TypeOK
  <2>4. ASSUME NEW c \in Chunks, FillMask(c) \/ FilledRfiMask(c) PROVE DiskInv'
    BY <2>2, <2>4 DEF FillMask, FilledRfiMask, fileVars
  <2>5. CASE PopSteps
    BY <2>2, <2>5 DEF PopSteps, TakeLock, CheckMask, PopRequest, PopNull, PopWaits,
                      fileVars, maskVars
  <2>6. ASSUME NEW c \in Closers, NEW wait \in BOOLEAN, EndStream(c, wait) PROVE DiskInv'
    BY <2>2, <2>6 DEF EndStream, UnchangedByCloser, fileVars, maskVars
  <2>7. ASSUME NEW c \in Closers, CloserSteps(c) PROVE DiskInv'
    BY <2>2, <2>7 DEF CloserSteps, EndStreamLoop, JoinThread, Joined, JoinLoop,
                      UnchangedByCloser, fileVars, maskVars
  <2>8. CASE UNCHANGED vars
    BY <2>2, <2>8 DEF vars, fileVars, maskVars
  <2> QED
    BY <2>1, <2>3, <2>4, <2>5, <2>6, <2>7, <2>8 DEF Next, IoSteps, Terminated
<1> QED
  BY <1>1, <1>2, TypeCorrect, PTL DEF Spec

(* A request that succeeded has its chunk under its name, whether it was     *)
(* written, linked or skipped as a duplicate, and no file is ever replaced.  *)
THEOREM FilesAreRight == Spec => []DiskCorrect
<1>1. DiskInv => DiskCorrect
  BY DEF DiskInv
<1> QED
  BY <1>1, DiskInvariant, PTL

(* What asked for the RFI mask is on disk only with it.                      *)
THEOREM MaskIsWritten == Spec => []WrittenWithMask
<1>1. DiskInv => WrittenWithMask
  BY DEF DiskInv
<1> QED
  BY <1>1, DiskInvariant, PTL

-----------------------------------------------------------------------------
(* The search moves everything that was ready when it began, and leaves out  *)
(* nothing: what it has passed over had no mask at that time.                *)
SearchInv ==
  /\ MostUrgentFirst
  /\ io = "searching" => \A r \in ready :
       \/ r \in write_reqs
       \/ r \in awaiting_rfi \ passed /\ ChunkOf[r] \in has_rfi_mask

LEMMA PopTakesTheMostUrgent ==
  ASSUME TypeOK, SearchInv, NEW taken \in Requests, PopRequest(taken)
  PROVE  SearchInv'
<1>1. /\ \A r \in ready : r \in write_reqs /\ r \in Requests
      /\ \A r \in write_reqs : ~LessThan(taken, r)
      /\ current' = taken /\ io' = "writing" /\ ready' = ready
  BY DEF PopRequest, Searched, SearchInv, TypeOK
<1>2. ASSUME NEW r \in ready
      PROVE  \/ Priority[r] < Priority[taken]
             \/ Priority[r] = Priority[taken] /\ ChunkOf[r] >= ChunkOf[taken]
  <2>1. /\ Priority[r] \in Int /\ Priority[taken] \in Int
        /\ ChunkOf[r] \in Nat /\ ChunkOf[taken] \in Nat
    BY <1>1, RequestAssumption
  <2>2. ~LessThan(taken, r)
    BY <1>1
  <2> QED
    BY <2>1, <2>2 DEF LessThan
<1> QED
  BY <1>1, <1>2 DEF SearchInv, MostUrgentFirst

LEMMA NextSearch == TypeOK /\ SearchInv /\ [Next]_vars => SearchInv'
<1> SUFFICES ASSUME TypeOK, SearchInv, [Next]_vars PROVE SearchInv'
  OBVIOUS
<1> USE DEF SearchInv, MostUrgentFirst
<1>1. ASSUME NEW r \in Requests, CheckMask(r) PROVE SearchInv'
  BY <1>1 DEF CheckMask, MustWait, SearchOn, maskVars, queueVars
<1>2. CASE TakeLock
  BY <1>2 DEF TakeLock, TypeOK, MaskReceived, queueVars, maskVars
<1>3. CASE PopNull \/ PopWaits
  BY <1>3 DEF PopNull, PopWaits
<1>4. CASE SkipDuplicate \/ WriteFile \/ LinkFile \/ WriteFails
  BY <1>4 DEF SkipDuplicate, WriteFile, LinkFile, WriteFails, Report
<1>5. ASSUME UNCHANGED ioVars,
             \/ io # "searching"
             \/ UNCHANGED queueVars /\ has_rfi_mask \subseteq has_rfi_mask'
      PROVE  SearchInv'
  BY <1>5 DEF ioVars, queueVars
<1>6. ASSUME NEW r \in Requests, Enqueue(r) PROVE SearchInv'
  BY <1>5, <1>6 DEF Enqueue, LockFree
<1>7. ASSUME NEW c \in Chunks, FillMask(c) \/ FilledRfiMask(c) PROVE SearchInv'
  BY <1>5, <1>7 DEF FillMask, FilledRfiMask
<1>8. ASSUME NEW c \in Closers, NEW wait \in BOOLEAN, EndStream(c, wait) PROVE SearchInv'
  BY <1>5, <1>8 DEF EndStream, LockFree, UnchangedByCloser
<1>9. ASSUME NEW c \in Closers, CloserSteps(c) PROVE SearchInv'
  BY <1>5, <1>9 DEF CloserSteps, EndStreamLoop, JoinThread, Joined, JoinLoop,
                    UnchangedByCloser, maskVars
<1>10. CASE UNCHANGED vars
  BY <1>5, <1>10 DEF vars, maskVars
<1> QED
  BY <1>1, <1>2, <1>3, <1>4, <1>6, <1>7, <1>8, <1>9, <1>10, PopTakesTheMostUrgent
     DEF Next, IoSteps, PopSteps, Terminated

(* MostUrgentFirst: nothing that could have been written when                *)
(* pop_write_request() took the lock precedes the request it hands out, with *)
(* any number of requests, whatever arrives while it searches.               *)
THEOREM TheMostUrgentComesFirst == Spec => []MostUrgentFirst
<1>1. Init => SearchInv
  BY DEF Init, SearchInv, MostUrgentFirst
<1>2. SearchInv => MostUrgentFirst
  BY DEF SearchInv
<1> QED
  BY <1>1, <1>2, NextSearch, TypeCorrect, PTL DEF Spec
=============================================================================
