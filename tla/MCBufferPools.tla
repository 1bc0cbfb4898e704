---------------------------- MODULE MCBufferPools ----------------------------
(* The two components that lend buffers to the threads of a stream.  They  *)
(* share no state: either is explored while the other is at its start.     *)
EXTENDS UdpPacketRingbuf, MemorySlabPool

RingAtStart == producer = "filling" /\ batch = 0 /\ consumer = "working" /\ ~stream_ended
PoolAtStart == curr_size = NSlabs /\ low_water_mark = NSlabs

(* Threads that hold every slab and wait for one more do stop for ever.    *)
AllAsleep == Waiters = Threads /\ UNCHANGED poolVars

Ring(A) == PoolAtStart /\ A /\ UNCHANGED poolVars

BuffersInit == Init /\ PoolInit
BuffersNext ==
  \/ Ring(Next)
  \/ RingAtStart /\ (PoolNext \/ AllAsleep) /\ UNCHANGED vars

BuffersSpec ==
  /\ BuffersInit /\ [][BuffersNext]_<<vars, poolVars>>
  /\ WF_<<vars, poolVars>>(Ring(ProducerSteps))
  /\ WF_<<vars, poolVars>>(Ring(ConsumerSteps))
=============================================================================
