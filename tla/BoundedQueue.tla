---------------------------- MODULE BoundedQueue ----------------------------
(***************************************************************************)
(* What udp_packet_ringbuf promises to the thread that fills packet lists  *)
(* and to the thread that empties them: a bounded FIFO.  What was accepted *)
(* is delivered once and in order, also after the end of the stream; the   *)
(* end is announced only when nothing accepted is left.                    *)
(***************************************************************************)
EXTENDS Integers, Sequences

CONSTANTS Capacity, Batches, Nothing

VARIABLES
  queue,    \* accepted and not delivered
  closed,
  given     \* what the last get gave, until the next one

vars == <<queue, closed, given>>

Init == queue = <<>> /\ closed = FALSE /\ given = Nothing

Accept(b) ==
  /\ ~closed
  /\ Len(queue) < Capacity
  /\ queue' = Append(queue, b)
  /\ UNCHANGED <<closed, given>>

Deliver ==
  /\ queue # <<>>
  /\ given' = Head(queue)
  /\ queue' = Tail(queue)
  /\ UNCHANGED closed

Discard ==
  /\ given' = Nothing
  /\ UNCHANGED <<queue, closed>>

Close ==
  /\ closed' = TRUE
  /\ UNCHANGED <<queue, given>>

Next == (\E b \in Batches : Accept(b)) \/ Deliver \/ Discard \/ Close

Spec == Init /\ [][Next]_vars
=============================================================================
