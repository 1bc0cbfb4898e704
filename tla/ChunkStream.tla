----------------------------- MODULE ChunkStream -----------------------------
(***************************************************************************)
(* What assembled_chunk_ringbuf promises to the processing thread of a     *)
(* beam: the chunks of the beam in order, one after the other on the time  *)
(* axis, each at most once; a reader that falls more than Bufsize chunks   *)
(* behind loses the oldest ones, and only those; the end of the stream is  *)
(* announced after the last chunk and never before.                        *)
(***************************************************************************)
EXTENDS Integers, Sequences

CONSTANTS
  First,      \* ichunks the stream may begin with
  Bufsize,    \* chunks kept for a reader that is behind
  None,       \* the reader has nothing in its hands
  EndOfStream

VARIABLES
  queue,    \* ichunks the reader has not been given yet
  next,     \* ichunk of the next chunk, or None before the first one
  dropped,  \* number of chunks lost
  closed,
  out       \* what the last call gave to the reader

vars == <<queue, next, dropped, closed, out>>

Init ==
  /\ queue = <<>>
  /\ next = None
  /\ dropped = 0
  /\ closed = FALSE
  /\ out = None

LastOf(s, n) == IF Len(s) <= n THEN s ELSE SubSeq(s, Len(s) - n + 1, Len(s))

Put(ichunk) ==
  /\ ~closed
  /\ next' = ichunk + 1
  /\ queue' = LastOf(Append(queue, ichunk), Bufsize)
  /\ dropped' = dropped + Len(queue) + 1 - Len(queue')
  /\ UNCHANGED <<closed, out>>

Close ==
  /\ ~closed
  /\ closed' = TRUE
  /\ UNCHANGED <<queue, next, dropped, out>>

Take ==
  /\ out = None
  /\ queue # <<>>
  /\ out' = Head(queue)
  /\ queue' = Tail(queue)
  /\ UNCHANGED <<next, dropped, closed>>

TakeEnd ==
  /\ out = None
  /\ queue = <<>>
  /\ closed
  /\ out' = EndOfStream
  /\ UNCHANGED <<queue, next, dropped, closed>>

(* The reader comes back for more. *)
Return ==
  /\ out \notin {None, EndOfStream}
  /\ out' = None
  /\ UNCHANGED <<queue, next, dropped, closed>>

Next ==
  \/ IF next = None THEN \E i \in First : Put(i) ELSE Put(next)
  \/ Close \/ Take \/ TakeEnd \/ Return

Spec == Init /\ [][Next]_vars
=============================================================================
