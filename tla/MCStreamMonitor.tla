-------------------------- MODULE MCStreamMonitor --------------------------
(* Three devices, two of which differ only in their last character, and    *)
(* captures to one of them and to none.                                    *)
EXTENDS StreamMonitor

MCBeams       == <<1, 2>>
MCDeviceNames == << <<"n", "a">>, <<"n", "b">>, <<"s">> >>
MCPatterns    == {<<"n", "b", "x">>, <<"t">>}
MCStaleTimes  == {0, 99}

(* The packet history and the captures share no variable: either is        *)
(* explored while the other is at its start.                               *)
CapturesAtStart ==
  <<NoCapture, [c \in Callers |-> [of |-> NoCapture, left |-> <<>>]],
    [b \in BeamSet |-> Told(NoCapture, b)], [b \in BeamSet |-> 0], [b \in BeamSet |-> 0], {}, FALSE>>

OnePart == now = StartTime \/ captureVars = CapturesAtStart
=============================================================================
