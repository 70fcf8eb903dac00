----------------------------- MODULE MCRecording -----------------------------
(* Recording on small instances: calls that overlap, or an RTP session.    *)
EXTENDS Recording

CONSTANTS s1, s2

TwoCalls == {s1, s2}
OneCall == {s1}

(* A recording of a frame and a half: a frame is two milliseconds.         *)
LongFrame == {4}
ThreeMillis == {3}

(* 9 is negative as an int of 16 values.                                   *)
OneFrame == {2}
SomeMillis == {0, 3, 9}
=============================================================================
