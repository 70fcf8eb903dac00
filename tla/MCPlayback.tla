----------------------------- MODULE MCPlayback -----------------------------
(* Playback on a small instance: two calls that may overlap.               *)
EXTENDS Playback

CONSTANTS s1, s2

TwoCalls == {s1, s2}
=============================================================================
