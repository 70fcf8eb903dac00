---------------------------- MODULE MCCallControl ----------------------------
(* Call control on small instances.                                        *)
EXTENDS CallControl, TLC

CONSTANTS c1, c2

TwoCalls == {c1, c2}
OneCall == {c1}
CallSymmetry == Permutations(TwoCalls)

(* Exactly and more than a second of two ticks.                            *)
SomeTimeouts == {2, 3}
(* No multiple of WAIT_SLEEP_ACCURACY, which is two, and a multiple of it. *)
SomeMillis == {1, 4}
OneTick == {1}
=============================================================================
