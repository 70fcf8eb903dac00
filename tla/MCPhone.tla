------------------------------ MODULE MCPhone ------------------------------
(* The phone under every set of options, with two calls.                   *)
EXTENDS Phone, TLC

CONSTANTS c1, c2

TwoCalls == {c1, c2}

(* Addresses with and without a port, one too long, and one with an '@'.   *)
SomeParties ==
  [at : {FALSE}, tokens : {1, 2, 3}] \cup {[at |-> TRUE, tokens |-> 2]}

Alike == Permutations(TwoCalls)      \* no call is special
=============================================================================
