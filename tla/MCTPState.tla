------------------------------ MODULE MCTPState ------------------------------
(* TPState on a small instance.                                            *)
EXTENDS TPState

CONSTANTS o1, o2

MCCallbacks == {o1, o2}

(* Two OPAL threads set states while Main makes two calls.                 *)
TwoCalls == [t \in Threads |-> IF t = o2 THEN 1 ELSE 2]

(* o2 makes no call.                                                       *)
OneCallback == [t \in Threads |-> IF t = o2 THEN 0 ELSE 2]

AllThreads == Threads
MainThread == {Main}
=============================================================================
