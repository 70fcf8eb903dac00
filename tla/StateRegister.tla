---------------------------- MODULE StateRegister ----------------------------
(***************************************************************************)
(* What TPState promises its users: the connection state is one register.  *)
(* A client calls an operation, the operation takes effect in a single     *)
(* instant between the call and the return, and no operation changes a     *)
(* register that holds Final.  A write carries the value to be written; a  *)
(* read reports, in reply, the value the register had at that instant.     *)
(***************************************************************************)
CONSTANTS
  Clients,
  Values,
  Final,      \* the value that is never overwritten
  Initial,
  Read        \* the request of a client that reads; not a value

VARIABLES
  value,    \* the register
  phase,    \* "ready", "called" (not yet in effect) or "done" (not yet returned)
  request,  \* Read, or the value the client is writing
  reply     \* the value the last read reported

registerVars == <<value, phase, request, reply>>

Init ==
  /\ value = Initial
  /\ phase = [c \in Clients |-> "ready"]
  /\ request = [c \in Clients |-> Read]
  /\ reply = Initial

Call(c, r) ==
  /\ phase[c] = "ready"
  /\ phase' = [phase EXCEPT ![c] = "called"]
  /\ request' = [request EXCEPT ![c] = r]
  /\ UNCHANGED <<value, reply>>

WriteTakesEffect(c) ==
  /\ phase[c] = "called" /\ request[c] # Read
  /\ phase' = [phase EXCEPT ![c] = "done"]
  /\ value' = IF value = Final THEN value ELSE request[c]
  /\ UNCHANGED <<request, reply>>

ReadTakesEffect(c) ==
  /\ phase[c] = "called" /\ request[c] = Read
  /\ phase' = [phase EXCEPT ![c] = "done"]
  /\ reply' = value
  /\ UNCHANGED <<value, request>>

Return(c) ==
  /\ phase[c] = "done"
  /\ phase' = [phase EXCEPT ![c] = "ready"]
  /\ UNCHANGED <<value, request, reply>>

Next ==
  \E c \in Clients :
    \/ \E r \in Values \cup {Read} : Call(c, r)
    \/ WriteTakesEffect(c) \/ ReadTakesEffect(c) \/ Return(c)

Spec == Init /\ [][Next]_registerVars
=============================================================================
