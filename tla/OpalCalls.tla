----------------------------- MODULE OpalCalls -----------------------------
(***************************************************************************)
(* The calls OPAL sets up, as far as the audio objects of sipcmd see them: *)
(* the life of the media stream each call opens on an object, and what the *)
(* callbacks of Manager (src/main.cpp) do to the connection state.  The    *)
(* state is the atomic register that TPStateProofs shows TPState to be.    *)
(* The modules that EXTEND this one add the audio object.                  *)
(***************************************************************************)
EXTENDS Naturals

CONSTANTS
  Calls,       \* the calls; they may overlap
  Signals      \* bound: the number of SIGINTs

ASSUME SignalsAssumption == Signals \in Nat

ConnStates == {"CONNECTING", "ESTABLISHED", "CLOSED", "TERMINATED"}
StreamStates == {"absent", "incoming", "open", "closing", "closed", "released"}

VARIABLES
  call,       \* how far each call's stream has got
  state,      \* TPState::state
  rawRtp,     \* is the protocol RTP?  Then no call is set up through OPAL
  signals     \* signals that may still arrive

callVars == <<call, state, rawRtp, signals>>

CallsTypeOK ==
  /\ call \in [Calls -> StreamStates] /\ state \in ConnStates
  /\ rawRtp \in BOOLEAN /\ signals \in Nat

(* In RTP mode MakeCall has opened one session, if any, and sets           *)
(* ESTABLISHED itself.                                                     *)
CallsInit ==
  /\ rawRtp \in BOOLEAN
  /\ call \in [Calls -> {"absent", "open"}]
  /\ \A s \in Calls :
       call[s] = "open" => rawRtp /\ \A r \in Calls \ {s} : call[r] = "absent"
  /\ state = IF \E s \in Calls : call[s] = "open" THEN "ESTABLISHED" ELSE "CONNECTING"
  /\ signals = Signals

SetState(new) == state' = IF state = "TERMINATED" THEN state ELSE new

Becomes(s, from, to) == call[s] \in from /\ call' = [call EXCEPT ![s] = to]

(* An incoming call is reported before it is answered, without any stream. *)
OnIncomingConnection(s) ==
  /\ ~ rawRtp /\ Becomes(s, {"absent"}, "incoming") /\ SetState("ESTABLISHED")
  /\ UNCHANGED <<rawRtp, signals>>

OpenStream(s) ==
  ~ rawRtp /\ Becomes(s, {"absent", "incoming"}, "open") /\ UNCHANGED <<state, rawRtp, signals>>

OnEstablished(s) ==
  ~ rawRtp /\ call[s] = "open" /\ SetState("ESTABLISHED") /\ UNCHANGED <<call, rawRtp, signals>>

(* OPAL closes the streams of the local connection, then reports it.       *)
CloseStream(s) ==
  ~ rawRtp /\ Becomes(s, {"open"}, "closing") /\ UNCHANGED <<state, rawRtp, signals>>

StreamClosed(s) == Becomes(s, {"closing"}, "closed") /\ UNCHANGED <<state, rawRtp, signals>>

OnReleased(s) ==
  /\ Becomes(s, {"incoming", "closed"}, "released") /\ SetState("CLOSED")
  /\ UNCHANGED <<rawRtp, signals>>

(* The network connection of the same call is reported whenever it is      *)
(* released, before or after the local one.                                *)
OnReleasedNetwork(s) ==
  /\ call[s] \in {"incoming", "open", "closing", "closed"} /\ ~ rawRtp
  /\ SetState("CLOSED") /\ UNCHANGED <<call, rawRtp, signals>>

SignalHandler ==
  /\ signals > 0 /\ signals' = signals - 1
  /\ SetState("TERMINATED") /\ UNCHANGED <<call, rawRtp>>

(* What happens to a call without the audio object being used.             *)
CallStep(s) ==
  \/ OnIncomingConnection(s) \/ OpenStream(s) \/ OnEstablished(s)
  \/ OnReleased(s) \/ OnReleasedNetwork(s)

(* The media threads of a call work on the object while its stream is open.*)
Pumped(s) == call[s] \in {"open", "closing"}
=============================================================================
