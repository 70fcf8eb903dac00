------------------------------- MODULE Player -------------------------------
(***************************************************************************)
(* What Voice::RunCommand and Record::RunCommand rely on: the audio object *)
(* does one request at a time.  A request is refused or its file is        *)
(* opened; an open file is ended once, well or with an error; and the      *)
(* request is answered only then, with the outcome of its own file.        *)
(***************************************************************************)
VARIABLES
  phase,     \* of the request: "idle", "asked", "open" or "ended"
  outcome,   \* of the file: TRUE unless an error has ended it
  answer     \* what PlaybackAudioFile or RecordAudioFile returned last

playerVars == <<phase, outcome, answer>>

Init == phase = "idle" /\ outcome = TRUE /\ answer = TRUE

Ask == phase = "idle" /\ phase' = "asked" /\ UNCHANGED <<outcome, answer>>

Refuse == phase = "asked" /\ phase' = "idle" /\ answer' \in BOOLEAN /\ UNCHANGED outcome

Open == phase = "asked" /\ phase' = "open" /\ UNCHANGED <<outcome, answer>>

End == phase = "open" /\ phase' = "ended" /\ outcome' \in BOOLEAN /\ UNCHANGED answer

Answer == phase = "ended" /\ phase' = "idle" /\ answer' = outcome /\ outcome' = TRUE

Next == Ask \/ Refuse \/ Open \/ End \/ Answer

Spec == Init /\ [][Next]_playerVars
=============================================================================
