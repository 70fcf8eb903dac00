-------------------------- MODULE CallControlProofs --------------------------
(***************************************************************************)
(* Safety of call control for every set of calls, every program, every     *)
(* timeout and every length of a Wait.                                     *)
(***************************************************************************)
EXTENDS CallControl, TLAPS

(* A call that is made although the phone is terminated is the last one.   *)
LateInv ==
  /\ lateDials \in {0, 1}
  /\ lateDials = 1 =>
       /\ state = "TERMINATED"
       /\ pc \in {"set_token", "call_set", "call_wait", "shutdown", "clear", "exit", "exited"}

(* While Call and Answer wait, a state other than CONNECTING is news of a  *)
(* call that no Hangup has cleared: only such a call is there to report.   *)
FreshInv ==
  /\ \A c \in Calls : Live(c) => c \in since
  /\ pc \in {"call_wait", "call_time", "ans_listen", "ans_wait", "ans_check"}
       => rtp \/ state \in {"CONNECTING", "TERMINATED"} \/ reporter \in since
  /\ pc \in {"call_time", "ans_check"}
       => got # "TERMINATED" /\ (rtp \/ got = "CONNECTING" \/ reporter \in since)

(* The call that ESTABLISHED was reported for has not been released yet.   *)
LiveInv ==
  /\ \A c \in Calls :
       call[c] \in {"none", "dialled", "incoming", "established"} => released[c] = {}
  /\ state = "ESTABLISHED" => rtp \/ \E c \in Calls : Live(c) /\ released[c] = {}

TonesInv == pc = "dtmf_send" => target \in Calls /\ call[target] # "none"

(* What Wait has slept and what it will still sleep are one constant.      *)
WaitInv ==
  /\ pc = "wait_check" => slept + (n + 1) * Accuracy = (millis \div Accuracy + 1) * Accuracy
  /\ pc = "wait_slept" =>
       n >= 0 /\ slept + n * Accuracy = (millis \div Accuracy + 1) * Accuracy

IInv == TypeOK /\ LateInv /\ FreshInv /\ LiveInv /\ TonesInv /\ WaitInv

(* Whole multiples of a number.                                            *)
LEMMA DivNat ==
  ASSUME NEW m \in Nat, NEW a \in Nat \ {0}
  PROVE  m \div a \in Nat
  BY SMT

LEMMA DivFloor ==
  ASSUME NEW m \in Nat, NEW a \in Nat \ {0}
  PROVE  (m \div a) * a \in Nat /\ (m \div a) * a <= m
  BY SMT

LEMMA DivNext ==
  ASSUME NEW m \in Nat, NEW a \in Nat \ {0}
  PROVE  (m \div a + 1) * a > m /\ (m \div a + 1) * a <= m + a
  BY SMT

(* The inductive invariant holds initially.                                *)
LEMMA InitInv == Init => IInv
<1> SUFFICES ASSUME Init PROVE IInv
  OBVIOUS
<1> USE CallsAssumption, BoundsAssumption, TimeAssumption
<1>1. TypeOK
  <2>1. 0 \in 0..(TicksPerSecond - 1) /\ 0 \in Nat
    OBVIOUS
  <2>2. released \in [Calls -> SUBSET Legs] /\ call \in [Calls -> CallStates]
    BY DEF Init, Legs, CallStates
  <2>3. listenmode \in BOOLEAN /\ listenerup \in BOOLEAN
    BY DEF Init
  <2>4. QED
    BY <2>1, <2>2, <2>3 DEF Init, TypeOK, Labels, ConnStates
<1>2. LateInv /\ FreshInv /\ LiveInv /\ TonesInv /\ WaitInv
  BY DEF Init, Live, LateInv, FreshInv, LiveInv, TonesInv, WaitInv
<1>3. QED
  BY <1>1, <1>2 DEF IInv

(* Every step preserves it: one case per action, one step per conjunct.    *)
LEMMA StepInv == IInv /\ [Next]_vars => IInv'
<1> SUFFICES ASSUME IInv, [Next]_vars PROVE IInv'
  OBVIOUS
<1> USE CallsAssumption, BoundsAssumption, TimeAssumption
     DEF IInv, TypeOK, Labels, ConnStates, CallStates, Legs, Live, Goto,
         wait, dial, manager, opal, history
<1>1. CASE ProgramDone
  <2>1. TypeOK'
    BY <1>1 DEF ProgramDone
  <2>2. LateInv' /\ FreshInv' /\ LiveInv' /\ TonesInv' /\ WaitInv'
    BY <1>1 DEF ProgramDone, LateInv, FreshInv, LiveInv, TonesInv,
       WaitInv
  <2>3. QED
    BY <2>1, <2>2
<1>2. CASE CallRun
  <2>1. TypeOK'
    BY <1>2 DEF CallRun, Command
  <2>2. LateInv' /\ FreshInv' /\ LiveInv' /\ TonesInv' /\ WaitInv'
    BY <1>2 DEF CallRun, Command, LateInv, FreshInv, LiveInv, TonesInv,
       WaitInv
  <2>3. QED
    BY <2>1, <2>2
<1>3. CASE MakeCallRtp
  <2>1. TypeOK'
    BY <1>3 DEF MakeCallRtp, SetState
  <2>2. LateInv' /\ FreshInv' /\ LiveInv' /\ TonesInv' /\ WaitInv'
    BY <1>3 DEF MakeCallRtp, SetState, LateInv, FreshInv, LiveInv, TonesInv,
       WaitInv
  <2>3. QED
    BY <2>1, <2>2
<1>4. CASE MakeCallFails
  <2>1. TypeOK'
    BY <1>4 DEF MakeCallFails
  <2>2. LateInv' /\ FreshInv' /\ LiveInv' /\ TonesInv' /\ WaitInv'
    BY <1>4 DEF MakeCallFails, LateInv, FreshInv, LiveInv, TonesInv,
       WaitInv
  <2>3. QED
    BY <2>1, <2>2
<1>5. CASE SetToken
  <2>1. TypeOK'
    BY <1>5 DEF SetToken
  <2>2. LateInv' /\ FreshInv' /\ LiveInv' /\ TonesInv' /\ WaitInv'
    BY <1>5 DEF SetToken, LateInv, FreshInv, LiveInv, TonesInv,
       WaitInv
  <2>3. QED
    BY <2>1, <2>2
<1>6. CASE CallSet
  <2>1. TypeOK'
    BY <1>6 DEF CallSet, SetState
  <2>2. LateInv' /\ FreshInv' /\ LiveInv' /\ TonesInv' /\ WaitInv'
    BY <1>6 DEF CallSet, SetState, LateInv, FreshInv, LiveInv, TonesInv,
       WaitInv
  <2>3. QED
    BY <2>1, <2>2
<1>7. CASE CallWait
  <2>1. TypeOK'
    BY <1>7 DEF CallWait
  <2>2. LateInv' /\ FreshInv' /\ LiveInv' /\ TonesInv' /\ WaitInv'
    BY <1>7 DEF CallWait, LateInv, FreshInv, LiveInv, TonesInv,
       WaitInv
  <2>3. QED
    BY <2>1, <2>2
<1>8. CASE CallTimeout
  <2>1. TypeOK'
    BY <1>8 DEF CallTimeout
  <2>2. LateInv' /\ FreshInv' /\ LiveInv' /\ TonesInv' /\ WaitInv'
    BY <1>8 DEF CallTimeout, LateInv, FreshInv, LiveInv, TonesInv,
       WaitInv
  <2>3. QED
    BY <2>1, <2>2
<1>9. CASE CallAgain
  <2>1. TypeOK'
    BY <1>9 DEF CallAgain
  <2>2. LateInv' /\ FreshInv' /\ LiveInv' /\ TonesInv' /\ WaitInv'
    BY <1>9 DEF CallAgain, LateInv, FreshInv, LiveInv, TonesInv,
       WaitInv
  <2>3. QED
    BY <2>1, <2>2
<1>10. CASE CallDone
  <2>1. TypeOK'
    BY <1>10 DEF CallDone
  <2>2. LateInv' /\ FreshInv' /\ LiveInv' /\ TonesInv' /\ WaitInv'
    BY <1>10 DEF CallDone, LateInv, FreshInv, LiveInv, TonesInv,
       WaitInv
  <2>3. QED
    BY <2>1, <2>2
<1>11. CASE Tick
  <2>1. TypeOK'
    BY <1>11 DEF Tick
  <2>2. LateInv' /\ FreshInv' /\ LiveInv' /\ TonesInv' /\ WaitInv'
    BY <1>11 DEF Tick, LateInv, FreshInv, LiveInv, TonesInv,
       WaitInv
  <2>3. QED
    BY <2>1, <2>2
<1>12. CASE AnswerRun
  <2>1. TypeOK'
    BY <1>12 DEF AnswerRun, Command
  <2>2. LateInv' /\ FreshInv' /\ LiveInv' /\ TonesInv' /\ WaitInv'
    BY <1>12 DEF AnswerRun, Command, LateInv, FreshInv, LiveInv, TonesInv,
       WaitInv
  <2>3. QED
    BY <2>1, <2>2
<1>13. CASE AnswerSet
  <2>1. TypeOK'
    BY <1>13 DEF AnswerSet, SetState
  <2>2. LateInv' /\ FreshInv' /\ LiveInv' /\ TonesInv' /\ WaitInv'
    BY <1>13 DEF AnswerSet, SetState, LateInv, FreshInv, LiveInv, TonesInv,
       WaitInv
  <2>3. QED
    BY <2>1, <2>2
<1>14. CASE AnswerListen
  <2>1. TypeOK'
    BY <1>14 DEF AnswerListen
  <2>2. LateInv' /\ FreshInv' /\ LiveInv' /\ TonesInv' /\ WaitInv'
    BY <1>14 DEF AnswerListen, LateInv, FreshInv, LiveInv, TonesInv,
       WaitInv
  <2>3. QED
    BY <2>1, <2>2
<1>15. CASE AnswerListenFails
  <2>1. TypeOK'
    BY <1>15 DEF AnswerListenFails
  <2>2. LateInv' /\ FreshInv' /\ LiveInv' /\ TonesInv' /\ WaitInv'
    BY <1>15 DEF AnswerListenFails, LateInv, FreshInv, LiveInv, TonesInv,
       WaitInv
  <2>3. QED
    BY <2>1, <2>2
<1>16. CASE AnswerWait
  <2>1. TypeOK'
    BY <1>16 DEF AnswerWait
  <2>2. LateInv' /\ FreshInv' /\ LiveInv' /\ TonesInv' /\ WaitInv'
    BY <1>16 DEF AnswerWait, LateInv, FreshInv, LiveInv, TonesInv,
       WaitInv
  <2>3. QED
    BY <2>1, <2>2
<1>17. CASE AnswerCheck
  <2>1. TypeOK'
    BY <1>17 DEF AnswerCheck
  <2>2. LateInv' /\ FreshInv' /\ LiveInv' /\ TonesInv' /\ WaitInv'
    BY <1>17 DEF AnswerCheck, LateInv, FreshInv, LiveInv, TonesInv,
       WaitInv
  <2>3. QED
    BY <2>1, <2>2
<1>18. CASE WaitRun
  <2>0. millis' \in Nat /\ n' \in Nat
    BY <1>18, DivNat DEF WaitRun
  <2>a. /\ closed' \in BOOLEAN /\ slept' \in Nat /\ commands' \in Nat /\ pc' = "wait_check"
        /\ UNCHANGED <<state, got, dial, manager, target, opal, signals, history>>
    BY <1>18 DEF WaitRun, Command
  <2>1. TypeOK'
    BY <2>0, <2>a
  <2>2. LateInv' /\ FreshInv' /\ LiveInv' /\ TonesInv' /\ WaitInv'
    BY <1>18 DEF WaitRun, Command, LateInv, FreshInv, LiveInv, TonesInv,
       WaitInv
  <2>3. QED
    BY <2>1, <2>2
<1>19. CASE WaitDetects
  <2>1. TypeOK'
    BY <1>19 DEF WaitDetects
  <2>2. LateInv' /\ FreshInv' /\ LiveInv' /\ TonesInv' /\ WaitInv'
    BY <1>19 DEF WaitDetects, LateInv, FreshInv, LiveInv, TonesInv,
       WaitInv
  <2>3. QED
    BY <2>1, <2>2
<1>20. CASE WaitClosed
  <2>1. TypeOK'
    BY <1>20 DEF WaitClosed
  <2>2. LateInv' /\ FreshInv' /\ LiveInv' /\ TonesInv' /\ WaitInv'
    BY <1>20 DEF WaitClosed, LateInv, FreshInv, LiveInv, TonesInv,
       WaitInv
  <2>3. QED
    BY <2>1, <2>2
<1>21. CASE WaitSleep
  <2>1. TypeOK'
    BY <1>21 DEF WaitSleep
  <2>2. LateInv' /\ FreshInv' /\ LiveInv' /\ TonesInv' /\ WaitInv'
    BY <1>21 DEF WaitSleep, LateInv, FreshInv, LiveInv, TonesInv,
       WaitInv
  <2>3. QED
    BY <2>1, <2>2
<1>22. CASE WaitNext
  <2>0. n \in Nat /\ n' \in Nat \cup {-1}
    BY <1>22 DEF WaitNext, WaitInv
  <2>1. TypeOK'
    BY <2>0, <1>22 DEF WaitNext
  <2>2. LateInv' /\ FreshInv' /\ LiveInv' /\ TonesInv' /\ WaitInv'
    BY <1>22 DEF WaitNext, LateInv, FreshInv, LiveInv, TonesInv,
       WaitInv
  <2>3. QED
    BY <2>1, <2>2
<1>23. CASE WaitDone
  <2>1. TypeOK'
    BY <1>23 DEF WaitDone
  <2>2. LateInv' /\ FreshInv' /\ LiveInv' /\ TonesInv' /\ WaitInv'
    BY <1>23 DEF WaitDone, LateInv, FreshInv, LiveInv, TonesInv,
       WaitInv
  <2>3. QED
    BY <2>1, <2>2
<1>24. CASE DtmfRun
  <2>1. TypeOK'
    BY <1>24 DEF DtmfRun, Command
  <2>2. LateInv' /\ FreshInv' /\ LiveInv' /\ TonesInv' /\ WaitInv'
    BY <1>24 DEF DtmfRun, Command, LateInv, FreshInv, LiveInv, TonesInv,
       WaitInv
  <2>3. QED
    BY <2>1, <2>2
<1>25. CASE DtmfFind
  <2>1. TypeOK'
    BY <1>25 DEF DtmfFind
  <2>2. LateInv' /\ FreshInv' /\ LiveInv' /\ TonesInv' /\ WaitInv'
    BY <1>25 DEF DtmfFind, LateInv, FreshInv, LiveInv, TonesInv,
       WaitInv
  <2>3. QED
    BY <2>1, <2>2
<1>26. CASE DtmfNoCall
  <2>1. TypeOK'
    BY <1>26 DEF DtmfNoCall
  <2>2. LateInv' /\ FreshInv' /\ LiveInv' /\ TonesInv' /\ WaitInv'
    BY <1>26 DEF DtmfNoCall, LateInv, FreshInv, LiveInv, TonesInv,
       WaitInv
  <2>3. QED
    BY <2>1, <2>2
<1>27. CASE DtmfDone
  <2>1. TypeOK'
    BY <1>27 DEF DtmfDone
  <2>2. LateInv' /\ FreshInv' /\ LiveInv' /\ TonesInv' /\ WaitInv'
    BY <1>27 DEF DtmfDone, LateInv, FreshInv, LiveInv, TonesInv,
       WaitInv
  <2>3. QED
    BY <2>1, <2>2
<1>28. CASE HangupRun
  <2>1. TypeOK'
    BY <1>28 DEF HangupRun, Command, ClearAllCalls
  <2>2. LateInv' /\ FreshInv' /\ LiveInv' /\ TonesInv' /\ WaitInv'
    BY <1>28 DEF HangupRun, Command, ClearAllCalls, LateInv, FreshInv, LiveInv, TonesInv,
       WaitInv
  <2>3. QED
    BY <2>1, <2>2
<1>29. CASE HangupDone
  <2>1. TypeOK'
    BY <1>29 DEF HangupDone
  <2>2. LateInv' /\ FreshInv' /\ LiveInv' /\ TonesInv' /\ WaitInv'
    BY <1>29 DEF HangupDone, LateInv, FreshInv, LiveInv, TonesInv,
       WaitInv
  <2>3. QED
    BY <2>1, <2>2
<1>30. CASE Shutdown
  <2>1. TypeOK'
    BY <1>30 DEF Shutdown, SetState
  <2>2. LateInv' /\ FreshInv' /\ LiveInv' /\ TonesInv' /\ WaitInv'
    BY <1>30 DEF Shutdown, SetState, LateInv, FreshInv, LiveInv, TonesInv,
       WaitInv
  <2>3. QED
    BY <2>1, <2>2
<1>31. CASE ShutdownClear
  <2>1. TypeOK'
    BY <1>31 DEF ShutdownClear, ClearAllCalls
  <2>2. LateInv' /\ FreshInv' /\ LiveInv' /\ TonesInv' /\ WaitInv'
    BY <1>31 DEF ShutdownClear, ClearAllCalls, LateInv, FreshInv, LiveInv, TonesInv,
       WaitInv
  <2>3. QED
    BY <2>1, <2>2
<1>32. CASE Exit
  <2>1. TypeOK'
    BY <1>32 DEF Exit
  <2>2. LateInv' /\ FreshInv' /\ LiveInv' /\ TonesInv' /\ WaitInv'
    BY <1>32 DEF Exit, LateInv, FreshInv, LiveInv, TonesInv,
       WaitInv
  <2>3. QED
    BY <2>1, <2>2
<1>33. CASE SignalHandler
  <2>1. TypeOK'
    BY <1>33 DEF SignalHandler, SetState, mainVars
  <2>2. LateInv' /\ FreshInv' /\ LiveInv' /\ TonesInv' /\ WaitInv'
    BY <1>33 DEF SignalHandler, SetState, mainVars, LateInv, FreshInv, LiveInv, TonesInv,
       WaitInv
  <2>3. QED
    BY <2>1, <2>2
<1>34. ASSUME NEW c \in Calls, MakeCall(c) PROVE IInv'
  <2>1. TypeOK'
    BY <1>34 DEF MakeCall
  <2>2. LateInv' /\ FreshInv' /\ LiveInv' /\ TonesInv' /\ WaitInv'
    BY <1>34 DEF MakeCall, LateInv, FreshInv, LiveInv, TonesInv,
       WaitInv
  <2>3. QED
    BY <2>1, <2>2
<1>35. ASSUME NEW c \in Calls, OnIncomingConnection(c) PROVE IInv'
  <2>1. TypeOK'
    BY <1>35 DEF OnIncomingConnection, SetState, mainVars
  <2>2. LateInv' /\ FreshInv' /\ LiveInv' /\ TonesInv' /\ WaitInv'
    BY <1>35 DEF OnIncomingConnection, SetState, mainVars, LateInv, FreshInv, LiveInv, TonesInv,
       WaitInv
  <2>3. QED
    BY <2>1, <2>2
<1>36. ASSUME NEW c \in Calls, OnAnswerCall(c) PROVE IInv'
  <2>1. TypeOK'
    BY <1>36 DEF OnAnswerCall, mainVars
  <2>2. LateInv' /\ FreshInv' /\ LiveInv' /\ TonesInv' /\ WaitInv'
    BY <1>36 DEF OnAnswerCall, mainVars, LateInv, FreshInv, LiveInv, TonesInv,
       WaitInv
  <2>3. QED
    BY <2>1, <2>2
<1>37. ASSUME NEW c \in Calls, OnEstablished(c) PROVE IInv'
  <2>1. TypeOK'
    BY <1>37 DEF OnEstablished, SetState, mainVars
  <2>2. LateInv' /\ FreshInv' /\ LiveInv' /\ TonesInv' /\ WaitInv'
    BY <1>37 DEF OnEstablished, SetState, mainVars, LateInv, FreshInv, LiveInv, TonesInv,
       WaitInv
  <2>3. QED
    BY <2>1, <2>2
<1>38. ASSUME NEW c \in Calls, OnEstablishedCall(c) PROVE IInv'
  <2>1. TypeOK'
    BY <1>38 DEF OnEstablishedCall, SetState, mainVars
  <2>2. LateInv' /\ FreshInv' /\ LiveInv' /\ TonesInv' /\ WaitInv'
    BY <1>38 DEF OnEstablishedCall, SetState, mainVars, LateInv, FreshInv, LiveInv, TonesInv,
       WaitInv
  <2>3. QED
    BY <2>1, <2>2
<1>39. ASSUME NEW c \in Calls, Release(c) PROVE IInv'
  <2>1. TypeOK'
    BY <1>39 DEF Release, mainVars
  <2>2. LateInv' /\ FreshInv' /\ LiveInv' /\ TonesInv' /\ WaitInv'
    BY <1>39 DEF Release, mainVars, LateInv, FreshInv, LiveInv, TonesInv,
       WaitInv
  <2>3. QED
    BY <2>1, <2>2
<1>40. ASSUME NEW c \in Calls, NEW leg \in Legs, OnReleased(c, leg) PROVE IInv'
  <2>1. TypeOK'
    BY <1>40 DEF OnReleased, SetState, mainVars
  <2>2. LateInv' /\ FreshInv' /\ LiveInv' /\ TonesInv' /\ WaitInv'
    BY <1>40 DEF OnReleased, SetState, mainVars, LateInv, FreshInv, LiveInv, TonesInv,
       WaitInv
  <2>3. QED
    BY <2>1, <2>2
<1>41. ASSUME NEW c \in Calls, OnClearedCall(c) PROVE IInv'
  <2>1. TypeOK'
    BY <1>41 DEF OnClearedCall, mainVars
  <2>2. LateInv' /\ FreshInv' /\ LiveInv' /\ TonesInv' /\ WaitInv'
    BY <1>41 DEF OnClearedCall, mainVars, LateInv, FreshInv, LiveInv, TonesInv,
       WaitInv
  <2>3. QED
    BY <2>1, <2>2
<1>42. CASE UNCHANGED vars
  BY <1>42 DEF vars, LateInv, FreshInv, LiveInv, TonesInv, WaitInv
<1>43. QED
  BY <1>1, <1>2, <1>3, <1>4, <1>5, <1>6, <1>7, <1>8, <1>9, <1>10, <1>11, <1>12, <1>13, <1>14, <1>15, <1>16, <1>17, <1>18, <1>19, <1>20, <1>21, <1>22, <1>23, <1>24, <1>25, <1>26, <1>27, <1>28, <1>29, <1>30, <1>31, <1>32, <1>33, <1>34, <1>35, <1>36, <1>37, <1>38, <1>39, <1>40, <1>41, <1>42
     DEF Next, CommandRun, MainStep, CallStep, AnswerStep, WaitStep, DtmfStep, EndStep,
         OpalStep, ReleaseStep

-----------------------------------------------------------------------------
(* Theorems *)

(* The inductive invariant holds in every reachable state.                 *)
THEOREM Invariance == Spec => []IInv
  BY InitInv, StepInv, PTL DEF Spec

(* Every variable keeps its type.                                          *)
THEOREM TypeCorrect == Spec => []TypeOK
<1>1. IInv => TypeOK
  BY DEF IInv
<1>2. QED
  BY <1>1, Invariance, PTL

(* However long the program is, at most one call is made after the phone   *)
(* has been terminated (commands.cpp:196-198, 493-498).                    *)
THEOREM LateDialSafe == Spec => []OneLateDial
<1>1. IInv => OneLateDial
  BY DEF IInv, LateInv, OneLateDial
<1>2. QED
  BY <1>1, Invariance, PTL

(* However many calls overlap, Call and Answer end neither for a state     *)
(* that was set before they set CONNECTING nor for the late end of a call  *)
(* that was hung up (commands.cpp:189-203, 247-261, 291).                  *)
THEOREM FreshSafe == Spec => []NoStaleSuccess
<1>1. IInv => NoStaleSuccess
  BY DEF IInv, FreshInv, NoStaleSuccess
<1>2. QED
  BY <1>1, Invariance, PTL

(* For any number of overlapping calls the state does not stay ESTABLISHED *)
(* when they are all gone (main.cpp:715-755).                              *)
THEOREM LiveSafe == Spec => []EstablishedIsLive
<1>1. IInv => EstablishedIsLive
  BY DEF IInv, LiveInv, EstablishedIsLive
<1>2. QED
  BY <1>1, Invariance, PTL

(* In a program of one direction the tones go to the network's connection  *)
(* (main.cpp:451-452).                                                     *)
THEOREM TonesSafe == Spec => []TonesReachParty
<1>1. IInv => TonesReachParty
  BY DEF IInv, TonesInv, TonesReachParty, OneDirection, Network, Leg
<1>2. QED
  BY <1>1, Invariance, PTL

(* No timeout is reported a whole second early, for every timeout and      *)
(* wherever in a second the Call began (commands.cpp:161, 199).            *)
THEOREM TimeoutSafe == Spec => TimeoutNotEarly
<1>1. IInv /\ [Next]_vars => [CallTimeout => elapsed + TicksPerSecond - 1 > timeout]_vars
  <2> SUFFICES ASSUME IInv, CallTimeout PROVE elapsed + TicksPerSecond - 1 > timeout
    OBVIOUS
  <2>1. /\ subsecond \in Nat /\ subsecond <= TicksPerSecond - 1 /\ elapsed \in Nat
        /\ timeout \in Nat
    BY TimeAssumption DEF IInv, TypeOK
  <2>2. Difftime <= subsecond + elapsed /\ Difftime \in Nat
    BY <2>1, TimeAssumption, DivFloor DEF Difftime
  <2>3. Difftime > timeout
    BY DEF CallTimeout, TimedOut
  <2>4. QED
    BY <2>1, <2>2, <2>3, TimeAssumption
<1>2. QED
  BY <1>1, Invariance, PTL DEF Spec, TimeoutNotEarly

(* A Wait of any length sleeps longer than asked for, by no more than      *)
(* WAIT_SLEEP_ACCURACY (commands.cpp:477, 500).                            *)
THEOREM WaitSafe == Spec => WaitAccurate
<1>1. IInv /\ [Next]_vars => [WaitDone => slept > millis /\ slept <= millis + Accuracy]_vars
  <2> SUFFICES ASSUME IInv, WaitDone PROVE slept > millis /\ slept <= millis + Accuracy
    OBVIOUS
  <2>1. millis \in Nat /\ slept \in Nat /\ n = -1
    BY DEF IInv, TypeOK, WaitDone
  <2>2. slept = (millis \div Accuracy + 1) * Accuracy
    BY <2>1, TimeAssumption DEF IInv, WaitInv, WaitDone, Goto
  <2>3. QED
    BY <2>1, <2>2, TimeAssumption, DivNext
<1>2. QED
  BY <1>1, Invariance, PTL DEF Spec, WaitAccurate
=============================================================================
