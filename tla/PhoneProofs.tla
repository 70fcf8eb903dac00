----------------------------- MODULE PhoneProofs -----------------------------
(***************************************************************************)
(* What outlives what, for every number of calls, commands and signals and *)
(* under every set of options: which pointers are set when they are used,  *)
(* which sessions are written to, and which calls are left at the end.     *)
(***************************************************************************)
EXTENDS Phone, TLAPS

Early == {"init", "reg_listen", "register", "init_end", "main", "parse"}

Program ==
  {"run", "make_call", "call_set", "ans_listen", "ans_wait", "hangup", "write"}

(* What Init has set up by the time it is used.                            *)
OptionsInv ==
  /\ sipep => args.P = "sip"
  /\ pc \in (Early \cup Program) \ {"init"} =>
       args.P \in Protocols /\ (args.P = "sip" => sipep)
  /\ pc \in {"reg_listen", "register"} => args.P = "sip" /\ args.c
  /\ pc \in {"main", "parse"} \cup Program => manager
  /\ pc \in {"ans_listen", "ans_wait"} => listenmode
  /\ listenerup => sipep

(* The session that the last Call command asked for.                       *)
SessionOfLastCall == m_rtpsession.party = remoteparty /\ m_rtpsession.rtp = Prefixed

(* In RTP mode the state is ESTABLISHED for an open session only, until    *)
(* the program is over, and it is the last Call's unless another begins.   *)
RtpInv ==
  /\ m_rtpsession \notin Sessions => sessions = 0
  /\ args.P = "rtp" => live = {}
  /\ args.P = "rtp" /\ state = "ESTABLISHED" /\ pc \in Early \cup Program =>
       m_rtpsession \in opened /\ (pc # "make_call" => SessionOfLastCall)
  /\ pc = "write" => args.P = "rtp" /\ m_rtpsession \in opened /\ SessionOfLastCall

CallsInv ==
  /\ outgoing \cup unfiltered \subseteq live \cup past
  /\ pc \in Early => outgoing = {}
  /\ live \subseteq outgoing \/ listenerup
  /\ pc \in {"delete", "destroy", "exited"} => live \cap outgoing = {}

(* While -m has not been read no call is dialled, and none comes in unless *)
(* Init has registered.                                                    *)
FilterInv ==
  /\ FilterOfOwnCalls
  /\ args.m /\ mediaFilter = "*" =>
       outgoing = {} /\ (listenerup => args.c) /\ pc \notin Program \cup {"parse", "shutdown", "clear"}

IInv ==
  /\ TypeOK /\ OptionsInv /\ RtpInv /\ CallsInv /\ FilterInv /\ OnlyKnownCrashes

-----------------------------------------------------------------------------
(* The inductive invariant holds initially.                                *)
LEMMA InitInv == Init => IInv
<1> SUFFICES ASSUME Init PROVE IInv
  OBVIOUS
<1> USE BoundsAssumption, PointersAssumption, PartiesAssumption DEF Init
<1>1. TypeOK
  BY DEF TypeOK, Labels, States
<1>2. OptionsInv /\ RtpInv /\ CallsInv /\ FilterInv /\ OnlyKnownCrashes
  BY DEF OptionsInv, RtpInv, CallsInv, FilterInv, FilterOfOwnCalls, OnlyKnownCrashes, Early,
     Program
<1>3. QED
  BY <1>1, <1>2 DEF IInv

(* An open session is one that was made.                                   *)
LEMMA OpenSession ==
  TypeOK /\ m_rtpsession \in opened => m_rtpsession \in Sessions /\ sessions # 0
<1> SUFFICES ASSUME TypeOK, m_rtpsession \in opened
             PROVE  m_rtpsession \in Sessions /\ sessions # 0
  OBVIOUS
<1>1. m_rtpsession \in Sessions /\ m_rtpsession.n <= sessions /\ sessions \in Nat
  BY DEF TypeOK
<1>2. m_rtpsession.n \in Nat \ {0}
  BY <1>1 DEF Sessions
<1>3. QED
  BY <1>1, <1>2

(* What MakeCall makes is a session, the next one.                         *)
LEMMA NextSession ==
  TypeOK => Session \in Sessions /\ Session.n = sessions + 1 /\ Session.party = remoteparty
              /\ Session.rtp = Prefixed
<1> SUFFICES ASSUME TypeOK
             PROVE  Session \in Sessions /\ Session.n = sessions + 1
                      /\ Session.party = remoteparty /\ Session.rtp = Prefixed
  OBVIOUS
<1>1. sessions + 1 \in Nat \ {0} /\ remoteparty \in Parties
  BY DEF TypeOK
<1>2. Prefixed \in BOOLEAN
  BY DEF Prefixed
<1>3. QED
  BY <1>1, <1>2 DEF Session, Sessions

(* Every step preserves it: one case per action.                           *)
LEMMA StepInv == IInv /\ [Next]_vars => IInv'
<1> SUFFICES ASSUME IInv, [Next]_vars PROVE IInv'
  OBVIOUS
<1> USE BoundsAssumption, PointersAssumption, PartiesAssumption
     DEF IInv, TypeOK, OptionsInv, RtpInv, CallsInv, FilterInv, FilterOfOwnCalls,
         OnlyKnownCrashes, Early, Program, Labels, States, Protocols, Args, Goto,
         SessionOfLastCall, Prefixed, config, listener, rtp, opal
<1>1. CASE InitRefused
  BY <1>1 DEF InitRefused
<1>2. CASE InitSip
  BY <1>2 DEF InitSip
<1>3. CASE InitOther
  BY <1>3 DEF InitOther
<1>4. CASE InitListen
  BY <1>4 DEF InitListen, StartListener, Uses
<1>5. CASE Register
  BY <1>5 DEF Register
<1>6. CASE InitEnd
  BY <1>6 DEF InitEnd
<1>7. CASE MainOptions
  BY <1>7 DEF MainOptions
<1>8. CASE ParseAnswer
  BY <1>8 DEF ParseAnswer, Uses
<1>9. CASE ParseFails
  BY <1>9 DEF ParseFails
<1>10. CASE ParseDone
  BY <1>10 DEF ParseDone
<1>11. CASE CallRun
  BY <1>11 DEF CallRun, Command, Uses
<1>12. CASE MakeCallFails
  BY <1>12 DEF MakeCallFails
<1>13. CASE CallSet
  BY <1>13 DEF CallSet, SetState
<1>14. ASSUME NEW c \in Calls, MakeCall(c) PROVE IInv'
  BY <1>14 DEF MakeCall
<1>15. CASE MakeCallInvalid
  BY <1>15 DEF MakeCallInvalid
<1>16. CASE MakeCallRtp
  <2>0. /\ pc = "make_call" /\ args.P = "rtp" /\ TypeOK
        /\ sessions' = sessions + 1 /\ m_rtpsession' = Session
        /\ UNCHANGED <<config, listener, remoteparty, opal, commands, signals>>
    BY <1>16 DEF MakeCallRtp, NewSession
  <2>a. \/ /\ pc' = "run" \/ pc' = "shutdown"
           /\ opened' = opened \cup {Session}
           /\ SetState("ESTABLISHED")
        \/ pc' = "shutdown" /\ opened' = opened /\ state' = state
    BY <1>16 DEF MakeCallRtp
  <2>1. TypeOK'
    <3>1. /\ sessions \in Nat /\ opened \subseteq {s \in Sessions : s.n <= sessions}
          /\ Session \in Sessions /\ Session.n = sessions + 1
      BY <2>0, NextSession
    <3>2. \A s \in Sessions : s.n \in Nat
      BY DEF Sessions
    <3>3. opened' \subseteq {s \in Sessions : s.n <= sessions'}
      BY <3>1, <3>2, <2>0, <2>a
    <3>4. m_rtpsession' \in {s \in Sessions : s.n <= sessions'} /\ sessions' \in Nat
      BY <3>1, <2>0
    <3>5. state' \in States /\ pc' \in Labels
      BY <2>a DEF SetState
    <3>6. QED
      BY <3>3, <3>4, <3>5, <2>0
  <2>2. OptionsInv'
    BY <2>0, <2>a
  <2>3. RtpInv'
    <3>1. m_rtpsession' \in Sessions
      BY <2>0, NextSession
    <3>2. SessionOfLastCall'
      BY <2>0, NextSession
    <3>3. pc' = "run" => m_rtpsession' \in opened'
      BY <2>0, <2>a
    <3>4. QED
      BY <3>1, <3>2, <3>3, <2>0, <2>a
  <2>4. CallsInv'
    BY <2>0, <2>a
  <2>5. FilterInv'
    BY <2>0, <2>a
  <2>6. OnlyKnownCrashes'
    BY <2>0, <2>a
  <2>7. QED
    BY <2>1, <2>2, <2>3, <2>4, <2>5, <2>6
<1>17. CASE AnswerRun
  BY <1>17 DEF AnswerRun, Command, Uses, SetState
<1>18. CASE AnswerListen
  BY <1>18 DEF AnswerListen, StartListener, Uses
<1>19. CASE AnswerWait
  BY <1>19 DEF AnswerWait
<1>20. CASE HangupRun
  BY <1>20 DEF HangupRun, Command, Uses
<1>21. CASE HangupDone
  BY <1>21 DEF HangupDone
<1>22. CASE VoiceRtp
  BY <1>22 DEF VoiceRtp, Command, Uses
<1>23. CASE WriteFrame
  <2>1. TypeOK'
    BY OpenSession, <1>23 DEF WriteFrame, Uses
  <2>2. OptionsInv'
    BY OpenSession, <1>23 DEF WriteFrame, Uses
  <2>3. RtpInv'
    BY OpenSession, <1>23 DEF WriteFrame, Uses
  <2>4. CallsInv'
    BY OpenSession, <1>23 DEF WriteFrame, Uses
  <2>5. FilterInv'
    BY OpenSession, <1>23 DEF WriteFrame, Uses
  <2>6. OnlyKnownCrashes'
    BY OpenSession, <1>23 DEF WriteFrame, Uses
  <2>7. QED
    BY <2>1, <2>2, <2>3, <2>4, <2>5, <2>6
<1>24. CASE RunEnds
  BY <1>24 DEF RunEnds
<1>25. CASE Shutdown
  BY <1>25 DEF Shutdown, SetState
<1>26. CASE ShutdownClear
  BY <1>26 DEF ShutdownClear
<1>27. CASE Delete
  <2>1. TypeOK'
    <3>1. opened' \subseteq {s \in Sessions : s.n <= sessions}
      BY <1>27 DEF Delete
    <3>2. pc' \in Labels
      BY <1>27 DEF Delete
    <3>3. UNCHANGED <<config, listener, m_rtpsession, sessions, remoteparty, state, opal,
                      commands, signals>>
      BY <1>27 DEF Delete
    <3>4. QED
      BY <3>1, <3>2, <3>3
  <2>2. OptionsInv'
    BY OpenSession, <1>27 DEF Delete
  <2>3. RtpInv'
    BY OpenSession, <1>27 DEF Delete
  <2>4. CallsInv'
    BY OpenSession, <1>27 DEF Delete
  <2>5. FilterInv'
    BY OpenSession, <1>27 DEF Delete
  <2>6. OnlyKnownCrashes'
    BY OpenSession, <1>27 DEF Delete
  <2>7. QED
    BY <2>1, <2>2, <2>3, <2>4, <2>5, <2>6
<1>28. CASE Destroy
  <2>1. TypeOK'
    <3>1. live' \subseteq Calls /\ past' \subseteq Calls
      BY <1>28 DEF Destroy
    <3>2. pc' \in Labels /\ listenerup' \in BOOLEAN
      BY <1>28 DEF Destroy
    <3>3. UNCHANGED <<config, listenmode, rtp, state, outgoing, mediaFilter, unfiltered,
                      commands, signals>>
      BY <1>28 DEF Destroy
    <3>4. QED
      BY <3>1, <3>2, <3>3
  <2>2. OptionsInv'
    BY <1>28 DEF Destroy
  <2>3. RtpInv'
    BY <1>28 DEF Destroy
  <2>4. CallsInv'
    BY <1>28 DEF Destroy
  <2>5. FilterInv'
    BY <1>28 DEF Destroy
  <2>6. OnlyKnownCrashes'
    BY <1>28 DEF Destroy
  <2>7. QED
    BY <2>1, <2>2, <2>3, <2>4, <2>5, <2>6
<1>29. CASE Gone
  BY <1>29 DEF Gone, vars
<1>30. ASSUME NEW c \in Calls, OnIncomingConnection(c) PROVE IInv'
  BY <1>30 DEF OnIncomingConnection, Running, SetState
<1>31. ASSUME NEW c \in Calls, AdjustMediaFormats(c) PROVE IInv'
  BY <1>31 DEF AdjustMediaFormats, Running
<1>32. ASSUME NEW c \in Calls, OnEstablished(c) PROVE IInv'
  BY <1>32 DEF OnEstablished, Running, SetState
<1>33. ASSUME NEW c \in Calls, OnReleased(c) PROVE IInv'
  BY <1>33 DEF OnReleased, Running, SetState
<1>34. CASE SignalHandler
  BY <1>34 DEF SignalHandler, Running, SetState
<1>35. CASE UNCHANGED vars
  BY <1>35 DEF vars
<1>36. QED
  BY <1>1, <1>2, <1>3, <1>4, <1>5, <1>6, <1>7, <1>8, <1>9, <1>10, <1>11, <1>12, <1>13, <1>14,
     <1>15, <1>16, <1>17, <1>18, <1>19, <1>20, <1>21, <1>22, <1>23, <1>24, <1>25, <1>26, <1>27,
     <1>28, <1>29, <1>30, <1>31, <1>32, <1>33, <1>34, <1>35
     DEF Next

(* The inductive invariant holds in every reachable state.                 *)
THEOREM Invariance == Spec => []IInv
  BY InitInv, StepInv, PTL DEF Spec

-----------------------------------------------------------------------------
(* Theorems *)

(* Every variable keeps its type.                                          *)
THEOREM TypeCorrect == Spec => []TypeOK
<1>1. IInv => TypeOK
  BY DEF IInv
<1>2. QED
  BY <1>1, Invariance, PTL

(* The only pointers ever used without being set are m_rtpsession in       *)
(* ~Manager and sipep in StartListener (main.cpp:254, 631).                *)
THEOREM CrashesKnown == Spec => []OnlyKnownCrashes
<1>1. IInv => OnlyKnownCrashes
  BY DEF IInv
<1>2. QED
  BY <1>1, Invariance, PTL

(* A dialled call never outlives the Manager, and no call does if nothing  *)
(* listens (main.cpp:309-311).                                             *)
THEOREM QuietAtTheEnd == Spec => []QuietWhenDestroyed
<1>1. IInv => QuietWhenDestroyed
  BY DEF IInv, CallsInv, QuietWhenDestroyed
<1>2. QED
  BY <1>1, Invariance, PTL

(* Frames are written to the session of the last Call, which is open, and  *)
(* leads to the party of that Call unless a -w is put in the place of the  *)
(* address, which needs a party without an '@' (commands.cpp:162-168,      *)
(* main.cpp:550-594).                                                      *)
THEOREM SessionIsOpen == Spec => []WritesToOpenSession
<1>1. IInv => WritesToOpenSession
  BY DEF IInv, RtpInv, WritesToOpenSession, SessionOfLastCall, Prefixed
<1>2. QED
  BY <1>1, Invariance, PTL

(* -m binds every call that is dialled (main.cpp:281-284, 388-396).        *)
THEOREM FilterHolds == Spec => []FilterOfOwnCalls
<1>1. IInv => FilterOfOwnCalls
  BY DEF IInv, FilterInv
<1>2. QED
  BY <1>1, Invariance, PTL
=============================================================================
