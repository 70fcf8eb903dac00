--------------------------- MODULE PlaybackProofs ---------------------------
(***************************************************************************)
(* Safety of the playback handshake for every set of calls, overlapping or *)
(* not, every number of Voice commands and every file.                     *)
(***************************************************************************)
EXTENDS Playback, TLAPS

(* The labels between sync.Wait() and sync.Signal().                       *)
InSync(c) ==
  pc[c] \in {"play_check", "play_leave", "play_open", "play_unlock",
             "fill_read", "stop_file", "stop_result", "stop_signal", "unlock"}

Stopping(c) == pc[c] \in {"stop_result", "stop_signal"}

(* sync is a lock, except in RTP mode: there Main alone uses the object.   *)
LockInv ==
  ~ rawRtp =>
    /\ \A c, d \in Contexts : InSync(c) /\ InSync(d) => c = d
    /\ sync = 0 <=> \E c \in Contexts : InSync(c)

(* In RTP mode nothing is handed over, and a file stays open for ever with *)
(* the semaphore taken; nothing else takes it for longer than a refusal.   *)
RtpInv ==
  /\ rawRtp =>
       /\ ~ playsync /\ \A c \in Contexts \ {Main} : pc[c] = "idle"
       /\ pc[Main] \notin {"play_unlock", "play_wait", "play_result", "play_clear"}
       /\ pc[Main] \in {"play_check", "play_leave", "play_open"} => sync = 0
       /\ playfile # NULL => sync = 0 /\ pc[Main] \notin {"play_check", "play_leave", "play_open"}
       /\ pc[Main] \in {"voice_check", "idle", "play_lock"} /\ sync = 0 => playfile # NULL
  /\ pc[Main] \in {"rtp_write", "rtp_done"} => rawRtp /\ playfile # NULL /\ ~ failed

(* A file is open from PlayOpen until the one stop that takes it away.     *)
FileInv ==
  ~ rawRtp =>
    /\ playfile # NULL =>
         /\ pc[Main] \in {"play_unlock", "play_wait"} /\ playback /\ ~ playsync
         /\ failed => \E c \in Contexts : pc[c] = "stop_file" /\ ioerror[c]
    /\ \A c \in Contexts : pc[c] = "stop_file" => playfile = NULL \/ failed = ioerror[c]

(* That stop, and no other, wakes Main, and only after it has the result.  *)
StopInv ==
  \A c \in Contexts : Stopping(c) =>
    /\ pc[Main] = "play_wait" /\ playfile = NULL /\ ~ playsync
    /\ pc[c] = "stop_result" => playback /\ failed = ioerror[c]
    /\ pc[c] = "stop_signal" => playback = ~ failed

WakeInv ==
  /\ playsync => pc[Main] = "play_wait" /\ playfile = NULL /\ playback = ~ failed
  /\ pc[Main] = "play_result" => playback = ~ failed

(* A closer never reports an error.                                        *)
CloserInv == \A s \in Calls : ioerror[<<s, "close">>] = FALSE

IInv == TypeOK /\ LockInv /\ RtpInv /\ FileInv /\ StopInv /\ WakeInv /\ CloserInv

-----------------------------------------------------------------------------
(* Main and the threads of the calls are different contexts.               *)
LEMMA ContextsFact ==
  /\ Main \in Contexts
  /\ \A s \in Calls : <<s, "pump">> \in Contexts /\ <<s, "close">> \in Contexts
  /\ \A s \in Calls : <<s, "pump">> # Main /\ <<s, "close">> # Main
  BY ContextsAssumption DEF Contexts

(* The inductive invariant holds initially.                                *)
LEMMA InitInv == Init => IInv
<1> SUFFICES ASSUME Init PROVE IInv
  OBVIOUS
<1> USE BoundsAssumption, SignalsAssumption, ContextsFact DEF Init, CallsInit
<1>1. TypeOK
  BY DEF TypeOK, CallsTypeOK, ConnStates, StreamStates, MainLabels, StreamLabels
<1>2. LockInv
  BY DEF LockInv, InSync
<1>3. RtpInv
  <2>1. sync = 1 /\ playsync = FALSE /\ playfile = NULL /\ \A c \in Contexts : pc[c] = "idle"
    OBVIOUS
  <2>2. pc[Main] = "idle"
    BY <2>1
  <2>3. QED
    BY <2>1, <2>2 DEF RtpInv
<1>4. FileInv /\ StopInv /\ WakeInv /\ CloserInv
  BY DEF FileInv, StopInv, WakeInv, CloserInv, Stopping
<1>5. QED
  BY <1>1, <1>2, <1>3, <1>4 DEF IInv

(* Every step preserves it: one case per action, one step per conjunct.    *)
LEMMA StepInv == IInv /\ [Next]_vars => IInv'
<1> SUFFICES ASSUME IInv, [Next]_vars PROVE IInv'
  OBVIOUS
<1> USE BoundsAssumption, SignalsAssumption, ContextsFact
     DEF IInv, TypeOK, LockInv, RtpInv, FileInv, StopInv, WakeInv, CloserInv,
         InSync, Stopping, Goto, audio, rest, callVars, CallsTypeOK, ConnStates, StreamStates,
         MainLabels, StreamLabels
<1>1. CASE VoiceRun
  BY <1>1 DEF VoiceRun
<1>2. CASE PlayLock
  BY <1>2 DEF PlayLock, Wait
<1>3. CASE PlayCheck
  BY <1>3 DEF PlayCheck
<1>4. CASE PlayLeave
  BY <1>4 DEF PlayLeave, Signal
<1>5. CASE PlayOpen
  <2>0. playfile' \in Nat
    BY <1>5 DEF PlayOpen
  <2>1. TypeOK'
    BY <2>0, <1>5 DEF PlayOpen
  <2>2. LockInv'
    BY <2>0, <1>5 DEF PlayOpen
  <2>3. RtpInv'
    BY <2>0, <1>5 DEF PlayOpen
  <2>4. FileInv'
    BY <2>0, <1>5 DEF PlayOpen
  <2>5. StopInv'
    BY <2>0, <1>5 DEF PlayOpen
  <2>6. WakeInv'
    BY <2>0, <1>5 DEF PlayOpen
  <2>7. CloserInv'
    BY <2>0, <1>5 DEF PlayOpen
  <2>8. QED
    BY <2>1, <2>2, <2>3, <2>4, <2>5, <2>6, <2>7
<1>6. CASE PlayUnlock
  BY <1>6 DEF PlayUnlock, Signal
<1>7. CASE PlayWait
  BY <1>7 DEF PlayWait
<1>8. CASE PlayResult
  BY <1>8 DEF PlayResult
<1>9. CASE PlayClear
  BY <1>9 DEF PlayClear
<1>10. CASE RtpWrite
  BY <1>10 DEF RtpWrite
<1>11. CASE RtpBreak
  BY <1>11 DEF RtpBreak
<1>12. CASE RtpDone
  BY <1>12 DEF RtpDone
<1>13. CASE VoiceCheck
  BY <1>13 DEF VoiceCheck
<1>14. ASSUME NEW s \in Calls, FillLock(s) PROVE IInv'
  <2> DEFINE c == <<s, "pump">>
  <2>0. c \in Contexts /\ c # Main
    OBVIOUS
  <2>1. TypeOK'
    BY <2>0, <1>14 DEF FillLock, Wait
  <2>2. LockInv'
    BY <2>0, <1>14 DEF FillLock, Wait
  <2>3. RtpInv'
    BY <2>0, <1>14 DEF FillLock, Wait
  <2>4. FileInv'
    BY <2>0, <1>14 DEF FillLock, Wait
  <2>5. StopInv'
    BY <2>0, <1>14 DEF FillLock, Wait
  <2>6. WakeInv'
    BY <2>0, <1>14 DEF FillLock, Wait
  <2>7. CloserInv'
    BY <2>0, <1>14 DEF FillLock, Wait
  <2>8. QED
    BY <2>1, <2>2, <2>3, <2>4, <2>5, <2>6, <2>7
<1>15. ASSUME NEW s \in Calls, FillSilence(s) PROVE IInv'
  BY <1>15 DEF FillSilence
<1>16. ASSUME NEW s \in Calls, FillFrame(s) PROVE IInv'
  <2> DEFINE c == <<s, "pump">>
  <2>0. c \in Contexts /\ c # Main
    OBVIOUS
  <2>1. TypeOK'
    BY <2>0, <1>16 DEF FillFrame
  <2>2. LockInv'
    BY <2>0, <1>16 DEF FillFrame
  <2>3. RtpInv'
    BY <2>0, <1>16 DEF FillFrame
  <2>4. FileInv'
    BY <2>0, <1>16 DEF FillFrame
  <2>5. StopInv'
    BY <2>0, <1>16 DEF FillFrame
  <2>6. WakeInv'
    BY <2>0, <1>16 DEF FillFrame
  <2>7. CloserInv'
    BY <2>0, <1>16 DEF FillFrame
  <2>8. QED
    BY <2>1, <2>2, <2>3, <2>4, <2>5, <2>6, <2>7
<1>17. ASSUME NEW s \in Calls, NEW err \in BOOLEAN, FillShort(s, err) PROVE IInv'
  <2> DEFINE c == <<s, "pump">>
  <2>0. c \in Contexts /\ c # Main
    OBVIOUS
  <2>1. TypeOK'
    BY <2>0, <1>17 DEF FillShort
  <2>2. LockInv'
    BY <2>0, <1>17 DEF FillShort
  <2>3. RtpInv'
    BY <2>0, <1>17 DEF FillShort
  <2>4. FileInv'
    BY <2>0, <1>17 DEF FillShort
  <2>5. StopInv'
    BY <2>0, <1>17 DEF FillShort
  <2>6. WakeInv'
    BY <2>0, <1>17 DEF FillShort
  <2>7. CloserInv'
    BY <2>0, <1>17 DEF FillShort
  <2>8. QED
    BY <2>1, <2>2, <2>3, <2>4, <2>5, <2>6, <2>7
<1>18. ASSUME NEW s \in Calls, PumpUnlock(s) PROVE IInv'
  <2> DEFINE c == <<s, "pump">>
  <2>0. c \in Contexts /\ c # Main
    OBVIOUS
  <2>1. TypeOK'
    BY <2>0, <1>18 DEF PumpUnlock, Signal
  <2>2. LockInv'
    BY <2>0, <1>18 DEF PumpUnlock, Signal
  <2>3. RtpInv'
    BY <2>0, <1>18 DEF PumpUnlock, Signal
  <2>4. FileInv'
    BY <2>0, <1>18 DEF PumpUnlock, Signal
  <2>5. StopInv'
    BY <2>0, <1>18 DEF PumpUnlock, Signal
  <2>6. WakeInv'
    BY <2>0, <1>18 DEF PumpUnlock, Signal
  <2>7. CloserInv'
    BY <2>0, <1>18 DEF PumpUnlock, Signal
  <2>8. QED
    BY <2>1, <2>2, <2>3, <2>4, <2>5, <2>6, <2>7
<1>19. ASSUME NEW s \in Calls, CloseLock(s) PROVE IInv'
  <2> DEFINE c == <<s, "close">>
  <2>0. c \in Contexts /\ c # Main
    OBVIOUS
  <2>1. TypeOK'
    BY <2>0, <1>19 DEF CloseLock, Wait
  <2>2. LockInv'
    BY <2>0, <1>19 DEF CloseLock, Wait
  <2>3. RtpInv'
    BY <2>0, <1>19 DEF CloseLock, Wait
  <2>4. FileInv'
    BY <2>0, <1>19 DEF CloseLock, Wait
  <2>5. StopInv'
    BY <2>0, <1>19 DEF CloseLock, Wait
  <2>6. WakeInv'
    BY <2>0, <1>19 DEF CloseLock, Wait
  <2>7. CloserInv'
    BY <2>0, <1>19 DEF CloseLock, Wait
  <2>8. QED
    BY <2>1, <2>2, <2>3, <2>4, <2>5, <2>6, <2>7
<1>20. ASSUME NEW s \in Calls, CloseUnlock(s) PROVE IInv'
  <2> DEFINE c == <<s, "close">>
  <2>0. c \in Contexts /\ c # Main
    OBVIOUS
  <2>1. TypeOK'
    BY <2>0, <1>20 DEF CloseUnlock, Signal, StreamClosed, Becomes
  <2>2. LockInv'
    BY <2>0, <1>20 DEF CloseUnlock, Signal, StreamClosed, Becomes
  <2>3. RtpInv'
    BY <2>0, <1>20 DEF CloseUnlock, Signal, StreamClosed, Becomes
  <2>4. FileInv'
    BY <2>0, <1>20 DEF CloseUnlock, Signal, StreamClosed, Becomes
  <2>5. StopInv'
    BY <2>0, <1>20 DEF CloseUnlock, Signal, StreamClosed, Becomes
  <2>6. WakeInv'
    BY <2>0, <1>20 DEF CloseUnlock, Signal, StreamClosed, Becomes
  <2>7. CloserInv'
    BY <2>0, <1>20 DEF CloseUnlock, Signal, StreamClosed, Becomes
  <2>8. QED
    BY <2>1, <2>2, <2>3, <2>4, <2>5, <2>6, <2>7
<1>21. ASSUME NEW s \in Calls, Close(s) PROVE IInv'
  <2> DEFINE c == <<s, "close">>
  <2>0. c \in Contexts /\ c # Main
    OBVIOUS
  <2>1. TypeOK'
    BY <2>0, <1>21 DEF Close, CloseStream, Becomes
  <2>2. LockInv'
    BY <2>0, <1>21 DEF Close, CloseStream, Becomes
  <2>3. RtpInv'
    BY <2>0, <1>21 DEF Close, CloseStream, Becomes
  <2>4. FileInv'
    BY <2>0, <1>21 DEF Close, CloseStream, Becomes
  <2>5. StopInv'
    BY <2>0, <1>21 DEF Close, CloseStream, Becomes
  <2>6. WakeInv'
    BY <2>0, <1>21 DEF Close, CloseStream, Becomes
  <2>7. CloserInv'
    BY <2>0, <1>21 DEF Close, CloseStream, Becomes
  <2>8. QED
    BY <2>1, <2>2, <2>3, <2>4, <2>5, <2>6, <2>7
<1>22. ASSUME NEW c \in Contexts, StopFile(c) PROVE IInv'
  <2>0. c # Main /\ ~ rawRtp
    BY <1>22 DEF StopFile, Contexts
  <2>1. TypeOK'
    BY <2>0, <1>22 DEF StopFile
  <2>2. LockInv'
    BY <2>0, <1>22 DEF StopFile
  <2>3. RtpInv'
    BY <2>0, <1>22 DEF StopFile
  <2>4. FileInv'
    BY <2>0, <1>22 DEF StopFile
  <2>5. StopInv'
    BY <2>0, <1>22 DEF StopFile
  <2>6. WakeInv'
    BY <2>0, <1>22 DEF StopFile
  <2>7. CloserInv'
    BY <2>0, <1>22 DEF StopFile
  <2>8. QED
    BY <2>1, <2>2, <2>3, <2>4, <2>5, <2>6, <2>7
<1>23. ASSUME NEW c \in Contexts, StopResult(c) PROVE IInv'
  <2>0. c # Main /\ ~ rawRtp
    BY <1>23 DEF StopResult, Contexts
  <2>1. TypeOK'
    BY <2>0, <1>23 DEF StopResult
  <2>2. LockInv'
    BY <2>0, <1>23 DEF StopResult
  <2>3. RtpInv'
    BY <2>0, <1>23 DEF StopResult
  <2>4. FileInv'
    BY <2>0, <1>23 DEF StopResult
  <2>5. StopInv'
    BY <2>0, <1>23 DEF StopResult
  <2>6. WakeInv'
    BY <2>0, <1>23 DEF StopResult
  <2>7. CloserInv'
    BY <2>0, <1>23 DEF StopResult
  <2>8. QED
    BY <2>1, <2>2, <2>3, <2>4, <2>5, <2>6, <2>7
<1>24. ASSUME NEW c \in Contexts, StopSignal(c) PROVE IInv'
  <2>0. c # Main /\ ~ rawRtp
    BY <1>24 DEF StopSignal, Contexts
  <2>1. TypeOK'
    BY <2>0, <1>24 DEF StopSignal
  <2>2. LockInv'
    BY <2>0, <1>24 DEF StopSignal
  <2>3. RtpInv'
    BY <2>0, <1>24 DEF StopSignal
  <2>4. FileInv'
    BY <2>0, <1>24 DEF StopSignal
  <2>5. StopInv'
    BY <2>0, <1>24 DEF StopSignal
  <2>6. WakeInv'
    BY <2>0, <1>24 DEF StopSignal
  <2>7. CloserInv'
    BY <2>0, <1>24 DEF StopSignal
  <2>8. QED
    BY <2>1, <2>2, <2>3, <2>4, <2>5, <2>6, <2>7
<1>25. ASSUME NEW s \in Calls, CallStep(s), UNCHANGED <<audio, pc, rest>> PROVE IInv'
  BY <1>25 DEF CallStep, OnIncomingConnection, OpenStream, OnEstablished, OnReleased,
     OnReleasedNetwork, Becomes, SetState
<1>26. CASE SignalHandler /\ UNCHANGED <<audio, pc, rest>>
  BY <1>26 DEF SignalHandler, SetState
<1>27. CASE UNCHANGED vars
  BY <1>27 DEF vars
<1>28. QED
  BY <1>1, <1>2, <1>3, <1>4, <1>5, <1>6, <1>7, <1>8, <1>9, <1>10, <1>11, <1>12, <1>13, <1>14,
     <1>15, <1>16, <1>17, <1>18, <1>19, <1>20, <1>21, <1>22, <1>23, <1>24, <1>25, <1>26,
     <1>27
     DEF Next, MainStep, PumpStep, CloseStep, StopStep

(* The inductive invariant holds in every reachable state.                 *)
THEOREM Invariance == Spec => []IInv
  BY InitInv, StepInv, PTL DEF Spec

(* Every variable keeps its type, for every set of calls and every bound.  *)
THEOREM TypeCorrect == Spec => []TypeOK
<1>1. IInv => TypeOK
  BY DEF IInv
<1>2. QED
  BY <1>1, Invariance, PTL

(* A Voice that has got sync finds no file open, however many calls share  *)
(* the object; Voice returns with its file closed in SIP mode, and in RTP  *)
(* mode with it open and sync taken, if it has played (channels.cpp:77,    *)
(* 155).                                                                   *)
THEOREM AssertSafe == Spec => []AssertHolds
<1>1. IInv => AssertHolds
  BY DEF IInv, RtpInv, FileInv, AssertHolds
<1>2. QED
  BY <1>1, Invariance, PTL

(* A wakeup is only ever pending for the playback that Main waits for.     *)
THEOREM WakeupSafe == Spec => []NoStaleWakeup
<1>1. IInv => NoStaleWakeup
  BY DEF IInv, WakeInv, NoStaleWakeup
<1>2. QED
  BY <1>1, Invariance, PTL

(* The flag that Main reads without sync is the outcome of its own file.   *)
THEOREM ResultSafe == Spec => []ResultOfThisFile
<1>1. IInv => ResultOfThisFile
  BY DEF IInv, WakeInv, ResultOfThisFile
<1>2. QED
  BY <1>1, Invariance, PTL

-----------------------------------------------------------------------------
(* The refinement: the object that Main sees is a Player.                  *)

LEMMA ObjectInit == Init => Object!Init
  BY ContextsFact DEF Init, Object!Init, phaseBar, Asked, Served

(* What a step does to the request, by where Main is and goes.             *)
LEMMA ObjectStep == IInv /\ [Next]_vars => [Object!Next]_(Object!playerVars)
<1> SUFFICES ASSUME IInv, [Next]_vars PROVE [Object!Next]_(Object!playerVars)
  OBVIOUS
<1> USE ContextsFact
     DEF IInv, TypeOK, RtpInv, FileInv, StopInv, WakeInv, Stopping, Goto, audio, rest,
         phaseBar, Asked, Served, Object!playerVars
<1>1. CASE VoiceRun
  BY <1>1 DEF VoiceRun, Object!Next, Object!Ask
<1>2. CASE PlayLock
  BY <1>2 DEF PlayLock
<1>3. CASE PlayCheck
  BY <1>3 DEF PlayCheck
<1>4. CASE PlayLeave
  BY <1>4 DEF PlayLeave, Object!Next, Object!Refuse
<1>5. CASE PlayOpen
  BY <1>5, BoundsAssumption DEF PlayOpen, Object!Next, Object!Open
<1>6. CASE PlayUnlock
  BY <1>6 DEF PlayUnlock
<1>7. CASE PlayWait
  BY <1>7 DEF PlayWait
<1>8. CASE PlayResult
  BY <1>8 DEF PlayResult, Object!Next, Object!Answer
<1>9. CASE PlayClear
  BY <1>9 DEF PlayClear
<1>10. CASE RtpWrite
  BY <1>10, BoundsAssumption DEF RtpWrite
<1>11. CASE RtpBreak
  BY <1>11, BoundsAssumption DEF RtpBreak, Object!Next, Object!End
<1>12. CASE RtpDone
  BY <1>12 DEF RtpDone, Object!Next, Object!Answer
<1>13. CASE VoiceCheck
  BY <1>13 DEF VoiceCheck
<1>14. ASSUME NEW s \in Calls, FillLock(s) \/ FillSilence(s) \/ PumpUnlock(s) PROVE UNCHANGED Object!playerVars
  BY <1>14 DEF FillLock, FillSilence, PumpUnlock
<1>15. ASSUME NEW s \in Calls, FillFrame(s) PROVE UNCHANGED Object!playerVars
  BY <1>15, BoundsAssumption DEF FillFrame
<1>16. ASSUME NEW s \in Calls, NEW err \in BOOLEAN, FillShort(s, err) PROVE UNCHANGED Object!playerVars
  BY <1>16 DEF FillShort
<1>17. ASSUME NEW s \in Calls, CloseLock(s) \/ CloseUnlock(s) \/ Close(s) PROVE UNCHANGED Object!playerVars
  BY <1>17 DEF CloseLock, CloseUnlock, Close
<1>18. ASSUME NEW c \in Contexts, StopFile(c) PROVE [Object!Next]_(Object!playerVars)
  BY <1>18 DEF StopFile, Object!Next, Object!End
<1>19. ASSUME NEW c \in Contexts, StopResult(c) \/ StopSignal(c) PROVE UNCHANGED Object!playerVars
  BY <1>19 DEF StopResult, StopSignal
<1>20. CASE UNCHANGED <<audio, pc, rest>>
  BY <1>20
<1>21. QED
  BY <1>1, <1>2, <1>3, <1>4, <1>5, <1>6, <1>7, <1>8, <1>9, <1>10, <1>11, <1>12, <1>13, <1>14,
     <1>15, <1>16, <1>17, <1>18, <1>19, <1>20
     DEF Next, MainStep, PumpStep, CloseStep, StopStep, vars

(* Every Voice command is answered with the outcome of its own file, for   *)
(* every set of overlapping calls.                                         *)
THEOREM PlayerImplemented == Spec => ImplementsPlayer
  BY ObjectInit, ObjectStep, Invariance, PTL DEF Spec, ImplementsPlayer, Object!Spec
=============================================================================
