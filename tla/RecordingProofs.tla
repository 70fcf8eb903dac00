-------------------------- MODULE RecordingProofs --------------------------
(***************************************************************************)
(* Safety of recording for every set of calls, every frame and word size   *)
(* and every length: the handshake of RecordAudioFile with the threads     *)
(* that deliver media, the bound on what is written, and the counters.     *)
(***************************************************************************)
EXTENDS Recording, Integers, TLAPS

(* The labels between sync.Wait() and sync.Signal().                       *)
InSync(c) ==
  pc[c] \in {"rec_open", "rec_leave", "rec_unlock",
             "frame", "stop_file", "stop_result", "stop_signal", "unlock"}

LockInv ==
  /\ \A c, d \in Contexts : InSync(c) /\ InSync(d) => c = d
  /\ sync = 0 <=> \E c \in Contexts : InSync(c)

(* A file is open while Main waits for its recording, or for ever after an *)
(* append that failed, and then no command is run any more.                *)
FileInv ==
  /\ recfile = "open" /\ record =>
       /\ pc[Main] \in {"rec_unlock", "rec_wait"} /\ ~ recsync
       /\ failed => \E c \in Contexts : pc[c] = "stop_file" /\ ioerror[c]
  /\ recfile = "open" /\ ~ record =>
       /\ pc[Main] \in {"rec_leave", "record_check", "idle"}
       /\ pc[Main] = "record_check" => ~ result
       /\ pc[Main] = "idle" => records = 0
  /\ \A c \in Contexts :
       pc[c] = "stop_file" /\ recfile = "open" /\ record => failed = ioerror[c]

(* One stop takes the file away; it alone wakes Main, with the result set. *)
StopInv ==
  \A c \in Contexts :
    /\ pc[c] = "stop_result" =>
         /\ recfile = "NULL"
         /\ record => pc[Main] = "rec_wait" /\ ~ recsync /\ failed = ioerror[c]
    /\ pc[c] = "stop_signal" =>
         pc[Main] = "rec_wait" /\ recfile = "NULL" /\ ~ recsync /\ record = ~ failed

WakeInv ==
  /\ recsync => pc[Main] = "rec_wait" /\ recfile = "NULL" /\ record = ~ failed
  /\ pc[Main] = "rec_result" => record = ~ failed
  /\ pc[Main] \in {"idle", "rec_lock", "rec_open", "rec_leave", "record_check"} => ~ record

(* A closer never reports an error.                                        *)
CloserInv == \A s \in Calls : ioerror[<<s, "close">>] = FALSE

(* What has been written and what may still be written fit the maximum.    *)
LengthInv ==
  InRange => /\ recordmillisec <= max
             /\ written + recordmillisec * BytesPerMilli <= max * BytesPerMilli

IInv ==
  /\ TypeOK /\ LockInv /\ FileInv /\ StopInv /\ WakeInv /\ CloserInv
  /\ LengthInv /\ CountersBounded
-----------------------------------------------------------------------------
(* Arithmetic of bytes and milliseconds.                                   *)

LEMMA DivBound ==
  ASSUME NEW n \in Nat, NEW m \in Nat, NEW b \in Nat \ {0}, n <= m * b
  PROVE  n \div b \in Nat /\ n \div b <= m
  BY SMT

LEMMA ModBound ==
  ASSUME NEW n \in Nat, NEW w \in Nat \ {0}
  PROVE  n % w \in Nat /\ n % w <= n
  BY SMT

LEMMA ModSmall ==
  ASSUME NEW n \in Nat, NEW w \in Nat \ {0}, n < w
  PROVE  n % w = n
  BY SMT

LEMMA DivExact ==
  ASSUME NEW k \in Nat, NEW b \in Nat \ {0}
  PROVE  (k * b) \div b = k
  BY SMT

LEMMA Whole ==
  ASSUME NEW n \in Nat, NEW b \in Nat \ {0}, n % b = 0
  PROVE  n \div b \in Nat /\ (n \div b) * b = n
  BY SMT

LEMMA Product ==
  ASSUME NEW m \in Nat, NEW b \in Nat
  PROVE  m * b \in Nat
  BY SMT

(* A length is a size_t, and it is kept when it is not negative as an int. *)
LEMMA SizeTRange ==
  ASSUME NEW millis \in Millis
  PROVE  /\ ToSizeT(millis) \in 0..(WordSize - 1)
         /\ 2 * millis < IntSize => ToSizeT(millis) = millis
<1>1. IntSize <= WordSize
  BY SizesAssumption, SMT
<1>2. millis \in Nat /\ millis < IntSize
  BY SizesAssumption
<1>3. QED
  BY <1>1, <1>2, SizesAssumption DEF ToSizeT

(* The size of a frame is a number of bytes.                               *)
LEMMA FrameRange == \A n \in FrameLens \cup {0} : n \in Nat
  BY SizesAssumption

(* A frame never takes more than what is left, and counts for no more.     *)
LEMMA BytesBound ==
  ASSUME NEW s \in Calls, recordmillisec \in Nat, len[s] \in Nat
  PROVE  /\ RecordBytes(s) \in Nat
         /\ RecordBytes(s) \div BytesPerMilli \in 0..recordmillisec
<1> DEFINE all == recordmillisec * BytesPerMilli
<1>1. all \in Nat
  BY SizesAssumption, Product
<1>2. all % WordSize \in Nat /\ all % WordSize <= all
  BY <1>1, SizesAssumption, ModBound
<1>3. RecordBytes(s) \in Nat /\ RecordBytes(s) <= all
  BY <1>1, <1>2 DEF RecordBytes
<1>4. QED
  BY <1>3, SizesAssumption, DivBound

(* Of whole milliseconds, it counts for exactly what it takes.             *)
LEMMA BytesExact ==
  ASSUME NEW s \in Calls, recordmillisec \in Nat, len[s] \in Nat,
         2 * recordmillisec < IntSize, len[s] % BytesPerMilli = 0
  PROVE  (recordmillisec - RecordBytes(s) \div BytesPerMilli) * BytesPerMilli
           = recordmillisec * BytesPerMilli - RecordBytes(s)
<1> DEFINE all == recordmillisec * BytesPerMilli
<1>1. all \in Nat
  BY SizesAssumption, Product
<1>2. all < WordSize
  <2>1. recordmillisec < IntSize
    BY SizesAssumption
  <2>2. all < IntSize * BytesPerMilli
    BY <2>1, SizesAssumption, SMT
  <2>3. QED
    BY <1>1, <2>2, SizesAssumption
<1>3. all % WordSize = all
  BY <1>1, <1>2, SizesAssumption, ModSmall
<1>4. RecordBytes(s) = IF all > len[s] THEN len[s] ELSE all
  BY <1>3 DEF RecordBytes
<1>5. (RecordBytes(s) \div BytesPerMilli) * BytesPerMilli = RecordBytes(s)
      /\ RecordBytes(s) \div BytesPerMilli \in Nat
  <2>1. CASE all > len[s]
    BY <2>1, <1>4, SizesAssumption, Whole
  <2>2. CASE ~ (all > len[s])
    BY <2>2, <1>4, SizesAssumption, DivExact
  <2>3. QED
    BY <2>1, <2>2
<1>6. QED
  BY <1>5, SizesAssumption, SMT

-----------------------------------------------------------------------------
(* Main and the threads of the calls are different contexts.               *)
LEMMA ContextsFact ==
  /\ Main \in Contexts
  /\ \A s \in Calls : <<s, "pump">> \in Contexts /\ <<s, "close">> \in Contexts
  /\ \A s \in Calls : <<s, "pump">> # Main /\ <<s, "close">> # Main
  BY ContextsAssumption DEF Contexts

(* The inductive invariant holds initially.                                *)
LEMMA InitInv == Init => IInv
<1> SUFFICES ASSUME Init PROVE IInv
  OBVIOUS
<1> USE BoundsAssumption, SizesAssumption, SignalsAssumption, ContextsFact DEF Init, CallsInit
<1>1. TypeOK
  <2>1. /\ 0 \in 0..(WordSize - 1) /\ 0 \in Nat
    OBVIOUS
  <2>2. CallsTypeOK
    BY DEF CallsTypeOK, ConnStates, StreamStates
  <2>3. /\ pc \in [Contexts -> MainLabels \cup StreamLabels]
        /\ pc[Main] \in MainLabels
        /\ \A d \in Contexts \ {Main} : pc[d] \in StreamLabels
    BY DEF MainLabels, StreamLabels
  <2>4. len \in [Calls -> FrameLens \cup {0}] /\ ioerror \in [Contexts -> BOOLEAN]
    OBVIOUS
  <2>5. QED
    BY <2>1, <2>2, <2>3, <2>4 DEF TypeOK
<1>2. LockInv
  BY DEF LockInv, InSync
<1>3. FileInv /\ StopInv /\ WakeInv /\ CloserInv
  BY DEF FileInv, StopInv, WakeInv, CloserInv
<1>4. LengthInv
  BY DEF LengthInv
<1>5. CountersBounded
  BY DEF CountersBounded
<1>6. QED
  BY <1>1, <1>2, <1>3, <1>4, <1>5 DEF IInv

(* Every step preserves it: one case per action, one step per conjunct.    *)
LEMMA StepInv == IInv /\ [Next]_vars => IInv'
<1> SUFFICES ASSUME IInv, [Next]_vars PROVE IInv'
  OBVIOUS
<1> USE BoundsAssumption, SizesAssumption, SignalsAssumption, ContextsFact
     DEF IInv, TypeOK, LockInv, FileInv, StopInv, WakeInv, CloserInv,
         InSync, Goto, file, request, counters, frame, outcome, callVars, CallsTypeOK,
         ConnStates, StreamStates, MainLabels, StreamLabels
<1>1. CASE RecordRun
  <2>1. TypeOK'
    BY <1>1 DEF RecordRun
  <2>2. LockInv'
    BY <1>1 DEF RecordRun
  <2>3. FileInv' /\ StopInv' /\ WakeInv'
    BY <1>1 DEF RecordRun
  <2>4. CloserInv' /\ LengthInv' /\ CountersBounded'
    BY <1>1 DEF RecordRun, LengthInv, InRange, CountersBounded
  <2>5. QED
    BY <2>1, <2>2, <2>3, <2>4
<1>2. CASE RecordLock
  <2>1. TypeOK'
    BY <1>2 DEF RecordLock, Wait
  <2>2. LockInv'
    BY <1>2 DEF RecordLock, Wait
  <2>3. FileInv' /\ StopInv' /\ WakeInv'
    BY <1>2 DEF RecordLock, Wait
  <2>4. CloserInv' /\ LengthInv' /\ CountersBounded'
    BY <1>2 DEF RecordLock, Wait, LengthInv, InRange, CountersBounded
  <2>5. QED
    BY <2>1, <2>2, <2>3, <2>4
<1>3. CASE RecordOpen
  <2>0. PICK millis \in Millis : recordmillisec' = ToSizeT(millis) /\ max' = millis
    BY <1>3 DEF RecordOpen
  <2>a. /\ recordmillisec' \in 0..(WordSize - 1)
        /\ 2 * max' < IntSize => recordmillisec' = max'
    BY <2>0, SizeTRange
  <2>b. max' \in Millis /\ millis \in Nat
    BY <2>0
  <2>1. TypeOK'
    <3>1. sync' \in {0, 1} /\ recsync' \in BOOLEAN /\ recfile' \in {"NULL", "open"}
          /\ record' \in BOOLEAN
      BY <2>a, <2>b, <1>3 DEF RecordOpen
    <3>2. stop_recording_when_silent' \in BOOLEAN /\ recordmillisec' \in 0..(WordSize - 1)
          /\ max' \in Millis \cup {0}
      BY <2>a, <2>b, <1>3 DEF RecordOpen
    <3>3. silence' \in Nat /\ activity' \in Nat
      BY <2>a, <2>b, <1>3 DEF RecordOpen, SetSilenceState, Add
    <3>4. /\ pc' \in [Contexts -> MainLabels \cup StreamLabels]
          /\ pc'[Main] \in MainLabels
          /\ \A d \in Contexts \ {Main} : pc'[d] \in StreamLabels
      BY <2>a, <2>b, <1>3 DEF RecordOpen
    <3>5. len' \in [Calls -> FrameLens \cup {0}] /\ ioerror' \in [Contexts -> BOOLEAN]
      BY <2>a, <2>b, <1>3 DEF RecordOpen
    <3>6. result' \in BOOLEAN /\ written' \in Nat /\ failed' \in BOOLEAN /\ records' \in Nat
      BY <2>a, <2>b, <1>3 DEF RecordOpen
    <3>7. CallsTypeOK'
      BY <2>a, <2>b, <1>3 DEF RecordOpen
    <3>8. QED
      BY <3>1, <3>2, <3>3, <3>4, <3>5, <3>6, <3>7
  <2>2. LockInv'
    BY <2>a, <2>b, <1>3 DEF RecordOpen
  <2>3. FileInv' /\ StopInv' /\ WakeInv'
    BY <2>a, <2>b, <1>3 DEF RecordOpen
  <2>4. CloserInv' /\ LengthInv' /\ CountersBounded'
    BY <2>a, <2>b, <1>3 DEF RecordOpen, LengthInv, InRange, CountersBounded, SetSilenceState,
        Add
  <2>5. QED
    BY <2>1, <2>2, <2>3, <2>4
<1>4. CASE RecordAppendFails
  <2>1. TypeOK'
    BY <1>4 DEF RecordAppendFails
  <2>2. LockInv'
    BY <1>4 DEF RecordAppendFails
  <2>3. FileInv' /\ StopInv' /\ WakeInv'
    BY <1>4 DEF RecordAppendFails
  <2>4. CloserInv' /\ LengthInv' /\ CountersBounded'
    BY <1>4 DEF RecordAppendFails, LengthInv, InRange, CountersBounded
  <2>5. QED
    BY <2>1, <2>2, <2>3, <2>4
<1>5. CASE RecordLeave
  <2>1. TypeOK'
    <3>1. sync' \in {0, 1} /\ recsync' \in BOOLEAN /\ recfile' \in {"NULL", "open"}
          /\ record' \in BOOLEAN
      BY <1>5 DEF RecordLeave, Signal
    <3>2. stop_recording_when_silent' \in BOOLEAN /\ recordmillisec' \in 0..(WordSize - 1)
          /\ max' \in Millis \cup {0}
      BY <1>5 DEF RecordLeave, Signal
    <3>3. silence' \in Nat /\ activity' \in Nat
      BY <1>5 DEF RecordLeave, Signal, SetSilenceState, Add
    <3>4. /\ pc' \in [Contexts -> MainLabels \cup StreamLabels]
          /\ pc'[Main] \in MainLabels
          /\ \A d \in Contexts \ {Main} : pc'[d] \in StreamLabels
      BY <1>5 DEF RecordLeave, Signal
    <3>5. len' \in [Calls -> FrameLens \cup {0}] /\ ioerror' \in [Contexts -> BOOLEAN]
      BY <1>5 DEF RecordLeave, Signal
    <3>6. result' \in BOOLEAN /\ written' \in Nat /\ failed' \in BOOLEAN /\ records' \in Nat
      BY <1>5 DEF RecordLeave, Signal
    <3>7. CallsTypeOK'
      BY <1>5 DEF RecordLeave, Signal
    <3>8. QED
      BY <3>1, <3>2, <3>3, <3>4, <3>5, <3>6, <3>7
  <2>2. LockInv'
    BY <1>5 DEF RecordLeave, Signal
  <2>3. FileInv' /\ StopInv' /\ WakeInv'
    BY <1>5 DEF RecordLeave, Signal
  <2>4. CloserInv' /\ LengthInv' /\ CountersBounded'
    BY <1>5 DEF RecordLeave, Signal, LengthInv, InRange, CountersBounded
  <2>5. QED
    BY <2>1, <2>2, <2>3, <2>4
<1>6. CASE RecordUnlock
  <2>1. TypeOK'
    BY <1>6 DEF RecordUnlock, Signal
  <2>2. LockInv'
    BY <1>6 DEF RecordUnlock, Signal
  <2>3. FileInv' /\ StopInv' /\ WakeInv'
    BY <1>6 DEF RecordUnlock, Signal
  <2>4. CloserInv' /\ LengthInv' /\ CountersBounded'
    BY <1>6 DEF RecordUnlock, Signal, LengthInv, InRange, CountersBounded
  <2>5. QED
    BY <2>1, <2>2, <2>3, <2>4
<1>7. CASE RecordWait
  <2>1. TypeOK'
    BY <1>7 DEF RecordWait
  <2>2. LockInv'
    BY <1>7 DEF RecordWait
  <2>3. FileInv' /\ StopInv' /\ WakeInv'
    BY <1>7 DEF RecordWait
  <2>4. CloserInv' /\ LengthInv' /\ CountersBounded'
    BY <1>7 DEF RecordWait, LengthInv, InRange, CountersBounded
  <2>5. QED
    BY <2>1, <2>2, <2>3, <2>4
<1>8. CASE RecordResult
  <2>1. TypeOK'
    BY <1>8 DEF RecordResult
  <2>2. LockInv'
    BY <1>8 DEF RecordResult
  <2>3. FileInv' /\ StopInv' /\ WakeInv'
    BY <1>8 DEF RecordResult
  <2>4. CloserInv' /\ LengthInv' /\ CountersBounded'
    BY <1>8 DEF RecordResult, LengthInv, InRange, CountersBounded
  <2>5. QED
    BY <2>1, <2>2, <2>3, <2>4
<1>9. CASE RecordClear
  <2>1. TypeOK'
    BY <1>9 DEF RecordClear
  <2>2. LockInv'
    BY <1>9 DEF RecordClear
  <2>3. FileInv' /\ StopInv' /\ WakeInv'
    BY <1>9 DEF RecordClear
  <2>4. CloserInv' /\ LengthInv' /\ CountersBounded'
    BY <1>9 DEF RecordClear, LengthInv, InRange, CountersBounded
  <2>5. QED
    BY <2>1, <2>2, <2>3, <2>4
<1>10. CASE RecordCheck
  <2>1. TypeOK'
    BY <1>10 DEF RecordCheck
  <2>2. LockInv'
    BY <1>10 DEF RecordCheck
  <2>3. FileInv' /\ StopInv' /\ WakeInv'
    BY <1>10 DEF RecordCheck
  <2>4. CloserInv' /\ LengthInv' /\ CountersBounded'
    BY <1>10 DEF RecordCheck, LengthInv, InRange, CountersBounded
  <2>5. QED
    BY <2>1, <2>2, <2>3, <2>4
<1>11. ASSUME NEW s \in Calls, FrameLock(s) PROVE IInv'
  <2> DEFINE c == <<s, "pump">>
  <2>0. c \in Contexts /\ c # Main
    OBVIOUS
  <2>1. TypeOK'
    <3>1. sync' \in {0, 1} /\ recsync' \in BOOLEAN /\ recfile' \in {"NULL", "open"}
          /\ record' \in BOOLEAN
      BY <2>0, <1>11 DEF FrameLock, Wait
    <3>2. stop_recording_when_silent' \in BOOLEAN /\ recordmillisec' \in 0..(WordSize - 1)
          /\ max' \in Millis \cup {0}
      BY <2>0, <1>11 DEF FrameLock, Wait
    <3>3. silence' \in Nat /\ activity' \in Nat
      BY <2>0, <1>11 DEF FrameLock, Wait, SetSilenceState, Add
    <3>4. /\ pc' \in [Contexts -> MainLabels \cup StreamLabels]
          /\ pc'[Main] \in MainLabels
          /\ \A d \in Contexts \ {Main} : pc'[d] \in StreamLabels
      BY <2>0, <1>11 DEF FrameLock, Wait
    <3>5. len' \in [Calls -> FrameLens \cup {0}] /\ ioerror' \in [Contexts -> BOOLEAN]
      BY <2>0, <1>11 DEF FrameLock, Wait
    <3>6. result' \in BOOLEAN /\ written' \in Nat /\ failed' \in BOOLEAN /\ records' \in Nat
      BY <2>0, <1>11 DEF FrameLock, Wait
    <3>7. CallsTypeOK'
      BY <2>0, <1>11 DEF FrameLock, Wait
    <3>8. QED
      BY <3>1, <3>2, <3>3, <3>4, <3>5, <3>6, <3>7
  <2>2. LockInv'
    BY <2>0, <1>11 DEF FrameLock, Wait
  <2>3. FileInv' /\ StopInv' /\ WakeInv'
    BY <2>0, <1>11 DEF FrameLock, Wait
  <2>4. CloserInv' /\ LengthInv' /\ CountersBounded'
    BY <2>0, <1>11 DEF FrameLock, Wait, LengthInv, InRange, CountersBounded, SetSilenceState,
        Add
  <2>5. QED
    BY <2>1, <2>2, <2>3, <2>4
<1>12. ASSUME NEW s \in Calls, FrameIgnored(s) PROVE IInv'
  <2> DEFINE c == <<s, "pump">>
  <2>0. c \in Contexts /\ c # Main
    OBVIOUS
  <2>1. TypeOK'
    BY <2>0, <1>12 DEF FrameIgnored
  <2>2. LockInv'
    BY <2>0, <1>12 DEF FrameIgnored
  <2>3. FileInv' /\ StopInv' /\ WakeInv'
    BY <2>0, <1>12 DEF FrameIgnored
  <2>4. CloserInv' /\ LengthInv' /\ CountersBounded'
    BY <2>0, <1>12 DEF FrameIgnored, LengthInv, InRange, CountersBounded
  <2>5. QED
    BY <2>1, <2>2, <2>3, <2>4
<1>13. ASSUME NEW s \in Calls, FrameSilent(s) PROVE IInv'
  <2> DEFINE c == <<s, "pump">>
  <2>0. c \in Contexts /\ c # Main
    OBVIOUS
  <2>1. TypeOK'
    BY <2>0, <1>13 DEF FrameSilent
  <2>2. LockInv'
    BY <2>0, <1>13 DEF FrameSilent
  <2>3. FileInv' /\ StopInv' /\ WakeInv'
    BY <2>0, <1>13 DEF FrameSilent
  <2>4. CloserInv' /\ LengthInv' /\ CountersBounded'
    BY <2>0, <1>13 DEF FrameSilent, LengthInv, InRange, CountersBounded
  <2>5. QED
    BY <2>1, <2>2, <2>3, <2>4
<1>14. ASSUME NEW s \in Calls, FrameWritten(s) PROVE IInv'
  <2> DEFINE c == <<s, "pump">>
  <2>0. c \in Contexts /\ c # Main
    OBVIOUS
  <2>d. recordmillisec \in Nat /\ len[s] \in FrameLens \cup {0} /\ len[s] \in Nat
    <3>1. recordmillisec \in 0..(WordSize - 1) /\ len \in [Calls -> FrameLens \cup {0}]
      OBVIOUS
    <3>2. recordmillisec \in Nat
      BY <3>1
    <3>3. len[s] \in FrameLens \cup {0}
      BY <3>1
    <3>4. len[s] \in Nat
      BY <3>3, FrameRange
    <3>5. QED
      BY <3>2, <3>3, <3>4
  <2>a. RecordBytes(s) \in Nat /\ RecordBytes(s) \div BytesPerMilli \in 0..recordmillisec
    BY <2>d, BytesBound
  <2>b. recordmillisec' \in 0..recordmillisec
    BY <1>14, <2>a DEF FrameWritten
  <2>c. written' \in Nat /\ written' <= written + RecordBytes(s)
    BY <1>14, <2>a DEF FrameWritten, Written
  <2>1. TypeOK'
    BY <2>b, <2>c, <2>0, <1>14 DEF FrameWritten
  <2>2. LockInv'
    BY <2>b, <2>c, <2>0, <1>14 DEF FrameWritten
  <2>3. FileInv'
    BY <2>b, <2>c, <2>0, <1>14 DEF FrameWritten
  <2>4. StopInv'
    BY <2>b, <2>c, <2>0, <1>14 DEF FrameWritten
  <2>5. WakeInv'
    BY <2>b, <2>c, <2>0, <1>14 DEF FrameWritten
  <2>6. CloserInv'
    BY <2>b, <2>c, <2>0, <1>14 DEF FrameWritten
  <2>7. LengthInv'
    <3> SUFFICES ASSUME InRange 
                          PROVE  /\ recordmillisec' <= max
                                 /\ written' + recordmillisec' * BytesPerMilli <= max * BytesPerMilli
      BY <1>14 DEF FrameWritten, LengthInv, InRange
    <3>1. recordmillisec' * BytesPerMilli = recordmillisec * BytesPerMilli - RecordBytes(s)
      <4>1. len[s] % BytesPerMilli = 0
        BY <2>d DEF InRange
      <4>2. recordmillisec <= max /\ 2 * max < IntSize /\ max \in Nat
        BY DEF LengthInv, InRange
      <4>3. 2 * recordmillisec < IntSize
        BY <4>2, <2>d
      <4>4. QED
        BY <4>1, <4>3, <2>d, <1>14, BytesExact DEF FrameWritten
    <3>2. recordmillisec' <= max
      BY <2>b, <2>d DEF LengthInv
    <3>3. QED
      <4> DEFINE left == recordmillisec * BytesPerMilli
                 now == recordmillisec' * BytesPerMilli
                 most == max * BytesPerMilli
      <4>1. left \in Nat /\ most \in Nat
        BY <2>d, Product
      <4>2. written + left <= most
        BY DEF LengthInv
      <4>3. now = left - RecordBytes(s)
        BY <3>1
      <4> HIDE DEF left, now, most
      <4>4. written' + now <= most
        BY <4>1, <4>2, <4>3, <2>a, <2>c
      <4>5. QED
        BY <4>4, <3>2 DEF now, most
  <2>8. CountersBounded'
    BY <2>b, <2>c, <2>0, <1>14 DEF FrameWritten, CountersBounded
  <2>9. QED
    BY <2>1, <2>2, <2>3, <2>4, <2>5, <2>6, <2>7, <2>8
<1>15. ASSUME NEW s \in Calls, FrameFails(s) PROVE IInv'
  <2> DEFINE c == <<s, "pump">>
  <2>0. c \in Contexts /\ c # Main
    OBVIOUS
  <2>1. TypeOK'
    BY <2>0, <1>15 DEF FrameFails
  <2>2. LockInv'
    BY <2>0, <1>15 DEF FrameFails
  <2>3. FileInv' /\ StopInv' /\ WakeInv'
    BY <2>0, <1>15 DEF FrameFails
  <2>4. CloserInv' /\ LengthInv' /\ CountersBounded'
    BY <2>0, <1>15 DEF FrameFails, LengthInv, InRange, CountersBounded
  <2>5. QED
    BY <2>1, <2>2, <2>3, <2>4
<1>16. ASSUME NEW s \in Calls, PumpUnlock(s) PROVE IInv'
  <2> DEFINE c == <<s, "pump">>
  <2>0. c \in Contexts /\ c # Main
    OBVIOUS
  <2>1. TypeOK'
    BY <2>0, <1>16 DEF PumpUnlock, Signal
  <2>2. LockInv'
    BY <2>0, <1>16 DEF PumpUnlock, Signal
  <2>3. FileInv' /\ StopInv' /\ WakeInv'
    BY <2>0, <1>16 DEF PumpUnlock, Signal
  <2>4. CloserInv' /\ LengthInv' /\ CountersBounded'
    BY <2>0, <1>16 DEF PumpUnlock, Signal, LengthInv, InRange, CountersBounded
  <2>5. QED
    BY <2>1, <2>2, <2>3, <2>4
<1>17. ASSUME NEW s \in Calls, Close(s) PROVE IInv'
  <2> DEFINE c == <<s, "close">>
  <2>0. c \in Contexts /\ c # Main
    OBVIOUS
  <2>1. TypeOK'
    BY <2>0, <1>17 DEF Close, CloseStream, Becomes
  <2>2. LockInv'
    BY <2>0, <1>17 DEF Close, CloseStream, Becomes
  <2>3. FileInv' /\ StopInv' /\ WakeInv'
    BY <2>0, <1>17 DEF Close, CloseStream, Becomes
  <2>4. CloserInv' /\ LengthInv' /\ CountersBounded'
    BY <2>0, <1>17 DEF Close, CloseStream, Becomes, LengthInv, InRange, CountersBounded
  <2>5. QED
    BY <2>1, <2>2, <2>3, <2>4
<1>18. ASSUME NEW s \in Calls, OnReadTimeout(s) PROVE IInv'
  <2> DEFINE c == <<s, "close">>
  <2>0. c \in Contexts /\ c # Main
    OBVIOUS
  <2>1. TypeOK'
    BY <2>0, <1>18 DEF OnReadTimeout
  <2>2. LockInv'
    BY <2>0, <1>18 DEF OnReadTimeout
  <2>3. FileInv' /\ StopInv' /\ WakeInv'
    BY <2>0, <1>18 DEF OnReadTimeout
  <2>4. CloserInv' /\ LengthInv' /\ CountersBounded'
    BY <2>0, <1>18 DEF OnReadTimeout, LengthInv, InRange, CountersBounded
  <2>5. QED
    BY <2>1, <2>2, <2>3, <2>4
<1>19. ASSUME NEW s \in Calls, CloseLock(s) PROVE IInv'
  <2> DEFINE c == <<s, "close">>
  <2>0. c \in Contexts /\ c # Main
    OBVIOUS
  <2>1. TypeOK'
    BY <2>0, <1>19 DEF CloseLock, Wait
  <2>2. LockInv'
    BY <2>0, <1>19 DEF CloseLock, Wait
  <2>3. FileInv' /\ StopInv' /\ WakeInv'
    BY <2>0, <1>19 DEF CloseLock, Wait
  <2>4. CloserInv' /\ LengthInv' /\ CountersBounded'
    BY <2>0, <1>19 DEF CloseLock, Wait, LengthInv, InRange, CountersBounded
  <2>5. QED
    BY <2>1, <2>2, <2>3, <2>4
<1>20. ASSUME NEW s \in Calls, CloseUnlock(s) PROVE IInv'
  <2> DEFINE c == <<s, "close">>
  <2>0. c \in Contexts /\ c # Main
    OBVIOUS
  <2>1. TypeOK'
    BY <2>0, <1>20 DEF CloseUnlock, Signal, StreamClosed, Becomes
  <2>2. LockInv'
    BY <2>0, <1>20 DEF CloseUnlock, Signal, StreamClosed, Becomes
  <2>3. FileInv' /\ StopInv' /\ WakeInv'
    BY <2>0, <1>20 DEF CloseUnlock, Signal, StreamClosed, Becomes
  <2>4. CloserInv' /\ LengthInv' /\ CountersBounded'
    BY <2>0, <1>20 DEF CloseUnlock, Signal, StreamClosed, Becomes, LengthInv, InRange,
        CountersBounded
  <2>5. QED
    BY <2>1, <2>2, <2>3, <2>4
<1>21. ASSUME NEW c \in Contexts, StopFile(c) PROVE IInv'
  <2>0. c # Main
    BY <1>21 DEF StopFile
  <2>1. TypeOK'
    BY <2>0, <1>21 DEF StopFile
  <2>2. LockInv'
    BY <2>0, <1>21 DEF StopFile
  <2>3. FileInv' /\ StopInv' /\ WakeInv'
    BY <2>0, <1>21 DEF StopFile
  <2>4. CloserInv' /\ LengthInv' /\ CountersBounded'
    BY <2>0, <1>21 DEF StopFile, LengthInv, InRange, CountersBounded
  <2>5. QED
    BY <2>1, <2>2, <2>3, <2>4
<1>22. ASSUME NEW c \in Contexts, StopResult(c) PROVE IInv'
  <2>0. c # Main
    BY <1>22 DEF StopResult
  <2>1. TypeOK'
    BY <2>0, <1>22 DEF StopResult
  <2>2. LockInv'
    BY <2>0, <1>22 DEF StopResult
  <2>3. FileInv' /\ StopInv' /\ WakeInv'
    BY <2>0, <1>22 DEF StopResult
  <2>4. CloserInv' /\ LengthInv' /\ CountersBounded'
    BY <2>0, <1>22 DEF StopResult, LengthInv, InRange, CountersBounded
  <2>5. QED
    BY <2>1, <2>2, <2>3, <2>4
<1>23. ASSUME NEW c \in Contexts, StopSignal(c) PROVE IInv'
  <2>0. c # Main
    BY <1>23 DEF StopSignal
  <2>1. TypeOK'
    BY <2>0, <1>23 DEF StopSignal
  <2>2. LockInv'
    BY <2>0, <1>23 DEF StopSignal
  <2>3. FileInv' /\ StopInv' /\ WakeInv'
    BY <2>0, <1>23 DEF StopSignal
  <2>4. CloserInv' /\ LengthInv' /\ CountersBounded'
    BY <2>0, <1>23 DEF StopSignal, LengthInv, InRange, CountersBounded
  <2>5. QED
    BY <2>1, <2>2, <2>3, <2>4
<1>24. ASSUME SignalHandler \/ \E s \in Calls : CallStep(s),
            UNCHANGED <<sync, file, request, counters, pc, frame, outcome, records>>
      PROVE IInv'
  <2>1. CallsTypeOK'
    BY <1>24 DEF SignalHandler, CallStep, OnIncomingConnection, OpenStream, OnEstablished,
       OnReleased, OnReleasedNetwork, Becomes, SetState
  <2>2. QED
    BY <1>24, <2>1 DEF LengthInv, InRange, CountersBounded
<1>25. CASE UNCHANGED vars
  BY <1>25 DEF vars, LengthInv, InRange, CountersBounded
<1>26. QED
  BY <1>1, <1>2, <1>3, <1>4, <1>5, <1>6, <1>7, <1>8, <1>9, <1>10, <1>11, <1>12, <1>13,
     <1>14, <1>15, <1>16, <1>17, <1>18, <1>19, <1>20, <1>21, <1>22, <1>23, <1>24, <1>25
     DEF Next, MainStep, PumpStep, CloseStep, StopStep

-----------------------------------------------------------------------------
(* Theorems *)

(* The inductive invariant holds in every reachable state.                 *)
THEOREM Invariance == Spec => []IInv
  BY InitInv, StepInv, PTL DEF Spec

(* Every variable keeps its type.                                          *)
THEOREM TypeCorrect == Spec => []TypeOK
<1>1. IInv => TypeOK
  BY DEF IInv
<1>2. QED
  BY <1>1, Invariance, PTL

(* assert(!recfile) in RecordAudioFile never fails (channels.cpp:252).     *)
THEOREM AssertSafe == Spec => []AssertHolds
<1>1. IInv => AssertHolds
  <2> SUFFICES ASSUME IInv, pc[Main] = "rec_open" PROVE recfile = "NULL"
    BY DEF AssertHolds
  <2>1. ~ record
    BY DEF IInv, WakeInv
  <2>2. recfile \in {"NULL", "open"}
    BY DEF IInv, TypeOK
  <2>3. QED
    BY <2>1, <2>2 DEF IInv, FileInv
<1>2. QED
  BY <1>1, Invariance, PTL

(* The wait for the end of a recording is never ended by the recording     *)
(* before it (channels.cpp:287-296, 102-116).                              *)
THEOREM WakeupSafe == Spec => []NoStaleWakeup
<1>1. IInv => NoStaleWakeup
  BY DEF IInv, WakeInv, NoStaleWakeup
<1>2. QED
  BY <1>1, Invariance, PTL

(* What RecordAudioFile returns is the result of its own file              *)
(* (channels.cpp:290-296).                                                 *)
THEOREM ResultSafe == Spec => []ResultOfThisFile
<1>1. IInv => ResultOfThisFile
  BY DEF IInv, WakeInv, ResultOfThisFile
<1>2. QED
  BY <1>1, Invariance, PTL

(* A recording never holds more than the length asked for, whatever the    *)
(* sizes of the frames, as long as they are whole milliseconds and the     *)
(* length fits an int (channels.cpp:321-331).                              *)
THEOREM LengthSafe == Spec => []MaxMillisHonoured
<1>1. IInv => MaxMillisHonoured
  <2> SUFFICES ASSUME IInv, InRange PROVE written <= max * BytesPerMilli
    BY DEF MaxMillisHonoured
  <2>1. /\ recordmillisec \in 0..(WordSize - 1) /\ max \in Millis \cup {0} /\ written \in Nat
    BY DEF IInv, TypeOK
  <2>2. recordmillisec \in Nat /\ max \in Nat
    BY <2>1, SizesAssumption
  <2>3. recordmillisec * BytesPerMilli \in Nat /\ max * BytesPerMilli \in Nat
    BY <2>2, SizesAssumption, Product
  <2>4. written + recordmillisec * BytesPerMilli <= max * BytesPerMilli
    BY DEF IInv, LengthInv
  <2> DEFINE left == recordmillisec * BytesPerMilli
             most == max * BytesPerMilli
  <2> HIDE DEF left, most
  <2>5. written + left <= most /\ left \in Nat /\ most \in Nat
    BY <2>3, <2>4 DEF left, most
  <2>6. written <= most
    BY <2>1, <2>5
  <2>7. QED
    BY <2>6 DEF most
<1>2. QED
  BY <1>1, Invariance, PTL

(* The silence counters are bounded (state.h:110-117).                     *)
THEOREM CountersSafe == Spec => []CountersBounded
<1>1. IInv => CountersBounded
  BY DEF IInv
<1>2. QED
  BY <1>1, Invariance, PTL

-----------------------------------------------------------------------------
(* Silence, and the full length.                                           *)

(* In SIP mode neither s nor ws has a silence to find, whatever is heard.  *)
THEOREM SilenceSafe == Spec => []SipIsNeverSilent
<1>1. Init => SipIsNeverSilent
  BY DEF Init, SipIsNeverSilent
<1>2. SipIsNeverSilent /\ [Next]_vars => SipIsNeverSilent'
  <2> SUFFICES ASSUME SipIsNeverSilent, [Next]_vars PROVE SipIsNeverSilent'
    OBVIOUS
  <2> USE DEF SipIsNeverSilent, counters, callVars, SetSilenceState
  <2>1. CASE RecordOpen
    BY <2>1 DEF RecordOpen
  <2>2. ASSUME NEW s \in Calls, FrameLock(s) PROVE SipIsNeverSilent'
    BY <2>2 DEF FrameLock
  <2>3. CASE MainStep /\ ~ RecordOpen
    BY <2>3 DEF MainStep, RecordLock, RecordAppendFails, RecordLeave, RecordUnlock, RecordWait,
       RecordResult, RecordClear, RecordCheck
  <2>4. ASSUME NEW s \in Calls, PumpStep(s), ~ FrameLock(s) PROVE SipIsNeverSilent'
    BY <2>4 DEF PumpStep, FrameIgnored, FrameSilent, FrameWritten, FrameFails, StopStep,
       StopFile, StopResult, StopSignal, PumpUnlock
  <2>5. ASSUME NEW s \in Calls, Close(s) \/ OnReadTimeout(s) \/ CloseStep(s)
        PROVE  SipIsNeverSilent'
    BY <2>5 DEF Close, OnReadTimeout, CloseStep, CloseLock, StopStep, StopFile, StopResult,
       StopSignal, CloseUnlock, CloseStream, StreamClosed
  <2>6. CASE RecordRun
    BY <2>6 DEF RecordRun
  <2>7. ASSUME SignalHandler \/ \E s \in Calls : CallStep(s),
               UNCHANGED <<sync, file, request, counters, pc, frame, outcome, records>>
        PROVE  SipIsNeverSilent'
    BY <2>7 DEF SignalHandler, CallStep, OnIncomingConnection, OpenStream, OnEstablished,
       OnReleased, OnReleasedNetwork
  <2>8. CASE UNCHANGED vars
    BY <2>8 DEF vars
  <2>9. QED
    BY <2>1, <2>2, <2>3, <2>4, <2>5, <2>6, <2>7, <2>8 DEF Next
<1>3. QED
  BY <1>1, <1>2, PTL DEF Spec

(* Nothing is lost between two frames: what has been written and what is   *)
(* left make up the length that was asked for.                             *)
ExactInv ==
  recfile = "open" /\ record /\ Countable =>
    written + recordmillisec * BytesPerMilli = max * BytesPerMilli

(* What the frame of call s writes, and that it is all when it is the last.*)
LEMMA FrameExact ==
  ASSUME IInv, ExactInv, NEW s \in Calls, FrameWritten(s), record, Countable
  PROVE  /\ written' + recordmillisec' * BytesPerMilli = max * BytesPerMilli
         /\ RecordBytes(s) < len[s] => written' = max * BytesPerMilli
<1> DEFINE left == recordmillisec * BytesPerMilli
           now == recordmillisec' * BytesPerMilli
           most == max * BytesPerMilli
<1>1. /\ recordmillisec \in Nat /\ len[s] \in FrameLens \cup {0} /\ len[s] \in Nat
      /\ max \in Nat /\ written \in Nat /\ WrittenCap \in Nat
  <2>1. /\ recordmillisec \in 0..(WordSize - 1) /\ len \in [Calls -> FrameLens \cup {0}]
        /\ max \in Millis \cup {0} /\ written \in Nat
    BY DEF IInv, TypeOK
  <2>2. len[s] \in FrameLens \cup {0}
    BY <2>1
  <2>3. recordmillisec \in Nat
    BY <2>1
  <2>4. len[s] \in Nat
    BY <2>2, FrameRange
  <2>5. max \in Nat
    BY <2>1, SizesAssumption
  <2>6. QED
    BY <2>1, <2>2, <2>3, <2>4, <2>5, BoundsAssumption
<1>2. recordmillisec <= max /\ 2 * max < IntSize /\ most <= WrittenCap
  BY DEF IInv, LengthInv, Countable, InRange
<1>3. now = left - RecordBytes(s)
  <2>1. len[s] % BytesPerMilli = 0
    BY <1>1, SizesAssumption DEF Countable, InRange
  <2>2. 2 * recordmillisec < IntSize
    BY <1>1, <1>2, SizesAssumption
  <2>3. QED
    BY <1>1, <2>1, <2>2, BytesExact DEF FrameWritten
<1>4. written + left = most
  BY DEF ExactInv, FrameWritten
<1>5. left \in Nat /\ most \in Nat
  BY <1>1, Product, SizesAssumption
<1>6. RecordBytes(s) \in Nat /\ now \in Nat
  <2>1. RecordBytes(s) \in Nat /\ RecordBytes(s) \div BytesPerMilli \in 0..recordmillisec
    BY <1>1, BytesBound
  <2>2. recordmillisec' \in Nat
    BY <2>1, <1>1 DEF FrameWritten
  <2>3. QED
    BY <2>1, <2>2, Product, SizesAssumption
<1>7. RecordBytes(s) < len[s] => RecordBytes(s) = left
  <2>1. left < WordSize
    <3>1. recordmillisec < IntSize
      BY <1>1, <1>2, SizesAssumption
    <3>2. left < IntSize * BytesPerMilli
      BY <3>1, <1>1, SizesAssumption, SMT
    <3>3. QED
      BY <3>2, <1>5, SizesAssumption
  <2>2. left % WordSize = left
    BY <2>1, <1>5, SizesAssumption, ModSmall
  <2>3. QED
    BY <2>2, <1>5, <1>1 DEF RecordBytes
<1>8. written' = Written(RecordBytes(s))
  BY DEF FrameWritten
<1> HIDE DEF left, now, most
<1>9. written' = written + RecordBytes(s)
  BY <1>1, <1>2, <1>3, <1>4, <1>5, <1>6, <1>8 DEF Written
<1>10. written' + now = most /\ (RecordBytes(s) < len[s] => written' = most)
  BY <1>1, <1>3, <1>4, <1>5, <1>6, <1>7, <1>9
<1>11. QED
  BY <1>10 DEF now, most

(* A recording that is ended by its length has exactly that length, for    *)
(* every word and frame size.                                              *)
THEOREM FullLengthSafe == Spec => FullLength
<1>1. Init => ExactInv
  BY DEF Init, ExactInv
<1>2. IInv /\ ExactInv /\ [Next]_vars => ExactInv'
  <2> SUFFICES ASSUME IInv, ExactInv, [Next]_vars PROVE ExactInv'
    OBVIOUS
  <2> USE DEF file, request, outcome
  <2>1. CASE RecordOpen
    <3>1. PICK millis \in Millis : recordmillisec' = ToSizeT(millis) /\ max' = millis
      BY <2>1 DEF RecordOpen
    <3>2. 2 * max' < IntSize => recordmillisec' = max' /\ max' \in Nat
      BY <3>1, SizeTRange, SizesAssumption
    <3>3. written' = 0
      BY <2>1 DEF RecordOpen
    <3>4. max' \in Nat
      BY <3>1, SizesAssumption
    <3>5. max' * BytesPerMilli \in Nat
      BY <3>4, SizesAssumption, Product
    <3>6. QED
      BY <3>2, <3>3, <3>5 DEF ExactInv, Countable, InRange
  <2>2. ASSUME NEW s \in Calls, FrameWritten(s) PROVE ExactInv'
    <3>1. UNCHANGED <<record, recfile, max>>
      BY <2>2 DEF FrameWritten
    <3>2. ASSUME record, Countable
          PROVE  written' + recordmillisec' * BytesPerMilli = max * BytesPerMilli
      BY <2>2, <3>2, FrameExact
    <3>3. QED
      BY <3>1, <3>2 DEF ExactInv, Countable, InRange
  <2>3. CASE UNCHANGED <<record, recfile, max, written, recordmillisec>>
    BY <2>3 DEF ExactInv, Countable, InRange
  <2>4. CASE RecordAppendFails
    <3>1. ~ record' /\ record' = record
      BY <2>4 DEF RecordAppendFails, IInv, WakeInv, Goto
    <3>2. QED
      BY <3>1 DEF ExactInv
  <2>5. CASE RecordClear
    BY <2>5 DEF RecordClear, ExactInv
  <2>6. ASSUME NEW c \in Contexts, StopFile(c) PROVE ExactInv'
    BY <2>6 DEF StopFile, ExactInv
  <2>7. ASSUME NEW c \in Contexts, StopResult(c) PROVE ExactInv'
    BY <2>7 DEF StopResult, ExactInv, Countable, InRange
  <2>8. CASE RecordRun \/ RecordLock \/ RecordLeave \/ RecordUnlock \/ RecordWait
             \/ RecordResult \/ RecordCheck
    BY <2>8, <2>3 DEF RecordRun, RecordLock, RecordLeave, RecordUnlock, RecordWait,
       RecordResult, RecordCheck
  <2>9. ASSUME NEW s \in Calls,
               FrameLock(s) \/ FrameIgnored(s) \/ FrameSilent(s) \/ FrameFails(s)
                 \/ PumpUnlock(s)
        PROVE  ExactInv'
    BY <2>9, <2>3 DEF FrameLock, FrameIgnored, FrameSilent, FrameFails, PumpUnlock
  <2>10. ASSUME NEW s \in Calls,
                Close(s) \/ OnReadTimeout(s) \/ CloseLock(s) \/ CloseUnlock(s)
         PROVE  ExactInv'
    BY <2>10, <2>3 DEF Close, OnReadTimeout, CloseLock, CloseUnlock
  <2>11. ASSUME NEW c \in Contexts, StopSignal(c) PROVE ExactInv'
    BY <2>11, <2>3 DEF StopSignal
  <2>12. QED
    BY <2>1, <2>2, <2>3, <2>4, <2>5, <2>6, <2>7, <2>8, <2>9, <2>10, <2>11, ContextsFact
       DEF Next, MainStep, PumpStep, CloseStep, StopStep, vars
<1>3. Spec => [](IInv /\ ExactInv)
  BY <1>1, <1>2, Invariance, PTL DEF Spec
<1>4. IInv /\ ExactInv /\ [Next]_vars =>
        [\A s \in Calls :
           FrameWritten(s) /\ pc'[<<s, "pump">>] = "stop_file" /\ record /\ Countable
             => written' = max * BytesPerMilli]_vars
  <2> SUFFICES ASSUME IInv, ExactInv, NEW s \in Calls, FrameWritten(s),
                      pc'[<<s, "pump">>] = "stop_file", record, Countable
               PROVE  written' = max * BytesPerMilli
    OBVIOUS
  <2>1. <<s, "pump">> \in Contexts /\ pc \in [Contexts -> MainLabels \cup StreamLabels]
    BY ContextsFact DEF IInv, TypeOK
  <2>2. RecordBytes(s) < len[s]
    BY <2>1 DEF FrameWritten, Goto
  <2>3. QED
    BY <2>2, FrameExact
<1>5. QED
  BY <1>3, <1>4, PTL DEF Spec, FullLength

-----------------------------------------------------------------------------
(* The refinement: the object that Main sees is a Player.                  *)

LEMMA ObjectInit == Init => Object!Init
  BY ContextsFact DEF Init, Object!Init, phaseBar

(* What a step does to the request, by where Main is and goes.             *)
LEMMA ObjectStep == IInv /\ [Next]_vars => [Object!Next]_(Object!playerVars)
<1> SUFFICES ASSUME IInv, [Next]_vars PROVE [Object!Next]_(Object!playerVars)
  OBVIOUS
<1> USE ContextsFact
     DEF IInv, TypeOK, FileInv, StopInv, WakeInv, Goto, file, request, outcome, frame,
         phaseBar, Object!playerVars
<1>1. CASE RecordRun
  BY <1>1 DEF RecordRun, Object!Next, Object!Ask
<1>2. CASE RecordLock
  BY <1>2 DEF RecordLock
<1>3. CASE RecordOpen
  BY <1>3 DEF RecordOpen, Object!Next, Object!Open
<1>4. CASE RecordAppendFails
  BY <1>4 DEF RecordAppendFails
<1>5. CASE RecordLeave
  BY <1>5 DEF RecordLeave, Object!Next, Object!Refuse
<1>6. CASE RecordUnlock
  BY <1>6 DEF RecordUnlock
<1>7. CASE RecordWait
  BY <1>7 DEF RecordWait
<1>8. CASE RecordResult
  BY <1>8 DEF RecordResult, Object!Next, Object!Answer
<1>9. CASE RecordClear
  BY <1>9 DEF RecordClear
<1>10. CASE RecordCheck
  BY <1>10 DEF RecordCheck
<1>11. ASSUME NEW s \in Calls,
              FrameLock(s) \/ FrameIgnored(s) \/ FrameSilent(s) \/ FrameWritten(s)
                \/ PumpUnlock(s)
       PROVE  UNCHANGED Object!playerVars
  BY <1>11 DEF FrameLock, FrameIgnored, FrameSilent, FrameWritten, PumpUnlock
<1>12. ASSUME NEW s \in Calls, FrameFails(s) PROVE UNCHANGED Object!playerVars
  BY <1>12 DEF FrameFails
<1>13. ASSUME NEW s \in Calls, Close(s) \/ OnReadTimeout(s) \/ CloseLock(s) \/ CloseUnlock(s)
       PROVE  UNCHANGED Object!playerVars
  BY <1>13 DEF Close, OnReadTimeout, CloseLock, CloseUnlock
<1>14. ASSUME NEW c \in Contexts, StopFile(c) PROVE [Object!Next]_(Object!playerVars)
  BY <1>14 DEF StopFile, Object!Next, Object!End
<1>15. ASSUME NEW c \in Contexts, StopResult(c) \/ StopSignal(c)
       PROVE  UNCHANGED Object!playerVars
  BY <1>15 DEF StopResult, StopSignal
<1>16. CASE UNCHANGED <<sync, file, request, counters, pc, frame, outcome, records>>
  BY <1>16
<1>17. QED
  BY <1>1, <1>2, <1>3, <1>4, <1>5, <1>6, <1>7, <1>8, <1>9, <1>10, <1>11, <1>12, <1>13, <1>14,
     <1>15, <1>16
     DEF Next, MainStep, PumpStep, CloseStep, StopStep, vars

(* Every Record command is answered with the outcome of its own file, for  *)
(* every set of calls, in SIP and in RTP mode.                             *)
THEOREM PlayerImplemented == Spec => ImplementsPlayer
  BY ObjectInit, ObjectStep, Invariance, PTL DEF Spec, ImplementsPlayer, Object!Spec
=============================================================================
