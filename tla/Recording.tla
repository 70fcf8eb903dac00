------------------------------ MODULE Recording ------------------------------
(***************************************************************************)
(* The recording half of TestChanAudio (src/channels.cpp) and the silence  *)
(* counters of TPState that it feeds: Main, which runs Record commands and *)
(* sleeps until the recording ends, and the threads that deliver media.    *)
(*                                                                         *)
(*  - The pump of a call passes each received frame to RecordFromBuffer,   *)
(*    from TestChannel::Write or, in RTP mode, RTPSession::OnReceiveData.  *)
(*  - The closer ends the recording when the stream of the call is closed  *)
(*    or, in RTP mode, when a read from the session times out.             *)
(*                                                                         *)
(* Sizes are bytes.  recordmillisec is a size_t and the command's millis   *)
(* an int; WordSize and IntSize are the numbers of their values.  playfile *)
(* of the object that records is always NULL.                              *)
(***************************************************************************)
EXTENDS OpalCalls

CONSTANTS
  Main,           \* the thread of TestProcess::Main
  Records,        \* bound: the number of Record commands
  Millis,         \* the lengths a Record command may ask for (values of %u)
  FrameLens,      \* the sizes of the frames that arrive
  BytesPerMilli,  \* BYTES_PER_MILLIS
  SilenceBytes,   \* RECORD_SILENCE_TIME_IN_MS * BYTES_PER_MILLIS
  MaxDetection,   \* MAX_SILENCE_DETECTION and MAX_ACTIVITY_DETECTION
  WordSize,       \* the number of values of a size_t
  IntSize,        \* the number of values of an int
  WrittenCap      \* bound: written is not counted beyond this

Contexts == {Main} \cup (Calls \X {"pump", "close"})

ASSUME ContextsAssumption == Main \notin Calls \X {"pump", "close"}
ASSUME BoundsAssumption == Records \in Nat /\ WrittenCap \in Nat
ASSUME SizesAssumption ==
  /\ BytesPerMilli \in Nat \ {0} /\ SilenceBytes \in Nat /\ MaxDetection \in Nat \ {0}
  /\ IntSize \in Nat \ {0} /\ WordSize \in Nat \ {0}
  /\ FrameLens \subseteq Nat \ {0} /\ Millis \subseteq 0..(IntSize - 1)
  /\ IntSize * BytesPerMilli <= WordSize

VARIABLES
  sync,           \* TestChanAudio::sync, the semaphore's count
  recsync,        \* TestChanAudio::recsync: signalled and not yet consumed
  recfile,        \* TestChanAudio::recfile: "NULL" or "open"
  record,         \* TestChanAudio::record
  stop_recording_when_silent, recordmillisec,
  silence,        \* TPState::silence
  activity,       \* TPState::activity
  pc,             \* where each context is
  len,            \* the size of the frame a pump is delivering
  ioerror,        \* the argument of the StopAudioRecording a context runs
  result,         \* what the last RecordAudioFile returned
  max,            \* history: the length asked for by the last Record command
  written,        \* history: the bytes written since the file was opened
  failed,         \* history: a write to the file opened last has failed
  records         \* Record commands that may still be run

file == <<recfile, record, recsync>>
request == <<stop_recording_when_silent, recordmillisec, max>>
counters == <<silence, activity>>
frame == <<len, ioerror>>
outcome == <<result, written, failed>>
vars == <<sync, file, request, counters, pc, frame, outcome, records, callVars>>

Init ==
  /\ sync = 1 /\ recsync = FALSE /\ recfile = "NULL" /\ record = FALSE
  /\ stop_recording_when_silent = FALSE /\ recordmillisec = 0
  /\ silence = 0 /\ activity = 0
  /\ pc = [c \in Contexts |-> "idle"]
  /\ len = [s \in Calls |-> 0]
  /\ ioerror = [c \in Contexts |-> FALSE]
  /\ result = TRUE /\ max = 0 /\ written = 0 /\ failed = FALSE
  /\ records = Records
  /\ CallsInit

Goto(c, from, to) == pc[c] = from /\ pc' = [pc EXCEPT ![c] = to]

(* PSemaphore::Wait and PSemaphore::Signal on sync. *)
Wait == sync > 0 /\ sync' = sync - 1
Signal == sync' = sync + 1

-----------------------------------------------------------------------------
(* SetSilenceState(is_silent, buflen), IsSilent and IsActive               *)


Add(n, buflen) == IF n < MaxDetection THEN n + buflen ELSE n

SetSilenceState(is_silent, buflen) ==
  IF state = "CONNECTING" THEN silence' = 0 /\ activity' = 0
  ELSE IF ~ is_silent THEN silence' = 0 /\ activity' = Add(activity, buflen)
  ELSE activity' = 0 /\ silence' = Add(silence, buflen)

IsSilent(buflen) == silence >= (IF buflen > MaxDetection THEN MaxDetection ELSE buflen)

(* int to size_t: a millis of 2^31 or more is negative, and sign-extended. *)
ToSizeT(millis) ==
  IF 2 * millis < IntSize THEN millis ELSE WordSize - (IntSize - millis)

-----------------------------------------------------------------------------
(* Main: Record::RunCommand and RecordAudioFile                            *)

RecordRun ==
  /\ records > 0 /\ records' = records - 1
  /\ Goto(Main, "idle", "rec_lock")
  /\ UNCHANGED <<sync, file, request, counters, frame, outcome, callVars>>

RecordLock ==
  /\ Goto(Main, "rec_lock", "rec_open") /\ Wait
  /\ UNCHANGED <<file, request, counters, frame, outcome, records, callVars>>

(* assert(!recfile) ends the program when it fails.                        *)
RecordOpen ==
  /\ recfile = "NULL"
  /\ Goto(Main, "rec_open", "rec_unlock")
  /\ recfile' = "open" /\ record' = TRUE
  /\ SetSilenceState(FALSE, 0)
  /\ stop_recording_when_silent' \in BOOLEAN
  /\ \E millis \in Millis : recordmillisec' = ToSizeT(millis) /\ max' = millis
  /\ written' = 0 /\ failed' = FALSE
  /\ UNCHANGED <<sync, recsync, frame, result, records, callVars>>

(* Seeking to the end of the file fails: the file stays open.              *)
RecordAppendFails ==
  /\ recfile = "NULL"
  /\ Goto(Main, "rec_open", "rec_leave")
  /\ recfile' = "open"
  /\ UNCHANGED <<sync, record, recsync, request, counters, frame, outcome, records, callVars>>

RecordLeave ==
  /\ Goto(Main, "rec_leave", "record_check") /\ Signal
  /\ result' = FALSE
  /\ UNCHANGED <<file, request, counters, frame, written, failed, records, callVars>>

RecordUnlock ==
  /\ Goto(Main, "rec_unlock", "rec_wait") /\ Signal
  /\ UNCHANGED <<file, request, counters, frame, outcome, records, callVars>>

RecordWait ==
  /\ Goto(Main, "rec_wait", "rec_result")
  /\ recsync /\ recsync' = FALSE
  /\ UNCHANGED <<sync, recfile, record, request, counters, frame, outcome, records, callVars>>

RecordResult ==
  /\ Goto(Main, "rec_result", "rec_clear")
  /\ result' = record
  /\ UNCHANGED <<sync, file, request, counters, frame, written, failed, records, callVars>>

RecordClear ==
  /\ Goto(Main, "rec_clear", "record_check")
  /\ record' = FALSE
  /\ UNCHANGED <<sync, recfile, recsync, request, counters, frame, outcome, records, callVars>>

RecordCheck_Continue ==           \* fault: a command that fails does not end the program
  /\ Goto(Main, "record_check", "idle")
  /\ UNCHANGED <<sync, file, request, counters, frame, outcome, records, callVars>>

(* A command that fails ends the program's command sequence.               *)
RecordCheck ==
  /\ Goto(Main, "record_check", "idle")
  /\ records' = IF state = "TERMINATED" \/ ~ result THEN 0 ELSE records
  /\ UNCHANGED <<sync, file, request, counters, frame, outcome, callVars>>

-----------------------------------------------------------------------------
(* The pump of call s: RecordFromBuffer(buf, len, currently_silent).  SIP  *)
(* passes FALSE, the RTP session passes TRUE.                              *)

FrameLock(s) ==
  /\ Pumped(s)
  /\ Goto(<<s, "pump">>, "idle", "frame") /\ Wait
  /\ \E n \in FrameLens : len' = [len EXCEPT ![s] = n] /\ SetSilenceState(rawRtp, n)
  /\ UNCHANGED <<file, request, ioerror, outcome, records, callVars>>

FrameIgnored(s) ==
  /\ Goto(<<s, "pump">>, "frame", "unlock")
  /\ recfile = "NULL"
  /\ UNCHANGED <<sync, file, request, counters, frame, outcome, records, callVars>>

StopForSilence == ~ stop_recording_when_silent /\ IsSilent(SilenceBytes)

FrameSilent(s) ==
  /\ Goto(<<s, "pump">>, "frame", "stop_file")
  /\ recfile = "open" /\ StopForSilence
  /\ ioerror' = [ioerror EXCEPT ![<<s, "pump">>] = FALSE]
  /\ UNCHANGED <<sync, file, request, counters, len, outcome, records, callVars>>

(* The bytes to write: what is left of the recording, or the whole frame.  *)
RecordBytes(s) ==
  LET recordbytes == (recordmillisec * BytesPerMilli) % WordSize
  IN  IF recordbytes > len[s] THEN len[s] ELSE recordbytes

Written(n) == IF written + n > WrittenCap THEN WrittenCap ELSE written + n

FrameWritten_Forever(s) ==        \* fault: recordmillisec is not counted down
  /\ Goto(<<s, "pump">>, "frame", IF RecordBytes(s) < len[s] THEN "stop_file" ELSE "unlock")
  /\ recfile = "open" /\ ~ StopForSilence
  /\ written' = Written(RecordBytes(s))
  /\ ioerror' = [ioerror EXCEPT ![<<s, "pump">>] = FALSE]
  /\ UNCHANGED <<sync, file, request, counters, len, result, failed, records, callVars>>

FrameWritten_Ahead(s) ==          \* fault: a frame counts for a millisecond too much
  /\ Goto(<<s, "pump">>, "frame", IF RecordBytes(s) < len[s] THEN "stop_file" ELSE "unlock")
  /\ recfile = "open" /\ ~ StopForSilence
  /\ written' = Written(RecordBytes(s))
  /\ recordmillisec' =
       LET left == recordmillisec - RecordBytes(s) \div BytesPerMilli
       IN  IF left > 0 THEN left - 1 ELSE 0
  /\ ioerror' = [ioerror EXCEPT ![<<s, "pump">>] = FALSE]
  /\ UNCHANGED <<sync, file, stop_recording_when_silent, max, counters, len, result, failed,
                 records, callVars>>

FrameWritten(s) ==
  /\ Goto(<<s, "pump">>, "frame", IF RecordBytes(s) < len[s] THEN "stop_file" ELSE "unlock")
  /\ recfile = "open" /\ ~ StopForSilence
  /\ written' = Written(RecordBytes(s))
  /\ recordmillisec' = recordmillisec - RecordBytes(s) \div BytesPerMilli
  /\ ioerror' = [ioerror EXCEPT ![<<s, "pump">>] = FALSE]
  /\ UNCHANGED <<sync, file, stop_recording_when_silent, max, counters, len, result, failed,
                 records, callVars>>

FrameFails(s) ==
  /\ Goto(<<s, "pump">>, "frame", "stop_file")
  /\ recfile = "open" /\ ~ StopForSilence
  /\ ioerror' = [ioerror EXCEPT ![<<s, "pump">>] = TRUE]
  /\ failed' = TRUE
  /\ UNCHANGED <<sync, file, request, counters, len, result, written, records, callVars>>

-----------------------------------------------------------------------------
(* The closer of call s: CloseChannel, or OnReadTimeout in RTP mode        *)

Close(s) ==
  /\ CloseStream(s)
  /\ Goto(<<s, "close">>, "idle", "close_lock")
  /\ UNCHANGED <<sync, file, request, counters, frame, outcome, records>>

OnReadTimeout(s) ==
  /\ rawRtp /\ Goto(<<s, "close">>, "idle", "close_lock")
  /\ UNCHANGED <<sync, file, request, counters, frame, outcome, records, callVars>>

CloseLock(s) ==
  /\ Goto(<<s, "close">>, "close_lock", "stop_file") /\ Wait
  /\ UNCHANGED <<file, request, counters, frame, outcome, records, callVars>>

-----------------------------------------------------------------------------
(* StopAudioRecording(ioerror), with sync held, and the release of sync    *)

StopFile_Always(c) ==             \* fault: the test for an open file is missing
  /\ Goto(c, "stop_file", "stop_result")
  /\ recfile' = "NULL"
  /\ UNCHANGED <<sync, recsync, record, request, counters, frame, outcome, records, callVars>>

StopFile(c) ==
  /\ Goto(c, "stop_file", IF recfile = "NULL" THEN "unlock" ELSE "stop_result")
  /\ recfile' = "NULL"
  /\ UNCHANGED <<sync, recsync, record, request, counters, frame, outcome, records, callVars>>

StopResult_Dropped(c) ==          \* fault: the result is not stored
  /\ Goto(c, "stop_result", IF record THEN "stop_signal" ELSE "unlock")
  /\ UNCHANGED <<sync, file, request, counters, frame, outcome, records, callVars>>

StopResult(c) ==
  /\ Goto(c, "stop_result", IF record THEN "stop_signal" ELSE "unlock")
  /\ record' = (record /\ ~ ioerror[c])
  /\ UNCHANGED <<sync, recfile, recsync, request, counters, frame, outcome, records, callVars>>

StopSignal(c) ==
  /\ Goto(c, "stop_signal", "unlock")
  /\ recsync' = TRUE
  /\ UNCHANGED <<sync, recfile, record, request, counters, frame, outcome, records, callVars>>

PumpUnlock_Twice(s) ==            \* fault: the semaphore is signalled twice
  /\ Goto(<<s, "pump">>, "unlock", "idle") /\ sync' = sync + 2
  /\ UNCHANGED <<file, request, counters, frame, outcome, records, callVars>>

PumpUnlock(s) ==
  /\ Goto(<<s, "pump">>, "unlock", "idle") /\ Signal
  /\ UNCHANGED <<file, request, counters, frame, outcome, records, callVars>>

(* In RTP mode the closer is the read timeout, which may come again.       *)
CloseUnlock(s) ==
  /\ Goto(<<s, "close">>, "unlock", IF rawRtp THEN "idle" ELSE "closed") /\ Signal
  /\ IF rawRtp THEN UNCHANGED callVars ELSE StreamClosed(s)
  /\ UNCHANGED <<file, request, counters, frame, outcome, records>>

-----------------------------------------------------------------------------
MainStep ==
  \/ RecordLock \/ RecordOpen \/ RecordAppendFails \/ RecordLeave \/ RecordUnlock
  \/ RecordWait \/ RecordResult \/ RecordClear \/ RecordCheck

StopStep(c) == StopFile(c) \/ StopResult(c) \/ StopSignal(c)

PumpStep(s) ==
  \/ FrameLock(s) \/ FrameIgnored(s) \/ FrameSilent(s) \/ FrameWritten(s) \/ FrameFails(s)
  \/ StopStep(<<s, "pump">>) \/ PumpUnlock(s)

CloseStep(s) == CloseLock(s) \/ StopStep(<<s, "close">>) \/ CloseUnlock(s)

Next ==
  \/ RecordRun \/ MainStep
  \/ \E s \in Calls : PumpStep(s) \/ Close(s) \/ OnReadTimeout(s) \/ CloseStep(s)
  \/ /\ SignalHandler \/ \E s \in Calls : CallStep(s)
     /\ UNCHANGED <<sync, file, request, counters, pc, frame, outcome, records>>

(* A thread inside the object is scheduled, and frames keep arriving while *)
(* a stream is open.  sync is free between two frames (writeDelay, or the  *)
(* wait for a packet), so whoever waits for it gets it.                    *)
Fairness ==
  /\ WF_vars(MainStep) /\ SF_vars(RecordLock)
  /\ \A s \in Calls :
       WF_vars(PumpStep(s)) /\ SF_vars(FrameLock(s))
         /\ WF_vars(CloseStep(s)) /\ SF_vars(CloseLock(s))

Spec == Init /\ [][Next]_vars
FairSpec == Spec /\ Fairness

-----------------------------------------------------------------------------
(* Properties *)

MainLabels ==
  {"idle", "rec_lock", "rec_open", "rec_leave", "rec_unlock", "rec_wait", "rec_result",
   "rec_clear", "record_check"}
StreamLabels ==
  {"idle", "frame", "close_lock", "stop_file", "stop_result", "stop_signal", "unlock", "closed"}

(* Every variable holds a value of the type its declaration gives it.      *)
TypeOK ==
  /\ sync \in {0, 1} /\ recsync \in BOOLEAN
  /\ recfile \in {"NULL", "open"} /\ record \in BOOLEAN
  /\ stop_recording_when_silent \in BOOLEAN
  /\ recordmillisec \in 0..(WordSize - 1) /\ max \in Millis \cup {0}
  /\ silence \in Nat /\ activity \in Nat
  /\ pc \in [Contexts -> MainLabels \cup StreamLabels]
  /\ pc[Main] \in MainLabels
  /\ \A c \in Contexts \ {Main} : pc[c] \in StreamLabels
  /\ len \in [Calls -> FrameLens \cup {0}] /\ ioerror \in [Contexts -> BOOLEAN]
  /\ result \in BOOLEAN /\ written \in Nat /\ failed \in BOOLEAN
  /\ records \in Nat /\ CallsTypeOK

(* assert(!recfile) never fails, although an append that fails leaves the  *)
(* file open (channels.cpp:252, 270-279).                                  *)
AssertHolds == pc[Main] = "rec_open" => recfile = "NULL"

(* recsync is only ever pending for the recording Main is waiting for, and *)
(* then its file is closed (channels.cpp:287-296, 102-116).                *)
NoStaleWakeup == recsync => pc[Main] = "rec_wait" /\ recfile = "NULL"

(* The answer Main reads without sync is the one for its own file: FALSE   *)
(* exactly when a write to that file failed (channels.cpp:290-296).        *)
ResultOfThisFile == pc[Main] = "rec_result" => record = ~ failed

(* The object seen from Main: a request is being asked until its file is   *)
(* open, and has ended when the file is closed.                            *)
phaseBar ==
  IF pc[Main] \in {"rec_lock", "rec_open", "rec_leave"} THEN "asked"
  ELSE IF pc[Main] \notin {"rec_unlock", "rec_wait", "rec_result"} THEN "idle"
  ELSE IF recfile = "NULL" THEN "ended" ELSE "open"

Object == INSTANCE Player WITH
  phase <- phaseBar, answer <- result, outcome <- (phaseBar = "ended" => ~ failed)

(* Every Record command is answered with the outcome of its own file,      *)
(* after that file was ended, once, by whichever thread (channels.cpp:     *)
(* 102-116, 203-296).                                                      *)
ImplementsPlayer == Object!Spec

(* The maximum is one: a recording never holds more than the milliseconds  *)
(* that were asked for.  (For a length that fits an int and frames of      *)
(* whole milliseconds; README.md says what happens to others.)             *)
InRange == 2 * max < IntSize /\ \A n \in FrameLens : n % BytesPerMilli = 0

MaxMillisHonoured == InRange => written <= max * BytesPerMilli

(* A recording that a frame ends without silence or an error is complete   *)
(* (as far as written is counted; channels.cpp:314-331).                   *)
Countable == InRange /\ max * BytesPerMilli <= WrittenCap

FullLength ==
  [][\A s \in Calls :
       FrameWritten(s) /\ pc'[<<s, "pump">>] = "stop_file" /\ record /\ Countable
         => written' = max * BytesPerMilli]_vars

(* Neither counter runs past its maximum by more than a frame, however     *)
(* long the silence or the activity lasts (state.h:110-117).               *)
CountersBounded ==
  \A n \in {silence, activity} : n < MaxDetection \/ \E l \in FrameLens : n - l < MaxDetection

(* The option s of Record and Wait has nothing to work on in SIP mode:     *)
(* TestChannel::Write tells TPState of each frame that it is not silent    *)
(* (channels.cpp:361), so no recording ends for silence.                   *)
SipIsNeverSilent == ~ rawRtp => silence = 0

(* A recording that media still reaches comes to its end.                  *)
RecordingEnds ==
  (pc[Main] = "rec_wait" /\ \E s \in Calls : call[s] = "open") ~> pc[Main] = "record_check"

(* A recording "until silent" stops when it is silent, and writes no more  *)
(* (README.md:124, commands.cpp:376-378).                                  *)
SilenceFlagHonoured ==
  [][\A s \in Calls :
       FrameWritten(s) => ~ (stop_recording_when_silent /\ IsSilent(SilenceBytes))]_vars
=============================================================================
