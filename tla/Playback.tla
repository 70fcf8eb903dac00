------------------------------ MODULE Playback ------------------------------
(***************************************************************************)
(* The playback half of TestChanAudio (src/channels.cpp): the handshake    *)
(* between Main, which runs Voice commands and sleeps until its file has   *)
(* been sent, and the OPAL threads of the calls.                           *)
(*                                                                         *)
(*  - The pump of a call's source stream takes a frame of the file at a    *)
(*    time (TestChannel::Read, FillPlaybackBuffer) and stops the playback  *)
(*    when the file ends or cannot be read.                                *)
(*  - The closer of that stream stops the playback when OPAL closes it     *)
(*    (TestChannel::Close, CloseChannel).                                  *)
(*                                                                         *)
(* All calls share one TestChanAudio.  sync guards the file; playsync, a   *)
(* latched event, wakes Main, which then uses the flag playback without    *)
(* sync.  recfile of the object that plays is always NULL, so the          *)
(* StopAudioRecording of CloseChannel does nothing here.                   *)
(***************************************************************************)
EXTENDS OpalCalls

CONSTANTS
  Main,        \* the thread of TestProcess::Main
  NULL,        \* no file
  Plays,       \* bound: the number of Voice commands
  MaxFrames    \* bound: the full frames in a file

Contexts == {Main} \cup (Calls \X {"pump", "close"})

ASSUME ContextsAssumption == Main \notin Calls \X {"pump", "close"}
ASSUME BoundsAssumption == Plays \in Nat /\ MaxFrames \in Nat /\ NULL \notin Nat

VARIABLES
  sync,       \* TestChanAudio::sync, the semaphore's count
  playsync,   \* TestChanAudio::playsync: signalled and not yet consumed
  playfile,   \* TestChanAudio::playfile: NULL, or the full frames left in it
  playback,   \* TestChanAudio::playback
  pc,         \* where each context is
  ioerror,    \* the argument of the StopAudioPlayback a context runs
  result,     \* what the last PlaybackAudioFile returned
  failed,     \* history: a read of the file opened last has failed
  plays       \* Voice commands that may still be run

audio == <<sync, playsync, playfile, playback>>
rest == <<ioerror, result, failed, plays>>
vars == <<audio, pc, rest, callVars>>

Init ==
  /\ sync = 1 /\ playsync = FALSE /\ playfile = NULL /\ playback = FALSE
  /\ pc = [c \in Contexts |-> "idle"]
  /\ ioerror = [c \in Contexts |-> FALSE]
  /\ result = TRUE /\ failed = FALSE
  /\ plays = Plays
  /\ CallsInit

Goto(c, from, to) == pc[c] = from /\ pc' = [pc EXCEPT ![c] = to]

(* PSemaphore::Wait and PSemaphore::Signal on sync. *)
Wait == sync > 0 /\ sync' = sync - 1
Signal == sync' = sync + 1

-----------------------------------------------------------------------------
(* Main: Voice::RunCommand, PlaybackAudioFile and PlaybackAudio            *)

VoiceRun ==
  /\ plays > 0 /\ plays' = plays - 1
  /\ Goto(Main, "idle", "play_lock")
  /\ UNCHANGED <<audio, ioerror, result, failed, callVars>>

PlayLock ==
  /\ Goto(Main, "play_lock", "play_check") /\ Wait
  /\ UNCHANGED <<playsync, playfile, playback, rest, callVars>>

PlayCheck ==
  /\ Goto(Main, "play_check", IF state = "ESTABLISHED" THEN "play_open" ELSE "play_leave")
  /\ UNCHANGED <<audio, rest, callVars>>

PlayLeave ==
  /\ Goto(Main, "play_leave", "voice_check") /\ Signal
  /\ result' = TRUE
  /\ UNCHANGED <<playsync, playfile, playback, ioerror, failed, plays, callVars>>

(* assert(!playfile) ends the program when it fails.                       *)
PlayOpen ==
  /\ playfile = NULL
  /\ Goto(Main, "play_open", IF rawRtp THEN "rtp_write" ELSE "play_unlock")
  /\ playfile' \in 0..MaxFrames
  /\ playback' = TRUE /\ failed' = FALSE
  /\ UNCHANGED <<sync, playsync, ioerror, result, plays, callVars>>

PlayUnlock ==
  /\ Goto(Main, "play_unlock", "play_wait") /\ Signal
  /\ UNCHANGED <<playsync, playfile, playback, rest, callVars>>

PlayWait ==
  /\ Goto(Main, "play_wait", "play_result")
  /\ playsync /\ playsync' = FALSE
  /\ UNCHANGED <<sync, playfile, playback, rest, callVars>>

PlayResult ==
  /\ Goto(Main, "play_result", "play_clear")
  /\ result' = playback
  /\ UNCHANGED <<audio, ioerror, failed, plays, callVars>>

PlayClear ==
  /\ Goto(Main, "play_clear", "voice_check")
  /\ playback' = FALSE
  /\ UNCHANGED <<sync, playsync, playfile, rest, callVars>>

(* A frame is read and written to the RTP session.                         *)
RtpWrite ==
  /\ Goto(Main, "rtp_write", "rtp_write")
  /\ playfile > 0 /\ playfile' = playfile - 1
  /\ UNCHANGED <<sync, playsync, playback, rest, callVars>>

(* The file ends or fails, or a frame is read and cannot be written.       *)
RtpBreak ==
  /\ Goto(Main, "rtp_write", "rtp_done")
  /\ playfile' \in {f \in {playfile, playfile - 1} : f \in Nat}
  /\ UNCHANGED <<sync, playsync, playback, rest, callVars>>

RtpDone_Signals ==                \* fault: sync is given back, and the file is left open
  /\ Goto(Main, "rtp_done", "voice_check") /\ Signal
  /\ playback' = FALSE /\ result' = TRUE
  /\ UNCHANGED <<playsync, playfile, ioerror, failed, plays, callVars>>

(* Neither the file is closed nor sync given back.                         *)
RtpDone ==
  /\ Goto(Main, "rtp_done", "voice_check")
  /\ playback' = FALSE /\ result' = TRUE
  /\ UNCHANGED <<sync, playsync, playfile, ioerror, failed, plays, callVars>>

(* A command that fails ends the program's command sequence.               *)
VoiceCheck ==
  /\ Goto(Main, "voice_check", "idle")
  /\ plays' = IF state = "TERMINATED" \/ ~ result THEN 0 ELSE plays
  /\ UNCHANGED <<audio, ioerror, result, failed, callVars>>

-----------------------------------------------------------------------------
(* The pump of call s: FillPlaybackBuffer.  In RTP mode Main writes the    *)
(* frames itself, and nothing is pumped.                                   *)

FillLock_NoLock(s) ==             \* fault: the AutoSync is missing
  /\ Pumped(s) /\ ~ rawRtp
  /\ Goto(<<s, "pump">>, "idle", "fill_read")
  /\ UNCHANGED <<audio, rest, callVars>>

FillLock(s) ==
  /\ Pumped(s) /\ ~ rawRtp
  /\ Goto(<<s, "pump">>, "idle", "fill_read") /\ Wait
  /\ UNCHANGED <<playsync, playfile, playback, rest, callVars>>

FillSilence(s) ==
  /\ playfile = NULL
  /\ Goto(<<s, "pump">>, "fill_read", "unlock")
  /\ UNCHANGED <<audio, rest, callVars>>

FillFrame(s) ==
  /\ Goto(<<s, "pump">>, "fill_read", "unlock")
  /\ playfile # NULL /\ playfile > 0 /\ playfile' = playfile - 1
  /\ UNCHANGED <<sync, playsync, playback, rest, callVars>>

(* A short read at the end of the file, or a read that fails.              *)
FillShort(s, err) ==
  /\ playfile # NULL /\ (err \/ playfile = 0)
  /\ Goto(<<s, "pump">>, "fill_read", "stop_file")
  /\ ioerror' = [ioerror EXCEPT ![<<s, "pump">>] = err]
  /\ failed' = err
  /\ UNCHANGED <<audio, result, plays, callVars>>

-----------------------------------------------------------------------------
(* The closer of call s: TestChannel::Close and CloseChannel               *)

Close(s) ==
  /\ CloseStream(s)
  /\ Goto(<<s, "close">>, "idle", "close_lock")
  /\ UNCHANGED <<audio, rest>>

CloseLock(s) ==
  /\ Goto(<<s, "close">>, "close_lock", "stop_file") /\ Wait
  /\ UNCHANGED <<playsync, playfile, playback, rest, callVars>>

-----------------------------------------------------------------------------
(* StopAudioPlayback(ioerror), with sync held, and the release of sync     *)

StopFile_Always(c) ==             \* fault: the test for an open file is missing
  /\ Goto(c, "stop_file", "stop_result")
  /\ playfile' = NULL
  /\ UNCHANGED <<sync, playsync, playback, rest, callVars>>

StopFile(c) ==
  /\ Goto(c, "stop_file", IF playfile = NULL THEN "unlock" ELSE "stop_result")
  /\ playfile' = NULL
  /\ UNCHANGED <<sync, playsync, playback, rest, callVars>>

StopResult_Dropped(c) ==          \* fault: the result is not stored
  /\ Goto(c, "stop_result", IF playback THEN "stop_signal" ELSE "unlock")
  /\ UNCHANGED <<audio, rest, callVars>>

StopResult(c) ==
  /\ Goto(c, "stop_result", IF playback THEN "stop_signal" ELSE "unlock")
  /\ playback' = (playback /\ ~ ioerror[c])
  /\ UNCHANGED <<sync, playsync, playfile, rest, callVars>>

StopSignal_Lost(c) ==             \* fault: Main is not woken
  /\ Goto(c, "stop_signal", "unlock")
  /\ UNCHANGED <<audio, rest, callVars>>

StopSignal(c) ==
  /\ Goto(c, "stop_signal", "unlock")
  /\ playsync' = TRUE
  /\ UNCHANGED <<sync, playfile, playback, rest, callVars>>

PumpUnlock(s) ==
  /\ Goto(<<s, "pump">>, "unlock", "idle") /\ Signal
  /\ UNCHANGED <<playsync, playfile, playback, rest, callVars>>

CloseUnlock(s) ==
  /\ Goto(<<s, "close">>, "unlock", "closed") /\ Signal
  /\ StreamClosed(s)
  /\ UNCHANGED <<playsync, playfile, playback, rest>>

-----------------------------------------------------------------------------
MainStep ==
  \/ PlayLock \/ PlayCheck \/ PlayLeave \/ PlayOpen \/ PlayUnlock
  \/ PlayWait \/ PlayResult \/ PlayClear
  \/ RtpWrite \/ RtpBreak \/ RtpDone \/ VoiceCheck

StopStep(c) == StopFile(c) \/ StopResult(c) \/ StopSignal(c)

PumpStep(s) ==
  \/ FillLock(s) \/ FillSilence(s) \/ FillFrame(s)
  \/ \E err \in BOOLEAN : FillShort(s, err)
  \/ StopStep(<<s, "pump">>) \/ PumpUnlock(s)

CloseStep(s) == CloseLock(s) \/ StopStep(<<s, "close">>) \/ CloseUnlock(s)

Next ==
  \/ VoiceRun \/ MainStep
  \/ \E s \in Calls : PumpStep(s) \/ Close(s) \/ CloseStep(s)
  \/ (\E s \in Calls : CallStep(s)) /\ UNCHANGED <<audio, pc, rest>>
  \/ SignalHandler /\ UNCHANGED <<audio, pc, rest>>

(* A thread inside the object is scheduled, and an open stream is pumped.  *)
(* sync is free while the pumps sleep between two frames (readDelay), so   *)
(* whoever waits for it gets it.  Nothing obliges a call to come or to end.*)
Fairness ==
  /\ WF_vars(MainStep) /\ SF_vars(PlayLock)
  /\ \A s \in Calls :
       WF_vars(PumpStep(s)) /\ SF_vars(FillLock(s))
         /\ WF_vars(CloseStep(s)) /\ SF_vars(CloseLock(s))

Spec == Init /\ [][Next]_vars
FairSpec == Spec /\ Fairness

-----------------------------------------------------------------------------
(* Properties *)

MainLabels ==
  {"idle", "play_lock", "play_check", "play_leave", "play_open", "play_unlock", "play_wait",
   "play_result", "play_clear", "rtp_write", "rtp_done", "voice_check"}
StreamLabels ==
  {"idle", "fill_read", "close_lock", "stop_file", "stop_result", "stop_signal", "unlock",
   "closed"}

(* Every variable holds a value of the type its declaration gives it.      *)
TypeOK ==
  /\ sync \in {0, 1} /\ playsync \in BOOLEAN
  /\ playfile \in Nat \cup {NULL} /\ playback \in BOOLEAN
  /\ pc \in [Contexts -> MainLabels \cup StreamLabels]
  /\ pc[Main] \in MainLabels
  /\ \A c \in Contexts \ {Main} : pc[c] \in StreamLabels
  /\ ioerror \in [Contexts -> BOOLEAN] /\ result \in BOOLEAN /\ failed \in BOOLEAN
  /\ plays \in Nat /\ CallsTypeOK

(* assert(!playfile) never fails, whatever pumps and closers do: a Voice   *)
(* command that has got sync finds no file open (channels.cpp:155).  In    *)
(* SIP mode this is so because Voice only returns when its file is closed. *)
(* In RTP mode every Voice that plays returns with its file open           *)
(* (channels.cpp:77-82), and the assert is safe only because it returns    *)
(* with sync taken too: a file is left open exactly if sync was not given  *)
(* back, and then the next Voice never gets to the assert.                 *)
AssertHolds ==
  /\ pc[Main] \in {"play_check", "play_leave", "play_open"} => playfile = NULL
  /\ pc[Main] \in {"voice_check", "idle", "play_lock"} =>
       IF rawRtp THEN playfile # NULL <=> sync = 0 ELSE playfile = NULL

(* No stale wakeup: playsync is only ever pending for the playback Main is *)
(* waiting for, and then its file is closed.  A signal left over would end *)
(* the next playback before it began (channels.cpp:38-47, 85-99).          *)
NoStaleWakeup == playsync => pc[Main] = "play_wait" /\ playfile = NULL

(* The answer Main reads without sync is the one for its own file: FALSE   *)
(* exactly when a read of that file failed, whoever stopped the playback   *)
(* (channels.cpp:45-47, 95-98).                                            *)
ResultOfThisFile == pc[Main] = "play_result" => playback = ~ failed

(* The object seen from Main: a request is being asked until its file is   *)
(* open, and has ended when the file is closed.  RTP never closes it.      *)
Asked == pc[Main] \in {"play_lock", "play_check", "play_leave", "play_open"}
Served == pc[Main] \in {"play_unlock", "play_wait", "play_result", "rtp_write", "rtp_done"}

phaseBar ==
  IF Asked THEN "asked"
  ELSE IF ~ Served THEN "idle"
  ELSE IF pc[Main] = "rtp_done" \/ playfile = NULL THEN "ended" ELSE "open"

Object == INSTANCE Player WITH
  phase <- phaseBar, answer <- result, outcome <- (phaseBar = "ended" => ~ failed)

(* Every Voice command is answered with the outcome of its own file, after *)
(* that file was ended, once, by whichever thread (channels.cpp:36-48,     *)
(* 85-100, 144-200).  In RTP mode no error is reported (channels.cpp:82).  *)
ImplementsPlayer == Object!Spec

(* A playback that a pump or a closer can still reach, or that Main runs   *)
(* itself in RTP mode, comes to its end.                                   *)
PlaybackEnds ==
  (\/ pc[Main] = "play_wait" /\ \E s \in Calls : call[s] = "open"
   \/ pc[Main] = "rtp_write") ~> pc[Main] = "voice_check"

(* A Voice command that is interrupted by a signal ends (its error is      *)
(* "Voice: application terminated", commands.cpp:351-354).                 *)
TerminationEndsVoice == (state = "TERMINATED" /\ pc[Main] = "play_wait") ~> pc[Main] = "idle"
=============================================================================
