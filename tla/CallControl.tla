----------------------------- MODULE CallControl -----------------------------
(***************************************************************************)
(* Call control of sipcmd: Main, which runs the Call, Answer, Wait, DTMF   *)
(* and Hangup commands of a program (src/commands.cpp) and then shuts the  *)
(* phone down (Manager::Main), and the OPAL threads that set up and tear   *)
(* down calls and report to Manager's callbacks (src/main.cpp).            *)
(*                                                                         *)
(* A program is any sequence of at most Commands commands: what its loops  *)
(* unroll to.  Voice and Record are modules of their own.  The connection  *)
(* state is the atomic register that TPStateProofs shows TPState to be.    *)
(*                                                                         *)
(* A call has two connections: 0, of the party that called, and 1, of the  *)
(* party that was called; one of them is the network's, the other is local.*)
(* Time passes in ticks; time(NULL) counts whole seconds.                  *)
(***************************************************************************)
EXTENDS Integers

CONSTANTS
  Calls,            \* the calls OPAL may set up, in or out
  NoCall,           \* the token of no call
  Commands,         \* bound: the length of the program
  Signals,          \* bound: the number of SIGINTs
  TicksPerSecond,
  Timeouts,         \* the dial timeouts of Call commands, in ticks
  MaxElapsed,       \* bound: the ticks counted since a Call command began
  Accuracy,         \* WAIT_SLEEP_ACCURACY
  Millis            \* the lengths of Wait commands, in units of Accuracy

Legs == {0, 1}

ASSUME CallsAssumption == NoCall \notin Calls
ASSUME BoundsAssumption == Commands \in Nat /\ Signals \in Nat /\ MaxElapsed \in Nat
ASSUME TimeAssumption ==
  /\ TicksPerSecond \in Nat \ {0} /\ Timeouts \subseteq Nat
  /\ Accuracy \in Nat \ {0} /\ Millis \subseteq Nat

VARIABLES
  state,            \* TPState::state
  pc,               \* where Main is
  commands,         \* commands that may still be run
  got,              \* what WaitForStateChange returned last
  timeout,          \* Call::dialtimeout
  subsecond,        \* how far into a second the Call command began
  elapsed,          \* ticks since it began
  millis, closed,   \* Wait::millis and Wait::closed
  n,                \* the counter of Wait's loop
  slept,            \* history: how long Wait has slept
  rtp,              \* is the protocol RTP?
  listenmode,       \* Manager::listenmode, set while the program is parsed
  listenerup,       \* Manager::listenerup
  currentCallToken, \* Manager::currentCallToken
  target,           \* the call MakeCall has made or SendDTMF has locked, or NoCall
  call,             \* how far each call has got
  outgoing,         \* the calls that were made by MakeCall
  released,         \* the connections of each call that OnReleased has reported
  signals,          \* signals that may still arrive
  reporter,         \* history: whose callback set the state last since CONNECTING was set
  since,            \* history: the calls that were set up since the last Hangup
  lateDials         \* history: calls made although the phone is terminated

wait == <<millis, closed, n, slept>>
dial == <<timeout, subsecond, elapsed>>
manager == <<rtp, listenmode, listenerup, currentCallToken>>
opal == <<call, outgoing, released>>
history == <<reporter, since, lateDials>>
vars == <<state, pc, commands, got, dial, wait, manager, target, opal, signals, history>>

Init ==
  /\ state = "STARTING" /\ pc = "idle" /\ commands = Commands /\ got = "STARTING"
  /\ timeout = 0 /\ subsecond = 0 /\ elapsed = 0
  /\ millis = 0 /\ closed = FALSE /\ n = 0 /\ slept = 0
  /\ rtp \in BOOLEAN /\ listenmode \in BOOLEAN
  /\ listenerup \in (IF rtp THEN {FALSE} ELSE BOOLEAN)
  /\ currentCallToken = NoCall /\ target = NoCall
  /\ call = [c \in Calls |-> "none"] /\ outgoing = {}
  /\ released = [c \in Calls |-> {}]
  /\ signals = Signals
  /\ reporter = NoCall /\ since = {} /\ lateDials = 0

Live(c) == call[c] \in {"dialled", "incoming", "established", "releasing"}

SetState_Revive(new) == state' = new       \* fault: TERMINATED is overwritten

SetState(new) == state' = IF state = "TERMINATED" THEN state ELSE new

Goto(from, to) == pc = from /\ pc' = to

-----------------------------------------------------------------------------
(* Command::Run: the next command, or the end of the program               *)

Command(to) == commands > 0 /\ commands' = commands - 1 /\ Goto("idle", to)

ProgramDone ==
  /\ Goto("idle", "shutdown")
  /\ UNCHANGED <<state, commands, got, dial, wait, manager, target, opal, signals, history>>

-----------------------------------------------------------------------------
(* Call::RunCommand and Manager::MakeCall                                  *)

CallRun ==
  /\ Command("make_call")
  /\ timeout' \in Timeouts /\ subsecond' \in 0..(TicksPerSecond - 1) /\ elapsed' = 0
  /\ UNCHANGED <<state, got, wait, manager, target, opal, signals, history>>

(* OPAL has the call from here on, and its threads may overtake Main.      *)
MakeCall(c) ==
  /\ ~ rtp /\ call[c] = "none"
  /\ Goto("make_call", "set_token")
  /\ call' = [call EXCEPT ![c] = "dialled"] /\ outgoing' = outgoing \cup {c}
  /\ target' = c /\ since' = since \cup {c}
  /\ lateDials' = IF state = "TERMINATED" THEN lateDials + 1 ELSE lateDials
  /\ UNCHANGED <<state, commands, got, dial, wait, manager, released, signals,
                 reporter>>

MakeCallRtp ==
  /\ rtp /\ Goto("make_call", "call_wait")
  /\ SetState("ESTABLISHED")
  /\ lateDials' = IF state = "TERMINATED" THEN lateDials + 1 ELSE lateDials
  /\ UNCHANGED <<commands, got, dial, wait, manager, target, opal, signals, reporter, since>>

MakeCallFails ==
  /\ Goto("make_call", "shutdown")
  /\ UNCHANGED <<state, commands, got, dial, wait, manager, target, opal, signals, history>>

SetToken ==
  /\ Goto("set_token", "call_set")
  /\ currentCallToken' = target /\ target' = NoCall
  /\ UNCHANGED <<state, commands, got, dial, wait, rtp, listenmode, listenerup, opal, signals,
                 history>>

CallSet ==
  /\ Goto("call_set", "call_wait")
  /\ SetState("CONNECTING") /\ reporter' = NoCall
  /\ UNCHANGED <<commands, got, dial, wait, manager, target, opal, signals, since, lateDials>>

CallWait_Deaf ==                  \* fault: TERMINATED is not looked for
  /\ Goto("call_wait", "call_time")
  /\ got' = state
  /\ UNCHANGED <<state, commands, dial, wait, manager, target, opal, signals, history>>

CallWait ==
  /\ Goto("call_wait", IF state = "TERMINATED" THEN "shutdown" ELSE "call_time")
  /\ got' = state
  /\ UNCHANGED <<state, commands, dial, wait, manager, target, opal, signals, history>>

(* difftime(time(NULL), secsnow), in ticks: a difference of whole seconds. *)
Difftime == ((subsecond + elapsed) \div TicksPerSecond) * TicksPerSecond

TimedOut_Reached == Difftime >= timeout    \* fault: >= for >
TimedOut_Never == FALSE                    \* fault: the timeout is not looked at

TimedOut == Difftime > timeout

CallTimeout ==
  /\ Goto("call_time", "shutdown") /\ TimedOut
  /\ UNCHANGED <<state, commands, got, dial, wait, manager, target, opal, signals, history>>

CallAgain ==
  /\ Goto("call_time", "call_wait") /\ ~ TimedOut /\ got = "CONNECTING"
  /\ UNCHANGED <<state, commands, got, dial, wait, manager, target, opal, signals, history>>

CallDone ==
  /\ Goto("call_time", "idle") /\ ~ TimedOut /\ got # "CONNECTING"
  /\ UNCHANGED <<state, commands, got, dial, wait, manager, target, opal, signals, history>>

Tick ==
  /\ pc \in {"make_call", "set_token", "call_set", "call_wait", "call_time"}
  /\ elapsed < MaxElapsed /\ elapsed' = elapsed + 1
  /\ UNCHANGED <<state, pc, commands, got, timeout, subsecond, wait, manager, target, opal,
                 signals, history>>

-----------------------------------------------------------------------------
(* Answer::RunCommand and Manager::StartListener                           *)

AnswerRun ==
  /\ ~ rtp /\ listenmode
  /\ Command("ans_set")
  /\ UNCHANGED <<state, got, dial, wait, manager, target, opal, signals, history>>

AnswerSet ==
  /\ Goto("ans_set", "ans_listen")
  /\ SetState("CONNECTING") /\ reporter' = NoCall
  /\ UNCHANGED <<commands, got, dial, wait, manager, target, opal, signals, since, lateDials>>

AnswerListen ==
  /\ Goto("ans_listen", "ans_wait") /\ listenerup' = TRUE
  /\ UNCHANGED <<state, commands, got, dial, wait, rtp, listenmode, currentCallToken, target, opal,
                 signals, history>>

AnswerListenFails ==
  /\ ~ listenerup /\ Goto("ans_listen", "shutdown")
  /\ UNCHANGED <<state, commands, got, dial, wait, manager, target, opal, signals, history>>

AnswerWait ==
  /\ Goto("ans_wait", IF state = "TERMINATED" THEN "shutdown" ELSE "ans_check")
  /\ got' = state
  /\ UNCHANGED <<state, commands, dial, wait, manager, target, opal, signals, history>>

AnswerCheck ==
  /\ Goto("ans_check", IF got = "CONNECTING" THEN "ans_wait" ELSE "idle")
  /\ UNCHANGED <<state, commands, got, dial, wait, manager, target, opal, signals, history>>

-----------------------------------------------------------------------------
(* Wait::RunCommand.  The silence and activity counters belong to module   *)
(* Recording: here they are met at any time, or never.                     *)

WaitRun ==
  /\ Command("wait_check")
  /\ millis' \in Millis /\ closed' \in BOOLEAN
  /\ n' = millis' \div Accuracy /\ slept' = 0
  /\ UNCHANGED <<state, got, dial, manager, target, opal, signals, history>>

WaitDetects ==
  /\ n >= 0 /\ Goto("wait_check", "idle")
  /\ UNCHANGED <<state, commands, got, dial, wait, manager, target, opal, signals, history>>

WaitClosed ==
  /\ n >= 0 /\ closed /\ state \in {"TERMINATED", "CLOSED"}
  /\ Goto("wait_check", "idle")
  /\ UNCHANGED <<state, commands, got, dial, wait, manager, target, opal, signals, history>>

WaitSleep ==
  /\ n >= 0 /\ ~ (closed /\ state \in {"TERMINATED", "CLOSED"})
  /\ Goto("wait_check", "wait_slept") /\ slept' = slept + Accuracy
  /\ UNCHANGED <<state, commands, got, dial, millis, closed, n, manager, target, opal, signals,
                 history>>

WaitNext_Twice ==                 \* fault: the counter goes down by two
  /\ pc = "wait_slept"
  /\ pc' = IF ~ closed /\ state = "TERMINATED" THEN "shutdown" ELSE "wait_check"
  /\ n' = IF pc' = "wait_check" THEN n - 2 ELSE n
  /\ UNCHANGED <<state, commands, got, dial, millis, closed, slept, manager, target, opal,
                 signals, history>>

WaitNext ==
  /\ pc = "wait_slept"
  /\ pc' = IF ~ closed /\ state = "TERMINATED" THEN "shutdown" ELSE "wait_check"
  /\ n' = IF pc' = "wait_check" THEN n - 1 ELSE n
  /\ UNCHANGED <<state, commands, got, dial, millis, closed, slept, manager, target, opal,
                 signals, history>>

WaitDone ==
  /\ n < 0 /\ Goto("wait_check", "idle")
  /\ UNCHANGED <<state, commands, got, dial, wait, manager, target, opal, signals, history>>

-----------------------------------------------------------------------------
(* DTMF::RunCommand and Manager::SendDTMF                                  *)

DtmfRun ==
  /\ Command("dtmf_find")
  /\ UNCHANGED <<state, got, dial, wait, manager, target, opal, signals, history>>

DtmfFind ==
  /\ currentCallToken # NoCall /\ Live(currentCallToken)
  /\ Goto("dtmf_find", "dtmf_send") /\ target' = currentCallToken
  /\ UNCHANGED <<state, commands, got, dial, wait, manager, opal, signals, history>>

DtmfNoCall ==
  /\ currentCallToken # NoCall => ~ Live(currentCallToken)
  /\ Goto("dtmf_find", "shutdown")
  /\ UNCHANGED <<state, commands, got, dial, wait, manager, target, opal, signals, history>>

Leg_Swapped == IF listenmode THEN 1 ELSE 0    \* fault: the connections are swapped

(* The connection that SendDTMF sends the tones to.                        *)
Leg == IF listenmode THEN 0 ELSE 1

(* Every tone has been sent, or one could not be.                          *)
DtmfDone ==
  /\ \/ Goto("dtmf_send", "idle") /\ Leg \notin released[target]
     \/ Goto("dtmf_send", "shutdown")
  /\ target' = NoCall
  /\ UNCHANGED <<state, commands, got, dial, wait, manager, opal, signals, history>>

-----------------------------------------------------------------------------
(* Hangup::RunCommand, the end of Manager::Main, and ClearAllCalls, which  *)
(* releases every call and waits until OPAL has none left.                 *)

ClearAllCalls ==
  call' = [c \in Calls |-> IF Live(c) THEN "releasing" ELSE call[c]]

HangupRun ==
  /\ Command("hangup") /\ ClearAllCalls
  /\ UNCHANGED <<state, got, dial, wait, manager, target, outgoing, released, signals, history>>

HangupDone_NoWait ==              \* fault: the calls are not waited for
  /\ Goto("hangup", "idle") /\ since' = {}
  /\ UNCHANGED <<state, commands, got, dial, wait, manager, target, opal, signals, reporter,
                 lateDials>>

HangupDone ==
  /\ Goto("hangup", "idle") /\ \A c \in Calls : ~ Live(c)
  /\ since' = {}
  /\ UNCHANGED <<state, commands, got, dial, wait, manager, target, opal, signals, reporter,
                 lateDials>>

Shutdown ==
  /\ Goto("shutdown", "clear")
  /\ SetState("TERMINATED")
  /\ UNCHANGED <<commands, got, dial, wait, manager, target, opal, signals, history>>

ShutdownClear ==
  /\ Goto("clear", "exit") /\ ClearAllCalls
  /\ UNCHANGED <<state, commands, got, dial, wait, manager, target, outgoing, released, signals,
                 history>>

Exit ==
  /\ Goto("exit", "exited") /\ \A c \in Calls : ~ Live(c)
  /\ UNCHANGED <<state, commands, got, dial, wait, manager, target, opal, signals, history>>

-----------------------------------------------------------------------------
(* OPAL's threads, and the callbacks of Manager they run.  A call may be   *)
(* released, refused or fail at any time.                                  *)

mainVars == <<pc, commands, got, dial, wait, target, lateDials>>

OnIncomingConnection(c) ==
  /\ listenerup /\ pc \notin {"hangup", "exit"}      \* OPAL is not clearing all calls
  /\ call[c] = "none"
  /\ call' = [call EXCEPT ![c] = "incoming"]
  /\ SetState("ESTABLISHED") /\ reporter' = c /\ since' = since \cup {c}
  /\ UNCHANGED <<mainVars, manager, outgoing, released, signals>>

OnAnswerCall(c) ==
  /\ call[c] = "incoming" /\ currentCallToken' = c
  /\ UNCHANGED <<mainVars, state, rtp, listenmode, listenerup, opal, signals, reporter, since>>

(* A connection of the call is established.                                *)
OnEstablished(c) ==
  /\ call[c] \in {"dialled", "incoming", "established"}
  /\ SetState("ESTABLISHED") /\ reporter' = c
  /\ UNCHANGED <<mainVars, manager, opal, signals, since>>

(* Both are.                                                               *)
OnEstablishedCall(c) ==
  /\ call[c] \in {"dialled", "incoming"}
  /\ call' = [call EXCEPT ![c] = "established"]
  /\ SetState("ESTABLISHED") /\ reporter' = c
  /\ currentCallToken' = c
  /\ UNCHANGED <<mainVars, rtp, listenmode, listenerup, outgoing, released, signals, since>>

Release(c) ==
  /\ call[c] \in {"dialled", "incoming", "established"}
  /\ call' = [call EXCEPT ![c] = "releasing"]
  /\ UNCHANGED <<mainVars, state, manager, outgoing, released, signals, reporter, since>>

OnReleased_Silent(c, leg) ==      \* fault: the state is not set to CLOSED
  /\ call[c] = "releasing" /\ leg \notin released[c]
  /\ released' = [released EXCEPT ![c] = @ \cup {leg}]
  /\ UNCHANGED <<mainVars, state, manager, call, outgoing, signals, reporter, since>>

OnReleased(c, leg) ==
  /\ call[c] = "releasing" /\ leg \notin released[c]
  /\ released' = [released EXCEPT ![c] = @ \cup {leg}]
  /\ SetState("CLOSED") /\ reporter' = c
  /\ UNCHANGED <<mainVars, manager, call, outgoing, signals, since>>

OnClearedCall(c) ==
  /\ call[c] = "releasing" /\ released[c] = Legs
  /\ ~ (pc = "dtmf_send" /\ target = c)    \* SendDTMF holds a lock on the call
  /\ call' = [call EXCEPT ![c] = "gone"]
  /\ UNCHANGED <<mainVars, state, manager, outgoing, released, signals, reporter, since>>

SignalHandler ==
  /\ signals > 0 /\ signals' = signals - 1
  /\ SetState("TERMINATED")
  /\ UNCHANGED <<mainVars, manager, opal, reporter, since>>

-----------------------------------------------------------------------------
CallStep ==
  \/ \E c \in Calls : MakeCall(c)
  \/ MakeCallRtp \/ MakeCallFails \/ SetToken \/ CallSet \/ CallWait
  \/ CallTimeout \/ CallAgain \/ CallDone

AnswerStep == AnswerSet \/ AnswerListen \/ AnswerListenFails \/ AnswerWait \/ AnswerCheck

WaitStep == WaitDetects \/ WaitClosed \/ WaitSleep \/ WaitNext \/ WaitDone

DtmfStep == DtmfFind \/ DtmfNoCall \/ DtmfDone

EndStep == ProgramDone \/ HangupDone \/ Shutdown \/ ShutdownClear \/ Exit

MainStep == CallStep \/ AnswerStep \/ WaitStep \/ DtmfStep \/ EndStep

CommandRun == CallRun \/ AnswerRun \/ WaitRun \/ DtmfRun \/ HangupRun

ReleaseStep(c) == (\E leg \in Legs : OnReleased(c, leg)) \/ OnClearedCall(c)

OpalStep(c) ==
  \/ OnIncomingConnection(c) \/ OnAnswerCall(c) \/ OnEstablished(c) \/ OnEstablishedCall(c)
  \/ Release(c) \/ ReleaseStep(c)

Next ==
  /\ pc # "exited"
  /\ CommandRun \/ MainStep \/ Tick \/ SignalHandler \/ \E c \in Calls : OpalStep(c)

(* Main runs, time passes, and a call that is being released is released   *)
(* in the end.  Nothing obliges a call to come, to be answered or to end.  *)
Fairness ==
  /\ WF_vars(MainStep) /\ WF_vars(Tick)
  /\ \A c \in Calls : WF_vars(ReleaseStep(c))

Spec == Init /\ [][Next]_vars
FairSpec == Spec /\ Fairness

-----------------------------------------------------------------------------
(* Properties *)

Labels ==
  {"idle", "make_call", "set_token", "call_set", "call_wait", "call_time",
   "ans_set", "ans_listen", "ans_wait", "ans_check", "wait_check", "wait_slept",
   "dtmf_find", "dtmf_send", "hangup", "shutdown", "clear", "exit", "exited"}
ConnStates == {"STARTING", "CONNECTING", "ESTABLISHED", "CLOSED", "TERMINATED"}
CallStates == {"none", "dialled", "incoming", "established", "releasing", "gone"}

(* Every variable holds a value of the type its declaration gives it.      *)
TypeOK ==
  /\ state \in ConnStates /\ got \in ConnStates /\ pc \in Labels
  /\ commands \in Nat /\ signals \in Nat /\ lateDials \in Nat
  /\ reporter \in Calls \cup {NoCall} /\ since \subseteq Calls
  /\ timeout \in Nat /\ subsecond \in 0..(TicksPerSecond - 1) /\ elapsed \in Nat
  /\ millis \in Nat /\ closed \in BOOLEAN /\ slept \in Nat /\ n \in Nat \cup {-1}
  /\ rtp \in BOOLEAN /\ listenmode \in BOOLEAN /\ listenerup \in BOOLEAN
  /\ currentCallToken \in Calls \cup {NoCall} /\ target \in Calls \cup {NoCall}
  /\ call \in [Calls -> CallStates] /\ outgoing \subseteq Calls
  /\ released \in [Calls -> SUBSET Legs]

(* Once the phone is terminated at most one more call is made, although    *)
(* Wait (with the option c), Hangup and DTMF do not stop the program       *)
(* (commands.cpp:493-498, 282-293, 318-323): the Call that makes it fails. *)
OneLateDial == lateDials <= 1

(* A Call or Answer ends well only by a report that came after it had set  *)
(* CONNECTING, of a call that was set up after the last Hangup: neither by *)
(* the state it found, nor by a call that was hung up, both of whose       *)
(* connections Hangup waits for (commands.cpp:189-203, 247-261, 291,       *)
(* main.cpp:753).  If there was no Hangup since, it may be the end of an   *)
(* earlier call.  In RTP mode Call sets the state itself.                  *)
NoStaleSuccess ==
  pc \in {"call_time", "ans_check"} /\ got # "CONNECTING" /\ ~ rtp => reporter \in since

(* ESTABLISHED, which Voice relies on, is never left behind when the last  *)
(* call is gone, however the callbacks of two calls interleave             *)
(* (main.cpp:715-755).                                                     *)
EstablishedIsLive == state = "ESTABLISHED" => rtp \/ \E c \in Calls : Live(c)

(* Tones go to the remote party in a program that only calls and cannot be *)
(* called, and in one that is only called (main.cpp:451-452).              *)
Network(c) == IF c \in outgoing THEN 1 ELSE 0

OneDirection ==
  IF listenmode THEN outgoing = {} ELSE \A c \in Calls : call[c] # "none" => c \in outgoing

TonesReachParty == pc = "dtmf_send" /\ OneDirection => Leg = Network(target)

(* A call does not time out a whole second early, although two readings of *)
(* time(NULL) are compared with a timeout in milliseconds                  *)
(* (commands.cpp:161, 199).                                                *)
TimeoutNotEarly == [][CallTimeout => elapsed + TicksPerSecond - 1 > timeout]_vars

(* A Wait that nothing ends has slept for as long as it was told to and no *)
(* more than WAIT_SLEEP_ACCURACY longer (commands.cpp:477, 500).           *)
WaitAccurate == [][WaitDone => slept > millis /\ slept <= millis + Accuracy]_vars

(* A Call ends, whichever callbacks come before or after it sets           *)
(* CONNECTING (commands.cpp:184-203).                                      *)
CallReturns == pc = "call_wait" ~> pc \in {"idle", "shutdown"}

(* A terminated phone shuts down (main.cpp:299-313).                       *)
TerminationEnds == state = "TERMINATED" ~> pc = "exited"

(* An Answer during which a call is established ends (the wait is one "for *)
(* connection (or termination)", commands.cpp:254).                        *)
AnswerReturns ==
  (pc = "ans_wait" /\ \E c \in Calls : call[c] = "established") ~> pc \in {"idle", "shutdown"}
=============================================================================
