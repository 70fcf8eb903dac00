-------------------------------- MODULE Phone --------------------------------
(***************************************************************************)
(* The life of the process: TestProcess::Main makes a Manager, Init reads  *)
(* the options and sets up the endpoints, Main parses the program, runs it *)
(* and shuts down, and ~Manager takes everything away (src/main.cpp).      *)
(*                                                                         *)
(* The subject is what outlives what: pointers that are used before they   *)
(* are set or without being set, calls that come in before the program is  *)
(* parsed or after it has ended, the RTP session that the next Call        *)
(* replaces.  The commands are here as far as they touch these; modules    *)
(* CallControl, Playback and Recording have the rest of them.              *)
(***************************************************************************)
EXTENDS Naturals

CONSTANTS
  Calls,       \* the calls OPAL may set up, in or out
  NULL,        \* a null pointer
  Garbage,     \* a pointer that was never initialised
  Parties,     \* the parties of Call commands, see PartiesAssumption
  Commands,    \* bound: the commands that are run
  Signals      \* bound: the number of SIGINTs

ASSUME BoundsAssumption == Commands \in Nat /\ Signals \in Nat

(* What becomes of a party depends on whether there is an '@' in it and on *)
(* the number of tokens that Tokenise(":") splits it into.                 *)
ASSUME PartiesAssumption ==
  Parties \subseteq [at : BOOLEAN, tokens : Nat \ {0}] /\ Parties # {}

(* RTP sessions: the n-th that was made, the party it was made for, and    *)
(* whether it leads to that party or to what the word "rtp" resolves to.   *)
Sessions == [n : Nat \ {0}, party : Parties, rtp : BOOLEAN]

ASSUME PointersAssumption == NULL \notin Sessions /\ Garbage \notin Sessions /\ NULL # Garbage

Protocols == {"sip", "h323", "rtp"}

(* The options: -h, -P, with "none" if it is missing, -c, -w and -m.       *)
Args == [h : BOOLEAN, P : Protocols \cup {"none", "other"},
         c : BOOLEAN, w : BOOLEAN, m : BOOLEAN]

VARIABLES
  args,          \* the options the process is started with
  pc,            \* where the main thread is
  sipep,         \* Manager::sipep is not NULL
  manager,       \* TPState::manager is set, and Manager::localep
  listenmode, listenerup,
  mediaFilter,   \* Manager::mediaFilter: "*" or the value of -m
  m_rtpsession,  \* Manager::m_rtpsession: NULL, Garbage, or a session
  sessions,      \* how many RTP sessions have been made
  opened,        \* the RTP sessions that are open
  remoteparty,   \* Call::remoteparty of the Call command that ran last
  state,         \* TPState::state
  live,          \* the calls OPAL has
  outgoing,      \* the calls that were made by MakeCall
  past,          \* the calls that are over
  unfiltered,    \* history: the calls offered other codecs than those of -m
  commands,      \* commands that may still be run
  signals        \* signals that may still arrive

config == <<args, sipep, manager>>
listener == <<listenmode, listenerup>>
rtp == <<m_rtpsession, sessions, opened, remoteparty>>
opal == <<live, outgoing, past, mediaFilter, unfiltered>>
vars == <<config, pc, listener, rtp, state, opal, commands, signals>>

(* The constructor does not set m_rtpsession.                              *)
Init ==
  /\ args \in Args /\ pc = "init"
  /\ sipep = FALSE /\ manager = FALSE /\ listenmode = FALSE /\ listenerup = FALSE
  /\ mediaFilter = "*"
  /\ m_rtpsession \in {NULL, Garbage} /\ sessions = 0 /\ opened = {}
  /\ remoteparty \in Parties
  /\ state = "STARTING"
  /\ live = {} /\ outgoing = {} /\ past = {} /\ unfiltered = {}
  /\ commands = Commands /\ signals = Signals

Goto(from, to) == pc = from /\ pc' = to

SetState(new) == state' = IF state = "TERMINATED" THEN state ELSE new

(* Where using a pointer leads to.                                         *)
Uses(valid, to) == IF valid THEN to ELSE "crashed"

-----------------------------------------------------------------------------
(* Manager::Init                                                           *)

InitRefused ==
  /\ args.h \/ args.P \notin Protocols
  /\ Goto("init", "delete")
  /\ UNCHANGED <<config, listener, rtp, state, opal, commands, signals>>

InitSip ==
  /\ ~ args.h /\ args.P = "sip"
  /\ Goto("init", IF args.c THEN "reg_listen" ELSE "init_end")
  /\ sipep' = TRUE
  /\ UNCHANGED <<args, manager, listener, rtp, state, opal, commands, signals>>

InitOther ==
  /\ ~ args.h /\ args.P \in {"h323", "rtp"}
  /\ Goto("init", "init_end")
  /\ UNCHANGED <<config, listener, rtp, state, opal, commands, signals>>

(* Manager::StartListener, called by Init and by Answer.                   *)
StartListener(from, to, failed) ==
  /\ \/ /\ Goto(from, Uses(sipep, to)) /\ listenerup' = (sipep \/ listenerup)
     \/ sipep /\ Goto(from, failed) /\ UNCHANGED listenerup
  /\ UNCHANGED <<config, listenmode, rtp, state, opal, commands, signals>>

InitListen == StartListener("reg_listen", "register", "delete")

Register ==
  /\ Goto("register", "init_end") \/ Goto("register", "delete")
  /\ UNCHANGED <<config, listener, rtp, state, opal, commands, signals>>

InitEnd_NoManager ==              \* fault: TPState is not told of the manager
  /\ Goto("init_end", "main")
  /\ UNCHANGED <<config, listener, rtp, state, opal, commands, signals>>

InitEnd ==
  /\ Goto("init_end", "main")
  /\ manager' = TRUE
  /\ UNCHANGED <<args, sipep, listener, rtp, state, opal, commands, signals>>

-----------------------------------------------------------------------------
(* Manager::Main, up to the program                                        *)

MainOptions_Late ==               \* fault: -m is not looked at
  /\ Goto("main", "parse")
  /\ UNCHANGED <<config, listener, rtp, state, opal, commands, signals>>

MainOptions ==
  /\ Goto("main", "parse")
  /\ mediaFilter' = IF args.m THEN "-m" ELSE mediaFilter
  /\ UNCHANGED <<config, listener, rtp, state, live, outgoing, past, unfiltered, commands,
                 signals>>

(* Answer::ParseCommand: the manager listens from now on.                  *)
ParseAnswer ==
  /\ Goto("parse", Uses(manager, "parse"))
  /\ listenmode' = (manager \/ listenmode)
  /\ UNCHANGED <<config, listenerup, rtp, state, opal, commands, signals>>

(* A text that cannot be parsed: Main returns, and nothing is shut down.   *)
ParseFails ==
  /\ Goto("parse", "delete")
  /\ UNCHANGED <<config, listener, rtp, state, opal, commands, signals>>

ParseDone ==
  /\ Goto("parse", "run")
  /\ UNCHANGED <<config, listener, rtp, state, opal, commands, signals>>

-----------------------------------------------------------------------------
(* The commands, as far as they reach the manager                          *)

Command(to) == commands > 0 /\ commands' = commands - 1 /\ Goto("run", Uses(manager, to))

CallRun ==
  /\ Command("make_call") /\ remoteparty' \in Parties
  /\ UNCHANGED <<config, listener, m_rtpsession, sessions, opened, state, opal, signals>>

(* Call::RunCommand and MakeCall: OPAL sets up the call, or does not.      *)
MakeCall(c) ==
  /\ args.P # "rtp" /\ c \notin live \cup past
  /\ Goto("make_call", "call_set")
  /\ live' = live \cup {c} /\ outgoing' = outgoing \cup {c}
  /\ UNCHANGED <<config, listener, rtp, state, past, mediaFilter, unfiltered, commands, signals>>

MakeCallFails ==
  /\ args.P # "rtp" /\ Goto("make_call", "shutdown")
  /\ UNCHANGED <<config, listener, rtp, state, opal, commands, signals>>

(* The wait for the connection ends well, or ends the program.             *)
CallSet ==
  /\ Goto("call_set", "run") \/ Goto("call_set", "shutdown")
  /\ SetState("CONNECTING")
  /\ UNCHANGED <<config, listener, rtp, opal, commands, signals>>

(* With a gateway "rtp:" is put before a party without an '@': what should *)
(* be split in an address and a port has a token more.                     *)
Prefixed == args.w /\ ~ remoteparty.at

Tokens == IF Prefixed THEN remoteparty.tokens + 1 ELSE remoteparty.tokens

MakeCallInvalid ==
  /\ args.P = "rtp" /\ Tokens # 2
  /\ Goto("make_call", "shutdown")
  /\ UNCHANGED <<config, listener, rtp, state, opal, commands, signals>>

Session == [n |-> sessions + 1, party |-> remoteparty, rtp |-> Prefixed]

NewSession_Uncounted ==           \* fault: the same session is made again
  sessions' = sessions /\ m_rtpsession' = Session

NewSession_Once ==                \* fault: a session that is there is kept
  /\ sessions' = sessions + 1
  /\ m_rtpsession' = IF sessions = 0 THEN Session ELSE m_rtpsession

(* A session takes the place of the one before, which stays open.          *)
NewSession == sessions' = sessions + 1 /\ m_rtpsession' = Session

(* The session opens, and the Call ends well or times out, or it does not. *)
MakeCallRtp ==
  /\ args.P = "rtp" /\ Tokens = 2
  /\ NewSession
  /\ \/ /\ \/ state # "TERMINATED" /\ Goto("make_call", "run")
           \/ Goto("make_call", "shutdown")
        /\ opened' = opened \cup {Session}
        /\ SetState("ESTABLISHED")
     \/ Goto("make_call", "shutdown") /\ UNCHANGED <<opened, state>>
  /\ UNCHANGED <<config, listener, remoteparty, opal, commands, signals>>

(* Answer::RunCommand.                                                     *)
AnswerRun ==
  /\ listenmode
  /\ Command(IF listenerup THEN "ans_wait" ELSE "ans_listen")
  /\ SetState("CONNECTING")
  /\ UNCHANGED <<config, listener, rtp, opal, signals>>

AnswerListen == StartListener("ans_listen", "ans_wait", "shutdown")

AnswerWait ==
  /\ Goto("ans_wait", "run") \/ Goto("ans_wait", "shutdown")
  /\ UNCHANGED <<config, listener, rtp, state, opal, commands, signals>>

HangupRun ==
  /\ Command("hangup")
  /\ UNCHANGED <<config, listener, rtp, state, opal, signals>>

HangupDone ==
  /\ Goto("hangup", "run") /\ live = {}
  /\ UNCHANGED <<config, listener, rtp, state, opal, commands, signals>>

(* Voice::RunCommand in RTP mode, which writes the frames itself.          *)
VoiceRtp ==
  /\ args.P = "rtp" /\ state = "ESTABLISHED"
  /\ Command("write")
  /\ UNCHANGED <<config, listener, rtp, state, opal, signals>>

(* CalculateTimestamp and WriteFrame: a frame, and another or no more.     *)
WriteFrame ==
  /\ \E to \in {"write", "run"} : Goto("write", Uses(m_rtpsession \in Sessions, to))
  /\ UNCHANGED <<config, listener, rtp, state, opal, commands, signals>>

(* The program ends, or another command fails.                             *)
RunEnds ==
  /\ Goto("run", "shutdown")
  /\ UNCHANGED <<config, listener, rtp, state, opal, commands, signals>>

-----------------------------------------------------------------------------
(* The shutdown: the end of Manager::Main, ~Manager and ~OpalManager       *)

Shutdown ==
  /\ Goto("shutdown", "clear") /\ SetState("TERMINATED")
  /\ UNCHANGED <<config, listener, rtp, opal, commands, signals>>

ShutdownClear_NoWait ==           \* fault: the calls are not waited for
  /\ Goto("clear", "delete")
  /\ UNCHANGED <<config, listener, rtp, state, opal, commands, signals>>

ShutdownClear ==
  /\ Goto("clear", "delete") /\ live = {}
  /\ UNCHANGED <<config, listener, rtp, state, opal, commands, signals>>

(* delete m_rtpsession: deleting garbage may crash, or do no harm.         *)
Delete ==
  /\ \/ Goto("delete", "destroy")
     \/ m_rtpsession = Garbage /\ Goto("delete", "crashed")
  /\ opened' = opened \ {m_rtpsession}
  /\ UNCHANGED <<config, listener, m_rtpsession, sessions, remoteparty, state, opal, commands,
                 signals>>

(* OPAL closes its listeners and clears what calls there are.              *)
Destroy ==
  /\ Goto("destroy", "exited")
  /\ listenerup' = FALSE /\ live' = {} /\ past' = past \cup live
  /\ UNCHANGED <<config, listenmode, rtp, state, outgoing, mediaFilter, unfiltered, commands,
                 signals>>

-----------------------------------------------------------------------------
(* OPAL's threads and the callbacks of Manager they run, and the signal.   *)
(* No call comes in while OPAL is clearing all calls.                      *)

Running == pc \notin {"destroy", "exited", "crashed"}

OnIncomingConnection(c) ==
  /\ listenerup /\ Running /\ pc \notin {"hangup", "clear"} /\ c \notin live \cup past
  /\ live' = live \cup {c} /\ SetState("ESTABLISHED")
  /\ UNCHANGED <<config, pc, listener, rtp, outgoing, past, mediaFilter, unfiltered, commands,
                 signals>>

(* The codecs of a call that was routed to the local endpoint.             *)
AdjustMediaFormats(c) ==
  /\ manager /\ Running /\ c \in live
  /\ unfiltered' = IF args.m /\ mediaFilter = "*" THEN unfiltered \cup {c} ELSE unfiltered
  /\ UNCHANGED <<config, pc, listener, rtp, state, live, outgoing, past, mediaFilter, commands,
                 signals>>

OnEstablished(c) ==
  /\ manager /\ Running /\ c \in live
  /\ SetState("ESTABLISHED")
  /\ UNCHANGED <<config, pc, listener, rtp, opal, commands, signals>>

OnReleased(c) ==
  /\ Running /\ c \in live
  /\ live' = live \ {c} /\ past' = past \cup {c} /\ SetState("CLOSED")
  /\ UNCHANGED <<config, pc, listener, rtp, outgoing, mediaFilter, unfiltered, commands, signals>>

SignalHandler ==
  /\ Running /\ signals > 0 /\ signals' = signals - 1 /\ SetState("TERMINATED")
  /\ UNCHANGED <<config, pc, listener, rtp, opal, commands>>

(* The process is gone. *)
Gone == pc \in {"exited", "crashed"} /\ UNCHANGED vars

Next ==
  \/ InitRefused \/ InitSip \/ InitOther \/ InitListen \/ Register \/ InitEnd
  \/ MainOptions \/ ParseAnswer \/ ParseFails \/ ParseDone
  \/ CallRun \/ MakeCallFails \/ CallSet \/ \E c \in Calls : MakeCall(c)
  \/ MakeCallInvalid \/ MakeCallRtp
  \/ AnswerRun \/ AnswerListen \/ AnswerWait
  \/ HangupRun \/ HangupDone \/ VoiceRtp \/ WriteFrame \/ RunEnds
  \/ Shutdown \/ ShutdownClear \/ Delete \/ Destroy \/ Gone
  \/ \E c \in Calls :
       OnIncomingConnection(c) \/ AdjustMediaFormats(c) \/ OnEstablished(c) \/ OnReleased(c)
  \/ SignalHandler

Spec == Init /\ [][Next]_vars

-----------------------------------------------------------------------------
(* Properties *)

Labels ==
  {"init", "reg_listen", "register", "init_end", "main", "parse", "run", "make_call", "call_set",
   "ans_listen", "ans_wait", "hangup", "write", "shutdown", "clear", "delete", "destroy",
   "exited", "crashed"}
States == {"STARTING", "CONNECTING", "ESTABLISHED", "CLOSED", "TERMINATED"}

(* Every variable holds a value of the type its declaration gives it.      *)
TypeOK ==
  /\ args \in Args /\ pc \in Labels
  /\ sipep \in BOOLEAN /\ manager \in BOOLEAN
  /\ listenmode \in BOOLEAN /\ listenerup \in BOOLEAN /\ mediaFilter \in {"*", "-m"}
  /\ sessions \in Nat /\ remoteparty \in Parties
  /\ m_rtpsession \in {NULL, Garbage} \cup {s \in Sessions : s.n <= sessions}
  /\ opened \subseteq {s \in Sessions : s.n <= sessions}
  /\ state \in States
  /\ live \subseteq Calls /\ outgoing \subseteq Calls /\ past \subseteq Calls
  /\ unfiltered \subseteq Calls
  /\ commands \in Nat /\ signals \in Nat

(* The phone crashes in two ways only: ~Manager deletes a pointer that no  *)
(* Call in RTP mode has set (main.cpp:243-255), or an Answer command looks *)
(* for the SIP endpoint under another protocol (main.cpp:631).  Every      *)
(* other use of a pointer finds it set, whatever the options, the program  *)
(* and the calls.                                                          *)
OnlyKnownCrashes ==
  pc = "crashed" =>
    \/ sessions = 0 /\ m_rtpsession = Garbage
    \/ args.P \in {"h323", "rtp"} /\ listenmode

(* No call is left to report to the Manager that is being destroyed,       *)
(* unless a listener was started and still takes calls (main.cpp:180-187,  *)
(* 290-312).  A call the program has dialled is never left.                *)
QuietWhenDestroyed ==
  pc \in {"destroy", "exited"} => (live # {} => listenerup) /\ live \cap outgoing = {}

(* Frames are only written to an open session, that of the Call command    *)
(* that ran last, however many sessions were made, failed to open or stay  *)
(* open; and they can only miss the party of that Call if there is a -w    *)
(* and no '@' in the party (commands.cpp:162-168, main.cpp:550-594,        *)
(* channels.cpp:147).                                                      *)
WritesToOpenSession ==
  pc = "write" =>
    /\ m_rtpsession \in opened /\ m_rtpsession.party = remoteparty
    /\ m_rtpsession.rtp => args.w /\ ~ remoteparty.at

(* No call that the program dials is offered a codec that -m excludes; a   *)
(* call that comes in may be, but only if Init has registered, and so      *)
(* listens before Main reads -m (main.cpp:281-284, 388-396).               *)
FilterOfOwnCalls == unfiltered # {} => args.c /\ unfiltered \cap outgoing = {}
=============================================================================
