# sipcmd in TLA+

sipcmd is a command-line phone. It parses a text of one-letter commands (call,
answer, hang up, send tones, play a file, record a file, wait, loop) and runs
it in its main thread, while the threads of the OPAL library set up and tear
down calls, pump audio and call back into the program. This directory holds
TLA+ models of that program, the TLC configurations that check them on small
instances, and TLAPS proofs of their safety properties for every instance.
The repository is in `src/` and its code in `src/src/`; line numbers are those
of the commit the models were written from.

Contents: [the system](#the-system), [modules](#modules),
[runs](#runs-and-bounds), [fairness](#fairness), [findings](#findings),
[proofs](#proofs), [what is not modelled](#what-is-not-modelled),
[plan](#plan).

## The system

### Components

| component | source | state | operations | what is hard |
|---|---|---|---|---|
| connection-state monitor | `src/src/state.h` `TPState` | `state`, the semaphore `stateSync`, `stateEventSync` (a `PSyncPointAck`), `someonewaiting` | `SetState`, `GetState`, `WaitForStateChange` | every thread and a signal handler use it; it reads fields after giving the semaphore back; its wait has a timeout and an acknowledgement |
| silence counters | `src/src/state.h` | `silence`, `activity` | `SetSilenceState`, `IsSilent`, `IsActive` | written by several pumps and read by Main, without a lock |
| audio objects, one to play and one to record | `src/src/channels.{h,cpp}` `TestChanAudio` | `playfile`, `recfile`, `playback`, `record`, `recordmillisec`, the semaphores `sync`, `playsync`, `recsync` | `PlaybackAudio`, `FillPlaybackBuffer`, `RecordAudioFile`, `RecordFromBuffer`, `CloseChannel` | Main starts a file, sleeps without a timeout, and a media or OPAL thread wakes it; calls may overlap, so two pumps may share one object |
| command language | `src/src/commands.cpp` `Command`, `Label`, `Loop` | the vector of commands, the vectors of the loops, the iteration counters | `Parse`, `Run`, `PopToInnerSequence`, `Loop::RunCommand` | loops nest by taking commands out of the vector; suffixes must name each iteration; a failure has to end all loops |
| command arguments | `src/src/commands.cpp` `ParseCommand` of each command | the text, a pointer into it | `ParseCommand` | nine small scanners, each of which has to stop at the next `;`; letters that start no command are passed over |
| call commands | `src/src/commands.cpp` `Call`, `Answer`, `Hangup`, `DTMF`, `Wait` | locals, `listenmode` | `RunCommand` | they poll a state that callbacks of several calls set |
| Manager | `src/src/main.cpp` | `currentCallToken`, `listenerup`, `listenmode` | `MakeCall`, `SendDTMF`, `StartListener`, `Main`, the `On...` callbacks | callbacks come at any time, of several calls, for each of their two connections |
| RTP session | `src/src/main.cpp` `RTPSession` | the media format | `OnReceiveData`, `OnReadTimeout`, `WriteFrame` | a second mode without OPAL calls, in which Main writes the frames itself |
| signal handler | `src/src/main.cpp` `signalHandler` | none | `SetState(TERMINATED)` | runs on the stack of whatever thread takes the signal |
| start-up and end | `src/src/main.cpp` `TestProcess::Main`, `Manager::Init`, `Manager::Main`, `~Manager` | options, `sipep`, `m_rtpsession`, `mediaFilter`, `TPState::manager` | run once, in order | calls come in as soon as a listener is up, before the options and the program have been read and after the program has failed; pointers are set by some options only |
| media formats | `src/src/main.cpp` `AdjustMediaFormats` | `mediaFilter` | a filter of names | called by OPAL's threads, perhaps before `-m` is read |

### Interaction

Main runs commands. `Call` and `Answer` ask OPAL for a call or a listener and
then poll `TPState` until a callback (`OnEstablished`, `OnReleased`, ...) has
changed it. `Voice` and `Record` give a file to the audio object and sleep on
`playsync` or `recsync` until a pump reaches the end of the file or the stream
is closed. A pump calls `TestChannel::Read` and `Write`, which call
`FillPlaybackBuffer` and `RecordFromBuffer` under `sync`. `Record` and `Wait`
look at the counters of silence the pumps keep. SIGINT and SIGTERM set
`TERMINATED`, which the polling commands look for and which is final.

### What makes each part correct

* Monitor: it is one linearizable register; `TERMINATED` is final; no change
  that is waited for is slept through; every operation returns.
* Audio object: exactly one wakeup for each file, never one left over for the
  next; the result Main reads is that of its own file; whoever gets `sync` to
  open a file finds none open; a recording is as long as asked for; playbacks and
  recordings end while a stream is up.
* Command arguments: what is written in the notation of `src/README.md` is what
  is read, and a phrase between two `;` is never more than one command.
* Start-up and end: no pointer is used that is not set, no dialled call is left
  when the Manager is destroyed, frames go to an open session, that of the last
  Call, and `-m` is
  obeyed by every call that is dialled.
* Command language: the interpreter does what the flat text says; each
  iteration has a suffix of its own; a failure ends the script; scripts end.
* Call control: no Call or Answer takes the state it found, or the end of a
  call that was hung up, for its own; no `ESTABLISHED` outlives the last call;
  tones go to the remote party; a terminated phone shuts down and does not go on
  dialling; timeouts and waits are as accurate as the code's clocks allow.

`PROJECT.json` lists every hazard at its line, with the properties about it.

## Modules

| module | models | abstract specification |
|---|---|---|
| `TPState` | `src/src/state.h`, one action per access to a field or a semaphore, with OPAL threads and the handler | `StateRegister`: one register, each operation takes effect in one instant |
| `OpalCalls` | calls and their streams as the audio objects see them; extended by the next two | |
| `Playback` | `Voice` and the playing half of `TestChanAudio`, SIP and RTP | `Player`: one request at a time is refused or opened, ended once, and answered with its own outcome |
| `Recording` | `Record`, the recording half, the silence counters | `Player` |
| `CallControl` | `Call`, `Answer`, `Hangup`, `DTMF`, `Wait`, `Manager` and its callbacks, the shutdown | |
| `Commands` | `Command::Parse`, `Command::Run`, `Label`, `Loop` | `Script`: a flat text, a program counter and jumps |
| `CommandSyntax` | `Command::Parse` and every `ParseCommand`, letter by letter | |
| `Phone` | `TestProcess::Main`, `Manager::Init`, `Manager::Main`, `MakeCall` and `StartListener` in SIP, H.323 and RTP mode, the callbacks, the destructor | |
| `MC*` | model values and bounds for TLC | |
| `*Proofs` | theorems about the module of that name; `ScriptProofs`, on top of `CommandsProofs`, that `Commands` implements `Script` | |

**How they fit together.** `TPState` is proved and checked to be an atomic
register, so `OpalCalls` and `CallControl` use `SetState` as one step.
`OpalCalls` is the environment of the audio object, `CallControl` that of
the call commands. A program in `CallControl` is any sequence of commands of a
given length, because `Commands` shows what loops unroll to; each command in
`Commands` returns or fails, because the other modules are about whether it
does. `Commands` starts from commands, `CommandSyntax` from the letters they are
written with. `Phone` puts all of it between the start and the end of the
process: its commands are reduced to what they do to the calls, the listener,
the RTP session and the state, their waits end well or badly, and Voice and
Record are the refusals and answers `Player` allows.

**State and actions.** Variables carry the names of the fields they stand for;
`pc` says where each thread is; variables marked *history* in the declarations
are there for properties only and guard nothing. An action is one step of one
thread between two points where another thread can interfere; its name says the
method and the step (`PlayUnlock` is the `sync.Signal()` of `PlaybackAudio`).
Operators whose name has an underscore (`SetCheck_Revive`) are plausible
mistakes in the code. No specification uses them: each is put in place of the
definition it is named after to see that a property fails.

Modelling decisions a reader should know of:

* `TPState`: the timeout of `WaitForStateChange` is a choice that is always
  there. An early `return` under the semaphore is several steps, as the code
  reads `state` again behind it. The handler is a context of its own that
  holds up the thread it interrupts (`host`).
* `Playback`: a file is a choice, at each frame, of going on, ending or
  failing. In RTP mode nothing is pumped and Main runs the branch of
  `PlaybackAudio` that writes the frames itself. The protocol is chosen in the
  initial state of every module and never changes.
* `Recording`: sizes are in bytes; the length of a command is an `int` that
  becomes a `size_t`, with the numbers of values of both as constants, so that
  a negative length becomes a huge one. Silence is a choice for every frame;
  in SIP mode the code only passes FALSE, in RTP mode only TRUE.
* `CallControl`: a call has two connections. `OnReleased` comes once for each,
  `OnEstablished` any number of times, and a call may be refused, released or
  fail at any time. Main's two reads of the state in an iteration of `Wait`
  are one; the assignment of `currentCallToken` is atomic. `ClearAllCalls`
  releases every call and returns when none is left, and OPAL takes no new
  call meanwhile. The silence and activity counters are met at any time or
  never. `ProgramDone` covers the end of the text at any command. The history
  variables `reporter` (whose callback set the state since Main set
  `CONNECTING`) and `since` (the calls set up since the last Hangup) are for
  `NoStaleSuccess`.
* `Phone`: `m_rtpsession` is not in the initialiser list of the constructor and
  is at first NULL or garbage. Using an unset pointer leads to `crashed`, except
  that deleting garbage may do so. OPAL may fail to set up a call, to start a
  listener, to register or to open a session. A party is what the code looks at
  in RTP mode: whether there is an `@` in it, and how many tokens it has. A second session while the first
  is open may or may not be opened, as that is OPAL's and the ports' affair.
  The listener of OPAL takes calls until `~OpalManager`, but not while
  `ClearAllCalls` waits.
* `CommandSyntax`: a text is a sequence of letters and digits, with no upper
  case. The size at which `%u` wraps round and the longest count of iterations
  that is read are constants; the theorems hold for all of them. Commands are
  kept in the order in which they are read, and a vector holds their numbers
  where the code's hold pointers. `Rewrite` writes what was read in the notation
  of the README and has it read again; it is the one action that is not the
  program's. Two kinds of commands that the notation allows are not among those
  written, as they are not read as written: a Call whose party holds a `w`, and a
  Record whose file name begins with a digit (`WellFormed`).
* `Commands`: the text is chosen token by token while it is parsed. The
  arguments of a command are abstracted to whether they are accepted; a
  command's number in the text is its identity.

## Runs and bounds

Every run is `tlc -config X.cfg MCModule.tla`. Runs whose expectation is a
violation are described under [findings](#findings). Every property has a
mistake in the code, an operator with an underscore in its name, that it is
seen to catch under the same configuration.

| run | bounds | what it shows |
|---|---|---|
| `TPState` | two OPAL threads with 2 and 1 calls, Main with 2, one signal on any thread | mutual exclusion, no lost wakeup, finality of `TERMINATED`; the monitor implements `StateRegister`; every operation returns and a wait reports a termination, unless a handler has interrupted the holder of the semaphore |
| `Playback` | SIP with two calls that overlap, and RTP; three Voice commands, files of up to two frames, one signal | the assert (in RTP mode the file of a Voice stays open, but with `sync` taken), no stale wakeup; a playback that is served ends; `Playback` implements `Player` |
| `Recording` | SIP with two calls, and RTP; two recordings of three milliseconds in frames of two, one signal | the assert, no stale wakeup, never too long and never too short; a recording that media reaches ends; `Recording` implements `Player` |
| `CallControl_safety` | SIP with two calls, and RTP; programs of three commands, one signal | a Call or Answer ends well only for a report that came after its `CONNECTING`, of a call set up since the last Hangup; no `ESTABLISHED` without a call, tones, late dials |
| `CallControl_liveness` | one call, two commands, one signal; two ticks to the second, timeouts of exactly and more than a second | every Call ends; a terminated phone exits; accuracy of timeouts and waits |
| `Phone` | every combination of the options; two calls, four parties (with and without an `@`, of one to three tokens), three commands, one signal | only two pointers are used unset; no dialled call is left; frames go to the open session of the last Call, and lead to its party unless there is a `-w` and no `@`; `-m` binds dialled calls |
| `CommandSyntax` | every text of up to four letters out of fifteen (two digits stand for all ten), every text of up to eight of `l`, `j`, `h` and `;`, 4588 programs of up to three commands with names that look like commands, digits or options; `%u` wraps round at 100, counts of up to two digits are read | what is written is read, whatever is read can be written, one command to a phrase |
| `Commands` | every text of up to six commands with two labels, one count that is read and one that is too long | `Commands` implements `Script`; distinct suffixes; every script ends |

Why the bounds are enough. Two callbacks are what it takes to set a state
between any two accesses and once more; two calls are what it takes for the
legs of an earlier and a later call to mix, and for two pumps to meet. Three
Voice commands let a wakeup that is left over survive a whole playback. Three
commands are a call, something after it and another call. Six tokens hold two
labelled loops, one within the other, with a command in each, and five an
outer loop without a label, which takes inner labels away. Frames of two
milliseconds and a length of three make a last frame that does not fit. Four
letters are a command with every sequence of three that may follow it, options,
digits and a `;` among them; eight of the smaller alphabet are a label, a
command, a loop and its label. Three commands are a Call, a second one that
replaces the session or an Answer, and a Voice or Hangup after it.
The proofs remove the bounds for the safety properties of all modules, the
refinements included. `CHECK_DEADLOCK FALSE`
stands where the program ends or, as the comment in the configuration says,
waits for ever.

Symmetry is used for calls, in `CallControl_safety` and `Phone`, which check
safety only.

## Fairness

* A thread inside an operation is scheduled: weak fairness of its steps.
* A thread that waits for the semaphore `sync` gets it: strong fairness of
  the locking steps in `Playback` and `Recording`. `sync` is free between two
  frames, for as long as the pacing in `Read` and `Write` (or the wait for the
  next packet) takes, which is far longer than a wakeup.
* An open stream is pumped. OPAL's media threads read and write it until it is
  closed.
* In `CallControl` time passes, and a call that is being released has both
  its connections reported and is cleared in the end.
* The interpreter goes on: each command it has started returns or fails. For
  `Voice` and `Record` this needs a stream, see the findings.

Nothing obliges a call to come, to be answered, to be established or to end, a
file to end before its last frame, or a signal to arrive.

## Findings

Runs that are expected to find a violation of what the documentation, a
comment or a message of the program says. Each checks one property.

| run | what the code does |
|---|---|
| `TPState_signal` | A signal that is taken by a thread inside `SetState`, `GetState` or `WaitForStateChange` waits in the handler for the semaphore its own thread holds. |
| `Playback_terminate` | A Voice command without a stream to serve it sleeps for ever, and a termination does not wake it. |
| `Recording_until_silent` | The option `s` of Record is tested the wrong way round. |
| `CallControl_answer_lost` | Answer sets `CONNECTING` over an `ESTABLISHED` that is already there and waits for it. |

Others show in how a property had to be stated, or need no model:

* In RTP mode the first Voice command leaves with `sync` taken and its file open
  (`src/src/channels.cpp:77`): the next Voice waits for ever (Record and the
  frames received have an object of their own). `AssertHolds` says that the file
  is open exactly while `sync` is lost, so that nobody reaches the assert; the
  liveness properties are about a Voice that is served.
* `~Manager` deletes `m_rtpsession`, which only a Call in RTP mode has set
  (`src/src/main.cpp:243`, `:254`), and Answer uses the SIP endpoint that H.323
  and RTP do not have (`src/src/main.cpp:631`). `OnlyKnownCrashes` says that
  these are the only two.
* With `-w` a Call in RTP mode has `rtp:` put before its party unless there is an
  `@` in it (`src/src/commands.cpp:162`, `:171`), and `MakeCall` splits that at the
  colons: an address with a port is refused, and one without is taken for the
  port of a host named `rtp` (`src/src/main.cpp:552`). `WritesToOpenSession`
  therefore says that frames can miss the party of the last Call only if there
  is a `-w` and no `@` in the party.
* A registered phone listens before `-m` has been read: a call that comes in
  by then is offered every codec (`src/src/main.cpp:281`, `:388`).
  `FilterOfOwnCalls` is stated for the others.
* A program that cannot be parsed ends without `TERMINATED` and without
  `ClearAllCalls` (`src/src/main.cpp:286`); a call that has come in is left to
  `~OpalManager`. `QuietWhenDestroyed` is about dialled calls.
* `src/README.md:75` shows the program `c;w200;d12345`, which is refused ("Call:
  Empty remote party", `src/src/commands.cpp:113`): a Call needs a party, and the
  grammar a few lines below says so. Letters that start no command are passed
  over in silence until one does, and numbers that do not fit are read as `%u`
  reads them. `ReadsWhatIsWritten` is about the grammar.
* Answer takes a `CLOSED` that is news for success and prints that the
  connection is established (`src/src/commands.cpp:261`): `NoStaleSuccess` says
  that the state is news, not that it is `ESTABLISHED`.
* The callbacks do not look which call they report. An earlier call that was not
  hung up may have its second connection released while the next Call waits;
  the `CLOSED` of that `OnReleased` (`src/src/main.cpp:753`) then ends the Call,
  which returns true. Hangup waits until both connections have been reported,
  so `NoStaleSuccess` excludes only calls from before the last Hangup.
* A Call may time out before its timeout, by less than a second, as whole
  seconds are compared with milliseconds (`src/src/commands.cpp:199`):
  `TimeoutNotEarly` allows for it. The default timeout is 10 ms
  (`src/src/commands.h:71`).
* Wait sleeps once more than its length asks for, so `w200` takes 300 ms
  (`src/src/commands.cpp:477`): `WaitAccurate` has the bound that holds.
* In a program that calls and answers, tones of a call go to the local
  connection, as `listenmode` is set for the whole program while it is parsed
  (`src/src/commands.cpp:232`, `src/src/main.cpp:452`): `TonesReachParty` is
  stated for programs of one direction.
* A Record command without media sleeps for ever like Voice, in any state of
  the phone (`src/src/channels.cpp:290`): `RecordingEnds` asks for an open
  stream.
* A loop count of eight digits or more is ignored and the body runs once
  (`src/src/commands.cpp:555`): `ImplementsScript` is about the counts that are
  read.
* `ws` never sees silence in SIP mode, as `TestChannel::Write` passes FALSE for
  every frame (`src/src/channels.cpp:361`).
* The remote party that Answer may be given is parsed and never compared, and
  loop suffixes are joined with `_` where `src/README.md:124` shows `-`.

A recording of frames that are not whole milliseconds may exceed its length,
because the rest of the division is not counted (`src/src/channels.cpp:325`), and one
whose length does not fit an `int` is in effect unbounded: `MaxMillisHonoured`
is stated for the others (`InRange`).

## Proofs

The eight `*Proofs` modules are checked by `tlapm`. Each component has an inductive
invariant `IInv` that implies `TypeOK`; lemmas `InitInv` and `StepInv` say
that it holds at first and is kept by every action, one step of the proof for
each action; `Invariance` is `Spec => []IInv`, and each property follows.
`CommandSyntaxProofs` has an invariant for each of its theorems instead.

| module | theorems | why the property alone is not inductive |
|---|---|---|
| `TPStateProofs` | `TypeCorrect`, `LockSafe`, `WakeupSafe` and finality of `TERMINATED` and the refinement of `StateRegister` | A write in `SetState` follows its test: `CheckedInv` carries the test over the steps between. That no wakeup is lost needs `WaitingInv` (`someonewaiting` tells where Main is) and `NewsInv` (whoever made the news is about to signal it). |
| `PlaybackProofs` | `AssertSafe`, `WakeupSafe`, `ResultSafe` and the refinement of `Player` | `LockInv` makes `sync` a lock; `FileInv` and `StopInv` say that one stop takes the file away, sets the result and then wakes Main; `WakeInv` that the wakeup is for this file. RTP mode has an invariant of its own, `RtpInv`: once a file was opened it stays open and `sync` is never given back. |
| `RecordingProofs` | the same, with `LengthSafe`, `FullLengthSafe`, `SilenceSafe` and `CountersSafe` | as above, and `LengthInv`: bytes written and milliseconds left add up to the length asked for, without wrapping around; `ExactInv` that they do so exactly if the frames are whole milliseconds. An append that fails leaves the file open; `FileInv` keeps that together with the end of the program. |
| `PhoneProofs` | `CrashesKnown`, `QuietAtTheEnd`, `SessionIsOpen`, `FilterHolds` | `OptionsInv` says what Init has set up by the time it is used; `RtpInv` that ESTABLISHED means an open session in RTP mode, where there are no calls, and that it is the session of the Call that ran last; `CallsInv` that a live call was dialled or there is a listener; `FilterInv` that nothing is dialled before `-m` is read. |
| `CallControlProofs` | `LateDialSafe`, `FreshSafe`, `LiveSafe`, `TonesSafe`, `TimeoutSafe`, `WaitSafe` | `LateInv` follows a late dial to the end of the program; `FreshInv` relates what was read to what is set and by whom, and says that only a call set up since the last Hangup has anything left to report; `LiveInv` needs that a live call has no released connection when it is the one that was established; `WaitInv` is the sum of what was slept and what is left. |
| `CommandsProofs` | `TypeCorrect`, `NoFileTwice` | `WellNested` says of a vector that its commands stand in an interval of the text and that the bodies of its loops stand between them, `Stack` that the activations are nested in the same way and their suffixes continue one another, `Order` that what was run of an activation's vector belongs to an earlier round or stands before its iterator. |
| `ScriptProofs` | `Meaningful`, `Refinement` | `RInv` adds to `IInv` what the vectors mean: `Exact`, that nothing of the text is missing between the commands of a vector and each loop begins where `Beginning` says; `Insides`, that the activations above the first are those of the loops around the next command. |
| `CommandSyntaxProofs` | `TypeCorrect`, `PhraseByPhrase`, `ReadAsWritten` | Each says something of the end of the parsing. `PhraseInv` counts the phrases up to the pointer and says that the pointer is at a `;` or at the end of the text once a letter of a command was met; `HolderInv` that every command read so far is in exactly one vector. `MeantInv` says that the commands read so far are the first of those meant, and that the pointer is where the text of the last of them ends; `VectorInv` that the vector is the one these commands have by themselves, so that a loop finds the label that stands before it. |

The state of `Commands` holds vectors within vectors to any depth, over which
no invariant can recurse. `IInv` says instead that there *is* a set of vectors,
closed under the bodies of the loops in it, that holds those of all activations;
a loop that is parsed adds its body to that set. That no command runs twice
under one suffix then follows without induction over the nesting: the command
that is next stands behind what its activation has passed, so an entry of the
log for it can only be of an earlier round, and its suffix differs.

The refinement of `Script` goes through the same set of vectors. `IInv` keeps the
order of the text; that is not enough, as a vector that has lost a command
keeps it too. `RInv` says that every vector is exact, and then the three mapped
variables can be computed: the position of `Script` is the one behind what the
activation on top has passed (`NextIs`), the loops around it in the text are the
upper bounds of the activations above the first, from the outside in
(`FramesAreAround`), and their iterations are the counts of these activations
(`SuffixIs`). What the proof needs of `PopToInnerSequence` is `NamesAgree`: the
labels still in the vector are those of the text that no loop has enclosed, so
taking the last one from the vector is what `Beginning` says. `Beginning` is
recursive over the text; that it exists, and that it does not change when the
text grows, is proved by looking at the first position at which it would fail.
Each step of the interpreter then is a step of `Script` (`Run`, `Advance`, `Unwind`
between the frames are stutters) and `StepRefines` has a case for each.

`CommandSyntaxProofs` is about texts of any length and numbers of any size. Its
centre is `WrittenReads`: the arguments a command is written with can be read as
that command (`ParsesTo`), and `ReadsOne` says as no other. It rests on
what the scanners stop at (no option is a digit, no file name of a Record begins
with one, no party holds a `w`), and on `DecimalReads`, that the digits written
for a number are read as that number. `StopAt` finds the end of a command at
the `;` behind its arguments, `PhraseAt` finds these in the text of a whole
program. `Steps` reduces the sixteen parsing actions to three kinds of steps,
a letter passed over, one command read, and a refusal, so that each invariant
needs few cases. That whatever is read of any text may be written down again
(`Rewrite`) is `ParsesFormed` with `VectorInv`: a command that is read has no `;`
in its name, and a loop that was read has found its label.

The prover has no induction over data, so what a recursive function returns for
every argument is proved from sets of numbers: `Inductive` and `Complete` say that
a set that holds 0 (or every number whose smaller ones it holds) holds all,
and `RecursiveExists` that a function with the recursion exists, of which
`Value`, `Decimal`, `Writing` and `Vectors` are instances.

Assumptions are those named in the modules (`...Assumption`): a thread is not a
call, `NoCall` is not a call, a party is a record of an `@` and a number of tokens, bounds and sizes are natural numbers, a
`size_t` holds any `int` number of milliseconds in bytes, texts are made of
characters that include the letters of the notation, and programs that are
written down give each command what its kind needs and each loop a label that
stands before it (`Sensible`). TLC evaluates them in the runs.

Only model-checked: all liveness properties, as fairness and `ENABLED` are beyond
the prover.

## What is not modelled

* Options that are only passed on to OPAL (`-u`, `-a`, `-l`, `-p`, `-g`, `-o`),
  and how OPAL matches codecs with `-m`.
* What Call and Answer wait for in H.323 mode: `Phone` has its start, its calls
  and its missing listener, `CallControl` is SIP and RTP.
* RTP timestamps, the jitter buffer and the pacing of frames, `OnOpenMediaStream`
  and the local endpoint, which only create objects and log; the help text and
  the names of reasons.
* The inside of OPAL and PTLib. Semaphores, sync points, the life of a call
  and of a stream are modelled from how the code uses them and marked external
  in the map.
* The upper case of options, and the tones `*`, `A` to `D` and `!`, in
  `CommandSyntax`; the code treats them like their representatives. A timeout of
  Call that does not fit a `size_t` is not wrapped round there.
* Data races on memory: `currentCallToken` is assigned atomically, counters are
  updated in one step. The commands leaked by
  a loop that names no label (`src/src/commands.cpp:547`), the sessions that a
  later Call replaces and the channels that no stream deletes are matters of
  memory.
* `PlaybackAudioBuffer`, which nothing calls; `DeleteSequence`, which frees.

## Plan

Built, in this order: `TPState` (everything else polls it), `OpalCalls` with
`Playback` and `Recording` (the handshake of Main and the media threads),
`CallControl`, `Commands`, then `Player` and its refinements, `Phone` and
`CommandSyntax`.

What could follow:

1. `CallControl` composed with `Player`: Voice and Record between calls, with
   `EstablishedIsLive` as the precondition of Voice, and `Wait` on the counters.
2. The silence counters access by access, with two pumps and Main.
