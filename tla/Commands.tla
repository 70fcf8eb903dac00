------------------------------ MODULE Commands -------------------------------
(***************************************************************************)
(* The command language of sipcmd: Command::Parse builds a vector of       *)
(* commands, in which a Loop takes the commands it encloses out of the     *)
(* vector and keeps them in a vector of its own, and Command::Run walks    *)
(* over the vector, calling itself for the body of a loop.                 *)
(*                                                                         *)
(* A token is one command of the text, with the letters of its arguments   *)
(* abstracted: "plain" is any of c, a, h, d, v, r and w, which may succeed *)
(* or fail when it is run; "bad" is any command whose own ParseCommand     *)
(* refuses its arguments.  Characters that start no command are skipped by *)
(* Parse and have no token.  The text is chosen token by token while it is *)
(* parsed, so that every text of at most MaxTokens commands is parsed.     *)
(***************************************************************************)
EXTENDS Integers, Sequences, FiniteSetsExt, SequencesExt

CONSTANTS
  Labels,
  NoLabel,     \* of a loop that is written without one
  Times,       \* the iteration counts that are written; 0 also if none is
  CountLimit,  \* stands for 10^7: a count of eight digits or more is ignored
  MaxTokens

ASSUME LabelAssumption == NoLabel \notin Labels
ASSUME BoundsAssumption ==
  /\ Times \subseteq Nat /\ CountLimit \in Nat /\ MaxTokens \in Nat

VARIABLES
  cmds,      \* the tokens parsed
  sequence,  \* the vector of commands
  status,    \* "reading", "running", "failing", "done", "rejected" or "failed"
  frames,    \* of Command::Run, the innermost last
  log        \* the commands run: <<id, loopsuffix>>

vars == <<cmds, sequence, status, frames, log>>

Token ==
  [op : {"plain", "bad"}, label : {NoLabel}, times : {0}]
    \cup [op : {"label"}, label : Labels, times : {0}]
    \cup [op : {"loop"}, label : Labels \cup {NoLabel}, times : Times]

(***************************************************************************)
(* A command knows its position in the text.  loops is 0 when the count    *)
(* was not read, and loopedsequence is empty but in a loop.                *)
(***************************************************************************)
CountOf(times) == IF times < CountLimit THEN times ELSE 0

Command(t, looped) ==
  [op |-> t.op, id |-> Len(cmds) + 1, label |-> t.label,
   loops |-> CountOf(t.times), loopedsequence |-> looped]

Init ==
  /\ cmds = <<>> /\ sequence = <<>> /\ status = "reading"
  /\ frames = <<>> /\ log = <<>>

-----------------------------------------------------------------------------
(* Command::Parse: one command of the text a step.                         *)

ParseAny(t) ==
  /\ status = "reading" /\ Len(cmds) < MaxTokens
  /\ cmds' = Append(cmds, t)
  /\ UNCHANGED <<frames, log>>

ParseCommand(t) ==
  /\ t.op \in {"plain", "label"}
  /\ ParseAny(t)
  /\ sequence' = Append(sequence, Command(t, <<>>))
  /\ UNCHANGED status

ParseError(t) ==
  /\ t.op = "bad"
  /\ ParseAny(t)
  /\ status' = "rejected"
  /\ UNCHANGED sequence

(***************************************************************************)
(* PopToInnerSequence takes commands off the end of the vector until the   *)
(* label is the last one, and keeps it there.  Without a label it takes    *)
(* them all; with one that is not there it does so too, and fails.         *)
(***************************************************************************)
Named(t) == {p \in DOMAIN sequence : /\ sequence[p].op = "label"
                                     /\ sequence[p].label = t.label}

Inner(t) == IF Named(t) = {} THEN 0 ELSE Max(Named(t))

ParseLoop(t) ==
  /\ t.op = "loop" /\ (t.label = NoLabel \/ Named(t) # {})
  /\ ParseAny(t)
  /\ LET loop == Command(t, SubSeq(sequence, Inner(t) + 1, Len(sequence)))
     IN sequence' = Append(SubSeq(sequence, 1, Inner(t)), loop)
  /\ UNCHANGED status

ParseLoopError(t) ==
  /\ t.op = "loop" /\ t.label # NoLabel /\ Named(t) = {}
  /\ ParseAny(t)
  /\ sequence' = <<>> /\ status' = "rejected"

-----------------------------------------------------------------------------
(* Command::Run and Loop::RunCommand.                                      *)

(* The activation of Run for a vector.  timesleft and loops are those of   *)
(* the Loop::RunCommand that called it, loopsuffix is its argument.        *)
Frame(seq, loops, suffix) ==
  [seq |-> seq, it |-> 1, timesleft |-> 0, loops |-> loops, loopsuffix |-> suffix]

top == Last(frames)
AtEnd == top.it > Len(top.seq)
cmd == top.seq[top.it]
Advance(fs) == [fs EXCEPT ![Len(fs)].it = @ + 1]

Run ==
  /\ status = "reading"
  /\ status' = "running" /\ frames' = <<Frame(sequence, 1, <<>>)>>
  /\ UNCHANGED <<cmds, sequence, log>>

Running(op) == status = "running" /\ ~AtEnd /\ cmd.op = op

RunCommand ==
  /\ Running("plain")
  /\ log' = Append(log, <<cmd.id, top.loopsuffix>>)
  /\ \/ frames' = Advance(frames) /\ UNCHANGED status
     \/ status' = "failing" /\ UNCHANGED frames
  /\ UNCHANGED <<cmds, sequence>>

RunLabel_Twice ==                 \* fault: the iterator is advanced twice
  /\ Running("label")
  /\ frames' = Advance(Advance(frames))
  /\ UNCHANGED <<cmds, sequence, status, log>>

RunLabel ==
  /\ Running("label")
  /\ frames' = Advance(frames)
  /\ UNCHANGED <<cmds, sequence, status, log>>

RunLoop_SuffixReset ==            \* fault: the suffix of the outer loop is lost
  /\ Running("loop")
  /\ frames' = Append(frames, Frame(cmd.loopedsequence, cmd.loops, <<0>>))
  /\ UNCHANGED <<cmds, sequence, status, log>>

RunLoop ==
  /\ Running("loop")
  /\ frames' = Append(frames, Frame(cmd.loopedsequence, cmd.loops,
                                    Append(top.loopsuffix, 0)))
  /\ UNCHANGED <<cmds, sequence, status, log>>

(* Run returns true to the loop, which counts and asks for another round.  *)
Again ==
  /\ status = "running" /\ AtEnd /\ Len(frames) > 1
  /\ top.timesleft + 1 < top.loops
  /\ LET round == [top EXCEPT !.timesleft = @ + 1, !.it = 1]
         suffix == Append(frames[Len(frames) - 1].loopsuffix, round.timesleft)
     IN frames' = Append(Front(frames), [round EXCEPT !.loopsuffix = suffix])
  /\ UNCHANGED <<cmds, sequence, status, log>>

LoopDone_Restart ==               \* fault: a loop that is done is begun again
  /\ status = "running" /\ AtEnd /\ Len(frames) > 1
  /\ top.timesleft + 1 >= top.loops
  /\ frames' = Front(frames)
  /\ UNCHANGED <<cmds, sequence, status, log>>

LoopDone ==
  /\ status = "running" /\ AtEnd /\ Len(frames) > 1
  /\ top.timesleft + 1 >= top.loops
  /\ frames' = Advance(Front(frames))
  /\ UNCHANGED <<cmds, sequence, status, log>>

RunDone ==
  /\ status = "running" /\ AtEnd /\ Len(frames) = 1
  /\ status' = "done" /\ frames' = <<>>
  /\ UNCHANGED <<cmds, sequence, log>>

Unwind_Ignored ==                 \* fault: a loop does not hand on the false
  /\ status = "failing"
  /\ frames' = Front(frames)
  /\ status' = IF Len(frames) = 1 THEN "failed" ELSE "running"
  /\ UNCHANGED <<cmds, sequence, log>>

(* Run returns false, to the loop that called it or to Manager::Main.      *)
Unwind ==
  /\ status = "failing"
  /\ frames' = Front(frames)
  /\ status' = IF Len(frames) = 1 THEN "failed" ELSE "failing"
  /\ UNCHANGED <<cmds, sequence, log>>

ParseNext ==
  \E t \in Token : ParseCommand(t) \/ ParseError(t) \/ ParseLoop(t) \/ ParseLoopError(t)

RunNext == RunCommand \/ RunLabel \/ RunLoop \/ Again \/ LoopDone \/ RunDone \/ Unwind

Next == ParseNext \/ Run \/ RunNext

Spec == Init /\ [][Next]_vars

(* The interpreter goes on as long as each command it runs returns, which  *)
(* is the subject of CallControl, Playback and Recording.                  *)
FairSpec == Spec /\ WF_vars(RunNext)

-----------------------------------------------------------------------------
(* Properties.                                                             *)

(* The variables have their types: in particular the iterator of every     *)
(* activation stays within its vector or one behind it, and the commands   *)
(* of a vector are in the order of the text.                               *)
InOrder(seq) == \A i, j \in DOMAIN seq : i < j => seq[i].id < seq[j].id

TypeOK ==
  /\ cmds \in Seq(Token) /\ Len(cmds) <= MaxTokens
  /\ status \in {"reading", "running", "failing", "done", "rejected", "failed"}
  /\ InOrder(sequence)
  /\ \A k \in DOMAIN frames :
       /\ frames[k].it \in 1..Len(frames[k].seq) + 1
       /\ frames[k].timesleft \in Nat
       /\ frames[k].timesleft = 0 \/ frames[k].timesleft < frames[k].loops
       /\ InOrder(frames[k].seq)
  /\ (frames # <<>>) <=> (status \in {"running", "failing"})

(* A command never runs twice under the same suffix, so that no iteration  *)
(* of a Record with the option i writes over the file of another           *)
(* (Loop::RunCommand extends the suffix, Record::RunCommand uses it).      *)
SuffixesDistinct == \A i, j \in DOMAIN log : i # j => log[i] # log[j]

(* Every script comes to an end if each of its commands does: no count and *)
(* no nesting of labels makes Loop::RunCommand go round for ever.          *)
RunEnds == (status = "running") ~> (status \in {"done", "failed"})

(***************************************************************************)
(* The nested vectors are the flat script: the position that is next is    *)
(* the one behind the last command that some activation has passed.        *)
(***************************************************************************)
Passed == {0} \cup {frames[k].seq[frames[k].it - 1].id :
                      k \in {n \in DOMAIN frames : frames[n].it > 1}}

pcBar == IF status = "running" THEN Max(Passed) + 1 ELSE 0

LoopOf(k) == frames[k - 1].seq[frames[k - 1].it].id

iterationBar ==
  [i \in 1..MaxTokens |->
     IF status = "running" /\ \E k \in 2..Len(frames) : LoopOf(k) = i
     THEN frames[CHOOSE k \in 2..Len(frames) : LoopOf(k) = i].timesleft
     ELSE 0]

statusBar == IF status = "failing" THEN "failed" ELSE status

AsRead(t) == [t EXCEPT !.times = CountOf(@)]

scriptBar == [i \in DOMAIN cmds |-> AsRead(cmds[i])]

Meaning == INSTANCE Script WITH
  Token <- {AsRead(t) : t \in Token}, script <- scriptBar,
  status <- statusBar, pc <- pcBar, iteration <- iterationBar

(* The interpreter runs exactly what the script says, with the counts      *)
(* Loop::ParseCommand has read: the same commands in the same order, under *)
(* the suffix of the loops around them, and nothing behind one that fails; *)
(* and Parse refuses exactly the scripts in which a loop names a label     *)
(* that is not there, or a command is bad (Command::Parse, Run, Loop).     *)
ImplementsScript == Meaning!Spec

=============================================================================
