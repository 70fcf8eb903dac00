------------------------------- MODULE Script --------------------------------
(***************************************************************************)
(* What the notation of a command sequence means, without the interpreter: *)
(* the script is flat, a program counter walks over it, and a loop jumps   *)
(* back to just behind its label, or to the beginning when it names none,  *)
(* until its body ran as many times as is written (and once if that is     *)
(* zero).  A command runs under the suffix of the loops around it: their   *)
(* iterations, the outermost first.  A command that fails ends the script. *)
(***************************************************************************)
EXTENDS Integers, Sequences, FiniteSets, FiniteSetsExt, SequencesExt

CONSTANTS Token, NoLabel, MaxTokens

VARIABLES
  script,     \* the tokens read
  status,     \* "reading", "running", "done", "rejected" or "failed"
  pc,         \* the position of the command that is next; 0 when not running
  iteration,  \* of the loop at each position
  log         \* the commands run: <<position, suffix>>

scriptVars == <<script, status, pc, iteration, log>>

Positions == 1..MaxTokens
AtRest == [i \in Positions |-> 0]
Nowhere == -1

(***************************************************************************)
(* The position the loop at position i jumps back behind, when b tells it  *)
(* of the earlier loops: the last label of that name that none of these    *)
(* has enclosed.                                                           *)
(***************************************************************************)
Enclosed(s, b, p, i) == \E k \in p + 1..i - 1 : s[k].op = "loop" /\ b[k] < p

LabelsOf(s, b, i) ==
  {p \in 1..i - 1 : /\ s[p].op = "label" /\ s[p].label = s[i].label
                    /\ ~Enclosed(s, b, p, i)}

BehindWhich(s, b, i) ==
  CASE s[i].label = NoLabel -> 0
    [] s[i].label # NoLabel /\ LabelsOf(s, b, i) # {} -> Max(LabelsOf(s, b, i))
    [] OTHER -> Nowhere

Beginning(s) == LET start[i \in DOMAIN s] == BehindWhich(s, start, i) IN start

(* The loops around position p, and their order, the outermost first.      *)
LoopsAround(s, p) ==
  {i \in p + 1..Len(s) : s[i].op = "loop" /\ Beginning(s)[i] < p}

Outward(s, p, i) == {j \in LoopsAround(s, p) : j >= i}

Around(s, p) ==
  [k \in 1..Cardinality(LoopsAround(s, p)) |->
     CHOOSE i \in LoopsAround(s, p) : Cardinality(Outward(s, p, i)) = k]

Suffix(p) == [k \in DOMAIN Around(script, p) |-> iteration[Around(script, p)[k]]]

-----------------------------------------------------------------------------
Init ==
  /\ script = <<>> /\ status = "reading"
  /\ pc = 0 /\ iteration = AtRest /\ log = <<>>

Meaningless(s) ==
  \/ Last(s).op = "bad"
  \/ Last(s).op = "loop" /\ Beginning(s)[Len(s)] = Nowhere

Read ==
  /\ status = "reading" /\ Len(script) < MaxTokens
  /\ \E t \in Token :
       /\ script' = Append(script, t)
       /\ status' = IF Meaningless(script') THEN "rejected" ELSE "reading"
  /\ UNCHANGED <<pc, iteration, log>>

Start ==
  /\ status = "reading"
  /\ status' = "running" /\ pc' = 1
  /\ UNCHANGED <<script, iteration, log>>

At(op) == status = "running" /\ pc <= Len(script) /\ script[pc].op = op

Execute ==
  /\ At("plain")
  /\ log' = Append(log, <<pc, Suffix(pc)>>)
  /\ \/ pc' = pc + 1 /\ UNCHANGED <<status, iteration>>
     \/ status' = "failed" /\ pc' = 0 /\ iteration' = AtRest
  /\ UNCHANGED script

Pass ==
  /\ At("label")
  /\ pc' = pc + 1
  /\ UNCHANGED <<script, status, iteration, log>>

Repeat ==
  /\ At("loop") /\ iteration[pc] + 1 < script[pc].times
  /\ iteration' = [iteration EXCEPT ![pc] = @ + 1]
  /\ pc' = Beginning(script)[pc] + 1
  /\ UNCHANGED <<script, status, log>>

Leave ==
  /\ At("loop") /\ iteration[pc] + 1 >= script[pc].times
  /\ iteration' = [iteration EXCEPT ![pc] = 0]
  /\ pc' = pc + 1
  /\ UNCHANGED <<script, status, log>>

Finish ==
  /\ status = "running" /\ pc > Len(script)
  /\ status' = "done" /\ pc' = 0
  /\ UNCHANGED <<script, iteration, log>>

Next == Read \/ Start \/ Execute \/ Pass \/ Repeat \/ Leave \/ Finish

Spec == Init /\ [][Next]_scriptVars
=============================================================================
