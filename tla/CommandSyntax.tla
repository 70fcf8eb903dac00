---------------------------- MODULE CommandSyntax ----------------------------
(***************************************************************************)
(* The notation of a command sequence, letter by letter: Command::Parse    *)
(* looks for the letter of a command and calls its ParseCommand, which     *)
(* reads the arguments up to the next ';' (src/commands.cpp).  Commands    *)
(* says what the sequence then does.                                       *)
(*                                                                         *)
(* A text is a sequence of letters.  Letters that the code does not tell   *)
(* apart have one representative, and the upper case that Record, Wait and *)
(* Loop take as well is left out.                                          *)
(*                                                                         *)
(* The commands are kept in the order in which they are read.  A vector    *)
(* holds their numbers, as those of the code hold pointers.                *)
(***************************************************************************)
EXTENDS Integers, FiniteSetsExt, SequencesExt

CONSTANTS
  Characters,   \* what a text may be made of
  Texts,        \* texts that anyone may write
  Programs,     \* sequences of commands that are written down and parsed
  UIntSize,     \* the number of values of an unsigned int, which %u reads
  MaxDigits     \* stands for 7: a longer count of iterations is ignored

VARIABLES
  text,         \* the letters
  ptr,          \* the position of the letter that is next
  read,         \* the commands that have been read, in the order of the text
  sequence,     \* the vector of commands, by their numbers in read
  status,       \* "parsing", "done" or "rejected"
  listenmode,   \* Manager::listenmode
  meant         \* history: the commands that were written, or those of the first reading

vars == <<text, ptr, read, sequence, status, listenmode, meant>>

Numerals == <<"0", "1", "2", "3", "4", "5", "6", "7", "8", "9">>
Digits == {Numerals[i] : i \in 1..10}
Semicolon == ";"       \* ends a phrase
ToneLetters == Digits \cup {"#"}
OptionLetters == {"a", "s", "i", "c"}
Letters == {"c", "a", "h", "d", "v", "r", "w", "l", "j"}

(* A command: its letter, the name, digits or label, the number, and the   *)
(* options; of a loop also the commands it has taken over.                 *)
Command(op, name, num, opts) ==
  [op |-> op, name |-> name, num |-> num, opts |-> opts, looped |-> <<>>]

DialTimeout == 10      \* Call::dialtimeout, if none is given

-----------------------------------------------------------------------------
(* The text of a command, as README.md:87-106 defines it                   *)

Decimal(n) ==
  LET decimal[k \in 0..n] ==
        IF k < 10 THEN <<Numerals[k + 1]>>
        ELSE Append(decimal[k \div 10], Numerals[(k % 10) + 1])
  IN decimal[n]

Option(c, o) == IF o \in c.opts THEN <<o>> ELSE <<>>
Options(c) == Option(c, "a") \o Option(c, "s") \o Option(c, "i") \o Option(c, "c")

Arguments(c) ==
  CASE c.op = "c" -> c.name \o <<"w">> \o Decimal(c.num)
    [] c.op \in {"a", "d", "v", "l"} -> c.name
    [] c.op = "h" -> <<>>
    [] c.op = "r" -> Options(c) \o Decimal(c.num) \o c.name
    [] c.op = "w" -> Options(c) \o Decimal(c.num)
    [] c.op = "j" -> (IF c.num = 0 THEN <<>> ELSE Decimal(c.num))
                       \o (IF c.name = <<>> THEN <<>> ELSE <<"l">> \o c.name)

Written(c) == <<c.op>> \o Arguments(c)

(* The text of the first n commands of a program, for every n.             *)
Writing(program) ==
  LET writing[n \in 0..Len(program)] ==
        IF n = 0 THEN <<>> ELSE writing[n - 1] \o Written(program[n]) \o <<Semicolon>>
  IN writing

WrittenAll(program) == Writing(program)[Len(program)]

(* The commands without what the loops have taken over.                    *)
Bare(program) == [i \in DOMAIN program |-> [program[i] EXCEPT !.looped = <<>>]]

-----------------------------------------------------------------------------
(* Positions of a sequence whose letters are, or are not, in a set.        *)
In(s, set) == {i \in DOMAIN s : s[i] \in set}
First(s, set) == Min(In(s, set) \cup {Len(s) + 1})
AllIn(s, set) == In(s, set) = DOMAIN s

Before(s, n) == SubSeq(s, 1, n - 1)      \* the letters before position n
From(s, n) == SubSeq(s, n, Len(s))     \* the letters from there on

(* PopToInnerSequence: back to the last label of that name, or all of it.  *)
Named(program, v, label) ==
  {i \in DOMAIN v : program[v[i]].op = "l" /\ program[v[i]].name = label}
Inner(program, v, label) == Max(Named(program, v, label) \cup {0})
Found(program, v, label) == label = <<>> \/ Named(program, v, label) # {}

(* The vector v with the n-th command of a program; a loop takes over what  *)
(* is behind its label.                                                    *)
Pushed(program, v, n) ==
  IF program[n].op = "j" THEN Append(SubSeq(v, 1, Inner(program, v, program[n].name)), n)
                         ELSE Append(v, n)

(* The vector after n commands of a program, for every n, and that every   *)
(* loop finds its label there.                                             *)
Vectors(program) ==
  LET vectors[n \in 0..Len(program)] ==
        IF n = 0 THEN <<>> ELSE Pushed(program, vectors[n - 1], n)
  IN vectors

LabelsFound(program) ==
  \A n \in DOMAIN program :
    program[n].op = "j" => Found(program, Vectors(program)[n - 1], program[n].name)

(* A command has the arguments its kind needs, and none that the notation  *)
(* has no room for.  README.md:87-106 allows two that cannot be read back  *)
(* and are therefore left out: a Call whose party has a 'w' in it, where   *)
(* the party is cut (commands.cpp:110), and a Record whose file name       *)
(* begins with a digit, which is read as part of the length.               *)
OptionsOf(op) == CASE op = "r" -> {"a", "s", "i"} [] op = "w" -> {"a", "s", "c"} [] OTHER -> {}

CommandType ==
  [op : Letters, name : Seq(Characters), num : Nat, opts : SUBSET OptionLetters, looped : Seq(Nat)]

WellFormed(c) ==
  /\ c \in CommandType
  /\ AllIn(c.name, Characters \ {Semicolon})
  /\ c.op \in {"c", "d", "v", "l", "r"} => c.name # <<>>
  /\ c.op \in {"h", "w"} => c.name = <<>>
  /\ c.op = "c" => c.num > 0 /\ AllIn(c.name, Characters \ {"w"})
  /\ c.op = "d" => AllIn(c.name, ToneLetters)
  /\ c.op = "r" => Head(c.name) \notin Digits
  /\ c.op \in {"r", "w"} => c.num < UIntSize
  /\ c.op \in {"a", "h", "d", "v", "l"} => c.num = 0
  /\ c.op = "j" => c.num = 0 \/ Len(Decimal(c.num)) <= MaxDigits
  /\ c.opts \subseteq OptionsOf(c.op)
  /\ c.op = "w" => ~ {"a", "s"} \subseteq c.opts

Sensible(program) ==
  /\ program \in Seq(CommandType)
  /\ \A i \in DOMAIN program : WellFormed(program[i]) /\ program[i].looped = <<>>
  /\ LabelsFound(program)

ASSUME SyntaxAssumption ==
  /\ UIntSize \in Nat \ {0} /\ MaxDigits \in Nat
  /\ Letters \cup OptionLetters \cup ToneLetters \cup {Semicolon} \subseteq Characters
  /\ Texts \subseteq Seq(Characters)
  /\ \A p \in Programs : Sensible(p)

-----------------------------------------------------------------------------
Unread == <<Command("none", <<>>, 0, {})>>     \* no commands have been written yet

Start(t) ==
  /\ text = t /\ ptr = 1 /\ read = <<>> /\ sequence = <<>>
  /\ status = "parsing" /\ listenmode = FALSE

Init ==
  \/ \E t \in Texts : Start(t) /\ meant = Unread
  \/ \E p \in Programs : Start(WrittenAll(p)) /\ meant = p

(* The next ';' or the end of the text, and the letters up to it.          *)
Stop == Min({i \in ptr + 1..Len(text) : text[i] = Semicolon} \cup {Len(text) + 1})
arg == SubSeq(text, ptr + 1, Stop - 1)

At(op) == status = "parsing" /\ ptr <= Len(text) /\ text[ptr] = op

Digit(d) == (CHOOSE i \in 1..10 : Numerals[i] = d) - 1

Value(digits) ==
  LET value[n \in 0..Len(digits)] ==
        IF n = 0 THEN 0 ELSE 10 * value[n - 1] + Digit(digits[n])
  IN value[Len(digits)]

Scan(digits) == Value(digits) % UIntSize      \* sscanf %u

Push(c) ==
  /\ read' = Append(read, c) /\ sequence' = Append(sequence, Len(read) + 1) /\ ptr' = Stop
  /\ UNCHANGED <<text, status, meant>>

Refuse == status' = "rejected" /\ UNCHANGED <<text, ptr, read, sequence, listenmode, meant>>

(* A letter that starts no command is passed over.                         *)
Skip ==
  /\ status = "parsing" /\ ptr <= Len(text) /\ text[ptr] \notin Letters
  /\ ptr' = ptr + 1
  /\ UNCHANGED <<text, read, sequence, status, listenmode, meant>>

-----------------------------------------------------------------------------
(* Call::ParseCommand: the party is what stands before the first w.        *)

Party(a) == Before(a, First(a, {"w"}))
Timeout(a) == From(a, First(a, {"w"}) + 1)

CallArgs(a) ==
  /\ Party(a) # <<>>
  /\ Party(a) # a =>
       Timeout(a) # <<>> /\ AllIn(Timeout(a), Digits) /\ Head(Timeout(a)) # "0"

CallOf(a) ==
  Command("c", Party(a), IF Party(a) = a THEN DialTimeout ELSE Value(Timeout(a)), {})

ParseCall == At("c") /\ CallArgs(arg) /\ Push(CallOf(arg)) /\ UNCHANGED listenmode

ParseCallError == At("c") /\ ~ CallArgs(arg) /\ Refuse

ParseAnswer == At("a") /\ Push(Command("a", arg, 0, {})) /\ listenmode' = TRUE

ParseHangup == At("h") /\ Push(Command("h", <<>>, 0, {})) /\ UNCHANGED listenmode

ToneArgs(a) == a # <<>> /\ AllIn(a, ToneLetters)

ParseDTMF_Unchecked ==            \* fault: what follows the digits is taken for digits
  At("d") /\ arg # <<>> /\ Push(Command("d", arg, 0, {})) /\ UNCHANGED listenmode

ParseDTMF == At("d") /\ ToneArgs(arg) /\ Push(Command("d", arg, 0, {})) /\ UNCHANGED listenmode

ParseDTMFError == At("d") /\ ~ ToneArgs(arg) /\ Refuse

ParseVoice == At("v") /\ arg # <<>> /\ Push(Command("v", arg, 0, {})) /\ UNCHANGED listenmode

ParseLabel_Short ==               \* fault: the label ends where a command may begin
  /\ At("l") /\ arg # <<>>
  /\ read' = Append(read, Command("l", SubSeq(arg, 1, 1), 0, {}))
  /\ sequence' = Append(sequence, Len(read) + 1)
  /\ ptr' = ptr + 2
  /\ UNCHANGED <<text, status, meant, listenmode>>

ParseLabel == At("l") /\ arg # <<>> /\ Push(Command("l", arg, 0, {})) /\ UNCHANGED listenmode

ParseNameError == (At("v") \/ At("l")) /\ arg = <<>> /\ Refuse

-----------------------------------------------------------------------------
(* Record::ParseCommand: the options are any letters before the first      *)
(* digit, and the file is what follows the digits.                         *)

FromDigits(a) == From(a, First(a, Digits))
Millis(a) == Before(a, First(a, Characters \ Digits))
Rest(a) == From(a, First(a, Characters \ Digits))

RecordArgs(a) == FromDigits(a) # <<>> /\ Rest(FromDigits(a)) # <<>>

RecordOf(a) ==
  Command("r", Rest(FromDigits(a)), Scan(Millis(FromDigits(a))),
          OptionsOf("r") \cap ToSet(Before(a, First(a, Digits))))

ParseRecord == At("r") /\ RecordArgs(arg) /\ Push(RecordOf(arg)) /\ UNCHANGED listenmode

ParseRecordError == At("r") /\ ~ RecordArgs(arg) /\ Refuse

(* Wait::ParseCommand: s or a, then c, then digits and nothing else.       *)
WaitOptions == {<<>>, <<"s">>, <<"a">>, <<"c">>, <<"s", "c">>, <<"a", "c">>}

WaitArgs(a, prefix) ==
  /\ IsPrefix(prefix, a)
  /\ From(a, Len(prefix) + 1) # <<>> /\ AllIn(From(a, Len(prefix) + 1), Digits)

WaitOf(a, prefix) ==
  Command("w", <<>>, Scan(From(a, Len(prefix) + 1)), ToSet(prefix))

ParseWait_NotClosed ==            \* fault: the option c is passed over
  \E prefix \in WaitOptions :
    /\ At("w") /\ WaitArgs(arg, prefix)
    /\ Push([WaitOf(arg, prefix) EXCEPT !.opts = @ \ {"c"}])
    /\ UNCHANGED listenmode

ParseWait ==
  \E prefix \in WaitOptions :
    /\ At("w") /\ WaitArgs(arg, prefix) /\ Push(WaitOf(arg, prefix))
    /\ UNCHANGED listenmode

ParseWaitError == At("w") /\ (\A prefix \in WaitOptions : ~ WaitArgs(arg, prefix)) /\ Refuse

-----------------------------------------------------------------------------
(* Loop::ParseCommand: a count, then l and a label, or nothing.            *)

Count(a) == IF Len(Millis(a)) <= MaxDigits THEN Value(Millis(a)) ELSE 0
LabelOf(a) == IF Rest(a) = <<>> THEN <<>> ELSE Tail(Rest(a))

LoopArgs(a) == Rest(a) # <<>> => Head(Rest(a)) = "l" /\ LabelOf(a) # <<>>

LoopOf(a, looped) ==
  [op |-> "j", name |-> LabelOf(a), num |-> Count(a), opts |-> {}, looped |-> looped]

inner == Inner(read, sequence, LabelOf(arg))

ParseLoop ==
  /\ At("j") /\ LoopArgs(arg) /\ Found(read, sequence, LabelOf(arg))
  /\ read' = Append(read, LoopOf(arg, From(sequence, inner + 1)))
  /\ sequence' = Append(SubSeq(sequence, 1, inner), Len(read) + 1) /\ ptr' = Stop
  /\ UNCHANGED <<text, status, listenmode, meant>>

ParseLoopError == At("j") /\ ~ LoopArgs(arg) /\ Refuse

(* A label that is not there: the commands have been taken out, in vain.   *)
ParseLoopNoLabel ==
  /\ At("j") /\ LoopArgs(arg) /\ ~ Found(read, sequence, LabelOf(arg))
  /\ sequence' = <<>> /\ status' = "rejected"
  /\ UNCHANGED <<text, ptr, read, listenmode, meant>>

ParseEnd ==
  /\ status = "parsing" /\ ptr > Len(text)
  /\ status' = "done"
  /\ UNCHANGED <<text, ptr, read, sequence, listenmode, meant>>

(* What has been read is written down and read again.                      *)
Rewrite ==
  /\ status = "done" /\ meant = Unread
  /\ meant' = Bare(read) /\ text' = WrittenAll(meant')
  /\ ptr' = 1 /\ read' = <<>> /\ sequence' = <<>>
  /\ status' = "parsing" /\ listenmode' = FALSE

ParseCommand ==
  \/ ParseCall \/ ParseCallError \/ ParseAnswer \/ ParseHangup \/ ParseDTMF \/ ParseDTMFError
  \/ ParseVoice \/ ParseLabel \/ ParseNameError \/ ParseRecord \/ ParseRecordError
  \/ ParseWait \/ ParseWaitError \/ ParseLoop \/ ParseLoopError \/ ParseLoopNoLabel

Next == Skip \/ ParseCommand \/ ParseEnd \/ Rewrite

Spec == Init /\ [][Next]_vars

-----------------------------------------------------------------------------
(* Properties *)

(* The pointer stays in the text, every command is well formed, and the    *)
(* vectors hold commands in the order of the text.                         *)
Ordered(v) == \A m, n \in DOMAIN v : m < n => v[m] < v[n]

TypeOK ==
  /\ ptr \in 1..Len(text) + 1 /\ listenmode \in BOOLEAN
  /\ status \in {"parsing", "done", "rejected"}
  /\ \A i \in DOMAIN read : WellFormed(read[i])
  /\ sequence \in Seq(DOMAIN read) /\ Ordered(sequence)
  /\ \A i \in DOMAIN read : read[i].looped \in Seq(1..i - 1) /\ Ordered(read[i].looped)

(* What the notation of README.md:87-106 says is what the parser reads: a  *)
(* sequence of commands that is written down is never refused, and is read *)
(* as itself; so is what was read from any text at all, however odd.       *)
(* (WellFormed excludes parties with a 'w' and names of recordings that    *)
(* begin with a digit: they are not read as written.)  And the manager     *)
(* listens exactly if an Answer was written, inside a loop or not          *)
(* (commands.cpp:232).                                                     *)
ReadsWhatIsWritten ==
  meant # Unread =>
    /\ status # "rejected"
    /\ status = "done" =>
         /\ Bare(read) = meant
         /\ listenmode <=> \E c \in ToSet(meant) : c.op = "a"

(* A phrase between two ';' is at most one command, and it is one if there *)
(* is a letter of a command in it: no argument reaches over a ';', none is *)
(* cut short, and what is left of a phrase is never a second command.  And *)
(* each command is in one vector, that of the script or that of the loop   *)
(* which has taken it over (Loop::PopToInnerSequence).                     *)
Opening(t) ==
  {k \in DOMAIN t : /\ t[k] \in Letters
                    /\ \A j \in 1..k - 1 : t[j] \in Letters => \E m \in j + 1..k : t[m] = Semicolon}

Holders(n) ==
  {i \in DOMAIN read : n \in ToSet(read[i].looped)} \cup {0 : i \in In(sequence, {n})}

OnePerPhrase ==
  status = "done" =>
    /\ Len(read) = Cardinality(Opening(text))
    /\ \A n \in DOMAIN read : Cardinality(Holders(n)) = 1
=============================================================================
