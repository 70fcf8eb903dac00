--------------------------- MODULE MCCommandSyntax ---------------------------
(* Every text of a few letters, longer ones of labels and loops, and every *)
(* way to write down a program of up to three commands.                    *)
EXTENDS CommandSyntax

CONSTANTS
  MaxLen,       \* bound: the letters of a text that anyone may write
  MaxLoopLen    \* bound: the letters of a text of labels and loops only

AllCharacters == Letters \cup OptionLetters \cup ToneLetters \cup {Semicolon}

(* Two digits stand for all of them.                                       *)
AnyText ==
  SeqOf(AllCharacters \ (Digits \ {"0", "1"}), MaxLen)
    \cup SeqOf({"l", "j", "h", Semicolon}, MaxLoopLen)

(* Names that look like commands, like digits and like options.            *)
Names == {<<"h">>, <<"1", "0">>, <<"s", "1">>}
Numbers == {1, 10}

Calls == {Command("c", n, k, {}) : n \in Names, k \in Numbers}
Others == {Command(op, n, 0, {}) : op \in {"a", "v", "l"}, n \in Names}
Alone == {Command("a", <<>>, 0, {}), Command("h", <<>>, 0, {})}
Tones == {Command("d", <<"1", "#">>, 0, {})}
Records == {Command("r", n, k, o) : n \in {<<"h">>, <<"s", "1">>}, k \in Numbers,
                                    o \in SUBSET {"a", "s", "i"}}
Waits == {Command("w", <<>>, k, o) : k \in Numbers,
            o \in {o \in SUBSET {"a", "s", "c"} : ~ {"a", "s"} \subseteq o}}
Loops == {Command("j", <<>>, k, {}) : k \in {0, 10}}

Plain == Calls \cup Others \cup Alone \cup Tones \cup Records \cup Waits

(* A loop may name a label that stands before it.                          *)
Looped == {<<Command("l", n, 0, {}), c, Command("j", n, k, {})>> :
             n \in Names, c \in Plain, k \in {0, 1, 10}}

WrittenPrograms ==
  {<<c>> : c \in Plain} \cup {<<c, d>> : c \in Plain, d \in Plain \cup Loops} \cup Looped
=============================================================================
