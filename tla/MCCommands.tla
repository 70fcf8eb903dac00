------------------------------ MODULE MCCommands -----------------------------
(* The command language on texts of a few commands.                        *)
EXTENDS Commands

CONSTANTS la, lb

TwoLabels == {la, lb}
(* One count that is obeyed and one that is too long to be.                *)
SomeTimes == {2, 3}
=============================================================================
