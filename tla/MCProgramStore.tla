--------------------------- MODULE MCProgramStore ---------------------------
(* ProgramStore with one global label, a stack label and a number that     *)
(* names the same label, and lines that call, jump and mark places         *)
EXTENDS ProgramStore

CONSTANTS A, n, X, Y

MCGlobal == {A}
MCLocal == {n, X}
MCStack == {X}
MCNumbers == {<<X, n>>}
MCLbls == [op : {"lbl"}, arg : {A, n, X}]
MCCommands == MCLbls \cup {[op |-> "gto", arg |-> n], [op |-> "xeq", arg |-> n],
                           [op |-> "xeq", arg |-> A]}

(* Two stack labels *)
MCLocal2 == {X, Y}
MCStack2 == {X, Y}
MCCommands2 == [op : {"lbl", "gto"}, arg : {X, Y}]
=============================================================================
