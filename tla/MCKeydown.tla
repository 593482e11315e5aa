------------------------------ MODULE MCKeydown ------------------------------
(* A small keyboard for TLC: five hands that press some of the keys each.   *)
EXTENDS Keydown

MCKinds == {{}, {"real", "mat"}}

\* Menus of all levels and the commands that change them, nothing to enter.
Wanderer ==
    [keys     |-> {"top", "up", "down", "exit", "MATRIX", "BASE", "SOLVER", "FX",
                   "CATALOG", "CUSTOM"},
     commands |-> {"op"},
     effects  |-> Effects \ {"hex", "local", "aoff", "aon"},
     lines    |-> {0}, locked |-> {FALSE}, mvars |-> BOOLEAN]

\* Lines of a program: numbers, strings and commands of all kinds.
Programmer ==
    [keys     |-> {"top", "digit", "dot", "arith", "enter", "bsp", "exit", "up", "down", "chs",
                   "char", "map", "E", "ALPHA", "BST", "SST", "PRGM", "CUSTOM", "ASSIGN"},
     commands |-> {"op", "STO", "XEQ", "LBL", "CLALLa", "BST", "MVAR"},
     effects  |-> {"nothing", "aon"},
     lines    |-> 0 .. MaxLines, locked |-> BOOLEAN, mvars |-> {FALSE}]

\* Commands and arguments chosen from catalogs and function menus.
Chooser ==
    [keys     |-> {"top", "enter", "bsp", "exit", "down", "run", "CATALOG", "PGMFCN", "PRGM"},
     commands |-> {"op", "XEQ"},
     effects  |-> {"nothing"},
     lines    |-> {0}, locked |-> BOOLEAN, mvars |-> {FALSE}]

\* Arguments chosen while an application is up.
Solver ==
    [keys     |-> {"top", "exit", "bsp", "digit", "dot", "enter", "SOLVER", "FX", "MATRIX",
                   "BASE", "SHOW", "map"},
     commands |-> {"op", "STO", "ISG", "GOTOROW"},
     effects  |-> {"nothing", "edit", "hex", "mvar"},
     lines    |-> {0}, locked |-> {FALSE}, mvars |-> BOOLEAN]

\* Applications in program mode.
Author ==
    [keys     |-> {"top", "exit", "bsp", "enter", "FX", "BASE", "MATRIX", "PRGM"},
     commands |-> {"GOTOROW", "DIM"},
     effects  |-> {"nothing", "edit", "hex"},
     lines    |-> {1}, locked |-> {FALSE}, mvars |-> {TRUE}]

MCHands == {Wanderer, Programmer, Chooser, Solver, Author}
==============================================================================
