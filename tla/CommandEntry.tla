---------------------------- MODULE CommandEntry ----------------------------
(* Commands entered at the keyboard (core_main.cc, keydown_command_entry() of *)
(* core_keydown.cc).  A command without an argument is left pending for the   *)
(* release of the key or, in program mode, stored after the current line.  A  *)
(* command with an argument is started: in program mode the program counter   *)
(* goes to the line the command will be stored at and the place it left is    *)
(* saved; each key then extends the argument, moves through the menus of the  *)
(* command level or ends the entry, and an entry that is cancelled has to put *)
(* everything back.                                                           *)
(*                                                                            *)
(* A program is its number of lines: u.pc is -1 before the first line and     *)
(* u.lines at the END.  u.inc is the incomplete command, NoEntry if there is  *)
(* none.  An argument is its length; u.pend is the pending command, of which  *)
(* only those that the keyboard code tells apart have names.                  *)
EXTENDS Menus, Integers

CONSTANTS
    MaxLines,    \* lines a program has room for
    NameLength,  \* characters of a name (7, of a string 22)
    CountDigits, \* digits of a count (4)
    MaxAlpha     \* characters of a string in a program line (15)

ASSUME KeyboardAssumption ==
    MaxLines \in Nat /\ NameLength \in Nat \ {0} /\ CountDigits \in Nat \ {0} /\ MaxAlpha \in Nat \ {0}

\* The kind of argument of a command; one command stands for its like.
ArgType(cmd) ==
    CASE cmd \in {"STO", "STO_ADD"}        -> "var"
      [] cmd = "ISG"                       -> "real"
      [] cmd = "CLV"                       -> "named"
      [] cmd \in {"XEQ", "GTO", "KEY1G"}   -> "lbl"
      [] cmd = "PRP"                       -> "prgm"
      [] cmd \in {"TONE"}                  -> "num9"
      [] cmd \in {"FIX"}                   -> "num11"
      [] cmd \in {"DIM", "EDITN"}          -> "mat"
      [] cmd \in {"MVAR", "INTEG"}         -> "rvar"
      [] cmd = "KEYG"                      -> "mkey"
      [] cmd \in {"SIZE", "GOTOROW", "GOTOCOLUMN"} -> "count"
      [] cmd = "ASSIGNa"                   -> "named"
      [] cmd = "ASSIGNb"                   -> "ckey"
      [] cmd = "XSTR"                      -> "xstr"
      [] cmd \in {"LBL", "GTODOT"}         -> "other"
      [] OTHER                             -> "none"

PrgmOnly  == {"LBL", "MVAR"}
NoPrgm    == {"A_THRU_F"}
Immediate == {"PRP", "GTODOT", "GTODOTDOT", "CLALLa"}

NoEntry == [cmd |-> "none", type |-> "none", ind |-> FALSE, alpha |-> FALSE,
            len |-> 0, max |-> 0]

mode_command_entry(u) == u.inc.cmd # "none"

------------------------------------------------------------------------------
(* The program.                                                              *)

\* The line a new line is stored at.
After(pc, lines) == CASE pc = -1 -> 0 [] pc \in 0 .. lines - 1 -> pc + 1 [] OTHER -> pc

\* A mutant: stepping does not wrap around at the END.
sst_unwrapped(u) == [u EXCEPT !.pc = u.pc + 1]

sst(u) == [u EXCEPT !.pc = IF u.pc = u.lines THEN -1 ELSE u.pc + 1]

bst(u) == [u EXCEPT !.pc = IF u.pc = -1 THEN u.lines ELSE u.pc - 1]

\* A program that is locked, or that has no room left, takes no line.
Refuses(u) == u.locked \/ u.lines = MaxLines

\* Where the program has changed, no return address is left, and the menu of
\* its variables may go.
Rewritten(u) == draw_varmenu(clear_all_rtns(u))

store_command(u) == IF Refuses(u) THEN u ELSE Rewritten([u EXCEPT !.lines = @ + 1])

store_command_after(u) ==
    IF Refuses(u) THEN u
    ELSE Rewritten([u EXCEPT !.pc = After(u.pc, u.lines), !.lines = @ + 1])

\* The entry of a line begins: its place is shown, the one left is saved.
Opened(u) == [u EXCEPT !.saved = u.pc, !.pc = After(u.pc, u.lines)]

Restored(u) == [u EXCEPT !.pc = u.saved, !.saved = -1]

------------------------------------------------------------------------------
(* The beginning of an entry.                                                *)

\* The menu of variables: those of the solver or the integrator if one of
\* these is up, otherwise a section of the catalog.
ByApplication(u, section) ==
    CASE u.menu["app"] \in {"varmenu", "integ"} -> Cleared(Shows(u, "command", u.menu["app"]), "command")
      [] OTHER -> set_catalog_menu(u, section)

ByLevels(u, section) ==
    IF u.menu["alpha"] # "none" \/ u.menu["plain"] # "none"
    THEN set_catalog_menu(u, section) ELSE ByApplication(u, section)

Begun(u, cmd, type) ==
    [u EXCEPT !.inc = [cmd |-> cmd, type |-> type, ind |-> FALSE,
                       alpha |-> type \in {"named", "prgm", "rvar", "mat", "xstr"},
                       len |-> 0,
                       max |-> CASE type = "num9" -> 1
                                 [] type = "count" -> CountDigits
                                 [] OTHER -> 2]]

\* v is u with the command begun.
Prompted(u, v) ==
    CASE v.inc.cmd = "ASSIGNa" -> set_catalog_menu([v EXCEPT !.local = FALSE], "top")
      [] v.inc.type = "named" /\ v.inc.cmd # "ASSIGNa" -> set_catalog_menu(v, "vars_only")
      [] v.inc.type = "ckey" -> Shows(v, "command", "custom1")
      [] v.inc.type = "mkey" -> Shows(v, "command", "blank")
      [] v.inc.type = "var"  -> ByLevels(v, "vars_only")
      [] v.inc.type = "real" -> ByLevels(v, "real_only")
      [] v.inc.type = "rvar" /\ vars_exist(v, "real") -> set_catalog_menu(v, "real_only")
      [] v.inc.type = "rvar" /\ ~vars_exist(v, "real") /\ v.prgm ->
           IF v.inc.cmd = "MVAR" THEN Shows(v, "command", "alpha1") ELSE v
      [] v.inc.type = "rvar" /\ ~vars_exist(v, "real") /\ ~v.prgm ->
           [u EXCEPT !.inc = NoEntry]
      [] v.inc.type = "mat" /\ (v.prgm \/ vars_exist(v, "mat")) -> set_catalog_menu(v, "mat_only")
      [] v.inc.type = "mat" /\ ~(v.prgm \/ vars_exist(v, "mat")) ->
           IF v.inc.cmd = "DIM" THEN v ELSE [u EXCEPT !.inc = NoEntry]
      [] v.inc.type \in {"lbl", "prgm"} -> set_catalog_menu(v, "pgm_only")
      [] v.inc.cmd \in {"LBL", "XSTR"}  -> Shows(v, "command", "alpha1")
      [] OTHER -> v

start_incomplete_command(u, cmd) ==
    IF ~u.prgm /\ cmd \in PrgmOnly THEN u
    ELSE Prompted(u, Begun(u, cmd, ArgType(cmd)))

\* A command that needs an argument is started, any other left pending; in
\* program mode it is stored instead, unless it is carried out at once.
Accepted(u, cmd) ==
    CASE ArgType(cmd) = "none" /\ u.prgm /\ cmd \notin Immediate -> store_command_after(u)
      [] ArgType(cmd) = "none" /\ (~u.prgm \/ cmd \in Immediate) -> [u EXCEPT !.pend = cmd]
      [] ArgType(cmd) # "none" /\ u.prgm /\ cmd \notin Immediate ->
           start_incomplete_command(Opened(u), cmd)
      [] ArgType(cmd) # "none" /\ u.prgm /\ cmd \in Immediate ->
           start_incomplete_command([u EXCEPT !.saved = u.pc], cmd)
      [] OTHER -> start_incomplete_command(u, cmd)

Confirm(u) == [set_menu(u, "alpha", "none") EXCEPT !.clall = TRUE]

do_interactive(u, cmd) ==
    CASE u.prgm /\ cmd \in NoPrgm      -> u
      [] ~u.prgm /\ cmd \in PrgmOnly   -> u
      [] cmd = "GOTOROW" /\ u.refuse   -> u
      [] cmd = "A_THRU_F" /\ ~u.prgm   -> set_menu(set_base(u, TRUE), "app", "baseAF")
      [] cmd = "CLALLa"                -> Confirm(u)
      [] cmd = "CLV" /\ ~u.prgm /\ u.kinds = {} -> u
      [] cmd = "SST" /\ u.prgm         -> sst(u)
      [] cmd = "BST"                   -> IF u.prgm THEN bst(u)
                                          ELSE [bst(u) EXCEPT !.pend = "cancelled"]
      [] OTHER                         -> Accepted(u, cmd)

------------------------------------------------------------------------------
(* The end of an entry.                                                      *)

\* The catalog of programs stays until the program it names is run.
KeptCatalog(u) ==
    LET section == u.sect["command"]
    IN  IF /\ u.menu["command"] = "catalog" /\ section \in {"pgm", "pgm_only"}
           /\ u.pend \in {"XEQ", "GTO"}
        THEN [set_cat_section(Cleared(Shows(u, "transient", "catalog"), "transient"), section)
                 EXCEPT !.rpc = TRUE]
        ELSE u

\* ASSIGN leaves the custom menu up.
KeptCustom(u) ==
    IF u.pend = "ASGN"
    THEN [set_menu(u, "plain", u.menu["command"]) EXCEPT !.sticky = TRUE] ELSE u

Stepped(u) == IF u.pend = "BST" THEN [bst(u) EXCEPT !.pend = "cancelled"] ELSE u

\* A mutant: the menu of the argument stays up.
DoItNowKeeps(u) == Stepped(KeptCustom(KeptCatalog(u)))

DoItNow(u) == Stepped(Shows(KeptCustom(KeptCatalog(u)), "command", "none"))

\* A mutant: the line stays the one after the place the entry began at.
FinishLineAdvanced(u) ==
    CASE u.pend \in {"null", "cancelled"} -> [u EXCEPT !.saved = -1]
      [] u.pend = "SST" -> [sst(Restored(u)) EXCEPT !.pend = "none"]
      [] u.pend = "BST" -> [bst(Restored(u)) EXCEPT !.pend = "none"]
      [] u.pend \in Immediate -> DoItNow(Restored(u))
      [] OTHER -> [store_command(u) EXCEPT !.pend = "none", !.saved = -1]

\* In program mode the entry becomes a line; cancelled, it leaves no trace.
FinishLine(u) ==
    CASE u.pend \in {"null", "cancelled"} -> Restored(u)
      [] u.pend = "SST" -> [sst(Restored(u)) EXCEPT !.pend = "none"]
      [] u.pend = "BST" -> [bst(Restored(u)) EXCEPT !.pend = "none"]
      [] u.pend \in Immediate -> DoItNow(Restored(u))
      [] OTHER -> [store_command(u) EXCEPT !.pend = "none", !.saved = -1]

finish_command_entry(u) ==
    CASE u.pend = "ASSIGNa" ->
           start_incomplete_command([u EXCEPT !.pend = "none"], "ASSIGNb")
      [] u.pend # "ASSIGNa" /\ u.prgm ->
           FinishLine([Shows(u, "command", "none") EXCEPT !.inc = NoEntry])
      [] OTHER -> DoItNow([u EXCEPT !.inc = NoEntry])

Finished(u, cmd) == finish_command_entry([u EXCEPT !.pend = cmd])

\* XEQ with a name: found is the built-in command of that name, if any.  A
\* command with an argument is entered in its turn, from the same place.
\* CLALL asks for confirmation, and leaves the program counter advanced.
finish_xeq(u, found) ==
    CASE found = "XEQ" -> Finished(u, "XEQ")
      [] found = "CLALLa" ->
           [Confirm(u) EXCEPT !.inc = NoEntry, !.pend = "none", !.saved = -1]
      [] found \notin {"XEQ", "CLALLa"} /\ ArgType(found) = "none" -> Finished(u, found)
      [] found = "CLV" /\ ~u.prgm /\ u.kinds = {} ->
           [Shows(u, "command", "none") EXCEPT !.inc = NoEntry, !.pend = "none"]
      [] OTHER -> start_incomplete_command([Shows(u, "command", "none")
                                               EXCEPT !.inc = NoEntry, !.pend = "none"], found)

------------------------------------------------------------------------------
(* The keys of an entry.  A key e names, for a key of the top row, the item   *)
(* of the menu it is under (e.item).                                          *)

\* The menu of the stack levels: one of them, or an indirect argument.
StackKey(u, e) ==
    CASE e.key = "bsp"  -> Finished(u, "null")
      [] e.key = "exit" -> Finished(u, "cancelled")
      [] e.key = "top" /\ e.item = "ind" ->
           set_catalog_menu([u EXCEPT !.inc.ind = TRUE, !.inc.alpha = FALSE, !.inc.max = 2], "real_only")
      [] e.key = "top" /\ e.item = "item" -> Finished(u, u.inc.cmd)
      [] OTHER -> u

\* The second half of ASSIGN: a key of the custom menu.
CustomKey(u, e) ==
    CASE e.key = "top"  -> Finished(u, "ASGN")
      [] e.key = "bsp"  -> Finished(u, "null")
      [] e.key = "exit" -> Finished(u, "cancelled")
      [] e.key \in {"up", "down"} -> Shows(u, "command", Sibling(u.menu["command"]))
      [] OTHER -> u

\* KEYG: the key of the programmable menu, then a label.
MenuKey(u, e) ==
    CASE e.key \in {"top", "up", "down", "exit"} \/ (e.key = "digit" /\ e.item = "no")
           -> start_incomplete_command(u, "KEY1G")
      [] e.key = "bsp" -> Finished(u, "null")
      [] OTHER -> u

\* An item of a catalog: a section, or the argument.  An END is no argument
\* but for the commands that take a whole program.
CatalogItem(u, item) ==
    LET section == u.sect["command"]
    IN  CASE section = "top" /\ item \in {"fcn", "pgm"} -> set_cat_section(u, item)
          [] section = "top" /\ item \in {"real", "mat"} ->
               IF vars_exist(u, item) THEN set_cat_section(u, item) ELSE u
          [] section = "top" /\ item = "mem" -> [u EXCEPT !.pend = "linger1"]
          [] section \in {"ext1", "ext2"} ->
               set_cat_section(u, IF section = "ext1" THEN "ext" ELSE "misc")
          [] section \notin {"top", "ext1", "ext2"} /\ item = "no" -> u
          [] section = "ext" /\ item = "cmp" -> set_cat_section(u, "cmp")
          [] section \in {"pgm", "pgm_only"} /\ item = "end" ->
               IF u.inc.cmd \in {"GTODOT", "PRP"} \/ (~u.prgm /\ u.inc.cmd \in {"GTO", "XEQ"})
               THEN Finished(u, u.inc.cmd) ELSE u
          [] section \in {"pgm", "pgm_only"} /\ item = "item" -> Finished(u, u.inc.cmd)
          [] OTHER -> IF u.inc.cmd = "XEQ" /\ ~u.inc.ind
                      THEN finish_xeq(u, IF section \in {"fcn", "ext", "misc", "cmp"}
                                         THEN item ELSE "XEQ")
                      ELSE Finished(u, u.inc.cmd)

CatalogExit(u) ==
    IF Outer(u.sect["command"]) # "none"
    THEN set_cat_section(u, Outer(u.sect["command"])) ELSE Finished(u, "cancelled")

\* The variables of the solver, or the limits of the integral.
ParameterKey(u, e) ==
    CASE e.key = "top" -> IF e.item \in {"item", "view"} THEN Finished(u, u.inc.cmd) ELSE u
      [] e.key = "exit" -> Finished(u, "cancelled")
      [] OTHER -> u

------------------------------------------------------------------------------
(* A numeric argument.                                                       *)

\* The argument becomes a name: the letters are shown.
Spelled(u) == Shows([u EXCEPT !.inc.alpha = TRUE], "command", "alpha1")

Indirect(u) == set_catalog_menu([u EXCEPT !.inc.ind = TRUE, !.inc.max = 2], "real_only")

GtoDot(u) ==
    Shows([u EXCEPT !.inc.cmd = "GTODOT", !.inc.type = "other", !.inc.max = CountDigits],
          "command", "ind")

\* The number is complete.  After the row of a matrix its column is asked for
\* unless a list is edited; then the editor moves, and no command is pending.
NumberDone(u, list) ==
    CASE u.inc.cmd = "GOTOROW" /\ ~list -> start_incomplete_command(u, "GOTOCOLUMN")
      [] u.inc.cmd = "GOTOCOLUMN" \/ (u.inc.cmd = "GOTOROW" /\ list) -> Finished(u, "none")
      [] OTHER -> Finished(u, u.inc.cmd)

NumericEnter(u, e) ==
    CASE u.inc.len = 0 /\ u.inc.ind /\ ~u.prgm /\ ~vars_exist(u, "real") -> u
      [] u.inc.len = 0 /\ ~(u.inc.ind /\ ~u.prgm /\ ~vars_exist(u, "real")) ->
           IF u.inc.ind \/ u.inc.type \in {"var", "real", "named", "lbl", "prgm"}
           THEN Spelled(u) ELSE u
      [] u.inc.len > 0 /\ e.key = "enter" -> NumberDone(u, e.item = "list")
      [] OTHER -> u

NumericDot(u) ==
    CASE u.inc.ind ->
           IF u.inc.type \in {"var", "real", "mat", "rvar", "named", "lbl", "prgm", "num9", "num11"}
           THEN Shows(u, "command", "st") ELSE u
      [] ~u.inc.ind /\ u.inc.type \in {"var", "real"} -> Shows(u, "command", "ind_st")
      [] ~u.inc.ind /\ u.inc.type \in {"num9", "num11", "lbl"} -> Indirect(u)
      [] OTHER -> u

NumericDigit(u, v, e) ==
    IF v.inc.len = v.inc.max THEN NumberDone(v, e.item = "list")
                             ELSE Shows(v, "command", "none")

\* The menu an argument without characters is chosen from.
Offered(u) ==
    CASE u.inc.ind -> set_catalog_menu(u, "real_only")
      [] ~u.inc.ind /\ u.inc.type = "var"  -> ByApplication(u, "vars_only")
      [] ~u.inc.ind /\ u.inc.type = "real" -> ByApplication(u, "real_only")
      [] ~u.inc.ind /\ u.inc.type = "lbl"  -> set_catalog_menu(u, "pgm_only")
      [] ~u.inc.ind /\ u.inc.cmd = "GTODOT" -> Shows(u, "command", "ind")
      [] ~u.inc.ind /\ u.inc.cmd = "LBL"    -> Shows(u, "command", "alpha1")
      [] OTHER -> u

\* An indirect argument of type var gets the variables of a direct one.
NumericBsp(u, v) ==
    CASE u.inc.len = 0 -> Finished(u, "null")
      [] u.inc.len = 1 /\ u.inc.cmd = "KEY1G" -> start_incomplete_command(u, "KEYG")
      [] u.inc.len = 1 /\ u.inc.cmd # "KEY1G" /\ u.inc.type = "var" ->
           ByApplication(v, "vars_only")
      [] u.inc.len = 1 /\ u.inc.cmd # "KEY1G" /\ u.inc.type # "var" -> Offered(v)
      [] OTHER -> v

WithLength(u, length) == [u EXCEPT !.inc.len = length]

NumericKey(u, e) ==
    CASE e.key = "exit" -> Finished(u, "cancelled")
      [] u.menu["command"] = "ind" /\ e.key = "top" /\ e.item = "ind" ->
           set_catalog_menu([u EXCEPT !.inc.cmd = "GTO", !.inc.type = "lbl", !.inc.ind = TRUE,
                                !.inc.max = 2], "real_only")
      [] u.menu["command"] = "ind" /\ e.key \in {"enter", "ALPHA"} ->
           Spelled([u EXCEPT !.inc.type = "lbl"])
      [] e.key = "arith" /\ u.inc.cmd = "STO" /\ u.inc.len = 0 -> [u EXCEPT !.inc.cmd = "STO_ADD"]
      [] e.key = "dot" /\ u.inc.len = 0 /\ u.inc.cmd = "GTO" /\ ~u.inc.ind -> GtoDot(u)
      [] e.key = "dot" /\ u.inc.len = 0 /\ u.inc.cmd = "GTODOT" -> Finished(u, "GTODOTDOT")
      [] e.key \in {"enter", "ALPHA"} /\ u.menu["command"] # "ind" -> NumericEnter(u, e)
      [] e.key = "dot" /\ u.inc.len = 0 /\ ~(u.inc.cmd = "GTO" /\ ~u.inc.ind) /\ u.inc.cmd # "GTODOT"
           -> NumericDot(u)
      [] e.key = "digit" /\ u.inc.len < u.inc.max ->
           NumericDigit(u, WithLength(u, u.inc.len + 1), e)
      [] e.key = "bsp" /\ u.inc.len < u.inc.max ->
           NumericBsp(u, WithLength(u, IF u.inc.len = 0 THEN 0 ELSE u.inc.len - 1))
      [] OTHER -> u

------------------------------------------------------------------------------
(* An argument that is spelled.                                              *)

\* A character: of the keyboard, or of a menu of letters, which closes.
Typed(u) ==
    [u EXCEPT !.inc.alpha = TRUE,
              !.inc.len = IF @ < NameLength THEN @ + 1 ELSE @]

AlphaTop(u, e) ==
    IF e.item = "sub" THEN Shows(u, "command", "alphasub")
    ELSE Shows(Typed(u), "command", Parent(u.menu["command"]))

\* A name is deleted to nothing, or the letters are left without one: the
\* menu of the names comes back, or the argument is numeric again.
OutOfAlpha(u) ==
    Offered([u EXCEPT !.inc.alpha = ~(u.inc.ind \/ u.inc.type # "rvar") /\ @,
                      !.menu["command"] = "none", !.sect["command"] = "top"])

BackToInd(u) ==
    Shows([u EXCEPT !.inc.type = "other", !.inc.max = CountDigits, !.inc.alpha = FALSE],
          "command", "ind")

\* Deleting with no character left while the letters are shown.
LeaveLetters(u) ==
    CASE u.inc.ind -> OutOfAlpha(u)
      [] ~u.inc.ind /\ u.inc.cmd = "GTODOT" -> BackToInd(u)
      [] ~u.inc.ind /\ u.inc.type = "named" ->
           set_catalog_menu(u, IF u.inc.cmd = "ASSIGNa" THEN "top" ELSE "vars_only")
      [] ~u.inc.ind /\ (u.inc.cmd = "MVAR" \/ u.inc.type = "xstr") -> Finished(u, "null")
      [] ~u.inc.ind /\ u.inc.type = "mat"  -> set_catalog_menu(u, "mat_only")
      [] ~u.inc.ind /\ u.inc.type = "prgm" -> set_catalog_menu(u, "pgm_only")
      [] OTHER -> OutOfAlpha(u)

AlphaBspEmpty(u) ==
    CASE u.menu["command"] \in AlphaMenus -> LeaveLetters(u)
      [] u.menu["command"] = "catalog" /\ Outer(u.sect["command"]) # "none" ->
           set_cat_section(u, Outer(u.sect["command"]))
      [] OTHER -> Finished(u, "null")

\* Deleting the only character.
AlphaBspLast(u) ==
    CASE u.inc.ind /\ u.menu["command"] \in AlphaMenus -> OutOfAlpha(u)
      [] ~u.inc.ind /\ u.inc.cmd = "GTODOT" -> BackToInd(u)
      [] ~u.inc.ind /\ u.inc.type = "named" ->
           set_catalog_menu(u, IF u.inc.cmd = "ASSIGNa" THEN "top" ELSE "vars_only")
      [] ~u.inc.ind /\ u.inc.type = "rvar" ->
           IF vars_exist(u, "real") THEN set_catalog_menu(u, "real_only") ELSE u
      [] ~u.inc.ind /\ u.inc.type = "mat" ->
           IF vars_exist(u, "mat") THEN set_catalog_menu(u, "mat_only") ELSE u
      [] ~u.inc.ind /\ u.inc.type = "prgm" -> set_catalog_menu(u, "pgm_only")
      [] ~u.inc.ind /\ u.inc.type = "xstr" -> u
      [] OTHER -> OutOfAlpha(u)

\* Once its key is chosen, KEYG starts over when there is nothing to delete.
KeyLabelBsp(u) ==
    CASE u.inc.len = 0 /\ u.menu["command"] \in AlphaMenus -> start_incomplete_command(u, "KEYG")
      [] u.inc.len = 0 /\ u.menu["command"] \notin AlphaMenus -> Finished(u, "null")
      [] OTHER -> WithLength(u, u.inc.len - 1)

AlphaBsp(u) ==
    CASE u.inc.cmd = "KEY1G" -> KeyLabelBsp(u)
      [] u.inc.cmd # "KEY1G" /\ u.inc.len = 0 -> AlphaBspEmpty(u)
      [] u.inc.cmd # "KEY1G" /\ u.inc.len = 1 -> AlphaBspLast(WithLength(u, 0))
      [] OTHER -> WithLength(u, u.inc.len - 1)

\* A mutant: the menu of the letters is left, the entry goes on.
AlphaExitStays(u) == Shows(u, "command", Parent(u.menu["command"]))

AlphaExit(u) ==
    IF Parent(u.menu["command"]) = "none"
    THEN Finished(Shows(u, "command", "none"), "cancelled")
    ELSE Shows(u, "command", Parent(u.menu["command"]))

\* ENTER with a name, or with none for the commands that allow it.
EmptyAllowed(u) ==
    u.inc.cmd \in {"ASSIGNa", "PRP", "XSTR"} /\ u.menu["command"] \in AlphaMenus

Named(u, e) ==
    CASE u.inc.cmd = "XEQ" /\ ~u.inc.ind /\ e.item # "local" -> finish_xeq(u, e.item)
      [] u.inc.cmd \in {"GTO", "XEQ", "LBL", "KEY1G"} /\ ~u.inc.ind /\ e.item = "local" ->
           Finished(Shows(u, "command", "none"), u.inc.cmd)
      [] OTHER -> Finished(u, u.inc.cmd)

AlphaEnter(u, e) ==
    CASE u.inc.len = 0
         /\ \/ u.menu["command"] = "none"
            \/ /\ u.menu["command"] = "catalog"
               /\ u.sect["command"] \in {"top", "ext1", "ext2", "pgm_only", "real_only",
                                         "mat_only", "vars_only"}
           -> Shows(u, "command", "alpha1")
      [] u.inc.len = 0 /\ u.menu["command"] \notin {"none", "catalog"} ->
           IF EmptyAllowed(u) THEN Named(u, e) ELSE u
      [] u.inc.len > 0 -> Named(u, e)
      [] OTHER -> u

\* May a dot turn the name into an indirect argument?
DotMeansIndirect(u) ==
    /\ u.inc.type \in {"named", "prgm", "rvar", "mat"}
    /\ u.inc.cmd \notin {"ASSIGNa", "PRP", "MVAR"}
    /\ ~u.inc.ind /\ u.inc.len = 0
    /\ u.menu["command"] \notin AlphaMenus

AlphaKey(u, e) ==
    CASE e.key = "char" -> Typed(u)
      [] e.key = "top" -> IF u.menu["command"] = "none" THEN u ELSE AlphaTop(u, e)
      [] e.key = "dot" /\ DotMeansIndirect(u) ->
           set_catalog_menu([u EXCEPT !.inc.ind = TRUE, !.inc.alpha = FALSE], "real_only")
      [] e.key = "CATALOG" ->
           IF u.menu["command"] = "catalog" THEN u ELSE set_catalog_menu(u, "top")
      [] e.key \in {"digit", "dot", "E", "arith"} /\ ~(e.key = "dot" /\ DotMeansIndirect(u)) ->
           IF u.menu["command"] = "catalog" THEN u ELSE Typed(u)
      [] e.key \in {"up", "down"} ->
           IF Sibling(u.menu["command"]) = "none" THEN u
           ELSE Shows(u, "command", Sibling(u.menu["command"]))
      [] e.key = "exit" -> AlphaExit(u)
      [] e.key = "bsp"  -> AlphaBsp(u)
      [] e.key \in {"enter", "ALPHA"} -> AlphaEnter(u, e)
      [] OTHER -> u

------------------------------------------------------------------------------
(* LBL takes letters and digits at once while it has neither.                *)
LetterOfLabel(u, e) ==
    \/ e.key \in {"char", "top", "E", "up", "down", "arith", "dot"}
    \/ e.key = "digit" /\ u.menu["command"] = "alphasub"

LabelKey(u, e) ==
    CASE LetterOfLabel(u, e) -> AlphaKey(u, e)
      [] e.key = "CATALOG" -> set_catalog_menu([u EXCEPT !.inc.alpha = TRUE], "top")
      [] e.key = "exit" /\ u.menu["command"] = "alphasub" -> Shows(u, "command", "alpha1")
      [] OTHER -> IF u.inc.alpha THEN AlphaKey(u, e) ELSE NumericKey(u, e)

\* The other arguments: chosen from a catalog or a menu of variables, spelled,
\* or a number.
ArgumentKey(u, e) ==
    LET menu == u.menu["command"]
    IN  CASE menu = "catalog" /\ e.key = "top" -> CatalogItem(u, e.item)
          [] menu = "catalog" /\ e.key \in {"up", "down"} -> u
          [] menu = "catalog" /\ e.key = "exit" -> CatalogExit(u)
          [] menu \in {"varmenu", "integ"} /\ e.key \in {"top", "exit"} -> ParameterKey(u, e)
          [] menu = "varmenu" /\ e.key \in {"up", "down"} -> u
          [] OTHER -> IF u.inc.alpha THEN AlphaKey(u, e) ELSE NumericKey(u, e)

NameOrNumberKey(u, e) ==
    CASE u.inc.cmd = "LBL" /\ u.inc.len = 0 /\ u.menu["command"] # "catalog" -> LabelKey(u, e)
      [] u.inc.cmd = "LBL" /\ ~u.inc.alpha /\ u.inc.len = 1 /\ e.key = "ALPHA" -> Spelled(u)
      [] OTHER -> ArgumentKey(u, e)

keydown_command_entry(u, e) ==
    CASE u.menu["command"] \in {"st", "ind_st"} -> StackKey(u, e)
      [] u.menu["command"] \notin {"st", "ind_st"} /\ u.inc.type = "ckey" -> CustomKey(u, e)
      [] u.menu["command"] \notin {"st", "ind_st"} /\ u.inc.type = "mkey" -> MenuKey(u, e)
      [] OTHER -> NameOrNumberKey(u, e)
==============================================================================
