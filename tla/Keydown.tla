------------------------------- MODULE Keydown -------------------------------
(* The keyboard (core_keydown.cc, core_keyup() and core_timeout3() of         *)
(* core_main.cc).  A key going down is taken by the confirmation of CLALL, by *)
(* the number, the command or the string that is being entered, by the menu   *)
(* in front, or stands for a command; what it leaves pending is carried out   *)
(* when the key goes up.  Of what a command or a program it starts does, only *)
(* the changes of menus, modes and of what the catalogs list are modelled;    *)
(* the matrix being edited is a global variable, there is one program, and    *)
(* what a line contributes to the menus of SOLVE changes with the effects.    *)
(*                                                                            *)
(* The stack has four levels; the keys GETKEY waits for, OFF and the key that *)
(* clears a message are left out.  A shifted key has a name in capitals.      *)
EXTENDS CommandEntry

CONSTANTS
    NumLength,  \* characters of a number being entered
    Flawed,     \* are the steps taken that are known to go wrong?
    KindSets,   \* the kinds of variables there may be
    Hands       \* each a choice of keys, of the commands they may reach, of
                \* effects of commands and of programs to begin with

\* The commands a hand may be given, by name, that need an argument or have a
\* course of their own; "op" stands for all the others.
Reached == {"STO", "ISG", "CLV", "XEQ", "GTO", "PRP", "LBL", "MVAR", "INTEG", "DIM", "EDITN",
            "TONE", "FIX", "SIZE", "KEYG", "XSTR", "GOTOROW", "CLALLa", "BST"}

ASSUME NumberAssumption == NumLength \in Nat \ {0} /\ Flawed \in BOOLEAN

ASSUME HandsAssumption ==
    \A h \in Hands : /\ h.commands \subseteq Reached \cup {"op"}
                     /\ h.lines \subseteq 0 .. MaxLines
                     /\ h.locked \subseteq BOOLEAN /\ h.mvars \subseteq BOOLEAN

ASSUME KindsAssumption == KindSets \subseteq SUBSET {"real", "mat"}

VARIABLES
    u,     \* the calculator
    home,  \* where the entry in progress began: line, program, menus below
    hand   \* the hand that plays, a bound: it keeps to its keys

vars == <<u, home, hand>>

Shifted == {"ALPHA", "CATALOG", "BASE", "SOLVER", "MATRIX", "PGMFCN", "CUSTOM",
            "ASSIGN", "SHOW", "SST", "BST", "PRGM", "FX"}

Up(e)    == e.key \in {"up", "BST"}
Down(e)  == e.key \in {"down", "SST"}
Shift(e) == e.key \in Shifted

------------------------------------------------------------------------------
(* A number.  In program mode it is shown at its line, stored when it ends.  *)

basekeys(s) == s.baseapp /\ get_front_menu(s) \in BaseMenus

is_number_key(s, e) ==
    \/ get_front_menu(s) = "baseAF" /\ e.key = "top"
    \/ e.key \in {"digit", "dot", "E"}

Invalid(s, e) == s.hex /\ e.key \in {"dot", "E"}

EndNumber(s) == [s EXCEPT !.num = FALSE, !.nlen = 0]

NumberBsp(s) ==
    IF s.nlen = 1
    THEN IF s.prgm THEN [EndNumber(s) EXCEPT !.pc = @ - 1]
                   ELSE [EndNumber(s) EXCEPT !.pend = "CLX"]
    ELSE [s EXCEPT !.nlen = @ - 1]

\* CHS takes a minus away that is there already (item "minus"); if there is
\* nothing else, the entry ends as with backspace.
Shortens(e) == e.key = "bsp" \/ (e.key = "chs" /\ e.item = "minus")

\* A dot or E that comes first brings a digit along: 0. and 1E.
Lengthened(s, e) ==
    LET n == s.nlen + (IF s.nlen = 0 /\ e.key \in {"dot", "E"} THEN 2 ELSE 1)
    IN  IF n < NumLength THEN n ELSE NumLength

\* A digit that does not fit the word is refused, even the first.
keydown_number_entry(s, e) ==
    CASE Shortens(e) -> NumberBsp(s)
      [] ~Shortens(e) /\ ~Invalid(s, e) /\ ~(s.hex /\ e.item = "wide") ->
           [s EXCEPT !.nlen = Lengthened(s, e)]
      [] OTHER -> s

StartNumber(s, e) ==
    CASE Invalid(s, e) \/ (s.prgm /\ s.locked) -> s
      [] ~Invalid(s, e) /\ s.prgm /\ ~s.locked ->
           keydown_number_entry([s EXCEPT !.num = TRUE, !.pc = After(s.pc, s.lines)], e)
      [] OTHER -> keydown_number_entry([s EXCEPT !.num = TRUE, !.vm = FALSE], e)

LeaveNumber(s, e) ==
    IF s.num /\ ~is_number_key(s, e) /\ e.key # "bsp" /\ (e.key # "chs" \/ basekeys(s) \/ s.hex)
    THEN EndNumber(IF s.prgm THEN store_command(s) ELSE s) ELSE s

------------------------------------------------------------------------------
(* A string: the alpha register, or a line of a program.                     *)

start_alpha_prgm_line(s) == [Opened(s) EXCEPT !.alen = 0, !.alpha = TRUE]

finish_alpha_prgm_line(s) ==
    IF s.alen = 0 THEN [Restored(s) EXCEPT !.alpha = FALSE]
    ELSE [store_command(s) EXCEPT !.alpha = FALSE, !.alen = 0, !.saved = -1]

EndAlpha(s) ==
    IF s.alpha /\ s.prgm THEN finish_alpha_prgm_line(s) ELSE [s EXCEPT !.alpha = FALSE]

\* The letter goes to the line, which is begun if there is none.
Letter(s) ==
    LET v == IF s.prgm /\ ~s.alpha THEN start_alpha_prgm_line(s) ELSE s
    IN  IF s.prgm THEN [v EXCEPT !.alen = IF @ < MaxAlpha THEN @ + 1 ELSE @]
                  ELSE [v EXCEPT !.alpha = TRUE]

LockedLine(s) == s.prgm /\ ~s.alpha /\ s.locked

\* Deleting a program line.  The END of the last program stays.
DeleteLine(s) ==
    CASE s.pc = -1      -> s
      [] s.pc = s.lines -> [s EXCEPT !.pc = @ - 1]
      [] OTHER -> IF s.locked THEN s
                  ELSE Rewritten([s EXCEPT !.pc = @ - 1, !.lines = @ - 1])

AlphaExitKey(s) ==
    LET v == set_menu(s, "alpha", Parent(s.menu["alpha"]))
    IN  IF v.menu["alpha"] = "none" THEN [EndAlpha(v) EXCEPT !.pend = "cancelled"] ELSE v

AlphaBspKey(s, e) ==
    CASE s.prgm /\ s.alpha ->
           IF s.alen > 0 THEN [s EXCEPT !.alen = @ - 1] ELSE finish_alpha_prgm_line(s)
      [] s.prgm /\ ~s.alpha ->
           set_menu(DeleteLine(s), "alpha", "alpha1")
      [] ~s.prgm /\ s.alpha /\ e.item = "len" -> s
      [] OTHER -> [s EXCEPT !.pend = "CLA"]

AlphaEnterKey(s, e) ==
    CASE s.prgm /\ (s.alpha \/ Shift(e)) -> set_menu(EndAlpha(s), "alpha", "none")
      [] s.prgm /\ ~s.alpha /\ ~Shift(e) ->
           IF s.locked THEN s ELSE [start_alpha_prgm_line(s) EXCEPT !.alen = 1]
      [] ~s.prgm /\ (Shift(e) \/ s.alpha) -> set_menu(EndAlpha(s), "alpha", "none")
      [] OTHER -> [s EXCEPT !.alpha = TRUE]

\* SOLVER and f(x): the programs to choose from, if there are any.
set_solve_integ(s, section) ==
    LET v == set_menu_return_err(s, "app", "catalog", FALSE)
    IN  IF s.prgm \/ ~s.mvars THEN set_menu(s, "app", "solve")
        ELSE IF v.err THEN v ELSE set_cat_section(v, section)

BaseApp(s) ==
    LET v == set_menu(s, "app", "base1")
    IN  IF v.menu["app"] = "base1" THEN [v EXCEPT !.cb = 2, !.baseapp = TRUE] ELSE v

\* The keys that lead to menus.
MenuKeys == {"SOLVER", "FX", "MATRIX", "BASE", "PGMFCN", "CATALOG"}

ToMenu(s, key) ==
    CASE key = "SOLVER"  -> set_solve_integ(s, "pgm_solve")
      [] key = "FX"      -> set_solve_integ(s, "pgm_integ")
      [] key = "MATRIX"  -> set_menu(s, "app", "matrix")
      [] key = "BASE"    -> BaseApp(s)
      [] key = "PGMFCN"  -> set_plainmenu(s, "pgm1")
      [] key = "CATALOG" -> set_plainmenu(s, "catalog")

\* In program mode CUSTOM leaves the string unfinished.
AlphaCustom(s) ==
    LET v == set_plainmenu(s, "none")
    IN  IF s.prgm THEN [v EXCEPT !.pend = "CUSTOM"] ELSE do_interactive(EndAlpha(v), "CUSTOM")

KeyCommand(e) ==
    CASE e.key = "run" -> "RUN"
      [] e.key \in {"down", "SST"} -> "SST"
      [] OTHER -> e.item

keydown_alpha_mode(s, e) ==
    CASE e.key \in {"char", "digit", "dot", "E", "arith"} -> IF LockedLine(s) THEN s ELSE Letter(s)
      [] e.key = "top" /\ e.item = "sub" -> set_menu(s, "alpha", "alphasub")
      [] e.key = "top" /\ e.item # "sub" ->
           IF LockedLine(s) THEN s ELSE set_menu(Letter(s), "alpha", Parent(s.menu["alpha"]))
      [] e.key = "exit" -> AlphaExitKey(s)
      [] e.key = "bsp"  -> AlphaBspKey(s, e)
      [] e.key \in {"enter", "ALPHA"} -> AlphaEnterKey(s, e)
      [] e.key \in MenuKeys -> set_menu(EndAlpha(ToMenu(s, e.key)), "alpha", "none")
      [] e.key = "CUSTOM" -> AlphaCustom(s)
      [] e.key = "SHOW" -> [s EXCEPT !.pend = "linger1"]
      [] e.key \in {"run", "map", "SST"} -> do_interactive(EndAlpha(s), KeyCommand(e))
      [] OTHER -> s

------------------------------------------------------------------------------
(* Keys outside an entry: the menu in front takes them first.                *)

\* The level and the menu that take the keys.
Level(s) ==
    CASE s.menu["transient"] # "none" -> "transient"
      [] s.menu["transient"] = "none" /\ s.menu["plain"] # "none" -> "plain"
      [] OTHER -> "app"

\* A menu that does not stick goes when something is chosen from it.
ChosenFrom(s, level) ==
    IF level = "transient" \/ (level = "plain" /\ ~s.sticky)
    THEN set_menu(s, level, "none") ELSE s

\* What a command chosen with its argument leaves: a line, or itself.
Chosen(s, cmd) == IF s.prgm THEN store_command_after(s) ELSE [s EXCEPT !.pend = cmd]

do_prgm_menu_key(s, e) ==
    CASE e.key = "exit" -> [set_menu(s, "plain", "none")
                               EXCEPT !.pend = IF e.item = "run" THEN "RUN" ELSE "cancelled"]
      [] e.key # "exit" /\ e.item = "run" -> [s EXCEPT !.pend = "RUN"]
      [] e.key = "top" /\ e.item # "run"  -> [s EXCEPT !.pend = "null"]
      [] OTHER -> s

\* A variable of the menu: stored, the first time, then solved for, run with,
\* or taken as the variable of the integral, whose limits are asked for next.
VarmenuItem(s) ==
    CASE s.prgm -> store_command_after(s)
      [] ~s.prgm /\ s.role \in {0, 3} -> [s EXCEPT !.pend = IF s.vm THEN "VMEXEC" ELSE "VMSTO"]
      [] ~s.prgm /\ s.role = 1 -> [s EXCEPT !.pend = IF s.vm THEN "VMSOLVE" ELSE "VMSTO"]
      [] ~s.prgm /\ s.role = 2 /\ s.vm -> [set_menu(s, "app", "integ") EXCEPT !.cb = 5]
      [] OTHER -> [s EXCEPT !.pend = "VMSTO"]

VarmenuKey(s, e) ==
    CASE e.key = "top" /\ e.item = "no" -> [s EXCEPT !.pend = "null"]
      [] e.key = "top" /\ e.item = "view" /\ ~s.prgm -> [s EXCEPT !.pend = "linger1"]
      [] e.key = "top" /\ (e.item = "item" \/ (e.item = "view" /\ s.prgm)) -> VarmenuItem(s)
      [] e.key = "exit" -> [set_menu(s, "app", "none")
                               EXCEPT !.pend = IF s.role = 3 THEN "VMEXEC" ELSE "cancelled"]
      [] OTHER -> s

\* A key of the custom menu: a local label, or what has been assigned to it.
CustomMenuKey(s, level, item) ==
    CASE s.local /\ item = "XEQ" -> do_interactive(s, "XEQ")
      [] s.local /\ item # "XEQ" -> Chosen(s, "XEQ")
      [] ~s.local /\ item = "no" -> s
      [] ~s.local /\ item = "CLALLa" -> Confirm(s)
      [] ~s.local /\ item \notin {"no", "CLALLa", "XEQ", "op"} -> do_interactive(s, item)
      [] OTHER -> IF s.prgm THEN ChosenFrom(store_command_after(s), level)
                  ELSE [s EXCEPT !.pend = item]

\* A program of the catalog is run; a catalog that does not stick stays up,
\* as a transient one, until the program starts.
RunFromCatalog(s, level) ==
    LET section == get_cat_section(s)
        v == IF level = "plain"
             THEN set_cat_section(set_menu(set_menu(s, "plain", "none"), "transient", "catalog"), section)
             ELSE s
    IN  CASE s.prgm -> ChosenFrom(store_command_after(s), level)
          [] ~s.prgm /\ (level = "transient" \/ ~s.sticky) -> [v EXCEPT !.pend = "XEQ", !.rpc = TRUE]
          [] OTHER -> [s EXCEPT !.pend = "XEQ"]

\* A program to solve, to integrate or to set the variables of.
PgmCommand(section) ==
    CASE section = "pgm_solve" -> "PGMSLVi"
      [] section = "pgm_integ" -> "PGMINTi"
      [] section = "pgm_menu"  -> "PMEXEC"

\* A section that is left with its choice made.
LeftCatalog(s, level) ==
    IF level = "transient" \/ ~s.sticky THEN set_menu(s, level, "none") ELSE s

CatalogKey(s, level, item) ==
    LET section == get_cat_section(s)
    IN  CASE section = "top" /\ item \in {"fcn", "pgm"} -> set_cat_section(s, item)
          [] section = "top" /\ item \in {"real", "mat"} ->
               IF vars_exist(s, item) THEN set_cat_section(s, item) ELSE s
          [] section = "top" /\ item = "mem" -> [s EXCEPT !.pend = "linger1"]
          [] section = "ext1" -> set_cat_section(s, "ext")
          [] section = "ext2" -> set_cat_section(s, "misc")
          [] section \notin {"top", "ext1", "ext2"} /\ item = "no" ->
               IF s.prgm \/ section \notin {"fcn", "ext", "misc", "cmp"}
               THEN [s EXCEPT !.pend = "null"]
               ELSE [LeftCatalog(s, level) EXCEPT !.pend = "null"]
          [] section = "pgm" /\ item = "end" /\ s.prgm -> s
          [] section = "pgm" /\ (item = "item" \/ (item = "end" /\ ~s.prgm)) -> RunFromCatalog(s, level)
          [] section \in ProgramSections /\ item # "no" ->
               Chosen(s, PgmCommand(section))
          [] section = "ext" /\ item = "cmp" -> [set_cat_section(s, "cmp") EXCEPT !.pend = "null"]
          [] section \in {"fcn", "ext", "misc", "cmp"} /\ item \notin {"no", "cmp"} ->
               do_interactive(LeftCatalog(s, level), item)
          [] OTHER -> Chosen(LeftCatalog(s, level), "op")

\* The limits of the integral, and the integral.
IntegKey(s, item) ==
    CASE item = "view" /\ ~s.prgm -> [s EXCEPT !.pend = "linger1"]
      [] item = "item" \/ (item = "view" /\ s.prgm) -> Chosen(s, "VMSTO")
      [] item = "integ" -> [s EXCEPT !.pend = "INTEG"]
      [] OTHER -> [s EXCEPT !.pend = "null"]

\* A function menu: a menu below it, or a command.
FunctionKey(s, level, item) ==
    CASE item \in PlainMenus \cup AppMenus -> set_menu(s, level, item)
      [] item = "null" /\ s.prgm -> [ChosenFrom(s, level) EXCEPT !.pend = "null"]
      [] OTHER -> do_interactive(ChosenFrom(s, level), item)

TopKey(s, level, menu, item) ==
    CASE menu \in Custom    -> CustomMenuKey(s, level, item)
      [] menu = "catalog"   -> CatalogKey(s, level, item)
      [] menu = "integ"     -> IntegKey(s, item)
      [] OTHER              -> FunctionKey(s, level, item)

ArrowKey(s, level, menu) ==
    CASE menu = "catalog" -> s
      [] menu \in Custom /\ s.local -> set_menu(s, level, IF menu = "custom1" THEN "custom2" ELSE "custom1")
      [] OTHER -> IF Sibling(menu) = "none" THEN s ELSE set_menu(s, level, Sibling(menu))

\* EXIT: out of a section, out of an element of the list being edited, which
\* has to be stored first, or out of the menu.
ExitKey(s, level, menu) ==
    CASE menu = "catalog" ->
           [(IF Outer(get_cat_section(s)) # "none"
             THEN set_cat_section(s, Outer(get_cat_section(s)))
             ELSE set_menu(s, level, "none")) EXCEPT !.pend = "cancelled"]
      [] menu \in EditMenus /\ s.nested -> IF s.refuse THEN s ELSE [s EXCEPT !.nested = FALSE]
      [] OTHER -> [set_menu(s, level, Parent(menu)) EXCEPT !.pend = "cancelled"]

\* The keys that are left to their commands.
CommandKey(s, e) ==
    CASE e.key = "ALPHA" -> [set_menu(s, "alpha", "alpha1") EXCEPT !.alpha = FALSE]
      [] e.key = "exit"  -> [s EXCEPT !.prgm = FALSE, !.pend = "cancelled"]
      [] e.key \in MenuKeys -> ToMenu(s, e.key)
      [] e.key = "CUSTOM" /\ s.prgm -> [s EXCEPT !.pend = "CUSTOM"]
      [] e.key = "CUSTOM" /\ ~s.prgm -> do_interactive(s, "CUSTOM")
      [] e.key = "ASSIGN" -> do_interactive(s, "ASSIGNa")
      [] e.key = "SHOW"  -> [s EXCEPT !.pend = "linger1"]
      [] e.key \in {"top", "map"} -> do_interactive(s, e.item)
      [] e.key \in {"enter", "bsp", "arith", "chs"} -> do_interactive(s, "op")
      [] e.key \in {"run", "down", "SST"} -> do_interactive(s, KeyCommand(e))
      [] OTHER -> s

\* Is there a menu for the key?
MenuUp(s) ==
    /\ s.menu["app"] # "none" \/ s.menu["plain"] # "none" \/ s.menu["transient"] # "none"
    /\ s.menu["alpha"] = "none" /\ s.menu["command"] = "none"

MenuTakes(s, e, menu) ==
    /\ MenuUp(s)
    /\ e.key \in {"top", "up", "down", "exit"}

ByMenu(s, e, level, menu) ==
    CASE menu = "programmable" -> do_prgm_menu_key(s, e)
      [] menu = "varmenu"      -> VarmenuKey(s, e)
      [] OTHER -> CASE e.key = "top"  -> TopKey(s, level, menu, e.item)
                    [] e.key = "exit" -> ExitKey(s, level, menu)
                    [] OTHER          -> ArrowKey(s, level, menu)

keydown_normal_mode(s, e) ==
    CASE is_number_key(s, e) -> StartNumber(s, e)
      [] s.prgm /\ e.key = "bsp" -> DeleteLine(s)
      [] ~is_number_key(s, e) /\ MenuTakes(s, e, s.menu[Level(s)]) ->
           ByMenu(s, e, Level(s), s.menu[Level(s)])
      [] OTHER -> CommandKey(s, e)

------------------------------------------------------------------------------
(* A key goes down.                                                          *)

\* The answer to the question of CLALL.
Answered(s, e) ==
    [s EXCEPT !.clall = FALSE,
              !.pend = CASE e.key = "top" /\ e.item = "yes" -> "CLALLb"
                         [] e.key = "exit" -> "cancelled"
                         [] OTHER -> "null"]

\* PRGM ends a number or a string and changes the mode; the menus that make
\* no sense in program mode go.
Toggled(s) ==
    LET v == IF s.prgm /\ s.num /\ ~s.alpha THEN store_command(s) ELSE EndAlpha(s)
        w == [EndNumber(v) EXCEPT !.alpha = FALSE, !.prgm = ~@, !.vm = FALSE]
    IN  CASE mode_command_entry(s) -> s
          [] ~mode_command_entry(s) /\ ~s.prgm /\ s.menu["app"] = "baseAF" -> set_menu(w, "app", "base1")
          [] ~mode_command_entry(s) /\ ~s.prgm /\ s.menu["app"] # "baseAF"
                /\ s.menu["plain"] = "programmable" -> set_menu(w, "plain", "none")
          [] OTHER -> w

\* SST and BST, and the arrows without a menu, step through the program.
Stepping(s, e) == (Up(e) \/ Down(e)) /\ (Shift(e) \/ get_front_menu(s) = "none")

Step(s, e) == IF Up(e) THEN bst(clear_all_rtns(EndAlpha(s))) ELSE sst(clear_all_rtns(EndAlpha(s)))

\* The three rows of the top of a catalog.
Row(section, e) ==
    CASE section = "top"  -> IF Up(e) THEN "ext2" ELSE "ext1"
      [] section = "ext1" -> IF Up(e) THEN "top" ELSE "ext2"
      [] section = "ext2" -> IF Up(e) THEN "ext1" ELSE "top"

InRows(s, e) ==
    (Up(e) \/ Down(e)) /\ get_front_menu(s) = "catalog" /\ get_cat_section(s) \in {"top", "ext1", "ext2"}

\* The program line is shown while BST is held.
ShowLine(s) == [bst(clear_all_rtns(s)) EXCEPT !.alpha = FALSE, !.pend = "cancelled"]

ByMode(s, e) ==
    CASE s.num                 -> keydown_number_entry(s, e)
      [] ~s.num /\ mode_command_entry(s) -> keydown_command_entry(s, e)
      [] ~s.num /\ ~mode_command_entry(s) /\ alpha_active(s) -> keydown_alpha_mode(s, e)
      [] OTHER                 -> keydown_normal_mode(s, e)

Dispatched(s, e) ==
    CASE Stepping(s, e) /\ mode_command_entry(s) -> s
      [] Stepping(s, e) /\ ~mode_command_entry(s) /\ s.prgm -> Step(s, e)
      [] InRows(s, e) /\ ~(Stepping(s, e) /\ (s.prgm \/ mode_command_entry(s))) ->
           set_cat_section(s, Row(get_cat_section(s), e))
      [] ~InRows(s, e) /\ Stepping(s, e) /\ Up(e) /\ ~s.prgm /\ ~mode_command_entry(s) -> ShowLine(s)
      [] OTHER -> ByMode(s, e)

\* The letters of the hex digits are fetched in the middle of a number.
ToLetters(s, e) ==
    s.num /\ s.hex /\ e.key = "top" /\ get_front_menu(s) = "base1" /\ e.item = "A_THRU_F"

keydown(s, e) ==
    CASE s.clall -> Answered(s, e)
      [] ~s.clall /\ e.key = "PRGM" -> Toggled(s)
      [] ~s.clall /\ ToLetters(s, e) -> set_menu(s, "app", "baseAF")
      [] OTHER -> Dispatched(LeaveNumber(s, e), e)

------------------------------------------------------------------------------
(* The key goes up: what is pending is carried out.                          *)

\* Leaving the editor before another matrix is edited; X may be refused.
finish_edit(s) ==
    IF s.edit THEN set_menu_return_err(s, "app", "none", FALSE) ELSE [s EXCEPT !.err = FALSE]

docmd_edit(s) ==
    LET v == finish_edit(s)
        w == set_menu([v EXCEPT !.prev = IF v.menu["app"] \in {"matrix", "simq"}
                                         THEN v.menu["app"] ELSE "none",
                                !.edit = TRUE], "app", "edit1")
    IN  IF v.err THEN v ELSE [w EXCEPT !.cb = 1]

docmd_exitall(s) == set_menu_return_err(s, "app", "none", TRUE)

\* Zero is in X, so the editor can be left.  The registers are created again.
docmd_clall(s) ==
    [clear_all_rtns(docmd_exitall([s EXCEPT !.refuse = FALSE]))
        EXCEPT !.prgm = FALSE, !.pc = -1, !.lines = 0, !.locked = FALSE,
               !.kinds = {"mat"}, !.mvars = FALSE]

docmd_pgmslvi(s) == [set_menu([s EXCEPT !.role = 1], "app", "varmenu") EXCEPT !.cb = 3]

docmd_pgminti(s) ==
    [set_menu([s EXCEPT !.role = 2], "app", "varmenu") EXCEPT !.cb = 4, !.vm = TRUE]

docmd_varmenu(s) == set_menu_return_err([s EXCEPT !.role = 0], "app", "varmenu", FALSE)

docmd_varmnu1(s, running) ==
    LET v == docmd_varmenu(s)
    IN  IF v.err THEN v ELSE [v EXCEPT !.vm = TRUE, !.role = IF running THEN 3 ELSE 0]

docmd_pgmmenu(s) ==
    LET v == set_menu_return_err(s, "app", "catalog", FALSE)
    IN  IF ~s.mvars THEN s ELSE IF v.err THEN v ELSE set_cat_section(v, "pgm_menu")

docmd_menu(s) == [set_menu(s, "plain", "programmable") EXCEPT !.sticky = TRUE]

docmd_custom(s) == IF s.menu["plain"] \in Custom THEN s ELSE set_plainmenu(s, "custom1")

docmd_a_thru_f(s) ==
    LET v == set_menu_return_err(s, "app", "baseAF", FALSE)
    IN  IF v.err THEN v ELSE [v EXCEPT !.cb = 2, !.baseapp = TRUE, !.hex = TRUE]

\* Of the commands for a base, those of a program bring up the menu as well.
base_helper(s, hex, running) ==
    LET v == set_menu_return_err(s, "app", "base1", FALSE)
    IN  IF ~running THEN set_base(s, hex)
        ELSE IF v.err THEN v ELSE set_base([v EXCEPT !.cb = 2, !.baseapp = TRUE], hex)

docmd_simq(s) == set_menu_return_err(s, "app", "simq", FALSE)

docmd_aoff(s) == set_menu(s, "alpha", "none")
docmd_aon(s)  == [set_menu(s, "alpha", "alpha1") EXCEPT !.alpha = FALSE]

\* Flag 27: the custom menu.
custom_flag(s, on) ==
    CASE on /\ s.menu["plain"] \notin Custom -> set_menu(s, "plain", "custom1")
      [] ~on /\ s.menu["plain"] \in Custom   -> set_menu(s, "plain", "none")
      [] OTHER -> s

\* What a command does to the menus and modes; x names it.  A program does one
\* of these things at a time, and some of them only a program can do.
OfPrograms == {"menu", "clear_rtns", "local", "varmnu1_run", "base_run"}
Effects == OfPrograms \cup
    {"nothing", "edit", "list", "lost", "exitall", "varmenu", "varmnu1", "pgmmenu",
     "simq", "decimal", "hex", "a_thru_f", "custom_on", "custom_off", "aoff", "aon", "mvar"}

Effect(s, x) ==
    CASE x = "nothing"     -> s
      [] x = "edit"        -> IF s.kinds = {} THEN finish_edit(s) ELSE docmd_edit(s)
      [] x = "list"        -> IF s.edit THEN [s EXCEPT !.nested = TRUE] ELSE s
      [] x = "lost"        -> IF s.edit THEN leave_matrix_editor(s) ELSE s
      [] x = "exitall"     -> docmd_exitall(s)
      [] x = "varmenu"     -> IF s.mvars THEN docmd_varmenu(s) ELSE s
      [] x = "varmnu1"     -> IF s.mvars THEN docmd_varmnu1(s, FALSE) ELSE s
      [] x = "varmnu1_run" -> IF s.mvars THEN docmd_varmnu1(s, TRUE) ELSE s
      [] x = "pgmmenu"     -> docmd_pgmmenu(s)
      [] x = "simq"        -> docmd_simq(s)
      [] x = "decimal"     -> base_helper(s, FALSE, FALSE)
      [] x = "hex"         -> base_helper(s, TRUE, FALSE)
      [] x = "base_run"    -> base_helper(s, TRUE, TRUE)
      [] x = "a_thru_f"    -> docmd_a_thru_f(s)
      [] x = "custom_on"   -> custom_flag(s, TRUE)
      [] x = "custom_off"  -> custom_flag(s, FALSE)
      [] x = "aoff"        -> docmd_aoff(s)
      [] x = "aon"         -> docmd_aon(s)
      [] x = "menu"        -> docmd_menu(s)
      [] x = "clear_rtns"  -> clear_all_rtns(s)
      [] x = "local"       -> [s EXCEPT !.local = TRUE]
      [] x = "mvar"        -> [s EXCEPT !.mvars = ~@]

\* The commands that run a program, and those whose effect is their own.
Runs == {"RUN", "XEQ", "SST", "VMEXEC", "PMEXEC", "VMSOLVE", "INTEG"}
Own  == {"CLALLb", "PGMSLVi", "PGMINTi", "CUSTOM", "CLX", "CLA"}

handle(s, cmd, x) ==
    CASE cmd = "CLALLb"  -> docmd_clall(s)
      [] cmd = "PGMSLVi" -> IF s.mvars THEN docmd_pgmslvi(s) ELSE s
      [] cmd = "PGMINTi" -> IF s.mvars THEN docmd_pgminti(s) ELSE s
      [] cmd = "CUSTOM"  -> docmd_custom(s)
      [] cmd \in {"CLX", "CLA"} -> s
      [] OTHER           -> Effect(s, x)

\* The catalog of programs goes before the program it names is run.
CatalogGone(s) ==
    LET v == CASE s.menu["transient"] = "catalog" -> set_menu(s, "transient", "none")
               [] s.menu["transient"] # "catalog" /\ s.menu["plain"] = "catalog" ->
                    set_menu(s, "plain", "none")
               [] OTHER -> s
    IN  IF s.rpc THEN [v EXCEPT !.rpc = FALSE] ELSE s

\* A program stops somewhere in its lines.
Moved(s, pc) == IF s.pend \in Runs THEN [s EXCEPT !.pc = pc] ELSE s

Carried(s, x, pc, kinds) ==
    LET cmd == s.pend
        v == Moved([s EXCEPT !.vm = cmd \in {"VMSTO", "VMSOLVE", "VMEXEC"}], pc)
    IN  redisplay([handle([v EXCEPT !.kinds = kinds], cmd, x) EXCEPT !.pend = "none", !.err = FALSE])

core_keyup(s, x, pc, kinds) ==
    CASE s.pend \in {"linger1", "linger2"}  -> [s EXCEPT !.pend = "linger2"]
      [] s.pend \in {"cancelled", "null"}   -> redisplay([CatalogGone(s) EXCEPT !.pend = "none"])
      [] OTHER -> Carried(CatalogGone(s), x, pc, kinds)

\* The timer of what SHOW and its like put on the display.
core_timeout3(s) ==
    CASE s.pend = "linger1" -> [s EXCEPT !.pend = "cancelled"]
      [] s.pend = "linger2" -> [s EXCEPT !.pend = "none"]
      [] OTHER -> s

------------------------------------------------------------------------------
(* What the keys of the top row offer.                                       *)

\* The menu the keys of the top row belong to.
Offering(s) ==
    IF mode_command_entry(s) \/ alpha_active(s) THEN get_front_menu(s) ELSE s.menu[Level(s)]

SectionItems(s, section) ==
    CASE section = "top"  -> {"fcn", "pgm", "real", "mat", "mem"}
      [] section \in {"ext1", "ext2"} -> {"section"}
      [] section \in {"pgm", "pgm_only"} -> {"item", "end", "no"}
      [] section = "ext"  -> {"cmp", "op", "no"}
      [] section \in {"fcn", "misc", "cmp"} -> {"op", "STO", "LBL", "CLV", "no"}
      [] OTHER -> {"item", "no"}

FunctionItems(menu) ==
    CASE menu = "none"    -> {"op", "XEQ"}
      [] menu = "pgm1"    -> {"LBL", "XEQ", "op"}
      [] menu = "pgm2"    -> {"xcomp", "MVAR", "op"}
      [] menu = "matrix"  -> {"DIM", "EDITN", "op"}
      [] menu = "edit1"   -> {"op", "GOTOROW"}
      [] menu = "base1"   -> {"A_THRU_F", "op"}
      [] menu = "solve"   -> {"MVAR", "op"}
      [] menu = "programmable" -> {"run", "null"}
      [] menu = "varmenu" -> {"item", "no", "view"}
      [] menu = "integ"   -> {"item", "no", "view", "integ"}
      [] menu = "alpha1"  -> {"sub"}
      [] menu = "ind"     -> {"ind", "no"}
      [] menu \in {"alphasub", "blank"} -> {"char"}
      [] menu \in {"st", "ind_st"} -> {"item", "ind", "no"}
      [] OTHER            -> {"op", "null"}

TopItems(s) ==
    CASE s.clall -> {"yes", "no"}
      [] ~s.clall /\ Offering(s) = "catalog" -> SectionItems(s, get_cat_section(s))
      [] ~s.clall /\ Offering(s) \in Custom ->
           IF s.local THEN {"item", "XEQ"} ELSE {"op", "XEQ", "STO", "CLALLa", "BST", "no"}
      [] OTHER -> FunctionItems(Offering(s))

EnterItems(s) ==
    CASE s.inc.cmd = "XEQ" /\ s.inc.alpha -> {"XEQ", "op", "STO", "BST", "CLALLa", "local"}
      [] s.inc.cmd \in {"GTO", "LBL", "KEY1G"} -> {"no", "local"}
      [] s.inc.cmd = "GOTOROW" -> {"no", "list"}
      [] OTHER -> {"no"}

Items(s, key) ==
    CASE key = "top"   -> TopItems(s)
      [] key \in {"enter", "ALPHA"} -> EnterItems(s)
      [] key = "digit" -> IF s.inc.cmd = "GOTOROW" THEN {"no", "list"}
                          ELSE IF Flawed /\ s.hex THEN {"no", "wide"} ELSE {"no"}
      [] key = "bsp"   -> IF s.alpha /\ ~s.prgm THEN {"len", "no"} ELSE {"no"}
      [] key = "chs"   -> IF s.num THEN {"minus", "no"} ELSE {"no"}
      [] key = "exit"  -> IF s.menu["plain"] = "programmable" THEN {"run", "no"} ELSE {"no"}
      [] key = "map"   -> hand.commands
      [] OTHER         -> {"no"}

Keys == Shifted \cup
    {"top", "digit", "dot", "E", "arith", "enter", "bsp", "exit", "up", "down",
     "chs", "run", "char", "map"}

\* Two keys go wrong: a hex digit wider than the word leaves a number without
\* characters, and CUSTOM in program mode a string that nothing ends.
Avoided(s, key) == ~Flawed /\ key = "CUSTOM" /\ s.prgm /\ s.alpha

\* A character from outside is for a menu of letters only.  A key that ends a
\* number belongs to the menu that is in front then.
Meant(s, key) == Items(LeaveNumber(s, [key |-> key, item |-> "no"]), key)

Pressed(s) ==
    UNION {{[key |-> k, item |-> i] : i \in Meant(s, k) \ (Reached \ hand.commands)} :
              k \in {k \in Keys \cap hand.keys : ~Avoided(s, k) /\ (k = "char" => alpha_active(s))}}

------------------------------------------------------------------------------
(* The machine.                                                              *)

InEntry(s) == mode_command_entry(s) \/ s.alpha \/ s.num

\* The menus an entry has no business with.
Below(s) == [l \in {"transient", "plain", "app"} |-> s.menu[l]]

\* An entry begins where the one before has ended.
Begins(s, t) ==
    \/ mode_command_entry(t) /\ ~mode_command_entry(s)
    \/ t.alpha /\ ~s.alpha
    \/ t.num /\ ~s.num

Ended(s) == IF s.num /\ s.prgm THEN store_command(s) ELSE EndAlpha(s)
Home(s, t) == [pc |-> s.pc, lines |-> s.lines, below |-> Below(t)]

\* A value that nothing reads again before it is set is forgotten.
Settled(s) ==
    [s EXCEPT !.refuse = FALSE, !.err = FALSE,
              !.sticky = @ /\ s.menu["plain"] # "none",
              !.role = IF s.menu["app"] = "varmenu" THEN @ ELSE 0,
              !.vm = @ /\ s.menu["app"] \in {"varmenu", "integ"},
              !.prev = IF s.edit THEN @ ELSE "none",
              !.nested = @ /\ s.edit]

Shown(s) == Settled(IF s.pend = "none" THEN redisplay(s) ELSE s)

hard_reset ==
    [menu |-> [l \in Levels |-> "none"], sect |-> [l \in Levels |-> "top"],
     sticky |-> FALSE, cb |-> 0, baseapp |-> FALSE, hex |-> FALSE, role |-> 0, vm |-> FALSE,
     prev |-> "none", edit |-> FALSE, nested |-> FALSE, refuse |-> FALSE, err |-> FALSE,
     kinds |-> {}, mvars |-> FALSE, local |-> FALSE, prgm |-> FALSE, locked |-> FALSE,
     pc |-> -1, lines |-> 0, saved |-> -1, inc |-> NoEntry, clall |-> FALSE, rpc |-> FALSE,
     pend |-> "none", num |-> FALSE, nlen |-> 0, alpha |-> FALSE, alen |-> 0]

Init ==
    /\ hand \in Hands
    /\ \E lines \in hand.lines, locked \in hand.locked, kinds \in KindSets, mvars \in hand.mvars :
            u = [hard_reset EXCEPT !.lines = lines, !.locked = locked, !.kinds = kinds,
                                   !.mvars = mvars]
    /\ home = Home(u, u)

\* A menu of what is gone, the variables of a program or the programs that have
\* any, which stays up because a menu in front hides it.
Stale(s) == ~s.mvars /\ (s.menu["app"] = "varmenu" \/ s.sect["app"] \in ProgramSections)

\* The editor may refuse to store X.
KeyDown ==
    \E refuse \in BOOLEAN : LET s == [u EXCEPT !.pend = "none", !.refuse = refuse] IN
        \E e \in Pressed(s) :
            /\ u.pend \in {"none", "linger2"}
            /\ refuse => u.edit \/ (e.key = "CUSTOM" /\ alpha_active(u))
            /\ u' = Shown(keydown(s, e))
            /\ home' = IF Begins(u, u') THEN Home(Ended(u), u') ELSE home
            /\ UNCHANGED hand

KeyUp ==
    \E x \in Effects \cap hand.effects, pc \in -1 .. u.lines, kinds \in KindSets \cup {u.kinds}, refuse \in BOOLEAN :
        /\ u.pend \notin {"none", "linger2"}
        /\ x # "nothing" => /\ u.pend \notin Own \cup {"cancelled", "null", "linger1"}
                            /\ pc = u.pc /\ kinds = u.kinds
        /\ x \in OfPrograms => u.pend \in Runs
        /\ u.pend \notin Runs => pc = u.pc
        /\ u.pend \in Own \cup {"cancelled", "null", "linger1"} => kinds = u.kinds
        /\ refuse => u.edit
        /\ u' = Settled(core_keyup([u EXCEPT !.refuse = refuse], x, pc, kinds))
        /\ Flawed \/ ~Stale(u')
        /\ UNCHANGED <<home, hand>>

Timeout ==
    /\ u.pend \in {"linger1", "linger2"}
    /\ u' = core_timeout3(u)
    /\ UNCHANGED <<home, hand>>

Next == KeyDown \/ KeyUp \/ Timeout

Spec == Init /\ [][Next]_vars

------------------------------------------------------------------------------
(* Properties.                                                               *)

\* The record of core_globals.cc holds values of its types: a level shows a
\* menu it may show, the program counter is within the program.
TypeOK ==
    /\ \A l \in Levels : u.menu[l] \in CASE l = "command"   -> CommandMenus
                                        [] l = "alpha"     -> AlphaMenus \cup {"none"}
                                        [] l = "transient" -> {"none", "catalog"}
                                        [] l = "plain"     -> PlainMenus
                                        [] l = "app"       -> AppMenus
    /\ \A l \in Levels : u.sect[l] \in Sections
    /\ u.cb \in 0 .. 5 /\ u.role \in 0 .. 3 /\ u.kinds \subseteq {"real", "mat"}
    /\ u.lines \in 0 .. MaxLines /\ u.pc \in -1 .. u.lines
    /\ u.nlen \in 0 .. NumLength /\ u.alen \in 0 .. MaxAlpha /\ u.saved \in -1 .. u.lines

\* An application menu that has to be told when it is left has its callback,
\* and no other menu has: without it the editor would drop the element in X,
\* the BASE application would leave its base behind, and the menus of SOLVE
\* and the integrator would not lead back.
CallbackFits ==
    /\ (u.cb = 1) <=> u.edit
    /\ u.edit <=> u.menu["app"] \in EditMenus
    /\ (u.cb = 2) <=> u.menu["app"] \in BaseMenus
    /\ u.baseapp <=> u.cb = 2
    /\ u.cb \in {3, 4} => u.menu["app"] = "varmenu" /\ u.role = (IF u.cb = 3 THEN 1 ELSE 2)
    /\ (u.cb = 5) <=> u.menu["app"] = "integ"

\* The keys mean one thing at a time: a menu of the command level is that of a
\* command being entered, there is no other entry then, and the variables
\* offered for it are those of the application that is up.
EntryModes ==
    /\ u.menu["command"] # "none" => mode_command_entry(u)
    /\ u.menu["command"] \in {"varmenu", "integ"} => u.menu["app"] = u.menu["command"]
    /\ mode_command_entry(u) => ~u.num /\ ~u.clall
    /\ u.clall => ~InEntry(u)
    /\ u.alpha => alpha_active(u) /\ ~u.num

\* Whatever is up, EXIT leads out of it: pressed often enough it ends every
\* entry and leaves every menu, the editor too if X can be stored, and finally
\* program mode.  A callback that leads back to its own menu, or an entry that
\* EXIT does not end, would lock the user in.
Presses == 10

Released(s) == IF s.pend = "none" THEN s ELSE Settled(core_keyup(s, "nothing", s.pc, s.kinds))

Exited(s) == Released(Shown(keydown([s EXCEPT !.pend = "none"], [key |-> "exit", item |-> "no"])))

Out(s) == /\ \A l \in Levels : s.menu[l] = "none"
          /\ ~InEntry(s) /\ ~s.clall /\ ~s.prgm /\ s.cb = 0 /\ ~s.baseapp

Escapes ==
    LET after[n \in 0 .. Presses] == IF n = 0 THEN u ELSE Exited(after[n - 1])
    IN  Out(after[Presses])

\* An entry in program mode that is cancelled leaves no trace: the program,
\* the line it stood at and the menus of the levels behind are what they were
\* when the entry began, however many menus and arguments it went through.
\* One that ends with a new line shows that line, which comes after the line
\* the entry began at.
Ends == u.prgm /\ InEntry(u) /\ ~InEntry(u') /\ u'.pend # "linger1"

Cancelled ==
    /\ u'.pend \in {"null", "cancelled"}
    /\ mode_command_entry(u) \/ (u.alpha /\ u.alen = 0)

EntryLeavesNoTrace ==
    [][Ends => /\ Cancelled => /\ u'.pc = home.pc /\ u'.lines = home.lines
                               /\ Below(u') = home.below
               /\ mode_command_entry(u) /\ u'.lines # home.lines =>
                      u'.lines = home.lines + 1 /\ u'.pc = After(home.pc, home.lines)]_vars
==============================================================================
