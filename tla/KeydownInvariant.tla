-------------------------- MODULE KeydownInvariant --------------------------
(* What holds in every state of Keydown (KInv), which says more than the    *)
(* properties so that every step keeps it, and the relations between the    *)
(* states before and after an operation of which the steps consist: the     *)
(* fields it leaves alone (Keeps) and what it does to the others.  They are *)
(* stated here for KeydownProofs, and for TLC, which can check KInv too.    *)
EXTENDS Keydown

-----------------------------------------------------------------------------
(* States of the calculator. The menus and what they stand for are of       *)
(* finite sets, numbers are only numbers: their bounds are in Counters.     *)

AnyMenu == PlainMenus \cup AppMenus \cup CommandMenus

MenuStates == [Levels -> AnyMenu]
SectStates == [Levels -> Sections]
KindStates == SUBSET {"real", "mat"}
CbStates == 0 .. 5
RoleStates == 0 .. 3
PrevStates == {"none", "matrix", "simq"}

(* Kinds of arguments; names of commands, and what else may be pending *)
ArgTypes ==
    {"var", "real", "named", "lbl", "prgm", "num9", "num11", "mat", "rvar", "mkey",
     "count", "ckey", "xstr", "other", "none"}
Words ==
    Reached \cup
    {"none", "null", "cancelled", "linger1", "linger2", "op", "RUN", "SST", "STO_ADD",
     "KEY1G", "GOTOCOLUMN", "ASSIGNa", "ASSIGNb", "GTODOT", "GTODOTDOT", "CLALLb", "ASGN",
     "A_THRU_F", "CUSTOM", "VMEXEC", "VMSTO", "VMSOLVE", "PGMSLVi", "PGMINTi", "PMEXEC",
     "CLX", "CLA"}

EntryStates ==
    [cmd : Words, type : ArgTypes, ind : BOOLEAN, alpha : BOOLEAN, len : Int, max : Int]

Calculators ==
    [menu : MenuStates, sect : SectStates, sticky : BOOLEAN, cb : CbStates,
     baseapp : BOOLEAN, hex : BOOLEAN, role : RoleStates, vm : BOOLEAN, prev : PrevStates,
     edit : BOOLEAN, nested : BOOLEAN, refuse : BOOLEAN, err : BOOLEAN, kinds : KindStates,
     mvars : BOOLEAN, local : BOOLEAN, prgm : BOOLEAN, locked : BOOLEAN, pc : Int,
     lines : Int, saved : Int, inc : EntryStates, clall : BOOLEAN, rpc : BOOLEAN,
     pend : Words, num : BOOLEAN, nlen : Int, alpha : BOOLEAN, alen : Int]

Fields ==
    {"menu", "sect", "sticky", "cb", "baseapp", "hex", "role", "vm", "prev", "edit",
     "nested", "refuse", "err", "kinds", "mvars", "local", "prgm", "locked", "pc", "lines",
     "saved", "inc", "clall", "rpc", "pend", "num", "nlen", "alpha", "alen"}

(* t differs from s in the fields of F at most *)
Keeps(s, t, F) == \A f \in Fields \ F : t[f] = s[f]

(* The menus a level may show *)
MenusOf(l) ==
    CASE l = "command"   -> CommandMenus
      [] l = "alpha"     -> AlphaMenus \cup {"none"}
      [] l = "transient" -> {"none", "catalog"}
      [] l = "plain"     -> PlainMenus
      [] l = "app"       -> AppMenus

(* The sections from which an argument is chosen *)
ArgumentSections == {"real_only", "mat_only", "vars_only"}

(* A level has a section only if it shows a catalog; only the level of     *)
(* applications lists the programs to solve and to integrate, and only the *)
(* level of commands the variables of an argument.                         *)
Sectioned(s, l) ==
    /\ s.sect[l] # "top" => s.menu[l] = "catalog"
    /\ s.sect[l] \in ProgramSections => l = "app"
    /\ s.sect[l] \in ArgumentSections => l = "command"

(* Each level shows a menu of its own *)
Screen(s) ==
    /\ s \in Calculators
    /\ \A l \in Levels : s.menu[l] \in MenusOf(l) /\ Sectioned(s, l)

-----------------------------------------------------------------------------
(* Menus and callbacks                                                      *)

(* The callback is that of the menu, the role of a menu of variables apart *)
Told(s) ==
    /\ s.cb = 1 => s.menu["app"] \in EditMenus
    /\ (s.cb = 2) <=> s.menu["app"] \in BaseMenus
    /\ s.baseapp <=> s.cb = 2
    /\ s.cb \in {3, 4} => s.menu["app"] = "varmenu"
    /\ (s.cb = 5) <=> s.menu["app"] = "integ"

(* What a menu of the application level may change *)
AppFields == {"menu", "sect", "cb", "baseapp", "hex", "role", "edit", "nested", "err"}

(* Menus of the application that is up: it is not left for them. *)
OwnMenu(s, m) == (s.cb = 1 /\ m \in EditMenus) \/ (s.cb = 2 /\ m \in BaseMenus)

(* What comes of asking for the menu m at this level: it is taken, or the  *)
(* application refuses or only shows another menu of its own, or, when no  *)
(* menu is asked for, leads back to where it was called from.              *)
Taken(s, t, m) ==
    /\ ~OwnMenu(s, m)
    /\ t.menu["app"] = m /\ t.cb = 0 /\ ~t.baseapp /\ t.role = s.role
    /\ t.edit <=> s.edit /\ s.cb # 1
    /\ t.sect["app"] \in {"top", s.sect["app"]}

Refused(s, t) ==
    /\ s.cb = 1 /\ t.cb = 1
    /\ t.menu = s.menu /\ t.sect = s.sect
    /\ t.edit = s.edit /\ t.baseapp = s.baseapp /\ t.role = s.role

Stays(s, t, m) ==
    /\ OwnMenu(s, m)
    /\ t.menu["app"] = m /\ t.cb = s.cb
    /\ t.edit = s.edit /\ t.baseapp = s.baseapp /\ t.role = s.role
    /\ t.sect["app"] = "top"

Back(s, t) ==
    /\ ~t.baseapp
    /\ \/ /\ s.cb = 1 /\ t.menu["app"] = s.prev /\ t.cb = 0 /\ ~t.edit
          /\ t.sect["app"] \in {"top", s.sect["app"]}
       \/ /\ s.cb \in {3, 4} /\ t.menu["app"] = "catalog" /\ t.cb = 0 /\ t.edit = s.edit
          /\ t.sect["app"] \in ProgramSections
       \/ /\ s.cb = 5 /\ t.menu["app"] = "varmenu" /\ t.cb = 4 /\ t.role = 2 /\ t.edit = s.edit
          /\ t.sect["app"] = "top"

Allowed(s, t, m) == Taken(s, t, m) \/ Stays(s, t, m) \/ (m = "none" /\ Back(s, t))

LeftFor(s, t, m) == (t.err /\ Refused(s, t)) \/ (t.err = s.err /\ Allowed(s, t, m))

(* Levels other than that of the applications are left as they are or cleared *)
Sunk(s, t) == \A l \in Levels \ {"app"} : t.menu[l] \in {"none", s.menu[l]}

(* CallbackFits, of any state *)
Fits(s) ==
    /\ (s.cb = 1) <=> s.edit
    /\ s.edit <=> s.menu["app"] \in EditMenus
    /\ (s.cb = 2) <=> s.menu["app"] \in BaseMenus
    /\ s.baseapp <=> s.cb = 2
    /\ s.cb \in {3, 4} => s.menu["app"] = "varmenu" /\ s.role = (IF s.cb = 3 THEN 1 ELSE 2)
    /\ (s.cb = 5) <=> s.menu["app"] = "integ"

(* Menus that come with a callback of their own *)
OfOwn == EditMenus \cup BaseMenus \cup {"integ"}

-----------------------------------------------------------------------------
(* The invariant                                                            *)

(* Commands that only the keyboard itself leaves pending *)
Internal == {"ASGN", "PGMSLVi", "PGMINTi"}

(* What an argument is chosen from fits the command being entered. *)
EntryFits(s) ==
    /\ s.inc.cmd \notin Internal
    /\ s.inc.type = "ckey" => s.inc.cmd = "ASSIGNb" /\ s.menu["command"] \in Custom
    /\ s.inc.type = "mkey" => s.inc.cmd = "KEYG"
    /\ s.menu["command"] = "ind" => s.inc.cmd = "GTODOT"

(* The program counter is in the program, and a number has digits. *)
Counters(s) ==
    /\ s.lines \in 0 .. MaxLines /\ s.pc \in -1 .. s.lines /\ s.saved \in -1 .. s.lines
    /\ s.alen \in 0 .. MaxAlpha
    /\ s.nlen \in 0 .. NumLength /\ (s.num <=> s.nlen # 0)
    /\ s.num /\ s.prgm => s.pc # -1

(* What may be pending while a command is being entered *)
Quiet == {"none", "linger1", "linger2", "cancelled"}

(* One entry at a time, with menus of its own, and nothing pending that a  *)
(* later step would not expect.                                            *)
Modes(s) ==
    /\ s.menu["command"] # "none" => mode_command_entry(s)
    /\ s.menu["command"] \in {"varmenu", "integ"} => s.menu["app"] = s.menu["command"]
    /\ mode_command_entry(s) => ~s.num /\ ~s.clall /\ ~s.alpha /\ s.pend \in Quiet
    /\ s.clall => ~s.num /\ ~s.alpha /\ s.pend = "none"
    /\ s.alpha => /\ alpha_active(s) /\ ~s.num
                  /\ s.pend \in Quiet \cup {"CLA"} /\ (s.pend = "CLA" => ~s.prgm)
    /\ s.num => ~alpha_active(s) /\ s.pend = "none"
    /\ s.rpc => s.pend \in {"XEQ", "GTO"}
    /\ s.pend \in {"PGMSLVi", "PGMINTi"} => s.menu["app"] = "catalog"
    /\ Stale(s) => s.pend = "cancelled" /\ ~InEntry(s)
    /\ s.saved # -1 => s.prgm /\ (mode_command_entry(s) \/ s.alpha)

Inv(s) == Screen(s) /\ Fits(s) /\ EntryFits(s) /\ Counters(s) /\ Modes(s)

(* In program mode the place an entry began at is the one it can go back to; *)
(* but for PRP, the line shown is that of the new line.                      *)
HomeOK(s, h) ==
    s.prgm /\ (mode_command_entry(s) \/ s.alpha) =>
        /\ s.saved = h.pc /\ s.lines = h.lines /\ Below(s) = h.below
        /\ mode_command_entry(s) /\ s.inc.cmd # "PRP" => s.pc = After(h.pc, h.lines)

(* What holds of every state, and what is kept of where an entry began *)
Kept(s, h) == Inv(s) /\ HomeOK(s, h)

(* What holds in every state that can be reached: each level shows a menu   *)
(* of its own, callbacks fit the menus, one entry is under way at a time,   *)
(* and one that began in program mode can go back to where it began.        *)
KInv == Kept(u, home) /\ hand \in Hands

-----------------------------------------------------------------------------
(* The entry of a command, step by step                                     *)

(* Nothing is under way but, perhaps, the entry of a command. *)
Free(s) ==
    /\ Screen(s) /\ Fits(s) /\ Counters(s) /\ ~Stale(s)
    /\ ~s.num /\ ~s.alpha /\ ~s.clall /\ ~s.rpc /\ s.pend = "none"

(* Nothing at all is. *)
Rest(s) == Free(s) /\ ~mode_command_entry(s) /\ s.menu["command"] = "none"
           /\ EntryFits(s) /\ s.saved = -1

(* A command is being entered. *)
Entering(s) == Inv(s) /\ mode_command_entry(s) /\ s.pend = "none"

(* The other levels are as they were. *)
Beside(s, t) == \A l \in Levels \ {"command"} : t.menu[l] = s.menu[l] /\ t.sect[l] = s.sect[l]

BelowSame(s, t) ==
    \A l \in {"transient", "plain", "app"} : t.menu[l] = s.menu[l]

(* The entry of a command goes on, or has come to its end. *)
GoesOn(s, t) ==
    /\ Entering(t)
    /\ Keeps(s, t, {"inc", "menu", "sect", "local"})
    /\ BelowSame(s, t)
    /\ t.inc.cmd # "PRP" => s.inc.cmd # "PRP"

NoTrace(s, t) ==
    s.prgm =>
        /\ t.pend \in {"null", "cancelled"} =>
               t.pc = s.saved /\ t.lines = s.lines /\ BelowSame(s, t)
        /\ t.lines # s.lines => t.lines = s.lines + 1 /\ t.pc = s.pc /\ s.inc.cmd # "PRP"

IsOver(s, t) ==
    /\ Inv(t) /\ ~mode_command_entry(t) /\ ~t.alpha /\ ~t.num
    /\ NoTrace(s, t)

EntryStep(s, t) == GoesOn(s, t) \/ IsOver(s, t)

(* An entry that has been begun while s was at rest *)
Started(s, t) ==
    t.prgm => /\ s.prgm /\ t.saved = s.pc /\ t.lines = s.lines
              /\ t.inc.cmd # "PRP" => t.pc = After(s.pc, s.lines)

Acted(s, t) == Inv(t) /\ ~t.alpha /\ (mode_command_entry(t) => Started(s, t))

-----------------------------------------------------------------------------
(* Which fields an operation may change, and what it comes to               *)

(* Menus are changed. *)
MenuFields == AppFields \cup {"sticky", "prev", "vm"}

Steers(s, t) ==
    /\ Screen(t) /\ Fits(t) /\ Keeps(s, t, MenuFields)
    /\ s.menu["command"] = "none" => t.menu["command"] = "none"
    /\ Stale(t) => Stale(s)

LineFields == MenuFields \cup {"pc", "lines"}

(* A line is stored, or refused. *)
StoredAt(s, t) ==
    /\ Screen(t) /\ Fits(t) /\ ~Stale(t) /\ Keeps(s, t, LineFields)
    /\ s.menu["command"] = "none" => t.menu["command"] = "none"
    /\ t.lines \in 0 .. MaxLines

(* A state at rest from the parts it consists of *)
RestFields == LineFields \cup {"num", "nlen", "alpha", "alen", "saved", "prgm", "locked", "refuse"}

(* The level of commands shows what a command offers. *)
Prompt(s, t) ==
    /\ Screen(t) /\ Keeps(s, t, {"menu", "sect"}) /\ Beside(s, t)
    /\ t.menu["command"] \in {"varmenu", "integ"} => t.menu["app"] = t.menu["command"]
    /\ t.menu["command"] = "ind" => s.inc.cmd = "GTODOT"

(* A command has been begun. *)
EntryBegun(s, cmd, t) ==
    /\ Screen(t) /\ Keeps(s, t, {"inc", "menu", "sect", "local"}) /\ Beside(s, t)
    /\ t.inc.cmd = cmd /\ t.inc.type = ArgType(cmd)
    /\ t.menu["command"] \in {"varmenu", "integ"} => t.menu["app"] = t.menu["command"]
    /\ t.menu["command"] = "ind" => cmd = "GTODOT"
    /\ t.inc.type = "ckey" => t.menu["command"] \in Custom

DoneFields == MenuFields \cup {"rpc", "pc", "pend"}
OverFields == DoneFields \cup {"inc", "lines", "saved", "clall"}

(* Fields that neither the menus nor the callback depend on *)
Plainer == {"pc", "lines", "saved", "inc", "pend", "rpc", "alen", "nlen", "num", "prgm", "locked",
            "refuse", "err", "vm", "clall", "alpha", "hex", "sticky", "local", "kinds", "nested"}

(* Commands an entry may end with *)
EndsWith(s, c) ==
    /\ c \in Words /\ c \notin {"PGMSLVi", "PGMINTi"}
    /\ c = "ASGN" => s.menu["command"] \in Custom
    /\ c = "ASSIGNa" => s.inc.cmd = "ASSIGNa"
    /\ s.inc.cmd = "PRP" => c \in Immediate \cup {"null", "cancelled"}

(* The entry is given up for another one, from the same place ... *)
Forgone(s) == [Shows(s, "command", "none") EXCEPT !.inc = NoEntry, !.pend = "none"]

(* ... or for a question. *)
Asked(s) == [Confirm(s) EXCEPT !.inc = NoEntry, !.pend = "none", !.saved = -1]

(* What may be found under the name given to XEQ *)
Found == {"XEQ", "op", "STO", "BST", "CLALLa", "LBL", "CLV"}

(* The command being entered, or its argument, changes. *)
Edited(s, x) == [s EXCEPT !.inc = x]

(* It stays the same command, or becomes one of those the keyboard tells apart. *)
Revised(s, x) ==
    /\ x \in EntryStates
    /\ \/ x.cmd = s.inc.cmd /\ x.type = s.inc.type
       \/ s.inc.cmd # "PRP" /\ x.cmd \notin Internal \cup {"none"} /\ x.type \notin {"ckey", "mkey"}

(* What the items of the catalogs of functions may be *)
ItemFits(s, item) ==
    s.sect["command"] \in {"fcn", "ext", "misc", "cmp"} => item \in Found \cup {"no", "cmp"}

(* The memory is shown while the key is held. *)
Lingers(s, t) == t = [s EXCEPT !.pend = "linger1"]

(* The argument of a command of any kind but those whose argument is a key *)
Argument(s) == Entering(s) /\ s.inc.type \notin {"ckey", "mkey"}

(* The name given to XEQ is that of a program, or of a built-in command. *)
NameFits(s, e) ==
    e.key \in {"enter", "ALPHA"} /\ s.inc.cmd = "XEQ" /\ s.inc.alpha => e.item \in Found \cup {"local"}

(* The key fits what is shown. *)
KeyFits(s, e) ==
    /\ NameFits(s, e)
    /\ e.key = "top" /\ s.menu["command"] = "catalog" =>
           ItemFits(s, e.item) /\ (e.item = "cmp" => s.sect["command"] = "ext")

-----------------------------------------------------------------------------
(* Keys                                                                     *)

(* Redrawing the menus takes those down that list nothing any more. *)
Redrawn(s, t) ==
    /\ Screen(t) /\ Fits(t) /\ Keeps(s, t, AppFields)
    /\ t.menu["command"] = s.menu["command"]
       \/ (s.menu["command"] = "catalog" /\ t.menu["command"] = "none")
    /\ ~Stale(s) => /\ ~Stale(t) /\ Keeps(s, t, {"menu", "sect"})
                    /\ \A l \in Levels \ {"command"} : t.menu[l] = s.menu[l]

(* Values that nothing reads again are forgotten. *)
Forgets == {"refuse", "err", "sticky", "role", "vm", "prev", "nested"}

(* Nothing has happened but to what is shown. *)
Apart(s, t) ==
    /\ Keeps(s, t, {"menu", "sect"} \cup Forgets)
    /\ \A l \in Levels \ {"command"} : t.menu[l] = s.menu[l]

(* Nothing but, perhaps, a number is being entered. *)
Calm(s) ==
    /\ Screen(s) /\ Fits(s) /\ Counters(s) /\ EntryFits(s) /\ ~Stale(s)
    /\ ~s.alpha /\ ~s.clall /\ ~s.rpc /\ s.pend = "none" /\ s.saved = -1
    /\ ~mode_command_entry(s) /\ s.menu["command"] = "none"

NumFields == {"num", "nlen", "pc", "vm"}

(* The digits of a number *)
Digits(s, b, n, p, c) == [s EXCEPT !.num = b, !.nlen = n, !.pc = p, !.vm = c]

(* The program of a catalog that stays until the program starts *)
RunPends(s) == [s EXCEPT !.pend = "XEQ", !.rpc = TRUE]

(* What a section of commands offers *)
CommandItems == {"op", "STO", "LBL", "CLV", "no", "cmp"}

(* What a function menu offers *)
Functions == {"op", "XEQ", "LBL", "MVAR", "DIM", "EDITN", "GOTOROW", "null", "xcomp", "A_THRU_F"}

(* Program mode is left. *)
Unprogrammed(s) == [s EXCEPT !.prgm = FALSE, !.pend = "cancelled"]

(* The keys that are pressed fit what is on the display. *)
Fitting(s, e) ==
    /\ e.key = "top" => e.item \in TopItems(s)
    /\ e.key \in {"enter", "ALPHA"} => e.item \in EnterItems(s)
    /\ e.key = "map" => e.item \in Reached \cup {"op"}
    /\ e.item # "wide"

(* Nothing is in front of the levels that take the keys. *)
Plainly(s) == Rest(s) /\ ~alpha_active(s)

(* A key goes down: nothing is pending, and there is nothing to confirm. *)
Ready(s) == Inv(s) /\ s.pend = "none" /\ ~s.clall

(* No command and no number is being entered. *)
Lettered(s) == Ready(s) /\ ~mode_command_entry(s) /\ ~s.num

(* The lines of a program after a line has been stored *)
StoredLines(s) == IF Refuses(s) THEN s.lines ELSE s.lines + 1

(* A string that begins, in program mode with a line *)
Opens(s, t) == t.prgm => s.prgm /\ t.saved = s.pc /\ t.lines = s.lines

(* No entry, or one that begins *)
Fresh(s, t) ==
    /\ Inv(t)
    /\ mode_command_entry(t) => Started(s, t)
    /\ t.alpha => Opens(s, t)

(* A string that goes on *)
AlphaOn(s, t) ==
    /\ Inv(t) /\ t.alpha /\ t.prgm = s.prgm /\ t.saved = s.saved /\ t.lines = s.lines
    /\ BelowSame(s, t)

(* A string that has ended, and what has been done then *)
AlphaOver(s, t) ==
    /\ Acted(EndAlpha(s), t)
    /\ s.prgm /\ s.alen = 0 /\ ~mode_command_entry(t) /\ t.pend \in {"null", "cancelled"} =>
           t.pc = s.saved /\ t.lines = s.lines /\ BelowSame(s, t)

StringKey(s, t) == IF s.alpha THEN AlphaOn(s, t) \/ AlphaOver(s, t) ELSE Fresh(s, t)

(* What a string that goes on may differ in *)
StringFields == {"menu", "sect", "err", "alen", "alpha", "saved", "pc", "pend"}

Strung(s, t) ==
    /\ Screen(t) /\ Keeps(s, t, StringFields) /\ t.alpha = TRUE
    /\ \A l \in Levels \ {"alpha"} : t.menu[l] = s.menu[l]
    /\ t.sect["app"] = s.sect["app"] /\ t.menu["alpha"] \in AlphaMenus
    /\ t.pc \in -1 .. s.lines /\ t.alen \in 0 .. MaxAlpha
    /\ t.saved = IF s.alpha \/ ~s.prgm THEN s.saved ELSE s.pc
    /\ t.pend \in {"none", "linger1", "CLA"} /\ (t.pend = "CLA" => ~s.prgm)

(* What a key does when no command is being entered *)
Outcome(s, t) == IF s.alpha THEN AlphaOn(s, t) \/ AlphaOver(s, t) ELSE Fresh(Ended(s), t)

(* PRGM: no entry is left, and the mode is the other one *)
InMode(s, b) == [s EXCEPT !.alpha = FALSE, !.prgm = b, !.vm = FALSE]

(* What a key may do *)
KeyResult(s, t) ==
    IF mode_command_entry(s) THEN t = s \/ EntryStep(s, t) \/ Lingers(s, t) ELSE Outcome(s, t)

Listening(s, r) == [s EXCEPT !.pend = "none", !.refuse = r]

(* Where an entry that a key ends leaves the program *)
EndedPc(s) == IF s.prgm /\ s.alpha /\ ~s.num /\ s.alen = 0 THEN s.saved ELSE s.pc
EndedLines(s) == IF s.prgm /\ (s.num \/ (s.alpha /\ s.alen # 0)) THEN StoredLines(s) ELSE s.lines

(* Where the entry in progress began, after a key; and what its end leaves *)
HomeAfter(s, t, h) == IF Begins(s, t) THEN Home(Ended(s), t) ELSE h

Trace(s, h, t) ==
    s.prgm /\ InEntry(s) /\ ~InEntry(t) /\ t.pend # "linger1" =>
        /\ t.pend \in {"null", "cancelled"} /\ (mode_command_entry(s) \/ (s.alpha /\ s.alen = 0)) =>
               t.pc = h.pc /\ t.lines = h.lines /\ Below(t) = h.below
        /\ mode_command_entry(s) /\ t.lines # h.lines =>
               t.lines = h.lines + 1 /\ t.pc = After(h.pc, h.lines)

-----------------------------------------------------------------------------
(* Commands, which are carried out when a key goes up                       *)

EffFields ==
    MenuFields \cup {"prgm", "pc", "lines", "locked", "kinds", "mvars", "local", "refuse", "alpha"}

(* Nothing is being entered. *)
Served(s) ==
    /\ Screen(s) /\ Fits(s) /\ s.menu["command"] = "none" /\ ~s.alpha
    /\ s.lines \in 0 .. MaxLines /\ s.pc \in -1 .. s.lines

Effected(s, t) == Served(t) /\ Keeps(s, t, EffFields)

(* What is not a menu and does not go with one *)
Loose == {"kinds", "local", "nested", "vm", "refuse", "prgm", "locked", "err", "hex", "sticky",
          "mvars", "prev"}

(* The menus of the BASE application, with their callback *)
BaseUp(v) == [v EXCEPT !.cb = 2, !.baseapp = TRUE]

Editing(v, p) == [set_menu([v EXCEPT !.prev = p, !.edit = TRUE], "app", "edit1") EXCEPT !.cb = 1]

(* The menu of the solver's or the integrator's program *)
Solving(s, n, c) == [set_menu([s EXCEPT !.role = n], "app", "varmenu") EXCEPT !.cb = c]

(* CLALL: everything goes, and the program with it. *)
Reset(s) == [s EXCEPT !.prgm = FALSE, !.pc = -1, !.lines = 0, !.locked = FALSE,
                      !.kinds = {"mat"}, !.mvars = FALSE]

(* Nothing is under way but a command that is pending. *)
Idle(s) == Inv(s) /\ ~InEntry(s) /\ ~s.clall

(* What was under way is as it was. *)
AsItWas(s, t) ==
    /\ Inv(t) /\ BelowSame(s, t)
    /\ t.pc = s.pc /\ t.lines = s.lines /\ t.saved = s.saved /\ t.prgm = s.prgm
    /\ t.inc = s.inc /\ t.alpha = s.alpha

Lingering(s, r) == [s EXCEPT !.refuse = r, !.pend = "linger2"]

(* A command or a string is being entered: the key is released. *)
Releasing(s, r) == [s EXCEPT !.refuse = r]

(* The calculator after a hard reset *)
New(lines, locked, kinds, mvars) ==
    [hard_reset EXCEPT !.lines = lines, !.locked = locked, !.kinds = kinds, !.mvars = mvars]
=============================================================================
