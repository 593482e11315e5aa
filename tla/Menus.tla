------------------------------- MODULE Menus -------------------------------
(* The menus of the calculator (core_display.cc).  Menus are stacked on five *)
(* levels; the one in front is shown, and setting a level clears the levels  *)
(* in front of it.  The application level may carry an exit callback, which  *)
(* decides whether, and to which menu, that level may be left: the matrix    *)
(* editor stores X first, the BASE menus restore the decimal base, the menus *)
(* of SOLVE and of the integrator lead back to the one they came from.       *)
(*                                                                           *)
(* A state is a record u, and an operation a function of it.  Of the menus   *)
(* that differ in their commands only, one or two stand for all of them.     *)
EXTENDS Naturals, FiniteSets

Levels == {"command", "alpha", "transient", "plain", "app"}

\* Menus of the menu table that have siblings, a parent or commands.
PlainMenus == {"none", "clear1", "clear2", "pgm1", "pgm2", "xcomp", "custom1",
               "custom2", "catalog", "programmable"}
AppMenus == {"none", "matrix", "simq", "edit1", "edit2", "base1", "baseAF",
             "solve", "varmenu", "integ", "catalog"}
AlphaMenus == {"alpha1", "alphasub"}
CommandMenus == {"none", "catalog", "ind", "st", "ind_st", "varmenu", "integ",
                 "custom1", "custom2", "blank"} \cup AlphaMenus

Custom == {"custom1", "custom2"}
BaseMenus == {"base1", "baseAF"}
EditMenus == {"edit1", "edit2"}

\* Sections of a catalog: where EXIT leads from one that is not a top one.
Sections == {"top", "ext1", "ext2", "fcn", "pgm", "pgm_only", "real", "mat",
             "ext", "misc", "cmp", "real_only", "mat_only", "vars_only",
             "pgm_solve", "pgm_integ", "pgm_menu"}

\* Those of the programs that have variables to solve for.
ProgramSections == {"pgm_solve", "pgm_integ", "pgm_menu"}

\* The table of the menus: the menu EXIT leads to ...
Parent(menu) ==
    CASE menu = "alphasub" -> "alpha1"
      [] menu = "xcomp"    -> "pgm2"
      [] menu = "simq"     -> "matrix"
      [] menu = "baseAF"   -> "base1"
      [] OTHER             -> "none"

\* ... and its sibling, to which the arrow keys lead.
Sibling(menu) ==
    CASE menu = "clear1"  -> "clear2"
      [] menu = "clear2"  -> "clear1"
      [] menu = "pgm1"    -> "pgm2"
      [] menu = "pgm2"    -> "pgm1"
      [] menu = "custom1" -> "custom2"
      [] menu = "custom2" -> "custom1"
      [] menu = "edit1"   -> "edit2"
      [] menu = "edit2"   -> "edit1"
      [] OTHER            -> "none"

\* The ancestor without a parent: two menus of a group have it in common.
Root(menu) == IF Parent(menu) = "none" THEN menu ELSE Parent(menu)

\* Levels in front of a level.
InFront ==
    [command   |-> {},
     alpha     |-> {"command"},
     transient |-> {"command", "alpha"},
     plain     |-> {"command", "alpha", "transient"},
     app       |-> {"command", "alpha", "transient", "plain"}]

\* get_cat_index() and get_front_menu(): the first level that shows a menu.
get_cat_index(u) ==
    CHOOSE l \in Levels : /\ l = "app" \/ u.menu[l] # "none"
                          /\ \A k \in InFront[l] : u.menu[k] = "none"

get_front_menu(u) == u.menu[get_cat_index(u)]

alpha_active(u) == get_front_menu(u) \in AlphaMenus

get_cat_section(u) == u.sect[get_cat_index(u)]

set_cat_section(u, section) == [u EXCEPT !.sect[get_cat_index(u)] = section]

\* A level takes a menu and the levels in front of it are cleared.  The
\* section of a level is kept while it shows a catalog only.
Cleared(u, level) ==
    [u EXCEPT !.menu = [l \in Levels |->
                            IF l \in InFront[level] THEN "none" ELSE u.menu[l]],
              !.sect = [l \in Levels |->
                            IF l \in InFront[level] THEN "top" ELSE u.sect[l]]]

Shows(u, level, menu) ==
    [u EXCEPT !.menu[level] = menu,
              !.sect[level] = IF menu = "catalog" THEN @ ELSE "top"]

set_base(u, hex) ==
    LET v == [u EXCEPT !.hex = hex]
    IN  IF u.menu["app"] = "baseAF" THEN Cleared(Shows(v, "app", "base1"), "app")
                                    ELSE v

------------------------------------------------------------------------------
(* The exit callbacks.  Each is called with the callback already cleared.    *)

\* A menu of the editor: stay, and ask again.  Otherwise store the element,
\* which may be refused (u.refuse); then out, to the menu asked for or to the
\* one the editor was called from.  That docmd_stoel() finds nothing to store
\* into, and leaves the editor by itself, is left out (README, section 11).
appmenu_exitcallback_1(u, menu, exitall) ==
    CASE menu \in EditMenus -> [Shows(u, "app", menu) EXCEPT !.cb = 1]
      [] menu \notin EditMenus /\ u.refuse -> [u EXCEPT !.cb = 1, !.err = TRUE]
      [] OTHER ->
           Cleared(Shows([u EXCEPT !.edit = FALSE, !.nested = FALSE], "app",
                         IF menu = "none" /\ ~exitall THEN u.prev ELSE menu), "app")

\* A mutant: EXITALL is asked to stay, as if it led to the menu it is at.
appmenu_exitcallback_2_stays(u, menu, exitall) ==
    IF menu \in BaseMenus \/ exitall
    THEN [Shows(u, "app", menu) EXCEPT !.cb = 2]
    ELSE [Shows(set_base(u, FALSE), "app", menu) EXCEPT !.baseapp = FALSE]

appmenu_exitcallback_2(u, menu, exitall) ==
    IF menu \in BaseMenus /\ ~exitall
    THEN [Shows(u, "app", menu) EXCEPT !.cb = 2]
    ELSE [Shows(set_base(u, FALSE), "app", menu) EXCEPT !.baseapp = FALSE]

\* Back to the list of programs to solve or to integrate.
appmenu_exitcallback_3(u, menu, exitall) ==
    IF menu = "none" /\ ~exitall
    THEN set_cat_section(Cleared(Shows(u, "app", "catalog"), "app"), "pgm_solve")
    ELSE Shows(u, "app", menu)

appmenu_exitcallback_4(u, menu, exitall) ==
    IF menu = "none" /\ ~exitall
    THEN set_cat_section(Cleared(Shows(u, "app", "catalog"), "app"), "pgm_integ")
    ELSE Shows(u, "app", menu)

\* From the limits of the integral back to the choice of its variable.
appmenu_exitcallback_5(u, menu, exitall) ==
    IF menu = "none" /\ ~exitall
    THEN [Cleared(Shows(u, "app", "varmenu"), "app") EXCEPT !.role = 2, !.cb = 4]
    ELSE Shows(u, "app", menu)

\* The callback is called once; if it wants to stay it registers itself again.
Left(u, cb, menu, exitall) ==
    CASE cb = 1 -> appmenu_exitcallback_1(u, menu, exitall)
      [] cb = 2 -> appmenu_exitcallback_2(u, menu, exitall)
      [] cb = 3 -> appmenu_exitcallback_3(u, menu, exitall)
      [] cb = 4 -> appmenu_exitcallback_4(u, menu, exitall)
      [] cb = 5 -> appmenu_exitcallback_5(u, menu, exitall)

set_appmenu(u, menu, exitall) ==
    IF u.menu["app"] # "none" /\ u.cb # 0
    THEN Left([u EXCEPT !.cb = 0], u.cb, menu, exitall)
    ELSE [Shows(u, "app", menu) EXCEPT !.cb = 0]

\* A callback that refuses leaves the levels in front as they are.
AppMenu(v) == IF v.err THEN v ELSE Cleared(v, "app")

set_menu_return_err(u, level, menu, exitall) ==
    IF level = "app" THEN AppMenu(set_appmenu([u EXCEPT !.err = FALSE], menu, exitall))
                     ELSE Cleared(Shows(u, level, menu), level)

\* The error is shown and forgotten.
set_menu(u, level, menu) ==
    [set_menu_return_err(u, level, menu, FALSE) EXCEPT !.err = FALSE]

\* The return addresses go, and with them what a program that stopped in a
\* menu is waiting for.
clear_all_rtns(u) ==
    LET v == IF u.menu["plain"] = "programmable" THEN set_menu(u, "plain", "none") ELSE u
    IN  [v EXCEPT !.role = IF @ = 3 THEN 0 ELSE @]

leave_matrix_editor(u) ==
    [set_menu([u EXCEPT !.cb = 0], "app", "none")
        EXCEPT !.edit = FALSE, !.nested = FALSE]

------------------------------------------------------------------------------
(* Function menus and catalogs.                                              *)

\* Two plain menus of one group: the menu stays as it is, and sticks.
SameGroup(m1, m2) ==
    Root(m1) = Root(m2) \/ Sibling(Root(m1)) = Root(m2)

\* A function menu asked for twice, or another one of its group, sticks: it
\* then survives the commands chosen from it.  Without a menu to go to, the
\* code reads a word before the table of the menus: sticky or not (u.refuse).
set_plainmenu(u, menu) ==
    LET v == Cleared(u, "plain")
        up == u.menu["plain"]
        stick == IF menu = "none" THEN u.refuse ELSE SameGroup(up, menu)
    IN  CASE menu = up -> [v EXCEPT !.sticky = TRUE]
          [] menu # up /\ menu \in Custom -> [Shows(v, "plain", menu) EXCEPT !.sticky = TRUE]
          [] menu # up /\ menu \notin Custom /\ up # "none" /\ stick ->
               [v EXCEPT !.sticky = TRUE]
          [] OTHER -> [Shows(v, "plain", menu)
                          EXCEPT !.sticky = FALSE, !.sect["plain"] = "top"]

\* The variables a section lists.
Listed(section) ==
    CASE section \in {"real", "real_only"} -> {"real"}
      [] section \in {"mat", "mat_only"}   -> {"mat"}
      [] OTHER                             -> {"real", "mat"}

vars_exist(u, section) == u.kinds \cap Listed(section) # {}

\* The catalog from which the argument of a command is chosen; none if there
\* is nothing to choose from.
set_catalog_menu(u, section) ==
    LET v == set_cat_section(Shows(u, "command", "catalog"), section)
    IN  IF \/ section \in {"top", "fcn", "pgm", "pgm_only", "ext", "ext1",
                           "ext2", "misc", "cmp"}
           \/ section \notin ProgramSections /\ vars_exist(u, section)
        THEN v ELSE Shows(u, "command", "none")

\* update_catalog(): the catalog in front after variables or programs changed.
update_catalog(u) ==
    LET section == get_cat_section(u)
    IN  CASE get_front_menu(u) # "catalog" -> u
          [] get_front_menu(u) = "catalog" /\ section \in {"real", "mat"}
               /\ ~vars_exist(u, section) -> set_cat_section(u, "top")
          [] get_front_menu(u) = "catalog" /\ section \in {"real_only", "mat_only", "vars_only"}
               /\ ~vars_exist(u, section) -> Shows(u, get_cat_index(u), "none")
          [] get_front_menu(u) = "catalog" /\ section \in ProgramSections
               /\ ~u.mvars -> Shows(u, get_cat_index(u), "none")
          [] OTHER -> u

\* draw_varmenu(): without its program the menu of its variables goes, even
\* while menus in front hide it.
draw_varmenu(u) ==
    IF u.menu["app"] = "varmenu" /\ ~u.mvars THEN set_appmenu(u, "none", FALSE) ELSE u

\* redisplay(), for what it changes: the menus that have lost their contents.
\* The question of CLALL hides them all.
redisplay(u) ==
    IF u.clall THEN u
    ELSE update_catalog(IF get_front_menu(u) = "varmenu" THEN draw_varmenu(u) ELSE u)

\* Where EXIT leads within a catalog; "none" out of it.
Outer(section) ==
    CASE section \in {"fcn", "pgm", "real", "mat"} -> "top"
      [] section = "ext"  -> "ext1"
      [] section = "misc" -> "ext2"
      [] section = "cmp"  -> "ext"
      [] OTHER            -> "none"
==============================================================================
