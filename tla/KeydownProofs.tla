--------------------------- MODULE KeydownProofs ----------------------------
(* What the keyboard keeps to along every sequence of keys: the types of     *)
(* Keydown, the callbacks that fit the menus (CallbackFits), the one entry   *)
(* at a time (EntryModes) and what is left of an entry in program mode       *)
(* (EntryLeavesNoTrace), for programs, strings and numbers of any length.    *)
(*                                                                           *)
(* A state is a record of many fields.  The lemmas follow the code: what     *)
(* each operation of Menus, CommandEntry and Keydown returns, and the fields *)
(* it leaves alone (Keeps), first the menus and callbacks, then the entry of *)
(* commands, the keys one by one, and what commands do when a key goes up.   *)
(* The invariant Inv is that of one state; Kept relates it to the place the  *)
(* entry in progress began at, and Trace says what its last step leaves.     *)
EXTENDS KeydownInvariant, TLAPS

USE KeyboardAssumption, NumberAssumption

-----------------------------------------------------------------------------
(* Levels                                                                  *)

LEMMA LevelFacts ==
    /\ "command" \in Levels /\ "alpha" \in Levels /\ "transient" \in Levels
    /\ "plain" \in Levels /\ "app" \in Levels
    /\ InFront["command"] = {} /\ InFront["alpha"] = {"command"}
    /\ InFront["transient"] = {"command", "alpha"}
    /\ InFront["plain"] = {"command", "alpha", "transient"}
    /\ InFront["app"] = {"command", "alpha", "transient", "plain"}
    /\ \A l \in Levels : l \in {"command", "alpha", "transient", "plain", "app"}
  BY DEF Levels, InFront

LEMMA MenusOfLevels ==
    /\ \A l \in Levels : "none" \in MenusOf(l) /\ MenusOf(l) \subseteq AnyMenu
    /\ "catalog" \in MenusOf("command") /\ "catalog" \in MenusOf("transient")
    /\ "catalog" \in MenusOf("plain") /\ "catalog" \in MenusOf("app")
    /\ MenusOf("command") = CommandMenus /\ MenusOf("plain") = PlainMenus
    /\ MenusOf("app") = AppMenus /\ MenusOf("alpha") = AlphaMenus \cup {"none"}
    /\ MenusOf("transient") = {"none", "catalog"}
<1>1. /\ MenusOf("command") = CommandMenus /\ MenusOf("plain") = PlainMenus
      /\ MenusOf("app") = AppMenus /\ MenusOf("alpha") = AlphaMenus \cup {"none"}
      /\ MenusOf("transient") = {"none", "catalog"}
  BY DEF MenusOf
<1>2. /\ "none" \in CommandMenus /\ "none" \in PlainMenus /\ "none" \in AppMenus
      /\ "catalog" \in CommandMenus /\ "catalog" \in PlainMenus /\ "catalog" \in AppMenus
      /\ AlphaMenus \subseteq CommandMenus
  BY DEF CommandMenus, PlainMenus, AppMenus
<1>3. AlphaMenus \cup {"none"} \subseteq AnyMenu /\ {"none", "catalog"} \subseteq AnyMenu
  BY <1>2 DEF AnyMenu
<1> QED
  BY <1>1, <1>2, <1>3, LevelFacts DEF AnyMenu

(* A level shows another menu; the section of a catalog is kept. *)
LEMMA ShowsMenu ==
    ASSUME NEW s, Screen(s), NEW l \in Levels, NEW m \in MenusOf(l)
    PROVE  /\ Screen(Shows(s, l, m))
           /\ Keeps(s, Shows(s, l, m), {"menu", "sect"})
           /\ \A k \in Levels : Shows(s, l, m).menu[k] = IF k = l THEN m ELSE s.menu[k]
           /\ \A k \in Levels :
                  Shows(s, l, m).sect[k] = IF k = l /\ m # "catalog" THEN "top" ELSE s.sect[k]
<1> DEFINE t == Shows(s, l, m)
           mm == [s.menu EXCEPT ![l] = m]
           ss == [s.sect EXCEPT ![l] = IF m = "catalog" THEN @ ELSE "top"]
<1>1. "top" \in Sections /\ m \in AnyMenu
  BY MenusOfLevels DEF Sections
<1>2. s.menu \in [Levels -> AnyMenu] /\ s.sect \in [Levels -> Sections] /\ s \in Calculators
  BY DEF Screen, Calculators, MenuStates, SectStates
<1>3. mm \in MenuStates /\ ss \in SectStates
  BY <1>1, <1>2 DEF MenuStates, SectStates
<1>4. t = [s EXCEPT !.menu = mm, !.sect = ss]
  BY <1>2 DEF Shows, Calculators
<1>5. \A k \in Levels : mm[k] = IF k = l THEN m ELSE s.menu[k]
  BY <1>2
<1>6. \A k \in Levels : ss[k] = IF k = l /\ m # "catalog" THEN "top" ELSE s.sect[k]
  BY <1>2
<1> HIDE DEF mm, ss, t
<1>7. t \in Calculators /\ t.menu = mm /\ t.sect = ss /\ Keeps(s, t, {"menu", "sect"})
  BY <1>2, <1>3, <1>4 DEF Calculators, Keeps, Fields
<1>8. "top" \notin ProgramSections /\ "top" \notin ArgumentSections
  BY DEF ProgramSections, ArgumentSections
<1>9. \A k \in Levels : s.menu[k] \in MenusOf(k) /\ Sectioned(s, k)
  BY DEF Screen
<1>10. \A k \in Levels : t.menu[k] \in MenusOf(k) /\ Sectioned(t, k)
  BY <1>5, <1>6, <1>7, <1>8, <1>9 DEF Sectioned
<1> QED
  BY <1>5, <1>6, <1>7, <1>10 DEF Screen, t

LEMMA ClearedMenus ==
    ASSUME NEW s, Screen(s), NEW l \in Levels
    PROVE  /\ Screen(Cleared(s, l))
           /\ Keeps(s, Cleared(s, l), {"menu", "sect"})
           /\ \A k \in Levels :
                  Cleared(s, l).menu[k] = IF k \in InFront[l] THEN "none" ELSE s.menu[k]
           /\ \A k \in Levels :
                  Cleared(s, l).sect[k] = IF k \in InFront[l] THEN "top" ELSE s.sect[k]
<1> DEFINE t == Cleared(s, l)
           mm == [k \in Levels |-> IF k \in InFront[l] THEN "none" ELSE s.menu[k]]
           ss == [k \in Levels |-> IF k \in InFront[l] THEN "top" ELSE s.sect[k]]
<1>1. "top" \in Sections /\ "none" \in AnyMenu
  BY MenusOfLevels DEF Sections
<1>2. s.menu \in [Levels -> AnyMenu] /\ s.sect \in [Levels -> Sections] /\ s \in Calculators
  BY DEF Screen, Calculators, MenuStates, SectStates
<1>3. mm \in MenuStates /\ ss \in SectStates
  BY <1>1, <1>2 DEF MenuStates, SectStates
<1>4. t = [s EXCEPT !.menu = mm, !.sect = ss]
  BY DEF Cleared
<1>5. \A k \in Levels : mm[k] = IF k \in InFront[l] THEN "none" ELSE s.menu[k]
  OBVIOUS
<1>6. \A k \in Levels : ss[k] = IF k \in InFront[l] THEN "top" ELSE s.sect[k]
  OBVIOUS
<1> HIDE DEF mm, ss, t
<1>7. t \in Calculators /\ t.menu = mm /\ t.sect = ss /\ Keeps(s, t, {"menu", "sect"})
  BY <1>2, <1>3, <1>4 DEF Calculators, Keeps, Fields
<1>8. "top" \notin ProgramSections /\ "top" \notin ArgumentSections
  BY DEF ProgramSections, ArgumentSections
<1>9. \A k \in Levels : s.menu[k] \in MenusOf(k) /\ Sectioned(s, k) /\ "none" \in MenusOf(k)
  BY MenusOfLevels DEF Screen
<1>10. \A k \in Levels : t.menu[k] \in MenusOf(k) /\ Sectioned(t, k)
  BY <1>5, <1>6, <1>7, <1>8, <1>9 DEF Sectioned
<1> QED
  BY <1>5, <1>6, <1>7, <1>10 DEF Screen, t

-----------------------------------------------------------------------------
(* Frames                                                                  *)

LEMMA KeepsMore ==
    ASSUME NEW s, NEW t, NEW F, NEW G, Keeps(s, t, F), F \subseteq G
    PROVE  Keeps(s, t, G)
  BY DEF Keeps

LEMMA KeepsTwice ==
    ASSUME NEW s, NEW t, NEW w, NEW F, Keeps(s, t, F), Keeps(t, w, F)
    PROVE  Keeps(s, w, F)
  BY DEF Keeps

LEMMA KeepsNothing ==
    ASSUME NEW s, NEW F PROVE Keeps(s, s, F)
  BY DEF Keeps

-----------------------------------------------------------------------------
(* One field of the calculator is set.                                     *)

LEMMA PutErr ==
    ASSUME NEW s \in Calculators, NEW x \in BOOLEAN
    PROVE  /\ [s EXCEPT !.err = x] \in Calculators
           /\ [s EXCEPT !.err = x].err = x
           /\ Keeps(s, [s EXCEPT !.err = x], {"err"})
  BY DEF Calculators, Keeps, Fields

LEMMA PutCallback ==
    ASSUME NEW s \in Calculators, NEW x \in CbStates
    PROVE  /\ [s EXCEPT !.cb = x] \in Calculators
           /\ [s EXCEPT !.cb = x].cb = x
           /\ Keeps(s, [s EXCEPT !.cb = x], {"cb"})
  BY DEF Calculators, Keeps, Fields

LEMMA PutPend ==
    ASSUME NEW s \in Calculators, NEW x \in Words
    PROVE  /\ [s EXCEPT !.pend = x] \in Calculators
           /\ [s EXCEPT !.pend = x].pend = x
           /\ Keeps(s, [s EXCEPT !.pend = x], {"pend"})
  BY DEF Calculators, Keeps, Fields

LEMMA PutEntry ==
    ASSUME NEW s \in Calculators, NEW x \in EntryStates
    PROVE  /\ [s EXCEPT !.inc = x] \in Calculators
           /\ [s EXCEPT !.inc = x].inc = x
           /\ Keeps(s, [s EXCEPT !.inc = x], {"inc"})
  BY DEF Calculators, Keeps, Fields

LEMMA PutSticky ==
    ASSUME NEW s \in Calculators, NEW x \in BOOLEAN
    PROVE  /\ [s EXCEPT !.sticky = x] \in Calculators
           /\ [s EXCEPT !.sticky = x].sticky = x
           /\ Keeps(s, [s EXCEPT !.sticky = x], {"sticky"})
  BY DEF Calculators, Keeps, Fields

LEMMA PutRole ==
    ASSUME NEW s \in Calculators, NEW x \in RoleStates
    PROVE  /\ [s EXCEPT !.role = x] \in Calculators
           /\ [s EXCEPT !.role = x].role = x
           /\ Keeps(s, [s EXCEPT !.role = x], {"role"})
  BY DEF Calculators, Keeps, Fields

LEMMA PutPc ==
    ASSUME NEW s \in Calculators, NEW x \in Int
    PROVE  /\ [s EXCEPT !.pc = x] \in Calculators
           /\ [s EXCEPT !.pc = x].pc = x
           /\ Keeps(s, [s EXCEPT !.pc = x], {"pc"})
  BY DEF Calculators, Keeps, Fields

LEMMA PutClall ==
    ASSUME NEW s \in Calculators, NEW x \in BOOLEAN
    PROVE  /\ [s EXCEPT !.clall = x] \in Calculators
           /\ [s EXCEPT !.clall = x].clall = x
           /\ Keeps(s, [s EXCEPT !.clall = x], {"clall"})
  BY DEF Calculators, Keeps, Fields

LEMMA PutAlpha ==
    ASSUME NEW s \in Calculators, NEW x \in BOOLEAN
    PROVE  /\ [s EXCEPT !.alpha = x] \in Calculators
           /\ [s EXCEPT !.alpha = x].alpha = x
           /\ Keeps(s, [s EXCEPT !.alpha = x], {"alpha"})
  BY DEF Calculators, Keeps, Fields

LEMMA PutRefuse ==
    ASSUME NEW s \in Calculators, NEW x \in BOOLEAN
    PROVE  /\ [s EXCEPT !.refuse = x] \in Calculators
           /\ [s EXCEPT !.refuse = x].refuse = x
           /\ Keeps(s, [s EXCEPT !.refuse = x], {"refuse"})
  BY DEF Calculators, Keeps, Fields

LEMMA PutLocal ==
    ASSUME NEW s \in Calculators, NEW x \in BOOLEAN
    PROVE  /\ [s EXCEPT !.local = x] \in Calculators
           /\ [s EXCEPT !.local = x].local = x
           /\ Keeps(s, [s EXCEPT !.local = x], {"local"})
  BY DEF Calculators, Keeps, Fields

LEMMA PutVm ==
    ASSUME NEW s \in Calculators, NEW x \in BOOLEAN
    PROVE  /\ [s EXCEPT !.vm = x] \in Calculators
           /\ [s EXCEPT !.vm = x].vm = x
           /\ Keeps(s, [s EXCEPT !.vm = x], {"vm"})
  BY DEF Calculators, Keeps, Fields

LEMMA PutKinds ==
    ASSUME NEW s \in Calculators, NEW x \in KindStates
    PROVE  /\ [s EXCEPT !.kinds = x] \in Calculators
           /\ [s EXCEPT !.kinds = x].kinds = x
           /\ Keeps(s, [s EXCEPT !.kinds = x], {"kinds"})
  BY DEF Calculators, Keeps, Fields

LEMMA PutRpc ==
    ASSUME NEW s \in Calculators, NEW x \in BOOLEAN
    PROVE  /\ [s EXCEPT !.rpc = x] \in Calculators
           /\ [s EXCEPT !.rpc = x].rpc = x
           /\ Keeps(s, [s EXCEPT !.rpc = x], {"rpc"})
  BY DEF Calculators, Keeps, Fields

LEMMA PutPrgm ==
    ASSUME NEW s \in Calculators, NEW x \in BOOLEAN
    PROVE  /\ [s EXCEPT !.prgm = x] \in Calculators
           /\ [s EXCEPT !.prgm = x].prgm = x
           /\ Keeps(s, [s EXCEPT !.prgm = x], {"prgm"})
  BY DEF Calculators, Keeps, Fields

LEMMA PutSaved ==
    ASSUME NEW s \in Calculators, NEW x \in Int
    PROVE  /\ [s EXCEPT !.saved = x] \in Calculators
           /\ [s EXCEPT !.saved = x].saved = x
           /\ Keeps(s, [s EXCEPT !.saved = x], {"saved"})
  BY DEF Calculators, Keeps, Fields

LEMMA PutLines ==
    ASSUME NEW s \in Calculators, NEW x \in Int
    PROVE  /\ [s EXCEPT !.lines = x] \in Calculators
           /\ [s EXCEPT !.lines = x].lines = x
           /\ Keeps(s, [s EXCEPT !.lines = x], {"lines"})
  BY DEF Calculators, Keeps, Fields

LEMMA PutAlen ==
    ASSUME NEW s \in Calculators, NEW x \in Int
    PROVE  /\ [s EXCEPT !.alen = x] \in Calculators
           /\ [s EXCEPT !.alen = x].alen = x
           /\ Keeps(s, [s EXCEPT !.alen = x], {"alen"})
  BY DEF Calculators, Keeps, Fields

LEMMA PutNlen ==
    ASSUME NEW s \in Calculators, NEW x \in Int
    PROVE  /\ [s EXCEPT !.nlen = x] \in Calculators
           /\ [s EXCEPT !.nlen = x].nlen = x
           /\ Keeps(s, [s EXCEPT !.nlen = x], {"nlen"})
  BY DEF Calculators, Keeps, Fields

LEMMA PutNum ==
    ASSUME NEW s \in Calculators, NEW x \in BOOLEAN
    PROVE  /\ [s EXCEPT !.num = x] \in Calculators
           /\ [s EXCEPT !.num = x].num = x
           /\ Keeps(s, [s EXCEPT !.num = x], {"num"})
  BY DEF Calculators, Keeps, Fields

LEMMA PutNested ==
    ASSUME NEW s \in Calculators, NEW x \in BOOLEAN
    PROVE  /\ [s EXCEPT !.nested = x] \in Calculators
           /\ [s EXCEPT !.nested = x].nested = x
           /\ Keeps(s, [s EXCEPT !.nested = x], {"nested"})
  BY DEF Calculators, Keeps, Fields

LEMMA PutEdit ==
    ASSUME NEW s \in Calculators, NEW x \in BOOLEAN
    PROVE  /\ [s EXCEPT !.edit = x] \in Calculators
           /\ [s EXCEPT !.edit = x].edit = x
           /\ Keeps(s, [s EXCEPT !.edit = x], {"edit"})
  BY DEF Calculators, Keeps, Fields

LEMMA PutPrev ==
    ASSUME NEW s \in Calculators, NEW x \in PrevStates
    PROVE  /\ [s EXCEPT !.prev = x] \in Calculators
           /\ [s EXCEPT !.prev = x].prev = x
           /\ Keeps(s, [s EXCEPT !.prev = x], {"prev"})
  BY DEF Calculators, Keeps, Fields

LEMMA PutBaseapp ==
    ASSUME NEW s \in Calculators, NEW x \in BOOLEAN
    PROVE  /\ [s EXCEPT !.baseapp = x] \in Calculators
           /\ [s EXCEPT !.baseapp = x].baseapp = x
           /\ Keeps(s, [s EXCEPT !.baseapp = x], {"baseapp"})
  BY DEF Calculators, Keeps, Fields

LEMMA PutHex ==
    ASSUME NEW s \in Calculators, NEW x \in BOOLEAN
    PROVE  /\ [s EXCEPT !.hex = x] \in Calculators
           /\ [s EXCEPT !.hex = x].hex = x
           /\ Keeps(s, [s EXCEPT !.hex = x], {"hex"})
  BY DEF Calculators, Keeps, Fields

LEMMA PutMvars ==
    ASSUME NEW s \in Calculators, NEW x \in BOOLEAN
    PROVE  /\ [s EXCEPT !.mvars = x] \in Calculators
           /\ [s EXCEPT !.mvars = x].mvars = x
           /\ Keeps(s, [s EXCEPT !.mvars = x], {"mvars"})
  BY DEF Calculators, Keeps, Fields

LEMMA PutLocked ==
    ASSUME NEW s \in Calculators, NEW x \in BOOLEAN
    PROVE  /\ [s EXCEPT !.locked = x] \in Calculators
           /\ [s EXCEPT !.locked = x].locked = x
           /\ Keeps(s, [s EXCEPT !.locked = x], {"locked"})
  BY DEF Calculators, Keeps, Fields

LEMMA SameScreen ==
    ASSUME NEW s, Screen(s), NEW t \in Calculators, NEW F, Keeps(s, t, F),
           "menu" \notin F, "sect" \notin F
    PROVE  Screen(t)
<1>1. t.menu = s.menu /\ t.sect = s.sect
  BY DEF Keeps, Fields
<1> QED
  BY <1>1 DEF Screen, Sectioned

-----------------------------------------------------------------------------
(* A menu comes up at a level, and the levels in front of it are cleared.  *)

LEMMA AtLevel ==
    ASSUME NEW s, Screen(s), NEW l \in Levels, NEW m \in MenusOf(l), NEW t,
           t = Cleared(Shows(s, l, m), l)
    PROVE  /\ Screen(t)
           /\ Keeps(s, t, {"menu", "sect"})
           /\ \A k \in Levels : t.menu[k] = IF k = l THEN m
                                            ELSE IF k \in InFront[l] THEN "none" ELSE s.menu[k]
           /\ \A k \in Levels : t.sect[k] = IF k = l
                                            THEN (IF m = "catalog" THEN s.sect[l] ELSE "top")
                                            ELSE IF k \in InFront[l] THEN "top" ELSE s.sect[k]
<1> DEFINE v == Shows(s, l, m)
<1>1. /\ Screen(v)
      /\ Keeps(s, v, {"menu", "sect"})
      /\ \A k \in Levels : v.menu[k] = IF k = l THEN m ELSE s.menu[k]
      /\ \A k \in Levels : v.sect[k] = IF k = l /\ m # "catalog" THEN "top" ELSE s.sect[k]
  BY ShowsMenu
<1>2. l \notin InFront[l]
  BY DEF Levels, InFront
<1> HIDE DEF v
<1>3. /\ Screen(Cleared(v, l)) /\ Keeps(v, Cleared(v, l), {"menu", "sect"})
      /\ \A k \in Levels :
             Cleared(v, l).menu[k] = IF k \in InFront[l] THEN "none" ELSE v.menu[k]
      /\ \A k \in Levels :
             Cleared(v, l).sect[k] = IF k \in InFront[l] THEN "top" ELSE v.sect[k]
  BY <1>1, ClearedMenus
<1>4. t = Cleared(v, l)
  BY DEF v
<1>5. Keeps(s, t, {"menu", "sect"})
  BY <1>1, <1>3, <1>4, KeepsTwice
<1> QED
  BY <1>1, <1>2, <1>3, <1>4, <1>5

LEMMA FrontLevel ==
    ASSUME NEW s
    PROVE  /\ get_cat_index(s) \in Levels
           /\ \A k \in InFront[get_cat_index(s)] : s.menu[k] = "none"
           /\ get_cat_index(s) # "app" => s.menu[get_cat_index(s)] # "none"
           /\ \A l \in Levels : (\A k \in InFront[l] : s.menu[k] = "none")
                                /\ (l = "app" \/ s.menu[l] # "none") => get_cat_index(s) = l
<1> DEFINE ix == get_cat_index(s)
           Front(l) == (l = "app" \/ s.menu[l] # "none") /\ \A k \in InFront[l] : s.menu[k] = "none"
<1>1. \E l \in Levels : Front(l)
  <2>1. CASE s.menu["command"] # "none"
    BY <2>1, LevelFacts
  <2>2. CASE s.menu["command"] = "none" /\ s.menu["alpha"] # "none"
    BY <2>2, LevelFacts
  <2>3. CASE /\ s.menu["command"] = "none" /\ s.menu["alpha"] = "none"
             /\ s.menu["transient"] # "none"
    BY <2>3, LevelFacts
  <2>4. CASE /\ s.menu["command"] = "none" /\ s.menu["alpha"] = "none"
             /\ s.menu["transient"] = "none" /\ s.menu["plain"] # "none"
    BY <2>4, LevelFacts
  <2>5. CASE /\ s.menu["command"] = "none" /\ s.menu["alpha"] = "none"
             /\ s.menu["transient"] = "none" /\ s.menu["plain"] = "none"
    BY <2>5, LevelFacts
  <2> QED
    BY <2>1, <2>2, <2>3, <2>4, <2>5
<1>2. ix = CHOOSE l \in Levels : Front(l)
  BY DEF get_cat_index
<1>3. ix \in Levels /\ Front(ix)
  BY <1>1, <1>2
<1>4. ASSUME NEW l \in Levels, Front(l)
      PROVE  ix = l
  <2>1. \A k \in Levels : k = l \/ k \in InFront[l] \/ l \in InFront[k]
    BY DEF Levels, InFront
  <2>2. \A k \in Levels : k # "app" \/ \A j \in Levels : "app" \notin InFront[j]
    BY LevelFacts
  <2>3. ix = l \/ ix \in InFront[l] \/ l \in InFront[ix]
    BY <1>3, <2>1
  <2> QED
    BY <1>3, <1>4, <2>2, <2>3
<1> QED
  BY <1>3, <1>4

LEMMA SectionSet ==
    ASSUME NEW s, Screen(s), NEW x \in Sections, s.menu[get_cat_index(s)] = "catalog",
           x \in ProgramSections => get_cat_index(s) = "app",
           x \in ArgumentSections => get_cat_index(s) = "command",
           NEW t, t = set_cat_section(s, x)
    PROVE  /\ Screen(t)
           /\ Keeps(s, t, {"sect"})
           /\ \A k \in Levels : t.sect[k] = IF k = get_cat_index(s) THEN x ELSE s.sect[k]
<1> DEFINE ix == get_cat_index(s)
           ss == [s.sect EXCEPT ![ix] = x]
<1>1. s.menu \in [Levels -> AnyMenu] /\ s.sect \in [Levels -> Sections] /\ s \in Calculators
  BY DEF Screen, Calculators, MenuStates, SectStates
<1>2. ix \in Levels
  BY FrontLevel
<1>3. ss \in SectStates /\ \A k \in Levels : ss[k] = IF k = ix THEN x ELSE s.sect[k]
  BY <1>1, <1>2 DEF SectStates
<1>4. t = [s EXCEPT !.sect = ss]
  BY <1>1 DEF set_cat_section, Calculators
<1>5. s.menu[ix] = "catalog" /\ (x \in ProgramSections => ix = "app")
      /\ (x \in ArgumentSections => ix = "command")
  OBVIOUS
<1> HIDE DEF ss, ix
<1>6. t \in Calculators /\ t.sect = ss /\ t.menu = s.menu /\ Keeps(s, t, {"sect"})
  BY <1>1, <1>3, <1>4 DEF Calculators, Keeps, Fields
<1>7. \A k \in Levels : s.menu[k] \in MenusOf(k) /\ Sectioned(s, k)
  BY DEF Screen
<1>8. \A k \in Levels : t.menu[k] \in MenusOf(k) /\ Sectioned(t, k)
  BY <1>3, <1>5, <1>6, <1>7 DEF Sectioned
<1> QED
  BY <1>3, <1>6, <1>8 DEF Screen, ix

(* A menu of another level than that of the applications *)
LEMMA SetAt ==
    ASSUME NEW s, Screen(s), NEW l \in Levels \ {"app"}, NEW m \in MenusOf(l), NEW t,
           t = set_menu(s, l, m)
    PROVE  /\ Screen(t)
           /\ Keeps(s, t, {"menu", "sect", "err"})
           /\ \A k \in Levels : t.menu[k] = IF k = l THEN m
                                            ELSE IF k \in InFront[l] THEN "none" ELSE s.menu[k]
           /\ \A k \in Levels : t.sect[k] = IF k = l
                                            THEN (IF m = "catalog" THEN s.sect[l] ELSE "top")
                                            ELSE IF k \in InFront[l] THEN "top" ELSE s.sect[k]
<1> DEFINE v == Cleared(Shows(s, l, m), l)
<1>1. /\ Screen(v)
      /\ Keeps(s, v, {"menu", "sect"})
      /\ \A k \in Levels : v.menu[k] = IF k = l THEN m
                                       ELSE IF k \in InFront[l] THEN "none" ELSE s.menu[k]
      /\ \A k \in Levels : v.sect[k] = IF k = l
                                       THEN (IF m = "catalog" THEN s.sect[l] ELSE "top")
                                       ELSE IF k \in InFront[l] THEN "top" ELSE s.sect[k]
  BY AtLevel
<1>2. t = [v EXCEPT !.err = FALSE]
  BY DEF set_menu, set_menu_return_err
<1> HIDE DEF v
<1>3. v \in Calculators
  BY <1>1 DEF Screen
<1>4. t \in Calculators /\ Keeps(v, t, {"err"})
  BY <1>2, <1>3, PutErr
<1>5. t.menu = v.menu /\ t.sect = v.sect
  BY <1>4 DEF Keeps, Fields
<1>6. Screen(t)
  BY <1>1, <1>4, SameScreen
<1>7. Keeps(s, t, {"menu", "sect", "err"})
  BY <1>1, <1>4 DEF Keeps
<1> QED
  BY <1>1, <1>5, <1>6, <1>7

-----------------------------------------------------------------------------
(* The level of the applications                                           *)

LEMMA AppShown ==
    ASSUME NEW s, Screen(s), NEW m \in AppMenus
    PROVE  /\ Screen(Shows(s, "app", m))
           /\ Keeps(s, Shows(s, "app", m), {"menu", "sect"})
           /\ Shows(s, "app", m).menu["app"] = m
           /\ Shows(s, "app", m).sect["app"] = IF m = "catalog" THEN s.sect["app"] ELSE "top"
           /\ Sunk(s, Shows(s, "app", m))
<1>1. "app" \in Levels /\ m \in MenusOf("app")
  BY LevelFacts, MenusOfLevels
<1> DEFINE v == Shows(s, "app", m)
<1>2. /\ Screen(v)
      /\ Keeps(s, v, {"menu", "sect"})
      /\ \A k \in Levels : v.menu[k] = IF k = "app" THEN m ELSE s.menu[k]
      /\ \A k \in Levels : v.sect[k] = IF k = "app" /\ m # "catalog" THEN "top" ELSE s.sect[k]
  BY <1>1, ShowsMenu
<1> HIDE DEF v
<1>3. Sunk(s, v)
  BY <1>2 DEF Sunk
<1> QED
  BY <1>1, <1>2, <1>3 DEF v

LEMMA AppLevel ==
    ASSUME NEW s, Screen(s), NEW m \in AppMenus
    PROVE  /\ Screen(Cleared(Shows(s, "app", m), "app"))
           /\ Keeps(s, Cleared(Shows(s, "app", m), "app"), {"menu", "sect"})
           /\ Cleared(Shows(s, "app", m), "app").menu["app"] = m
           /\ Cleared(Shows(s, "app", m), "app").sect["app"] =
                  IF m = "catalog" THEN s.sect["app"] ELSE "top"
           /\ Sunk(s, Cleared(Shows(s, "app", m), "app"))
           /\ \A l \in Levels \ {"app"} : Cleared(Shows(s, "app", m), "app").menu[l] = "none"
<1>1. "app" \in Levels /\ m \in MenusOf("app")
  BY LevelFacts, MenusOfLevels
<1>2. \A l \in Levels \ {"app"} : l \in InFront["app"]
  BY LevelFacts
<1>3. "app" \notin InFront["app"]
  BY LevelFacts
<1> DEFINE w == Cleared(Shows(s, "app", m), "app")
<1>4. /\ Screen(w)
      /\ Keeps(s, w, {"menu", "sect"})
      /\ \A k \in Levels : w.menu[k] = IF k = "app" THEN m
                                       ELSE IF k \in InFront["app"] THEN "none" ELSE s.menu[k]
      /\ \A k \in Levels : w.sect[k] = IF k = "app"
                                       THEN (IF m = "catalog" THEN s.sect["app"] ELSE "top")
                                       ELSE IF k \in InFront["app"] THEN "top" ELSE s.sect[k]
  BY <1>1, AtLevel
<1> HIDE DEF w
<1>5. Sunk(s, w) /\ \A l \in Levels \ {"app"} : w.menu[l] = "none"
  BY <1>2, <1>4 DEF Sunk
<1> QED
  BY <1>1, <1>3, <1>4, <1>5 DEF w

LEMMA BaseSet ==
    ASSUME NEW s, Screen(s), NEW b \in BOOLEAN, NEW t, t = set_base(s, b)
    PROVE  /\ Screen(t) /\ Keeps(s, t, {"menu", "sect", "hex"}) /\ Sunk(s, t)
           /\ t.menu["app"] = IF s.menu["app"] = "baseAF" THEN "base1" ELSE s.menu["app"]
           /\ t.sect["app"] \in {"top", s.sect["app"]}
<1> DEFINE v == [s EXCEPT !.hex = b]
<1>1. s \in Calculators
  BY DEF Screen
<1>2. v \in Calculators /\ Keeps(s, v, {"hex"})
  BY <1>1, PutHex
<1>3. v.menu = s.menu /\ v.sect = s.sect
  BY <1>2 DEF Keeps, Fields
<1>4. t = IF s.menu["app"] = "baseAF" THEN Cleared(Shows(v, "app", "base1"), "app") ELSE v
  BY DEF set_base
<1> HIDE DEF v
<1>5. Screen(v)
  BY <1>2, SameScreen
<1>6. CASE s.menu["app"] = "baseAF"
  <2>1. "base1" \in AppMenus
    BY DEF AppMenus
  <2>2. Screen(t) /\ Keeps(v, t, {"menu", "sect"}) /\ Sunk(v, t) /\ t.menu["app"] = "base1"
        /\ t.sect["app"] = "top"
    BY <1>4, <1>5, <1>6, <2>1, AppLevel
  <2>3. Keeps(s, t, {"menu", "sect", "hex"})
    BY <1>2, <2>2 DEF Keeps
  <2>4. Sunk(s, t)
    BY <1>3, <2>2 DEF Sunk
  <2> QED
    BY <1>6, <2>2, <2>3, <2>4
<1>7. CASE s.menu["app"] # "baseAF"
  <2>1. t = v
    BY <1>4, <1>7
  <2>2. Keeps(s, t, {"menu", "sect", "hex"})
    BY <1>2, <2>1 DEF Keeps
  <2>3. Sunk(s, t)
    BY <1>3, <2>1 DEF Sunk
  <2> QED
    BY <1>3, <1>5, <1>7, <2>1, <2>2, <2>3
<1> QED
  BY <1>6, <1>7

(* The callbacks, called with the callback cleared *)

LEMMA EditorLeft ==
    ASSUME NEW s, Screen(s), Told(s), s.cb = 1, NEW m \in AppMenus, NEW x \in BOOLEAN,
           NEW t, t = appmenu_exitcallback_1([s EXCEPT !.cb = 0], m, x)
    PROVE  Screen(t) /\ Keeps(s, t, AppFields) /\ LeftFor(s, t, m) /\ Sunk(s, t)
<1> DEFINE z == [s EXCEPT !.cb = 0]
<1>1. s \in Calculators /\ 0 \in CbStates /\ 1 \in CbStates
  BY DEF Screen, CbStates
<1>2. z \in Calculators /\ z.cb = 0 /\ Keeps(s, z, {"cb"})
  BY <1>1, PutCallback
<1> HIDE DEF z
<1>3. Screen(z)
  BY <1>2, SameScreen
<1>4. /\ z.menu = s.menu /\ z.sect = s.sect /\ z.edit = s.edit /\ z.baseapp = s.baseapp
      /\ z.role = s.role /\ z.err = s.err /\ z.prev = s.prev
  BY <1>2 DEF Keeps, Fields
<1>5. ~s.baseapp
  BY DEF Told
<1>6. CASE m \in EditMenus
  <2> DEFINE v == Shows(z, "app", m)
  <2>1. /\ Screen(v) /\ Keeps(z, v, {"menu", "sect"}) /\ v.menu["app"] = m /\ Sunk(z, v)
        /\ v.sect["app"] = IF m = "catalog" THEN z.sect["app"] ELSE "top"
    BY <1>3, AppShown
  <2>2. t = [v EXCEPT !.cb = 1]
    BY <1>6 DEF appmenu_exitcallback_1, z
  <2> HIDE DEF v
  <2>3. v \in Calculators
    BY <2>1 DEF Screen
  <2>4. t \in Calculators /\ t.cb = 1 /\ Keeps(v, t, {"cb"})
    BY <1>1, <2>2, <2>3, PutCallback
  <2>5. Screen(t)
    BY <2>1, <2>4, SameScreen
  <2>6. t.menu = v.menu /\ t.sect = v.sect
    BY <2>4 DEF Keeps, Fields
  <2>7. t.edit = v.edit /\ t.baseapp = v.baseapp /\ t.role = v.role /\ t.err = v.err
    BY <2>4 DEF Keeps, Fields
  <2>8. v.edit = z.edit /\ v.baseapp = z.baseapp /\ v.role = z.role /\ v.err = z.err
    BY <2>1 DEF Keeps, Fields
  <2>9. m # "catalog"
    BY <1>6 DEF EditMenus
  <2>10. Stays(s, t, m)
    BY <1>4, <1>6, <2>1, <2>4, <2>6, <2>7, <2>8, <2>9 DEF Stays, OwnMenu
  <2>11. Keeps(s, t, AppFields)
    BY <1>2, <2>1, <2>4 DEF Keeps, AppFields
  <2>12. Sunk(s, t)
    BY <1>4, <2>1, <2>6 DEF Sunk
  <2> QED
    BY <1>4, <2>5, <2>7, <2>8, <2>10, <2>11, <2>12 DEF LeftFor, Allowed
<1>7. CASE m \notin EditMenus /\ z.refuse
  <2>1. t = [z EXCEPT !.cb = 1, !.err = TRUE]
    BY <1>7 DEF appmenu_exitcallback_1, z
  <2> DEFINE y == [z EXCEPT !.cb = 1]
  <2>a. t = [y EXCEPT !.err = TRUE]
    BY <1>2, <2>1 DEF Calculators
  <2>b. y \in Calculators /\ y.cb = 1 /\ Keeps(z, y, {"cb"})
    BY <1>1, <1>2, PutCallback
  <2> HIDE DEF y
  <2>c. t \in Calculators /\ t.err = TRUE /\ Keeps(y, t, {"err"})
    BY <2>a, <2>b, PutErr
  <2>d. t.cb = y.cb
    BY <2>c DEF Keeps, Fields
  <2>2. t \in Calculators /\ t.cb = 1 /\ t.err /\ Keeps(z, t, {"cb", "err"})
    BY <2>b, <2>c, <2>d DEF Keeps
  <2>3. Screen(t)
    BY <1>3, <2>2, SameScreen
  <2>4. t.menu = z.menu /\ t.sect = z.sect /\ t.edit = z.edit /\ t.baseapp = z.baseapp
        /\ t.role = z.role
    BY <2>2 DEF Keeps, Fields
  <2>5. Refused(s, t)
    BY <1>4, <2>2, <2>4 DEF Refused
  <2>6. Keeps(s, t, AppFields)
    BY <1>2, <2>2 DEF Keeps, AppFields
  <2>7. Sunk(s, t)
    BY <1>4, <2>4 DEF Sunk
  <2> QED
    BY <2>2, <2>3, <2>5, <2>6, <2>7 DEF LeftFor
<1>8. CASE m \notin EditMenus /\ ~z.refuse
  <2> DEFINE k == IF m = "none" /\ ~x THEN z.prev ELSE m
             v == [z EXCEPT !.edit = FALSE, !.nested = FALSE]
  <2>1. t = Cleared(Shows(v, "app", k), "app")
    BY <1>2, <1>8 DEF appmenu_exitcallback_1, z, Calculators
  <2>2. v \in Calculators /\ v.edit = FALSE /\ Keeps(z, v, {"edit", "nested"})
    BY <1>2 DEF Calculators, Keeps, Fields
  <2>3. z.prev \in AppMenus
    BY <1>2 DEF Calculators, PrevStates, AppMenus
  <2> HIDE DEF v
  <2>4. Screen(v) /\ k \in AppMenus
    BY <1>3, <2>2, <2>3, SameScreen
  <2>5. v.menu = z.menu /\ v.sect = z.sect /\ v.cb = z.cb /\ v.baseapp = z.baseapp
        /\ v.role = z.role /\ v.err = z.err
    BY <2>2 DEF Keeps, Fields
  <2>6. k = m \/ (m = "none" /\ k = s.prev)
    BY <1>4
  <2> HIDE DEF k
  <2>7. /\ Screen(t) /\ Keeps(v, t, {"menu", "sect"}) /\ t.menu["app"] = k /\ Sunk(v, t)
        /\ t.sect["app"] = IF k = "catalog" THEN v.sect["app"] ELSE "top"
    <3> DEFINE w == Cleared(Shows(v, "app", k), "app")
    <3>1. /\ Screen(w) /\ Keeps(v, w, {"menu", "sect"}) /\ w.menu["app"] = k /\ Sunk(v, w)
          /\ w.sect["app"] = IF k = "catalog" THEN v.sect["app"] ELSE "top"
      BY <2>4, AppLevel
    <3> QED
      BY <2>1, <3>1
  <2>8. t.edit = v.edit /\ t.baseapp = v.baseapp /\ t.role = v.role /\ t.err = v.err
        /\ t.cb = v.cb
    BY <2>7 DEF Keeps, Fields
  <2>9. t.sect["app"] \in {"top", s.sect["app"]}
    BY <1>4, <2>5, <2>7
  <2>10. ASSUME k = m PROVE LeftFor(s, t, m)
    <3>0. ~t.edit /\ ~t.baseapp
      BY <1>4, <1>5, <2>2, <2>5, <2>8
    <3>a. t.menu["app"] = m /\ t.cb = 0 /\ t.role = s.role /\ t.err = s.err
      BY <1>2, <1>4, <2>5, <2>7, <2>8, <2>10
    <3>1. Taken(s, t, m)
      BY <1>8, <2>10, <3>0, <3>a, <2>9 DEF Taken, OwnMenu
    <3> QED
      BY <3>a, <3>1 DEF LeftFor, Allowed
  <2>11. ASSUME m = "none", k = s.prev PROVE LeftFor(s, t, m)
    <3>0. ~t.edit /\ ~t.baseapp
      BY <1>4, <1>5, <2>2, <2>5, <2>8
    <3>a. t.menu["app"] = s.prev /\ t.cb = 0 /\ t.role = s.role /\ t.err = s.err
      BY <1>2, <1>4, <2>5, <2>7, <2>8, <2>11
    <3>1. Back(s, t)
      BY <3>0, <3>a, <2>9 DEF Back
    <3> QED
      BY <2>11, <3>a, <3>1 DEF LeftFor, Allowed
  <2>12. LeftFor(s, t, m)
    BY <2>6, <2>10, <2>11
  <2>13. Keeps(s, t, AppFields)
    BY <1>2, <2>2, <2>7 DEF Keeps, AppFields
  <2>14. Sunk(s, t)
    BY <1>4, <2>5, <2>7 DEF Sunk
  <2> QED
    BY <2>7, <2>12, <2>13, <2>14
<1> QED
  BY <1>6, <1>7, <1>8

LEMMA BaseLeft ==
    ASSUME NEW s, Screen(s), Told(s), s.cb = 2, NEW m \in AppMenus, NEW x \in BOOLEAN,
           x => m = "none",
           NEW t, t = appmenu_exitcallback_2([s EXCEPT !.cb = 0], m, x)
    PROVE  Screen(t) /\ Keeps(s, t, AppFields) /\ LeftFor(s, t, m) /\ Sunk(s, t)
<1> DEFINE z == [s EXCEPT !.cb = 0]
<1>1. s \in Calculators /\ 0 \in CbStates /\ 2 \in CbStates
  BY DEF Screen, CbStates
<1>2. z \in Calculators /\ z.cb = 0 /\ Keeps(s, z, {"cb"})
  BY <1>1, PutCallback
<1> HIDE DEF z
<1>3. Screen(z)
  BY <1>2, SameScreen
<1>4. /\ z.menu = s.menu /\ z.sect = s.sect /\ z.edit = s.edit /\ z.baseapp = s.baseapp
      /\ z.role = s.role /\ z.err = s.err
  BY <1>2 DEF Keeps, Fields
<1>5. CASE m \in BaseMenus /\ ~x
  <2> DEFINE v == Shows(z, "app", m)
  <2>1. /\ Screen(v) /\ Keeps(z, v, {"menu", "sect"}) /\ v.menu["app"] = m /\ Sunk(z, v)
        /\ v.sect["app"] = IF m = "catalog" THEN z.sect["app"] ELSE "top"
    BY <1>3, AppShown
  <2>2. t = [v EXCEPT !.cb = 2]
    BY <1>5 DEF appmenu_exitcallback_2, z
  <2> HIDE DEF v
  <2>3. v \in Calculators
    BY <2>1 DEF Screen
  <2>4. t \in Calculators /\ t.cb = 2 /\ Keeps(v, t, {"cb"})
    BY <1>1, <2>2, <2>3, PutCallback
  <2>5. Screen(t)
    BY <2>1, <2>4, SameScreen
  <2>6. t.menu = v.menu /\ t.sect = v.sect
    BY <2>4 DEF Keeps, Fields
  <2>7. t.edit = v.edit /\ t.baseapp = v.baseapp /\ t.role = v.role /\ t.err = v.err
    BY <2>4 DEF Keeps, Fields
  <2>8. v.edit = z.edit /\ v.baseapp = z.baseapp /\ v.role = z.role /\ v.err = z.err
    BY <2>1 DEF Keeps, Fields
  <2>9. m # "catalog"
    BY <1>5 DEF BaseMenus
  <2>10. Stays(s, t, m)
    BY <1>4, <1>5, <2>1, <2>4, <2>6, <2>7, <2>8, <2>9 DEF Stays, OwnMenu
  <2>11. Keeps(s, t, AppFields)
    BY <1>2, <2>1, <2>4 DEF Keeps, AppFields
  <2>12. Sunk(s, t)
    BY <1>4, <2>1, <2>6 DEF Sunk
  <2> QED
    BY <1>4, <2>5, <2>7, <2>8, <2>10, <2>11, <2>12 DEF LeftFor, Allowed
<1>6. CASE ~(m \in BaseMenus /\ ~x)
  <2> DEFINE y == set_base(z, FALSE)
             v == Shows(y, "app", m)
  <2>1. t = [v EXCEPT !.baseapp = FALSE]
    BY <1>6 DEF appmenu_exitcallback_2, z
  <2>2. /\ Screen(y) /\ Keeps(z, y, {"menu", "sect", "hex"}) /\ Sunk(z, y)
        /\ y.sect["app"] \in {"top", z.sect["app"]}
    BY <1>3, BaseSet
  <2> HIDE DEF y
  <2>3. /\ Screen(v) /\ Keeps(y, v, {"menu", "sect"}) /\ v.menu["app"] = m /\ Sunk(y, v)
        /\ v.sect["app"] = IF m = "catalog" THEN y.sect["app"] ELSE "top"
    BY <2>2, AppShown
  <2> HIDE DEF v
  <2>4. v \in Calculators
    BY <2>3 DEF Screen
  <2>5. t \in Calculators /\ t.baseapp = FALSE /\ Keeps(v, t, {"baseapp"})
    BY <2>1, <2>4, PutBaseapp
  <2>6. Screen(t)
    BY <2>3, <2>5, SameScreen
  <2>7. /\ t.menu = v.menu /\ t.sect = v.sect /\ t.edit = v.edit /\ t.cb = v.cb
        /\ t.role = v.role /\ t.err = v.err
    BY <2>5 DEF Keeps, Fields
  <2>8. v.edit = y.edit /\ v.cb = y.cb /\ v.role = y.role /\ v.err = y.err
    BY <2>3 DEF Keeps, Fields
  <2>9. y.edit = z.edit /\ y.cb = z.cb /\ y.role = z.role /\ y.err = z.err
    BY <2>2 DEF Keeps, Fields
  <2>a. m \notin BaseMenus
    BY <1>6 DEF BaseMenus
  <2>10. Taken(s, t, m)
    BY <1>2, <1>4, <2>a, <2>2, <2>3, <2>5, <2>7, <2>8, <2>9 DEF Taken, OwnMenu
  <2>11. Keeps(s, t, AppFields)
    BY <1>2, <2>2, <2>3, <2>5 DEF Keeps, AppFields
  <2>12. Sunk(s, t)
    BY <1>4, <2>2, <2>3, <2>7 DEF Sunk
  <2> QED
    BY <1>4, <2>6, <2>7, <2>8, <2>9, <2>10, <2>11, <2>12 DEF LeftFor, Allowed
<1> QED
  BY <1>5, <1>6

(* Shown at once: the callback is not asked again. *)
LEMMA PlainlyTaken ==
    ASSUME NEW s, Screen(s), s.cb \notin {1, 2}, ~s.baseapp, NEW m \in AppMenus,
           NEW t, t = Shows([s EXCEPT !.cb = 0], "app", m)
    PROVE  Screen(t) /\ Keeps(s, t, AppFields) /\ Taken(s, t, m) /\ t.err = s.err
           /\ Sunk(s, t)
<1> DEFINE z == [s EXCEPT !.cb = 0]
<1>1. s \in Calculators /\ 0 \in CbStates
  BY DEF Screen, CbStates
<1>2. z \in Calculators /\ z.cb = 0 /\ Keeps(s, z, {"cb"})
  BY <1>1, PutCallback
<1>a. t = Shows(z, "app", m)
  OBVIOUS
<1> HIDE DEF z
<1>3. Screen(z)
  BY <1>2, SameScreen
<1>4. /\ z.menu = s.menu /\ z.sect = s.sect /\ z.edit = s.edit /\ z.baseapp = s.baseapp
      /\ z.role = s.role /\ z.err = s.err
  BY <1>2 DEF Keeps, Fields
<1>5. /\ Screen(t) /\ Keeps(z, t, {"menu", "sect"}) /\ t.menu["app"] = m /\ Sunk(z, t)
      /\ t.sect["app"] = IF m = "catalog" THEN z.sect["app"] ELSE "top"
  BY <1>3, <1>a, AppShown
<1>6. /\ t.edit = z.edit /\ t.cb = z.cb /\ t.baseapp = z.baseapp
      /\ t.role = z.role /\ t.err = z.err
  BY <1>5 DEF Keeps, Fields
<1>7. Taken(s, t, m)
  BY <1>2, <1>4, <1>5, <1>6 DEF Taken, OwnMenu
<1>8. Keeps(s, t, AppFields)
  BY <1>2, <1>5 DEF Keeps, AppFields
<1>9. Sunk(s, t)
  BY <1>4, <1>5 DEF Sunk
<1> QED
  BY <1>4, <1>5, <1>6, <1>7, <1>8, <1>9

(* The catalog of programs with a section of them *)
LEMMA ToPrograms ==
    ASSUME NEW s, Screen(s), NEW x \in ProgramSections,
           NEW t, t = set_cat_section(Cleared(Shows(s, "app", "catalog"), "app"), x)
    PROVE  /\ Screen(t) /\ Keeps(s, t, {"menu", "sect"}) /\ Sunk(s, t)
           /\ t.menu["app"] = "catalog" /\ t.sect["app"] = x
           /\ \A l \in Levels \ {"app"} : t.menu[l] = "none"
<1> DEFINE w == Cleared(Shows(s, "app", "catalog"), "app")
<1>1. "catalog" \in AppMenus /\ x \in Sections /\ "app" \in Levels /\ x \notin ArgumentSections
  BY DEF AppMenus, ProgramSections, ArgumentSections, Sections, Levels
<1>2. /\ Screen(w) /\ Keeps(s, w, {"menu", "sect"}) /\ w.menu["app"] = "catalog" /\ Sunk(s, w)
      /\ \A l \in Levels \ {"app"} : w.menu[l] = "none"
  BY <1>1, AppLevel
<1>3. t = set_cat_section(w, x)
  OBVIOUS
<1> HIDE DEF w
<1>4. \A k \in InFront["app"] : w.menu[k] = "none"
  BY <1>2, LevelFacts
<1>5. get_cat_index(w) = "app"
  BY <1>1, <1>4, FrontLevel
<1>6. /\ Screen(t) /\ Keeps(w, t, {"sect"})
      /\ \A k \in Levels : t.sect[k] = IF k = "app" THEN x ELSE w.sect[k]
  BY <1>1, <1>2, <1>3, <1>5, SectionSet
<1>7. t.menu = w.menu
  BY <1>6 DEF Keeps, Fields
<1>8. Keeps(s, t, {"menu", "sect"})
  BY <1>2, <1>6 DEF Keeps
<1>9. Sunk(s, t)
  BY <1>2, <1>7 DEF Sunk
<1> QED
  BY <1>1, <1>2, <1>6, <1>7, <1>8, <1>9

LEMMA SolverLeft ==
    ASSUME NEW s, Screen(s), Told(s), NEW m \in AppMenus, NEW x \in BOOLEAN, NEW t,
           \/ s.cb = 3 /\ t = appmenu_exitcallback_3([s EXCEPT !.cb = 0], m, x)
           \/ s.cb = 4 /\ t = appmenu_exitcallback_4([s EXCEPT !.cb = 0], m, x)
    PROVE  Screen(t) /\ Keeps(s, t, AppFields) /\ LeftFor(s, t, m) /\ Sunk(s, t)
<1> DEFINE z == [s EXCEPT !.cb = 0]
<1>1. s \in Calculators /\ 0 \in CbStates
  BY DEF Screen, CbStates
<1>2. z \in Calculators /\ z.cb = 0 /\ Keeps(s, z, {"cb"})
  BY <1>1, PutCallback
<1>3. ~s.baseapp /\ s.cb \notin {1, 2}
  BY DEF Told
<1>4. CASE m = "none" /\ ~x
  <2>1. \E k \in ProgramSections : t = set_cat_section(Cleared(Shows(z, "app", "catalog"), "app"), k)
    <3>1. "pgm_solve" \in ProgramSections /\ "pgm_integ" \in ProgramSections
      BY DEF ProgramSections
    <3> QED
      BY <1>4, <3>1 DEF appmenu_exitcallback_3, appmenu_exitcallback_4
  <2>2. PICK k \in ProgramSections : t = set_cat_section(Cleared(Shows(z, "app", "catalog"), "app"), k)
    BY <2>1
  <2> HIDE DEF z
  <2>3. Screen(z)
    BY <1>2, SameScreen
  <2>4. /\ z.menu = s.menu /\ z.sect = s.sect /\ z.edit = s.edit /\ z.baseapp = s.baseapp
        /\ z.role = s.role /\ z.err = s.err
    BY <1>2 DEF Keeps, Fields
  <2>5. /\ Screen(t) /\ Keeps(z, t, {"menu", "sect"}) /\ Sunk(z, t)
        /\ t.menu["app"] = "catalog" /\ t.sect["app"] = k
    BY <2>2, <2>3, ToPrograms
  <2>6. t.edit = z.edit /\ t.cb = z.cb /\ t.baseapp = z.baseapp /\ t.err = z.err
    BY <2>5 DEF Keeps, Fields
  <2>7. Back(s, t)
    BY <1>2, <1>3, <2>2, <2>4, <2>5, <2>6 DEF Back
  <2>8. Keeps(s, t, AppFields)
    BY <1>2, <2>5 DEF Keeps, AppFields
  <2>9. Sunk(s, t)
    BY <2>4, <2>5 DEF Sunk
  <2> QED
    BY <1>4, <2>4, <2>5, <2>6, <2>7, <2>8, <2>9 DEF LeftFor, Allowed
<1>5. CASE ~(m = "none" /\ ~x)
  <2>1. t = Shows(z, "app", m)
    BY <1>5 DEF appmenu_exitcallback_3, appmenu_exitcallback_4
  <2>2. Screen(t) /\ Keeps(s, t, AppFields) /\ Taken(s, t, m) /\ t.err = s.err
        /\ Sunk(s, t)
    BY <1>3, <2>1, PlainlyTaken
  <2> QED
    BY <2>2 DEF LeftFor, Allowed
<1> QED
  BY <1>4, <1>5

LEMMA LimitsLeft ==
    ASSUME NEW s, Screen(s), Told(s), s.cb = 5, NEW m \in AppMenus, NEW x \in BOOLEAN,
           NEW t, t = appmenu_exitcallback_5([s EXCEPT !.cb = 0], m, x)
    PROVE  Screen(t) /\ Keeps(s, t, AppFields) /\ LeftFor(s, t, m) /\ Sunk(s, t)
<1> DEFINE z == [s EXCEPT !.cb = 0]
<1>1. s \in Calculators /\ 0 \in CbStates /\ 4 \in CbStates /\ 2 \in RoleStates
  BY DEF Screen, CbStates, RoleStates
<1>2. z \in Calculators /\ z.cb = 0 /\ Keeps(s, z, {"cb"})
  BY <1>1, PutCallback
<1>3. ~s.baseapp /\ s.cb \notin {1, 2}
  BY DEF Told
<1>4. CASE m = "none" /\ ~x
  <2> DEFINE w == Cleared(Shows(z, "app", "varmenu"), "app")
  <2>1. t = [w EXCEPT !.role = 2, !.cb = 4]
    BY <1>4 DEF appmenu_exitcallback_5
  <2> HIDE DEF z
  <2>2. Screen(z)
    BY <1>2, SameScreen
  <2>3. /\ z.menu = s.menu /\ z.sect = s.sect /\ z.edit = s.edit /\ z.baseapp = s.baseapp
        /\ z.role = s.role /\ z.err = s.err
    BY <1>2 DEF Keeps, Fields
  <2>4. "varmenu" \in AppMenus
    BY DEF AppMenus
  <2>5. /\ Screen(w) /\ Keeps(z, w, {"menu", "sect"}) /\ Sunk(z, w)
        /\ w.menu["app"] = "varmenu" /\ w.sect["app"] = "top"
    <3>1. /\ Screen(w) /\ Keeps(z, w, {"menu", "sect"}) /\ Sunk(z, w)
          /\ w.menu["app"] = "varmenu"
          /\ w.sect["app"] = IF "varmenu" = "catalog" THEN z.sect["app"] ELSE "top"
      BY <2>2, <2>4, AppLevel
    <3> QED
      BY <3>1
  <2> HIDE DEF w
  <2>6. w \in Calculators
    BY <2>5 DEF Screen
  <2>7. t \in Calculators /\ t.cb = 4 /\ t.role = 2 /\ Keeps(w, t, {"role", "cb"})
    <3> DEFINE y == [w EXCEPT !.role = 2]
    <3>1. t = [y EXCEPT !.cb = 4]
      BY <2>1, <2>6 DEF Calculators
    <3>2. y \in Calculators /\ y.role = 2 /\ Keeps(w, y, {"role"})
      BY <1>1, <2>6, PutRole
    <3> HIDE DEF y
    <3>a. /\ [y EXCEPT !.cb = 4] \in Calculators /\ [y EXCEPT !.cb = 4].cb = 4
          /\ Keeps(y, [y EXCEPT !.cb = 4], {"cb"})
      BY <1>1, <3>2, PutCallback
    <3>3. t \in Calculators /\ t.cb = 4 /\ Keeps(y, t, {"cb"})
      BY <3>1, <3>a
    <3>4. t.role = y.role
      BY <3>3 DEF Keeps, Fields
    <3> QED
      BY <3>2, <3>3, <3>4 DEF Keeps
  <2>8. Screen(t)
    BY <2>5, <2>7, SameScreen
  <2>9. t.menu = w.menu /\ t.sect = w.sect /\ t.edit = w.edit /\ t.baseapp = w.baseapp
        /\ t.err = w.err
    BY <2>7 DEF Keeps, Fields
  <2>10. w.edit = z.edit /\ w.baseapp = z.baseapp /\ w.err = z.err
    BY <2>5 DEF Keeps, Fields
  <2>11. Back(s, t)
    BY <1>3, <2>3, <2>5, <2>7, <2>9, <2>10 DEF Back
  <2>12. Keeps(s, t, AppFields)
    BY <1>2, <2>5, <2>7 DEF Keeps, AppFields
  <2>13. Sunk(s, t)
    BY <2>3, <2>5, <2>9 DEF Sunk
  <2> QED
    BY <1>4, <2>3, <2>8, <2>9, <2>10, <2>11, <2>12, <2>13 DEF LeftFor, Allowed
<1>5. CASE ~(m = "none" /\ ~x)
  <2>1. t = Shows(z, "app", m)
    BY <1>5 DEF appmenu_exitcallback_5
  <2>2. Screen(t) /\ Keeps(s, t, AppFields) /\ Taken(s, t, m) /\ t.err = s.err
        /\ Sunk(s, t)
    BY <1>3, <2>1, PlainlyTaken
  <2> QED
    BY <2>2 DEF LeftFor, Allowed
<1> QED
  BY <1>4, <1>5

LEMMA AppMenuSet ==
    ASSUME NEW s, Screen(s), Told(s), NEW m \in AppMenus, NEW x \in BOOLEAN,
           x => m = "none", NEW t, t = set_appmenu(s, m, x)
    PROVE  Screen(t) /\ Keeps(s, t, AppFields) /\ LeftFor(s, t, m) /\ Sunk(s, t)
<1> DEFINE z == [s EXCEPT !.cb = 0]
<1>1. s \in Calculators /\ 0 \in CbStates
  BY DEF Screen, CbStates
<1>2. s.cb \in CbStates
  BY <1>1 DEF Calculators
<1>3. s.cb \in {0, 1, 2, 3, 4, 5}
  BY <1>2 DEF CbStates
<1>4. s.menu["app"] = "none" => s.cb = 0
  BY <1>3 DEF Told, EditMenus, BaseMenus
<1>5. s.cb # 0 => t = Left(z, s.cb, m, x)
  BY <1>4 DEF set_appmenu
<1>6. CASE s.cb = 0
  <2> DEFINE y == Shows(s, "app", m)
             w == Shows(z, "app", m)
  <2>1. t = [y EXCEPT !.cb = 0]
    BY <1>6 DEF set_appmenu
  <2>2. ~s.baseapp
    BY <1>6 DEF Told
  <2>3. Screen(y) /\ Keeps(s, y, {"menu", "sect"}) /\ y.menu["app"] = m /\ Sunk(s, y)
        /\ y.sect["app"] = IF m = "catalog" THEN s.sect["app"] ELSE "top"
    BY AppShown
  <2> HIDE DEF y
  <2>4. y \in Calculators
    BY <2>3 DEF Screen
  <2>5. t \in Calculators /\ t.cb = 0 /\ Keeps(y, t, {"cb"})
    BY <1>1, <2>1, <2>4, PutCallback
  <2>6. Screen(t)
    BY <2>3, <2>5, SameScreen
  <2>7. t.menu = y.menu /\ t.sect = y.sect /\ t.edit = y.edit /\ t.baseapp = y.baseapp
        /\ t.role = y.role /\ t.err = y.err
    BY <2>5 DEF Keeps, Fields
  <2>8. y.edit = s.edit /\ y.baseapp = s.baseapp /\ y.role = s.role /\ y.err = s.err
    BY <2>3 DEF Keeps, Fields
  <2>9. Taken(s, t, m)
    BY <1>6, <2>2, <2>3, <2>5, <2>7, <2>8 DEF Taken, OwnMenu
  <2>10. Keeps(s, t, AppFields)
    BY <2>3, <2>5 DEF Keeps, AppFields
  <2>11. Sunk(s, t)
    BY <2>3, <2>7 DEF Sunk
  <2> QED
    BY <2>6, <2>7, <2>8, <2>9, <2>10, <2>11 DEF LeftFor, Allowed
<1>7. CASE s.cb = 1
  <2>1. t = appmenu_exitcallback_1(z, m, x)
    BY <1>5, <1>7 DEF Left
  <2> QED
    BY <1>7, <2>1, EditorLeft
<1>8. CASE s.cb = 2
  <2>1. t = appmenu_exitcallback_2(z, m, x)
    BY <1>5, <1>8 DEF Left
  <2> QED
    BY <1>8, <2>1, BaseLeft
<1>9. CASE s.cb = 3
  <2>1. t = appmenu_exitcallback_3(z, m, x)
    BY <1>5, <1>9 DEF Left
  <2> QED
    BY <1>9, <2>1, SolverLeft
<1>10. CASE s.cb = 4
  <2>1. t = appmenu_exitcallback_4(z, m, x)
    BY <1>5, <1>10 DEF Left
  <2> QED
    BY <1>10, <2>1, SolverLeft
<1>11. CASE s.cb = 5
  <2>1. t = appmenu_exitcallback_5(z, m, x)
    BY <1>5, <1>11 DEF Left
  <2> QED
    BY <1>11, <2>1, LimitsLeft
<1> QED
  BY <1>3, <1>6, <1>7, <1>8, <1>9, <1>10, <1>11

(* The level of the applications takes a menu *)
LEMMA SetAppErr ==
    ASSUME NEW s, Screen(s), Told(s), NEW m \in AppMenus, NEW x \in BOOLEAN,
           x => m = "none", NEW t, t = set_menu_return_err(s, "app", m, x)
    PROVE  /\ Screen(t) /\ Keeps(s, t, AppFields) /\ Sunk(s, t)
           /\ \/ t.err /\ Refused(s, t)
              \/ /\ ~t.err /\ Allowed(s, t, m)
                 /\ \A l \in Levels \ {"app"} : t.menu[l] = "none"
<1> DEFINE z == [s EXCEPT !.err = FALSE]
           v == set_appmenu(z, m, x)
<1>1. s \in Calculators /\ FALSE \in BOOLEAN
  BY DEF Screen
<1>2. z \in Calculators /\ z.err = FALSE /\ Keeps(s, z, {"err"})
  BY <1>1, PutErr
<1>3. t = AppMenu(v)
  BY DEF set_menu_return_err
<1> HIDE DEF z
<1>4. Screen(z)
  BY <1>2, SameScreen
<1>5. /\ z.menu = s.menu /\ z.sect = s.sect /\ z.edit = s.edit /\ z.baseapp = s.baseapp
      /\ z.role = s.role /\ z.cb = s.cb /\ z.prev = s.prev
  BY <1>2 DEF Keeps, Fields
<1>6. Told(z)
  BY <1>5 DEF Told
<1>7. Screen(v) /\ Keeps(z, v, AppFields) /\ LeftFor(z, v, m) /\ Sunk(z, v)
  BY <1>4, <1>6, AppMenuSet
<1> HIDE DEF v
<1>8. Keeps(s, v, AppFields) /\ Sunk(s, v)
  BY <1>2, <1>5, <1>7 DEF Keeps, AppFields, Sunk
<1>9. (v.err /\ Refused(s, v)) \/ (~v.err /\ Allowed(s, v, m))
  <2>1. CASE v.err /\ Refused(z, v)
    BY <1>5, <2>1 DEF Refused
  <2>2. CASE v.err = z.err /\ Allowed(z, v, m)
    <3>1. ~v.err
      BY <1>2, <2>2
    <3>2. Allowed(s, v, m)
      BY <1>5, <2>2 DEF Allowed, Taken, Stays, Back, OwnMenu
    <3> QED
      BY <3>1, <3>2
  <2> QED
    BY <1>7, <2>1, <2>2 DEF LeftFor
<1>10. CASE v.err /\ Refused(s, v)
  <2>1. t = v
    BY <1>3, <1>10 DEF AppMenu
  <2> QED
    BY <1>7, <1>8, <1>10, <2>1
<1>11. CASE ~v.err /\ Allowed(s, v, m)
  <2>1. t = Cleared(v, "app")
    BY <1>3, <1>11 DEF AppMenu
  <2>2. "app" \in Levels /\ "app" \notin InFront["app"]
        /\ \A l \in Levels \ {"app"} : l \in InFront["app"]
    BY LevelFacts
  <2> DEFINE w == Cleared(v, "app")
  <2>3. /\ Screen(w) /\ Keeps(v, w, {"menu", "sect"})
        /\ \A k \in Levels : w.menu[k] = IF k \in InFront["app"] THEN "none" ELSE v.menu[k]
        /\ \A k \in Levels : w.sect[k] = IF k \in InFront["app"] THEN "top" ELSE v.sect[k]
    BY <1>7, <2>2, ClearedMenus
  <2>4. t = w
    BY <2>1
  <2> HIDE DEF w
  <2>5. \A l \in Levels \ {"app"} : t.menu[l] = "none"
    BY <2>2, <2>3, <2>4
  <2>6. t.menu["app"] = v.menu["app"] /\ t.sect["app"] = v.sect["app"]
    BY <2>2, <2>3, <2>4
  <2>7. t.cb = v.cb /\ t.edit = v.edit /\ t.baseapp = v.baseapp /\ t.role = v.role
        /\ t.err = v.err
    BY <2>3, <2>4 DEF Keeps, Fields
  <2>8. Allowed(s, t, m)
    BY <1>11, <2>6, <2>7 DEF Allowed, Taken, Stays, Back
  <2>9. Keeps(s, t, AppFields)
    BY <1>8, <2>3, <2>4 DEF Keeps, AppFields
  <2>10. Sunk(s, t)
    BY <2>5 DEF Sunk
  <2> QED
    BY <1>11, <2>3, <2>4, <2>5, <2>7, <2>8, <2>9, <2>10
<1> QED
  BY <1>9, <1>10, <1>11

LEMMA SetApp ==
    ASSUME NEW s, Screen(s), Told(s), NEW m \in AppMenus,
           NEW t, t = set_menu(s, "app", m)
    PROVE  /\ Screen(t) /\ Keeps(s, t, AppFields) /\ Sunk(s, t)
           /\ \/ Refused(s, t)
              \/ Allowed(s, t, m) /\ \A l \in Levels \ {"app"} : t.menu[l] = "none"
<1> DEFINE v == set_menu_return_err(s, "app", m, FALSE)
<1>1. t = [v EXCEPT !.err = FALSE]
  BY DEF set_menu
<1>2. /\ Screen(v) /\ Keeps(s, v, AppFields) /\ Sunk(s, v)
      /\ \/ v.err /\ Refused(s, v)
         \/ /\ ~v.err /\ Allowed(s, v, m)
            /\ \A l \in Levels \ {"app"} : v.menu[l] = "none"
  BY SetAppErr
<1> HIDE DEF v
<1>3. v \in Calculators
  BY <1>2 DEF Screen
<1>4. t \in Calculators /\ Keeps(v, t, {"err"})
  BY <1>1, <1>3, PutErr
<1>5. Screen(t)
  BY <1>2, <1>4, SameScreen
<1>6. t.menu = v.menu /\ t.sect = v.sect /\ t.cb = v.cb /\ t.edit = v.edit
      /\ t.baseapp = v.baseapp /\ t.role = v.role
  BY <1>4 DEF Keeps, Fields
<1>7. Keeps(s, t, AppFields)
  BY <1>2, <1>4 DEF Keeps, AppFields
<1>8. Sunk(s, t)
  BY <1>2, <1>6 DEF Sunk
<1>9. Refused(s, v) => Refused(s, t)
  BY <1>6 DEF Refused
<1>10. Allowed(s, v, m) => Allowed(s, t, m)
  BY <1>6 DEF Allowed, Taken, Stays, Back
<1> QED
  BY <1>2, <1>5, <1>6, <1>7, <1>8, <1>9, <1>10

-----------------------------------------------------------------------------
(* The callback fits the menu                                              *)

LEMMA FitsTold == ASSUME NEW s, Fits(s) PROVE Told(s)
  BY DEF Fits, Told

LEMMA StillFits ==
    ASSUME NEW s, Screen(s), Fits(s), NEW m, NEW t, Refused(s, t) \/ Allowed(s, t, m),
           m \in OfOwn => OwnMenu(s, m)
    PROVE  Fits(t)
<1>1. s.prev \in PrevStates
  BY DEF Screen, Calculators
<1>2. s.prev \notin OfOwn
  BY <1>1 DEF PrevStates, OfOwn, EditMenus, BaseMenus
<1>3. CASE Refused(s, t)
  BY <1>3 DEF Refused, Fits
<1>4. CASE Taken(s, t, m)
  <2>1. m \notin OfOwn
    BY <1>4 DEF Taken
  <2> QED
    BY <1>4, <2>1 DEF Taken, Fits, OfOwn
<1>5. CASE Stays(s, t, m)
  BY <1>5 DEF Stays, OwnMenu, Fits, EditMenus, BaseMenus
<1>6. CASE Back(s, t)
  <2>1. CASE s.cb = 1
    BY <1>2, <1>6, <2>1 DEF Back, Fits, OfOwn
  <2>2. CASE s.cb \in {3, 4}
    BY <1>6, <2>2 DEF Back, Fits, EditMenus, BaseMenus
  <2>3. CASE s.cb = 5
    BY <1>6, <2>3 DEF Back, Fits, EditMenus, BaseMenus
  <2> QED
    BY <1>6, <2>1, <2>2, <2>3 DEF Back
<1> QED
  BY <1>3, <1>4, <1>5, <1>6 DEF Allowed

(* A step that leaves the application alone keeps the callback fitting *)
LEMMA FitsKept ==
    ASSUME NEW s, Fits(s), NEW t, NEW F, Keeps(s, t, F), F \cap (AppFields \ {"menu"}) \subseteq {"sect", "hex", "nested", "err"},
           t.menu["app"] = s.menu["app"]
    PROVE  Fits(t)
<1>1. t.cb = s.cb /\ t.edit = s.edit /\ t.baseapp = s.baseapp /\ t.role = s.role
  BY DEF Keeps, Fields, AppFields
<1> QED
  BY <1>1 DEF Fits

-----------------------------------------------------------------------------
(* Steps of an entry                                                       *)

LEMMA EnteringFree ==
    ASSUME NEW s, Entering(s)
    PROVE  /\ Free(s) /\ Screen(s) /\ s \in Calculators /\ EntryFits(s)
           /\ s.menu["command"] \in {"varmenu", "integ"} => s.menu["app"] = s.menu["command"]
           /\ s.saved # -1 => s.prgm
  BY DEF Entering, Inv, Modes, Free, Screen, Quiet

LEMMA EntryInv ==
    ASSUME NEW s, Free(s), s.saved # -1 => s.prgm, NEW t, Screen(t), Beside(s, t),
           Keeps(s, t, {"inc", "menu", "sect", "local"}),
           mode_command_entry(t), EntryFits(t),
           t.menu["command"] \in {"varmenu", "integ"} => t.menu["app"] = t.menu["command"]
    PROVE  Entering(t)
<1>1. /\ t.cb = s.cb /\ t.mvars = s.mvars /\ t.prgm = s.prgm /\ t.pc = s.pc /\ t.lines = s.lines
      /\ t.saved = s.saved /\ t.clall = s.clall /\ t.rpc = s.rpc /\ t.pend = s.pend
      /\ t.num = s.num /\ t.nlen = s.nlen /\ t.alpha = s.alpha /\ t.alen = s.alen
  BY DEF Keeps, Fields
<1>2. t.menu["app"] = s.menu["app"] /\ t.sect["app"] = s.sect["app"]
  BY LevelFacts DEF Beside
<1>3. Fits(t)
  <2>1. {"inc", "menu", "sect", "local"} \cap (AppFields \ {"menu"}) \subseteq {"sect", "hex", "nested", "err"}
    BY DEF AppFields
  <2> QED
    BY <1>2, <2>1, FitsKept DEF Free
<1>4. Counters(t)
  BY <1>1 DEF Free, Counters
<1>5. ~Stale(t)
  BY <1>1, <1>2 DEF Free, Stale
<1>6. ~t.num /\ ~t.alpha /\ ~t.clall /\ ~t.rpc /\ t.pend = "none"
  BY <1>1 DEF Free
<1>7. Modes(t)
  BY <1>1, <1>5, <1>6 DEF Modes, Quiet
<1> QED
  BY <1>3, <1>4, <1>6, <1>7 DEF Entering, Inv

LEMMA GoesOnBy ==
    ASSUME NEW s, Entering(s), NEW t, Screen(t), Beside(s, t),
           Keeps(s, t, {"inc", "menu", "sect", "local"}),
           mode_command_entry(t), EntryFits(t),
           t.menu["command"] \in {"varmenu", "integ"} => t.menu["app"] = t.menu["command"],
           t.inc.cmd # "PRP" => s.inc.cmd # "PRP"
    PROVE  GoesOn(s, t)
<1>1. Entering(t)
  BY EnteringFree, EntryInv
<1>2. BelowSame(s, t)
  BY LevelFacts DEF Beside, BelowSame
<1> QED
  BY <1>1, <1>2 DEF GoesOn

LEMMA GoesOnTwice ==
    ASSUME NEW s, NEW v, NEW t, GoesOn(s, v), GoesOn(v, t)
    PROVE  GoesOn(s, t)
  BY DEF GoesOn, Keeps, BelowSame

LEMMA GoesOnSame ==
    ASSUME NEW s, Entering(s) PROVE GoesOn(s, s)
  BY DEF GoesOn, Keeps, BelowSame

LEMMA GoesOnToStep ==
    ASSUME NEW s, NEW v, NEW t, GoesOn(s, v), EntryStep(v, t)
    PROVE  EntryStep(s, t)
<1>1. CASE GoesOn(v, t)
  BY <1>1, GoesOnTwice DEF EntryStep
<1>2. CASE IsOver(v, t)
  <2>1. /\ v.prgm = s.prgm /\ v.saved = s.saved /\ v.lines = s.lines /\ v.pc = s.pc
    BY DEF GoesOn, Keeps, Fields
  <2>2. BelowSame(s, v) /\ (v.inc.cmd # "PRP" => s.inc.cmd # "PRP")
    BY DEF GoesOn
  <2>3. BelowSame(v, t) => BelowSame(s, t)
    BY <2>2 DEF BelowSame
  <2>4. NoTrace(v, t)
    BY <1>2 DEF IsOver
  <2>5. NoTrace(s, t)
    BY <2>1, <2>2, <2>3, <2>4 DEF NoTrace
  <2> QED
    BY <1>2, <2>5 DEF IsOver, EntryStep
<1> QED
  BY <1>1, <1>2 DEF EntryStep
-----------------------------------------------------------------------------
(* Steps from menu to menu, which change neither the program nor what is   *)
(* being entered                                                           *)

LEMMA SteersSame ==
    ASSUME NEW s, Screen(s), Fits(s) PROVE Steers(s, s)
  BY KeepsNothing DEF Steers

LEMMA SteersTwice ==
    ASSUME NEW s, NEW v, NEW t, Steers(s, v), Steers(v, t)
    PROVE  Steers(s, t)
<1>1. Keeps(s, t, MenuFields)
  BY KeepsTwice DEF Steers
<1> QED
  BY <1>1 DEF Steers

LEMMA SteersAt ==
    ASSUME NEW s, Screen(s), Fits(s), NEW l \in Levels \ {"app"}, NEW m \in MenusOf(l),
           l = "command" => m = "none", NEW t, t = set_menu(s, l, m)
    PROVE  Steers(s, t)
<1>1. /\ Screen(t)
      /\ Keeps(s, t, {"menu", "sect", "err"})
      /\ \A k \in Levels : t.menu[k] = IF k = l THEN m
                                       ELSE IF k \in InFront[l] THEN "none" ELSE s.menu[k]
      /\ \A k \in Levels : t.sect[k] = IF k = l
                                       THEN (IF m = "catalog" THEN s.sect[l] ELSE "top")
                                       ELSE IF k \in InFront[l] THEN "top" ELSE s.sect[k]
  BY SetAt
<1>2. "app" \notin InFront[l] /\ "app" \in Levels /\ "command" \in Levels
  BY LevelFacts
<1>3. t.menu["app"] = s.menu["app"] /\ t.sect["app"] = s.sect["app"]
  BY <1>1, <1>2
<1>4. Keeps(s, t, MenuFields) /\ t.mvars = s.mvars
  BY <1>1 DEF Keeps, MenuFields, AppFields, Fields
<1>5. Fits(t)
  <2>1. {"menu", "sect", "err"} \cap (AppFields \ {"menu"}) \subseteq {"sect", "hex", "nested", "err"}
    OBVIOUS
  <2> QED
    BY <1>1, <1>3, <2>1, FitsKept
<1>6. s.menu["command"] = "none" => t.menu["command"] = "none"
  BY <1>1, <1>2
<1>7. Stale(t) => Stale(s)
  BY <1>3, <1>4 DEF Stale
<1> QED
  BY <1>1, <1>4, <1>5, <1>6, <1>7 DEF Steers

(* What an answer of the level of the applications comes to *)
LEMMA AnswerSteers ==
    ASSUME NEW s, Screen(s), Fits(s), NEW m \in AppMenus \ {"varmenu"}, NEW t,
           Screen(t), Keeps(s, t, AppFields), Sunk(s, t), Refused(s, t) \/ Allowed(s, t, m),
           m \in OfOwn => OwnMenu(s, m),
           m = "none" => s.cb # 5 \/ s.mvars
    PROVE  Steers(s, t)
<1>1. Fits(t)
  BY StillFits
<1>2. Keeps(s, t, MenuFields)
  BY KeepsMore DEF MenuFields
<1>3. s.menu["command"] = "none" => t.menu["command"] = "none"
  BY LevelFacts DEF Sunk
<1>4. t.mvars = s.mvars
  BY DEF Keeps, Fields, AppFields
<1>5. "top" \notin ProgramSections
  BY DEF ProgramSections
<1>6. ASSUME Stale(t) PROVE Stale(s)
  <2>1. CASE Refused(s, t)
    BY <1>4, <1>6, <2>1 DEF Stale, Refused
  <2>2. CASE Taken(s, t, m)
    BY <1>4, <1>5, <1>6, <2>2 DEF Stale, Taken
  <2>3. CASE Stays(s, t, m)
    BY <1>4, <1>5, <1>6, <2>3 DEF Stale, Stays
  <2>4. CASE m = "none" /\ Back(s, t)
    <3>1. CASE s.cb = 1
      <4>1. s.prev # "varmenu"
        BY DEF Screen, Calculators, PrevStates
      <4> QED
        BY <1>4, <1>5, <1>6, <2>4, <3>1, <4>1 DEF Stale, Back
    <3>2. CASE s.cb \in {3, 4}
      BY <1>4, <1>6, <3>2 DEF Stale, Fits
    <3>3. CASE s.cb = 5
      BY <1>4, <1>6, <2>4, <3>3 DEF Stale
    <3> QED
      BY <2>4, <3>1, <3>2, <3>3 DEF Back
  <2> QED
    BY <2>1, <2>2, <2>3, <2>4 DEF Allowed
<1> QED
  BY <1>1, <1>2, <1>3, <1>6 DEF Steers

LEMMA SteersApp ==
    ASSUME NEW s, Screen(s), Fits(s), NEW m \in AppMenus \ {"varmenu"},
           m \in OfOwn => OwnMenu(s, m),
           m = "none" => s.cb # 5 \/ s.mvars,
           NEW t, t = set_menu(s, "app", m)
    PROVE  Steers(s, t)
<1>1. Told(s) /\ m \in AppMenus
  BY FitsTold
<1>2. /\ Screen(t) /\ Keeps(s, t, AppFields) /\ Sunk(s, t)
      /\ Refused(s, t) \/ Allowed(s, t, m)
  BY <1>1, SetApp
<1> QED
  BY <1>2, AnswerSteers

(* A section of the catalog in front *)
LEMMA SteersSection ==
    ASSUME NEW s, Screen(s), Fits(s), s.menu[get_cat_index(s)] = "catalog",
           NEW x \in Sections, x \notin ProgramSections, x \notin ArgumentSections,
           NEW t, t = set_cat_section(s, x)
    PROVE  /\ Steers(s, t) /\ Keeps(s, t, {"sect"}) /\ t.menu = s.menu
<1>1. /\ Screen(t) /\ Keeps(s, t, {"sect"})
      /\ \A k \in Levels : t.sect[k] = IF k = get_cat_index(s) THEN x ELSE s.sect[k]
  BY SectionSet
<1>2. t.sect["app"] \in {x, s.sect["app"]}
  BY <1>1, LevelFacts
<1>3. t.menu = s.menu /\ t.mvars = s.mvars
  BY <1>1 DEF Keeps, Fields
<1>4. Keeps(s, t, MenuFields)
  BY <1>1 DEF Keeps, MenuFields, AppFields
<1>5. Fits(t)
  <2>1. {"sect"} \cap (AppFields \ {"menu"}) \subseteq {"sect", "hex", "nested", "err"}
    OBVIOUS
  <2>2. t.menu["app"] = s.menu["app"]
    BY <1>3
  <2> QED
    BY <1>1, <2>1, <2>2, FitsKept
<1>6. Stale(t) => Stale(s)
  BY <1>2, <1>3 DEF Stale
<1> QED
  BY <1>1, <1>3, <1>4, <1>5, <1>6 DEF Steers

LEMMA SteersBase ==
    ASSUME NEW s, Screen(s), Fits(s), NEW b \in BOOLEAN, NEW t, t = set_base(s, b)
    PROVE  Steers(s, t)
<1>1. /\ Screen(t) /\ Keeps(s, t, {"menu", "sect", "hex"}) /\ Sunk(s, t)
      /\ t.menu["app"] = IF s.menu["app"] = "baseAF" THEN "base1" ELSE s.menu["app"]
      /\ t.sect["app"] \in {"top", s.sect["app"]}
  BY BaseSet
<1>2. t.cb = s.cb /\ t.edit = s.edit /\ t.baseapp = s.baseapp /\ t.role = s.role
      /\ t.mvars = s.mvars
  BY <1>1 DEF Keeps, Fields
<1>3. Fits(t)
  BY <1>1, <1>2 DEF Fits, EditMenus, BaseMenus
<1>4. Keeps(s, t, MenuFields)
  BY <1>1 DEF Keeps, MenuFields, AppFields
<1>5. s.menu["command"] = "none" => t.menu["command"] = "none"
  BY <1>1, LevelFacts DEF Sunk
<1>6. Stale(t) => Stale(s)
  BY <1>1, <1>2 DEF Stale, ProgramSections
<1> QED
  BY <1>1, <1>3, <1>4, <1>5, <1>6 DEF Steers

(* The return addresses go *)
LEMMA SteersRtns ==
    ASSUME NEW s, Screen(s), Fits(s), NEW t, t = clear_all_rtns(s)
    PROVE  /\ Steers(s, t) /\ Keeps(s, t, {"menu", "sect", "err", "role"})
           /\ t.menu["app"] = s.menu["app"] /\ t.sect["app"] = s.sect["app"]
<1> DEFINE v == IF s.menu["plain"] = "programmable" THEN set_menu(s, "plain", "none") ELSE s
<1>1. "plain" \in Levels \ {"app"} /\ "none" \in MenusOf("plain") /\ "app" \in Levels
  BY LevelFacts, MenusOfLevels
<1>2. /\ Steers(s, v) /\ Keeps(s, v, {"menu", "sect", "err"})
      /\ v.menu["app"] = s.menu["app"] /\ v.sect["app"] = s.sect["app"]
  <2>1. CASE s.menu["plain"] = "programmable"
    <3> DEFINE w == set_menu(s, "plain", "none")
    <3>1. Steers(s, w)
      BY <1>1, SteersAt
    <3>2. /\ Keeps(s, w, {"menu", "sect", "err"})
          /\ \A k \in Levels : w.menu[k] = IF k = "plain" THEN "none"
                                           ELSE IF k \in InFront["plain"] THEN "none" ELSE s.menu[k]
          /\ \A k \in Levels : w.sect[k] = IF k = "plain"
                                           THEN (IF "none" = "catalog" THEN s.sect["plain"] ELSE "top")
                                           ELSE IF k \in InFront["plain"] THEN "top" ELSE s.sect[k]
      BY <1>1, SetAt
    <3> HIDE DEF w
    <3>3. "app" \notin InFront["plain"]
      BY LevelFacts
    <3>4. w.menu["app"] = s.menu["app"] /\ w.sect["app"] = s.sect["app"]
      BY <1>1, <3>2, <3>3
    <3> QED
      BY <2>1, <3>1, <3>2, <3>4 DEF w
  <2>2. CASE s.menu["plain"] # "programmable"
    BY <2>2, SteersSame, KeepsNothing
  <2> QED
    BY <2>1, <2>2
<1>3. t = [v EXCEPT !.role = IF v.role = 3 THEN 0 ELSE v.role]
  <2>1. v \in Calculators
    BY <1>2 DEF Steers, Screen
  <2> HIDE DEF v
  <2>2. t = [v EXCEPT !.role = IF @ = 3 THEN 0 ELSE @]
    BY DEF clear_all_rtns, v
  <2> QED
    BY <2>1, <2>2 DEF Calculators
<1> HIDE DEF v
<1>4. v \in Calculators
  BY <1>2 DEF Steers, Screen
<1>5. (IF v.role = 3 THEN 0 ELSE v.role) \in RoleStates
  BY <1>4 DEF Calculators, RoleStates
<1>6. t \in Calculators /\ Keeps(v, t, {"role"}) /\ t.role = IF v.role = 3 THEN 0 ELSE v.role
  BY <1>3, <1>4, <1>5, PutRole
<1>7. Screen(t)
  BY <1>2, <1>6, SameScreen DEF Steers
<1>8. t.menu = v.menu /\ t.sect = v.sect /\ t.cb = v.cb /\ t.edit = v.edit
      /\ t.baseapp = v.baseapp /\ t.mvars = v.mvars
  BY <1>6 DEF Keeps, Fields
<1>9. Fits(t)
  BY <1>2, <1>6, <1>8 DEF Fits, Steers
<1>10. Stale(t) => Stale(v)
  BY <1>8 DEF Stale
<1>11. Keeps(v, t, MenuFields)
  BY <1>6 DEF Keeps, MenuFields, AppFields
<1>12. Steers(v, t)
  BY <1>7, <1>8, <1>9, <1>10, <1>11 DEF Steers
<1>13. Steers(s, t)
  BY <1>2, <1>12, SteersTwice
<1>14. Keeps(s, t, {"menu", "sect", "err", "role"})
  BY <1>2, <1>6 DEF Keeps
<1> QED
  BY <1>2, <1>8, <1>13, <1>14

LEMMA PutSect ==
    ASSUME NEW s \in Calculators, NEW x \in SectStates
    PROVE  /\ [s EXCEPT !.sect = x] \in Calculators
           /\ [s EXCEPT !.sect = x].sect = x
           /\ Keeps(s, [s EXCEPT !.sect = x], {"sect"})
  BY DEF Calculators, Keeps, Fields

(* One flag of the menus is set. *)
LEMMA SteersFlag ==
    ASSUME NEW s, Screen(s), Fits(s), NEW t \in Calculators, NEW F, Keeps(s, t, F),
           F \subseteq {"sticky", "prev", "vm", "err", "nested", "hex"}
    PROVE  Steers(s, t)
<1>1. "menu" \notin F /\ "sect" \notin F
  OBVIOUS
<1>2. Screen(t)
  BY <1>1, SameScreen
<1>3. /\ t.menu = s.menu /\ t.sect = s.sect /\ t.cb = s.cb /\ t.edit = s.edit
      /\ t.baseapp = s.baseapp /\ t.role = s.role /\ t.mvars = s.mvars
  BY DEF Keeps, Fields
<1>4. Fits(t)
  BY <1>3 DEF Fits
<1>5. Keeps(s, t, MenuFields)
  BY DEF Keeps, MenuFields, AppFields
<1> QED
  BY <1>2, <1>3, <1>4, <1>5 DEF Steers, Stale

(* Only the levels from the plain one on change. *)
LEMMA SteersFrame ==
    ASSUME NEW s, Fits(s), NEW t, Screen(t), Keeps(s, t, {"menu", "sect", "sticky"}),
           t.menu["app"] = s.menu["app"], t.sect["app"] = s.sect["app"],
           s.menu["command"] = "none" => t.menu["command"] = "none"
    PROVE  Steers(s, t)
<1>1. {"menu", "sect", "sticky"} \cap (AppFields \ {"menu"}) \subseteq {"sect", "hex", "nested", "err"}
  BY DEF AppFields
<1>2. Fits(t)
  BY <1>1, FitsKept
<1>3. Keeps(s, t, MenuFields) /\ t.mvars = s.mvars
  BY DEF Keeps, MenuFields, AppFields, Fields
<1> QED
  BY <1>2, <1>3 DEF Steers, Stale

LEMMA SteersPlain ==
    ASSUME NEW s, Screen(s), Fits(s), NEW m \in PlainMenus, NEW t, t = set_plainmenu(s, m)
    PROVE  Steers(s, t)
<1> DEFINE v == Cleared(s, "plain")
           w == Shows(v, "plain", m)
           y == [w EXCEPT !.sect = [w.sect EXCEPT !["plain"] = "top"]]
<1>1. /\ "plain" \in Levels /\ "app" \in Levels /\ "command" \in Levels
      /\ "app" \notin InFront["plain"] /\ "command" \in InFront["plain"]
      /\ m \in MenusOf("plain")
  BY LevelFacts, MenusOfLevels
<1>2. /\ Screen(v) /\ Keeps(s, v, {"menu", "sect"})
      /\ v.menu["app"] = s.menu["app"] /\ v.sect["app"] = s.sect["app"]
      /\ v.menu["command"] = "none"
  BY <1>1, ClearedMenus
<1>3. t = [v EXCEPT !.sticky = TRUE] \/ t = [w EXCEPT !.sticky = TRUE]
      \/ t = [w EXCEPT !.sticky = FALSE, !.sect["plain"] = "top"]
  BY DEF set_plainmenu
<1> HIDE DEF v
<1>4. /\ Screen(w) /\ Keeps(v, w, {"menu", "sect"})
      /\ w.menu["app"] = v.menu["app"] /\ w.sect["app"] = v.sect["app"]
      /\ w.menu["command"] = "none"
  BY <1>1, <1>2, ShowsMenu
<1> HIDE DEF w
<1>5. v \in Calculators /\ w \in Calculators
  BY <1>2, <1>4 DEF Screen
<1>6. [w.sect EXCEPT !["plain"] = "top"] \in SectStates
  BY <1>5 DEF Calculators, SectStates, Sections
<1>7. y \in Calculators /\ y.sect = [w.sect EXCEPT !["plain"] = "top"] /\ Keeps(w, y, {"sect"})
  BY <1>5, <1>6, PutSect
<1>8. y.menu = w.menu
  BY <1>7 DEF Keeps, Fields
<1>9. \A k \in Levels : y.sect[k] \in {"top", w.sect[k]}
  BY <1>5, <1>7 DEF Calculators, SectStates
<1>10. y.sect["app"] = w.sect["app"]
  BY <1>5, <1>7, <1>1 DEF Calculators, SectStates
<1>11. [w EXCEPT !.sticky = FALSE, !.sect["plain"] = "top"] = [y EXCEPT !.sticky = FALSE]
  BY <1>5 DEF Calculators
<1> HIDE DEF y
<1>12. Screen(y)
  <2>1. "top" \notin ProgramSections /\ "top" \notin ArgumentSections
    BY DEF ProgramSections, ArgumentSections
  <2> QED
    BY <1>4, <1>7, <1>8, <1>9, <2>1 DEF Screen, Sectioned
<1>13. /\ Screen(y) /\ Keeps(s, y, {"menu", "sect"})
       /\ y.menu["app"] = s.menu["app"] /\ y.sect["app"] = s.sect["app"]
       /\ y.menu["command"] = "none"
  BY <1>2, <1>4, <1>7, <1>8, <1>10, <1>12 DEF Keeps
<1>14. /\ Keeps(s, w, {"menu", "sect"})
       /\ w.menu["app"] = s.menu["app"] /\ w.sect["app"] = s.sect["app"]
  BY <1>2, <1>4 DEF Keeps
<1>15. PICK z \in {v, w, y} : t = [z EXCEPT !.sticky = TRUE] \/ t = [z EXCEPT !.sticky = FALSE]
  BY <1>3, <1>11
<1>16. /\ Screen(z) /\ Keeps(s, z, {"menu", "sect"})
       /\ z.menu["app"] = s.menu["app"] /\ z.sect["app"] = s.sect["app"]
       /\ z.menu["command"] = "none"
  BY <1>2, <1>4, <1>13, <1>14, <1>15
<1>17. z \in Calculators
  BY <1>16 DEF Screen
<1>18. t \in Calculators /\ Keeps(z, t, {"sticky"})
  BY <1>15, <1>17, PutSticky
<1>19. Screen(t)
  BY <1>16, <1>18, SameScreen
<1>20. t.menu = z.menu /\ t.sect = z.sect /\ Keeps(s, t, {"menu", "sect", "sticky"})
  BY <1>16, <1>18 DEF Keeps, Fields
<1> QED
  BY <1>16, <1>19, <1>20, SteersFrame

-----------------------------------------------------------------------------
(* At rest                                                                 *)

(* A calculator at rest stays so as it goes from menu to menu. *)
LEMMA RestSteers ==
    ASSUME NEW s, Rest(s), NEW t, Steers(s, t)
    PROVE  /\ Rest(t)
           /\ t.pc = s.pc /\ t.lines = s.lines /\ t.prgm = s.prgm /\ t.mvars = s.mvars
           /\ t.kinds = s.kinds /\ t.local = s.local /\ t.locked = s.locked /\ t.inc = s.inc
           /\ t.refuse = s.refuse
<1>1. /\ t.pc = s.pc /\ t.lines = s.lines /\ t.prgm = s.prgm /\ t.mvars = s.mvars
      /\ t.kinds = s.kinds /\ t.local = s.local /\ t.locked = s.locked /\ t.inc = s.inc
      /\ t.refuse = s.refuse
      /\ t.saved = s.saved /\ t.clall = s.clall /\ t.rpc = s.rpc /\ t.pend = s.pend
      /\ t.num = s.num /\ t.nlen = s.nlen /\ t.alpha = s.alpha /\ t.alen = s.alen
  BY DEF Steers, Keeps, MenuFields, AppFields, Fields
<1>2. Screen(t) /\ Fits(t) /\ ~Stale(t) /\ t.menu["command"] = "none"
  BY DEF Rest, Free, Steers
<1>3. Counters(t)
  BY <1>1 DEF Rest, Free, Counters
<1>4. ~t.num /\ ~t.alpha /\ ~t.clall /\ ~t.rpc /\ t.pend = "none" /\ t.saved = -1
      /\ ~mode_command_entry(t)
  BY <1>1 DEF Rest, Free, mode_command_entry
<1>5. EntryFits(t)
  BY <1>1, <1>2 DEF Rest, EntryFits, mode_command_entry
<1> QED
  BY <1>1, <1>2, <1>3, <1>4, <1>5 DEF Rest, Free

LEMMA RestFacts ==
    ASSUME NEW s, Rest(s)
    PROVE  /\ s \in Calculators /\ Screen(s) /\ Fits(s) /\ Told(s) /\ ~Stale(s)
           /\ s.menu["command"] = "none" /\ s.inc.cmd = "none"
  BY FitsTold DEF Rest, Free, Screen, mode_command_entry

LEMMA RestInv ==
    ASSUME NEW s, Rest(s)
    PROVE  Inv(s) /\ ~s.alpha /\ ~s.num /\ ~mode_command_entry(s)
  BY DEF Rest, Free, Inv, Modes

LEMMA RestActed ==
    ASSUME NEW s, NEW t, Rest(t) PROVE Acted(s, t)
  BY RestInv DEF Acted

LEMMA ActedSteers ==
    ASSUME NEW s, Rest(s), NEW v, Steers(s, v), NEW t, Acted(v, t)
    PROVE  Acted(s, t)
<1>1. v.pc = s.pc /\ v.lines = s.lines /\ v.prgm = s.prgm
  BY RestSteers
<1> QED
  BY <1>1 DEF Acted, Started

(* A command is left pending. *)
LEMMA Pends ==
    ASSUME NEW s, Rest(s), NEW x \in Words,
           x \in {"PGMSLVi", "PGMINTi"} => s.menu["app"] = "catalog",
           NEW t, t = [s EXCEPT !.pend = x]
    PROVE  Inv(t) /\ \A w : Acted(w, t)
<1>1. s \in Calculators /\ Screen(s)
  BY RestFacts
<1>2. t \in Calculators /\ t.pend = x /\ Keeps(s, t, {"pend"})
  BY <1>1, PutPend
<1>3. Screen(t)
  BY <1>1, <1>2, SameScreen
<1>4. /\ t.pc = s.pc /\ t.lines = s.lines /\ t.prgm = s.prgm /\ t.mvars = s.mvars
      /\ t.inc = s.inc /\ t.menu = s.menu /\ t.sect = s.sect
      /\ t.saved = s.saved /\ t.clall = s.clall /\ t.rpc = s.rpc
      /\ t.num = s.num /\ t.nlen = s.nlen /\ t.alpha = s.alpha /\ t.alen = s.alen
      /\ t.cb = s.cb /\ t.edit = s.edit /\ t.baseapp = s.baseapp /\ t.role = s.role
  BY <1>2 DEF Keeps, Fields
<1>5. Fits(t)
  BY <1>4 DEF Rest, Free, Fits
<1>6. Counters(t) /\ EntryFits(t)
  BY <1>4 DEF Rest, Free, Counters, EntryFits
<1>7. Modes(t)
  BY <1>2, <1>4 DEF Rest, Free, Modes, Stale, mode_command_entry
<1> QED
  BY <1>3, <1>4, <1>5, <1>6, <1>7 DEF Inv, Acted, Rest, Free, mode_command_entry

-----------------------------------------------------------------------------
(* The program                                                             *)

LEMMA AfterLine ==
    ASSUME NEW n \in Nat, NEW p \in -1 .. n
    PROVE  After(p, n) \in 0 .. n /\ (n + 1) - 1 = n
  BY DEF After

(* Unless the menu of variables is one without a program, rewriting the    *)
(* program only clears the return addresses.                               *)
LEMMA RewrittenFrame ==
    ASSUME NEW s, Screen(s), Fits(s), ~Stale(s), NEW t, t = Rewritten(s)
    PROVE  /\ Steers(s, t) /\ ~Stale(t) /\ Keeps(s, t, {"menu", "sect", "err", "role"})
           /\ t.menu["app"] = s.menu["app"] /\ t.sect["app"] = s.sect["app"]
<1> DEFINE v == clear_all_rtns(s)
<1>1. /\ Steers(s, v) /\ Keeps(s, v, {"menu", "sect", "err", "role"})
      /\ v.menu["app"] = s.menu["app"] /\ v.sect["app"] = s.sect["app"]
  BY SteersRtns
<1>2. t = draw_varmenu(v)
  BY DEF Rewritten
<1> HIDE DEF v
<1>3. ~Stale(v)
  BY <1>1 DEF Steers
<1>4. t = v
  BY <1>2, <1>3 DEF draw_varmenu, Stale
<1> QED
  BY <1>1, <1>3, <1>4

LEMMA StoreFrame ==
    ASSUME NEW s, Screen(s), Fits(s), ~Stale(s), s.lines \in 0 .. MaxLines,
           NEW t, t = store_command(s)
    PROVE  /\ StoredAt(s, t) /\ t.pc = s.pc
           /\ t.lines = s.lines \/ t.lines = s.lines + 1
<1>1. CASE Refuses(s)
  <2>1. t = s
    BY <1>1 DEF store_command
  <2> QED
    BY <2>1, KeepsNothing DEF StoredAt
<1>2. CASE ~Refuses(s)
  <2> DEFINE v == [s EXCEPT !.lines = s.lines + 1]
  <2>1. s \in Calculators /\ s.lines + 1 \in Int
    BY DEF Screen
  <2>2. t = Rewritten(v)
    BY <1>2, <2>1 DEF store_command, Calculators
  <2>3. v \in Calculators /\ v.lines = s.lines + 1 /\ Keeps(s, v, {"lines"})
    BY <2>1, PutLines
  <2> HIDE DEF v
  <2>4. Screen(v)
    BY <2>3, SameScreen
  <2>5. v.menu = s.menu /\ v.sect = s.sect /\ v.mvars = s.mvars /\ v.pc = s.pc
        /\ v.cb = s.cb /\ v.edit = s.edit /\ v.baseapp = s.baseapp /\ v.role = s.role
    BY <2>3 DEF Keeps, Fields
  <2>6. Fits(v) /\ ~Stale(v)
    BY <2>5 DEF Fits, Stale
  <2>7. /\ Steers(v, t) /\ ~Stale(t) /\ Keeps(v, t, {"menu", "sect", "err", "role"})
    BY <2>2, <2>4, <2>6, RewrittenFrame
  <2>8. t.pc = s.pc /\ t.lines = s.lines + 1
    BY <2>3, <2>5, <2>7 DEF Keeps, Fields
  <2>9. t.lines \in 0 .. MaxLines
    BY <1>2, <2>8 DEF Refuses
  <2>10. Keeps(s, t, LineFields)
    BY <2>3, <2>7 DEF Keeps, LineFields, MenuFields, AppFields
  <2> QED
    BY <2>5, <2>7, <2>8, <2>9, <2>10 DEF StoredAt, Steers
<1> QED
  BY <1>1, <1>2

LEMMA StoreAfterFrame ==
    ASSUME NEW s, Screen(s), Fits(s), ~Stale(s), s.lines \in 0 .. MaxLines,
           s.pc \in -1 .. s.lines, NEW t, t = store_command_after(s)
    PROVE  StoredAt(s, t) /\ t.pc \in -1 .. t.lines
<1>1. CASE Refuses(s)
  <2>1. t = s
    BY <1>1 DEF store_command_after
  <2> QED
    BY <2>1, KeepsNothing DEF StoredAt
<1>2. CASE ~Refuses(s)
  <2> DEFINE n == s.lines + 1
             p == After(s.pc, s.lines)
             z == [s EXCEPT !.pc = p]
             v == [z EXCEPT !.lines = n]
  <2>1. s \in Calculators /\ s.lines \in Nat
    BY DEF Screen
  <2>2. p \in 0 .. s.lines
    BY <2>1, AfterLine
  <2>3. t = Rewritten(v)
    BY <1>2, <2>1 DEF store_command_after, Calculators
  <2> HIDE DEF p
  <2>4. n \in Int /\ p \in Int
    BY <2>1, <2>2
  <2>5. z \in Calculators /\ z.pc = p /\ Keeps(s, z, {"pc"})
    BY <2>1, <2>4, PutPc
  <2> HIDE DEF z, n
  <2>6. v \in Calculators /\ v.lines = n /\ Keeps(z, v, {"lines"})
    BY <2>4, <2>5, PutLines
  <2> HIDE DEF v
  <2>7. Keeps(s, v, {"pc", "lines"})
    BY <2>5, <2>6 DEF Keeps
  <2>8. Screen(v)
    BY <2>6, <2>7, SameScreen
  <2>9. v.menu = s.menu /\ v.sect = s.sect /\ v.mvars = s.mvars
        /\ v.cb = s.cb /\ v.edit = s.edit /\ v.baseapp = s.baseapp /\ v.role = s.role
    BY <2>7 DEF Keeps, Fields
  <2>10. v.pc = p
    BY <2>5, <2>6 DEF Keeps, Fields
  <2>11. Fits(v) /\ ~Stale(v)
    BY <2>9 DEF Fits, Stale
  <2>12. /\ Steers(v, t) /\ ~Stale(t) /\ Keeps(v, t, {"menu", "sect", "err", "role"})
    BY <2>3, <2>8, <2>11, RewrittenFrame
  <2>13. t.pc = p /\ t.lines = n
    BY <2>6, <2>10, <2>12 DEF Keeps, Fields
  <2>14. t.lines \in 0 .. MaxLines /\ t.pc \in -1 .. t.lines
    BY <1>2, <2>2, <2>13 DEF Refuses, n
  <2>15. Keeps(s, t, LineFields)
    BY <2>7, <2>12 DEF Keeps, LineFields, MenuFields, AppFields
  <2> QED
    BY <2>9, <2>12, <2>14, <2>15 DEF StoredAt, Steers
<1> QED
  BY <1>1, <1>2

LEMMA RestBy ==
    ASSUME NEW s, Inv(s), ~mode_command_entry(s), s.pend = "none", ~s.clall,
           NEW t, Screen(t), Fits(t), ~Stale(t), Keeps(s, t, RestFields),
           t.menu["command"] = "none", Counters(t), ~t.num, ~t.alpha, t.saved = -1
    PROVE  Rest(t)
<1>1. t.inc = s.inc /\ t.clall = s.clall /\ t.rpc = s.rpc /\ t.pend = s.pend
  BY DEF Keeps, RestFields, LineFields, MenuFields, AppFields, Fields
<1>2. ~t.rpc /\ t.pend = "none" /\ ~t.clall
  BY <1>1 DEF Inv, Modes
<1>3. EntryFits(t) /\ ~mode_command_entry(t)
  BY <1>1 DEF EntryFits, Inv, mode_command_entry
<1> QED
  BY <1>2, <1>3 DEF Rest, Free

LEMMA RestStored ==
    ASSUME NEW s, Rest(s), NEW t, StoredAt(s, t), t.pc \in -1 .. t.lines
    PROVE  Rest(t)
<1>1. Inv(s) /\ ~mode_command_entry(s) /\ s.pend = "none" /\ ~s.clall
  BY RestInv DEF Rest, Free
<1>2. Keeps(s, t, RestFields)
  BY DEF StoredAt, Keeps, RestFields
<1>3. t.num = s.num /\ t.nlen = s.nlen /\ t.alpha = s.alpha /\ t.alen = s.alen
      /\ t.saved = s.saved /\ t.prgm = s.prgm
  BY DEF StoredAt, Keeps, LineFields, MenuFields, AppFields, Fields
<1>4. t.saved = -1 /\ ~t.num /\ ~t.alpha
  BY <1>3 DEF Rest, Free
<1>5. Counters(t)
  BY <1>3, <1>4 DEF StoredAt, Counters, Rest, Free
<1> QED
  BY <1>1, <1>2, <1>4, <1>5, RestBy DEF StoredAt, Rest

LEMMA RestStoreAfter ==
    ASSUME NEW s, Rest(s) PROVE Rest(store_command_after(s))
<1>1. Screen(s) /\ Fits(s) /\ ~Stale(s) /\ s.lines \in 0 .. MaxLines /\ s.pc \in -1 .. s.lines
  BY DEF Rest, Free, Counters
<1> QED
  BY <1>1, StoreAfterFrame, RestStored

(* The program counter is set. *)
LEMMA RestMoves ==
    ASSUME NEW s, Rest(s), NEW p \in -1 .. s.lines, NEW t, t = [s EXCEPT !.pc = p]
    PROVE  Rest(t)
<1>1. s \in Calculators /\ Screen(s) /\ Fits(s) /\ ~Stale(s)
  BY RestFacts
<1>2. s.lines \in 0 .. MaxLines
  BY DEF Rest, Free, Counters
<1>3. p \in Int
  BY <1>2
<1>4. t \in Calculators /\ t.pc = p /\ Keeps(s, t, {"pc"})
  BY <1>1, <1>3, PutPc
<1>5. Screen(t)
  BY <1>1, <1>4, SameScreen
<1>6. /\ t.lines = s.lines /\ t.mvars = s.mvars /\ t.menu = s.menu /\ t.sect = s.sect
      /\ t.cb = s.cb /\ t.edit = s.edit /\ t.baseapp = s.baseapp /\ t.role = s.role
  BY <1>4 DEF Keeps, Fields
<1>7. Fits(t) /\ ~Stale(t)
  BY <1>1, <1>6 DEF Fits, Stale
<1>8. Keeps(s, t, LineFields)
  BY <1>4 DEF Keeps, LineFields
<1>9. StoredAt(s, t)
  BY <1>2, <1>5, <1>6, <1>7, <1>8 DEF StoredAt
<1> QED
  BY <1>4, <1>6, <1>9, RestStored

LEMMA SteppedRest ==
    ASSUME NEW s, Rest(s) PROVE Rest(sst(s)) /\ Rest(bst(s))
<1>1. s.lines \in 0 .. MaxLines /\ s.pc \in -1 .. s.lines
  BY DEF Rest, Free, Counters
<1>2. (IF s.pc = s.lines THEN -1 ELSE s.pc + 1) \in -1 .. s.lines
  BY <1>1
<1>3. (IF s.pc = -1 THEN s.lines ELSE s.pc - 1) \in -1 .. s.lines
  BY <1>1
<1> QED
  BY <1>2, <1>3, RestMoves DEF sst, bst

LEMMA DeletedRest ==
    ASSUME NEW s, Rest(s), NEW t, t = DeleteLine(s)
    PROVE  /\ Rest(t)
           /\ t.menu["app"] = s.menu["app"] /\ Keeps(s, t, LineFields)
<1>1. s \in Calculators /\ Screen(s) /\ Fits(s) /\ ~Stale(s)
      /\ s.lines \in 0 .. MaxLines /\ s.pc \in -1 .. s.lines /\ s.lines \in Int
  BY RestFacts DEF Rest, Free, Counters
<1>2. CASE t = s
  BY <1>2, KeepsNothing
<1> DEFINE z == [s EXCEPT !.pc = s.pc - 1]
<1>3. ASSUME s.pc # -1 PROVE s.pc - 1 \in -1 .. s.lines /\ (s.pc # s.lines => s.lines - 1 \in 0 .. MaxLines /\ s.pc - 1 \in -1 .. s.lines - 1)
  BY <1>1, <1>3
<1>4. ASSUME s.pc # -1
      PROVE  /\ Rest(z) /\ z \in Calculators /\ Screen(z) /\ z.pc = s.pc - 1 /\ Keeps(s, z, {"pc"})
             /\ z.menu = s.menu
  <2>1. Rest(z)
    BY <1>3, <1>4, RestMoves
  <2>2. s.pc - 1 \in Int
    BY <1>1
  <2>3. z \in Calculators /\ z.pc = s.pc - 1 /\ Keeps(s, z, {"pc"})
    BY <1>1, <2>2, PutPc
  <2>4. z.menu = s.menu
    BY <2>3 DEF Keeps, Fields
  <2> QED
    BY <2>1, <2>3, <2>4, RestFacts
<1>5. CASE s.pc # -1 /\ s.pc = s.lines
  <2>1. t = z
    BY <1>1, <1>5 DEF DeleteLine, Calculators
  <2>2. Keeps(s, t, LineFields)
    BY <1>4, <1>5, <2>1 DEF Keeps, LineFields
  <2> QED
    BY <1>4, <1>5, <2>1, <2>2
<1>6. CASE s.pc # -1 /\ s.pc # s.lines /\ ~s.locked
  <2> DEFINE v == [z EXCEPT !.lines = s.lines - 1]
  <2>1. t = Rewritten(v)
    BY <1>1, <1>6 DEF DeleteLine, Calculators
  <2> HIDE DEF z
  <2>2. s.lines - 1 \in Int
    BY <1>1
  <2>3. v \in Calculators /\ v.lines = s.lines - 1 /\ Keeps(z, v, {"lines"})
    BY <1>4, <1>6, <2>2, PutLines
  <2> HIDE DEF v
  <2>4. Screen(v)
    BY <1>4, <1>6, <2>3, SameScreen
  <2>5. /\ v.menu = z.menu /\ v.sect = z.sect /\ v.mvars = z.mvars /\ v.pc = z.pc
        /\ v.cb = z.cb /\ v.edit = z.edit /\ v.baseapp = z.baseapp /\ v.role = z.role
    BY <2>3 DEF Keeps, Fields
  <2>6. Fits(v) /\ ~Stale(v)
    BY <1>4, <1>6, <2>5, RestFacts DEF Fits, Stale
  <2>7. /\ Steers(v, t) /\ ~Stale(t) /\ Keeps(v, t, {"menu", "sect", "err", "role"})
        /\ t.menu["app"] = v.menu["app"]
    BY <2>1, <2>4, <2>6, RewrittenFrame
  <2>8. t.pc = s.pc - 1 /\ t.lines = s.lines - 1
    BY <1>4, <1>6, <2>3, <2>5, <2>7 DEF Keeps, Fields
  <2>9. Keeps(z, t, LineFields) /\ Keeps(s, t, LineFields)
    BY <1>4, <1>6, <2>3, <2>7 DEF Keeps, LineFields, MenuFields, AppFields
  <2>10. z.menu["command"] = "none"
    BY <1>4, <1>6, RestFacts
  <2>11. StoredAt(z, t)
    BY <1>3, <1>6, <2>5, <2>7, <2>8, <2>9, <2>10 DEF StoredAt, Steers
  <2>12. Rest(t)
    BY <1>3, <1>4, <1>6, <2>8, <2>11, RestStored
  <2>13. t.menu["app"] = s.menu["app"]
    BY <1>4, <1>6, <2>5, <2>7
  <2> QED
    BY <2>9, <2>12, <2>13
<1>7. t = s \/ (s.pc # -1 /\ s.pc = s.lines) \/ (s.pc # -1 /\ s.pc # s.lines /\ ~s.locked)
  <2>1. CASE s.pc = -1
    BY <1>1, <2>1 DEF DeleteLine
  <2>2. CASE s.pc # -1 /\ s.pc # s.lines /\ s.locked
    BY <2>2 DEF DeleteLine
  <2> QED
    BY <2>1, <2>2
<1> QED
  BY <1>2, <1>5, <1>6, <1>7

-----------------------------------------------------------------------------
(* What an argument may be chosen from                                     *)

LEMMA PromptSame ==
    ASSUME NEW s, Screen(s),
           s.menu["command"] \in {"varmenu", "integ"} => s.menu["app"] = s.menu["command"],
           s.menu["command"] = "ind" => s.inc.cmd = "GTODOT"
    PROVE  Prompt(s, s)
  BY KeepsNothing DEF Prompt, Beside

LEMMA CommandShown ==
    ASSUME NEW s, Screen(s), NEW m \in CommandMenus, NEW t, t = Shows(s, "command", m)
    PROVE  /\ Screen(t) /\ Keeps(s, t, {"menu", "sect"}) /\ Beside(s, t)
           /\ t.menu["command"] = m
<1>1. "command" \in Levels /\ m \in MenusOf("command")
  BY LevelFacts, MenusOfLevels
<1>2. /\ Screen(t) /\ Keeps(s, t, {"menu", "sect"})
      /\ \A k \in Levels : t.menu[k] = IF k = "command" THEN m ELSE s.menu[k]
      /\ \A k \in Levels :
             t.sect[k] = IF k = "command" /\ m # "catalog" THEN "top" ELSE s.sect[k]
  BY <1>1, ShowsMenu
<1>3. Beside(s, t) /\ t.menu["command"] = m
  BY <1>1, <1>2 DEF Beside
<1> QED
  BY <1>2, <1>3

LEMMA PromptShows ==
    ASSUME NEW s, Screen(s), NEW m \in CommandMenus,
           m \in {"varmenu", "integ"} => s.menu["app"] = m,
           m = "ind" => s.inc.cmd = "GTODOT"
    PROVE  Prompt(s, Shows(s, "command", m))
<1> DEFINE t == Shows(s, "command", m)
<1>1. /\ Screen(t) /\ Keeps(s, t, {"menu", "sect"}) /\ Beside(s, t)
      /\ t.menu["command"] = m
  BY CommandShown
<1> HIDE DEF t
<1>2. t.menu["app"] = s.menu["app"]
  BY <1>1, LevelFacts DEF Beside
<1>3. Prompt(s, t)
  BY <1>1, <1>2 DEF Prompt
<1> QED
  BY <1>3 DEF t

(* A section of the catalog of the level of commands *)
LEMMA PromptSection ==
    ASSUME NEW s, Screen(s), s.menu["command"] = "catalog", NEW x \in Sections \ ProgramSections
    PROVE  Prompt(s, set_cat_section(s, x))
<1> DEFINE t == set_cat_section(s, x)
<1>1. get_cat_index(s) = "command"
  BY FrontLevel, LevelFacts
<1>2. /\ Screen(t) /\ Keeps(s, t, {"sect"})
      /\ \A k \in Levels : t.sect[k] = IF k = "command" THEN x ELSE s.sect[k]
  BY <1>1, SectionSet
<1> HIDE DEF t
<1>3. t.menu = s.menu
  BY <1>2 DEF Keeps, Fields
<1>4. Keeps(s, t, {"menu", "sect"}) /\ Beside(s, t)
  BY <1>2, <1>3 DEF Keeps, Beside
<1>5. Prompt(s, t)
  BY <1>2, <1>3, <1>4 DEF Prompt
<1> QED
  BY <1>5 DEF t

LEMMA PromptCatalog ==
    ASSUME NEW s, Screen(s), NEW x \in Sections \ ProgramSections
    PROVE  Prompt(s, set_catalog_menu(s, x))
<1> DEFINE v == Shows(s, "command", "catalog")
           w == set_cat_section(v, x)
           n == Shows(s, "command", "none")
           t == set_catalog_menu(s, x)
<1>1. "catalog" \in CommandMenus /\ "none" \in CommandMenus
  BY DEF CommandMenus
<1>2. /\ Screen(v) /\ Keeps(s, v, {"menu", "sect"}) /\ Beside(s, v)
      /\ v.menu["command"] = "catalog"
  BY <1>1, CommandShown
<1>3. t = w \/ t = n
  BY DEF set_catalog_menu
<1> HIDE DEF v
<1>4. Prompt(v, w)
  BY <1>2, PromptSection
<1>5. Prompt(s, n)
  BY <1>1, PromptShows
<1> HIDE DEF w, t, n
<1>6. v.inc = s.inc
  BY <1>2 DEF Keeps, Fields
<1>7. Keeps(s, w, {"menu", "sect"}) /\ Beside(s, w)
  BY <1>2, <1>4 DEF Keeps, Beside, Prompt
<1>8. Prompt(s, w)
  BY <1>4, <1>6, <1>7 DEF Prompt
<1>9. Prompt(s, t)
  BY <1>3, <1>5, <1>8
<1> QED
  BY <1>9 DEF t

LEMMA PromptApplication ==
    ASSUME NEW s, Screen(s), NEW x \in Sections \ ProgramSections
    PROVE  Prompt(s, ByApplication(s, x)) /\ Prompt(s, ByLevels(s, x))
<1>1. Prompt(s, set_catalog_menu(s, x))
  BY PromptCatalog
<1>2. Prompt(s, ByApplication(s, x))
  <2>1. CASE s.menu["app"] \in {"varmenu", "integ"}
    <3> DEFINE m == s.menu["app"]
               v == Shows(s, "command", m)
               w == Cleared(v, "command")
    <3>1. m \in CommandMenus /\ m # "ind"
      BY <2>1 DEF CommandMenus
    <3>2. /\ Screen(v) /\ Keeps(s, v, {"menu", "sect"}) /\ Beside(s, v) /\ v.menu["command"] = m
      BY <3>1, CommandShown
    <3>3. ByApplication(s, x) = w
      BY <2>1 DEF ByApplication
    <3> HIDE DEF v
    <3>4. /\ Screen(w) /\ Keeps(v, w, {"menu", "sect"})
          /\ \A k \in Levels : w.menu[k] = v.menu[k] /\ w.sect[k] = v.sect[k]
      <4>1. "command" \in Levels /\ InFront["command"] = {}
        BY LevelFacts
      <4>2. /\ Screen(w) /\ Keeps(v, w, {"menu", "sect"})
            /\ \A k \in Levels :
                   w.menu[k] = IF k \in InFront["command"] THEN "none" ELSE v.menu[k]
            /\ \A k \in Levels :
                   w.sect[k] = IF k \in InFront["command"] THEN "top" ELSE v.sect[k]
        BY <3>2, <4>1, ClearedMenus
      <4> QED
        BY <4>1, <4>2
    <3> HIDE DEF w
    <3>5. Keeps(s, w, {"menu", "sect"}) /\ Beside(s, w) /\ w.menu["command"] = m
          /\ w.menu["app"] = m
      BY <3>2, <3>4, LevelFacts DEF Keeps, Beside
    <3>6. Prompt(s, w)
      BY <3>1, <3>4, <3>5 DEF Prompt
    <3> QED
      BY <3>3, <3>6
  <2>2. CASE s.menu["app"] \notin {"varmenu", "integ"}
    BY <1>1, <2>2 DEF ByApplication
  <2> QED
    BY <2>1, <2>2
<1> QED
  BY <1>1, <1>2 DEF ByLevels

(* ... and the entry goes on with it. *)
LEMMA PromptGoesOn ==
    ASSUME NEW s, Entering(s), NEW v, Screen(v), Keeps(s, v, {"inc", "local"}),
           v.inc.cmd # "none", v.inc.cmd \notin Internal, v.inc.type # "ckey",
           v.inc.type = "mkey" => v.inc.cmd = "KEYG",
           v.inc.cmd # "PRP" => s.inc.cmd # "PRP",
           NEW t, Prompt(v, t)
    PROVE  GoesOn(s, t)
<1>1. v.menu = s.menu /\ v.sect = s.sect
  BY DEF Keeps, Fields
<1>2. t.inc = v.inc
  BY DEF Prompt, Keeps, Fields
<1>3. Screen(t) /\ Beside(s, t)
  BY <1>1 DEF Prompt, Beside
<1>4. Keeps(s, t, {"inc", "menu", "sect", "local"})
  BY DEF Prompt, Keeps
<1>5. mode_command_entry(t)
  BY <1>2 DEF mode_command_entry
<1>6. EntryFits(t)
  BY <1>2 DEF EntryFits, Prompt
<1>7. t.menu["command"] \in {"varmenu", "integ"} => t.menu["app"] = t.menu["command"]
  BY DEF Prompt
<1> QED
  BY <1>2, <1>3, <1>4, <1>5, <1>6, <1>7, GoesOnBy

-----------------------------------------------------------------------------
(* The beginning of an entry                                               *)

LEMMA ArgFacts ==
    ASSUME NEW c
    PROVE  /\ ArgType(c) \in ArgTypes
           /\ c = "ASSIGNa" => ArgType(c) = "named"
           /\ c = "LBL" => ArgType(c) = "other"
           /\ c = "XSTR" => ArgType(c) = "xstr"
           /\ c = "GTODOT" => ArgType(c) = "other"
           /\ c = "KEYG" => ArgType(c) = "mkey"
           /\ c = "KEY1G" => ArgType(c) = "lbl"
           /\ c = "GOTOCOLUMN" => ArgType(c) = "count"
           /\ c = "ASSIGNb" => ArgType(c) = "ckey"
           /\ c = "PRP" => ArgType(c) = "prgm"
           /\ c = "MVAR" => ArgType(c) = "rvar"
           /\ ArgType(c) = "mkey" => c = "KEYG"
           /\ ArgType(c) = "ckey" => c = "ASSIGNb"
           /\ ArgType(c) # "none" => c \notin Internal /\ c # "none"
           /\ c \in PrgmOnly => ArgType(c) \in {"other", "rvar"}
           /\ ArgType(c) \in {"mkey", "lbl", "count", "ckey", "named"} => c \notin PrgmOnly
<1> DEFINE all == {"STO", "STO_ADD", "ISG", "CLV", "ASSIGNa", "XEQ",
                   "GTO", "KEY1G", "PRP", "TONE", "FIX", "DIM", "EDITN", "MVAR", "INTEG",
                   "KEYG", "SIZE", "GOTOROW", "GOTOCOLUMN", "ASSIGNb", "XSTR", "LBL", "GTODOT"}
<1>1. c \in {"STO", "STO_ADD"} => ArgType(c) = "var"
  BY DEF ArgType
<1>2. c \in {"ISG"} => ArgType(c) = "real"
  BY DEF ArgType
<1>3. c \in {"CLV", "ASSIGNa"} => ArgType(c) = "named"
  BY DEF ArgType
<1>4. c \in {"XEQ", "GTO", "KEY1G"} => ArgType(c) = "lbl"
  BY DEF ArgType
<1>5. c \in {"PRP"} => ArgType(c) = "prgm"
  BY DEF ArgType
<1>6. c \in {"TONE"} => ArgType(c) = "num9"
  BY DEF ArgType
<1>7. c \in {"FIX"} => ArgType(c) = "num11"
  BY DEF ArgType
<1>8. c \in {"DIM", "EDITN"} => ArgType(c) = "mat"
  BY DEF ArgType
<1>9. c \in {"MVAR", "INTEG"} => ArgType(c) = "rvar"
  BY DEF ArgType
<1>10. c \in {"KEYG"} => ArgType(c) = "mkey"
  BY DEF ArgType
<1>11. c \in {"SIZE", "GOTOROW", "GOTOCOLUMN"} => ArgType(c) = "count"
  BY DEF ArgType
<1>12. c \in {"ASSIGNb"} => ArgType(c) = "ckey"
  BY DEF ArgType
<1>13. c \in {"XSTR"} => ArgType(c) = "xstr"
  BY DEF ArgType
<1>14. c \in {"LBL", "GTODOT"} => ArgType(c) = "other"
  BY DEF ArgType
<1>15. c \notin all => ArgType(c) = "none"
  BY DEF ArgType
<1>16. ArgType(c) \in ArgTypes
  <2>1. CASE c \in {"STO", "STO_ADD", "ISG", "CLV", "ASSIGNa", "XEQ", "GTO", "KEY1G", "PRP"}
    BY <1>1, <1>2, <1>3, <1>4, <1>5, <2>1 DEF ArgTypes
  <2>2. CASE c \in {"TONE", "FIX", "DIM", "EDITN", "MVAR", "INTEG", "KEYG"}
    BY <1>6, <1>7, <1>8, <1>9, <1>10, <2>2 DEF ArgTypes
  <2>3. CASE c \in {"SIZE", "GOTOROW", "GOTOCOLUMN", "ASSIGNb", "XSTR", "LBL", "GTODOT"}
    BY <1>11, <1>12, <1>13, <1>14, <2>3 DEF ArgTypes
  <2>4. CASE c \notin all
    BY <1>15, <2>4 DEF ArgTypes
  <2> QED
    BY <2>1, <2>2, <2>3, <2>4
<1>17. /\ ArgType(c) = "mkey" => c = "KEYG"
      /\ ArgType(c) = "ckey" => c = "ASSIGNb"
  BY <1>1, <1>2, <1>3, <1>4, <1>5, <1>6, <1>7, <1>8, <1>9, <1>10, <1>11, <1>12, <1>13, <1>14, <1>15
<1>18. c = "none" \/ c \in Internal => ArgType(c) = "none"
  BY <1>15 DEF Internal
<1> QED
  BY <1>1, <1>2, <1>3, <1>4, <1>5, <1>6, <1>7, <1>8, <1>9, <1>10, <1>11, <1>12, <1>13, <1>14, <1>15, <1>16, <1>17, <1>18 DEF PrgmOnly

LEMMA BegunFrame ==
    ASSUME NEW s, Screen(s), NEW c \in Words, NEW v, v = Begun(s, c, ArgType(c))
    PROVE  /\ Screen(v) /\ Keeps(s, v, {"inc"}) /\ v.menu = s.menu /\ v.sect = s.sect
           /\ v.inc.cmd = c /\ v.inc.type = ArgType(c) /\ v.prgm = s.prgm /\ v.kinds = s.kinds
<1> DEFINE type == ArgType(c)
           a == type \in {"named", "prgm", "rvar", "mat", "xstr"}
           n == CASE type = "num9" -> 1 [] type = "count" -> CountDigits [] OTHER -> 2
           x == [cmd |-> c, type |-> type, ind |-> FALSE, alpha |-> a, len |-> 0, max |-> n]
<1>1. v = [s EXCEPT !.inc = x]
  BY DEF Begun
<1>2. type \in ArgTypes
  BY ArgFacts
<1>3. a \in BOOLEAN
  OBVIOUS
<1>4. n \in Int
  <2>1. CountDigits \in Int
    OBVIOUS
  <2>2. n = 1 \/ n = CountDigits \/ n = 2
    BY DEF n
  <2> QED
    BY <2>1, <2>2
<1> HIDE DEF type, a, n
<1>5. x \in EntryStates /\ x.cmd = c /\ x.type = type
  BY <1>2, <1>3, <1>4 DEF EntryStates
<1> HIDE DEF x
<1>6. s \in Calculators
  BY DEF Screen
<1>7. v \in Calculators /\ v.inc = x /\ Keeps(s, v, {"inc"})
  BY <1>1, <1>5, <1>6, PutEntry
<1>8. Screen(v)
  BY <1>7, SameScreen
<1>9. v.menu = s.menu /\ v.sect = s.sect /\ v.prgm = s.prgm /\ v.kinds = s.kinds
  BY <1>7 DEF Keeps, Fields
<1> QED
  BY <1>5, <1>7, <1>8, <1>9 DEF type

LEMMA PromptBegins ==
    ASSUME NEW s, NEW v, Keeps(s, v, {"inc", "local"}), NEW c, v.inc.cmd = c, v.inc.type = ArgType(c),
           NEW t, Prompt(v, t), ArgType(c) = "ckey" => t.menu["command"] \in Custom
    PROVE  EntryBegun(s, c, t)
<1>1. v.menu = s.menu /\ v.sect = s.sect
  BY DEF Keeps, Fields
<1>2. t.inc = v.inc
  BY DEF Prompt, Keeps, Fields
<1>3. Keeps(s, t, {"inc", "menu", "sect", "local"}) /\ Beside(s, t)
  BY <1>1 DEF Prompt, Beside, Keeps
<1> QED
  BY <1>2, <1>3 DEF EntryBegun, Prompt

LEMMA StartFrame ==
    ASSUME NEW s, Screen(s), NEW c \in Words,
           s.menu["command"] \in {"varmenu", "integ"} => s.menu["app"] = s.menu["command"],
           s.menu["command"] = "ind" => c = "GTODOT",
           NEW t, t = start_incomplete_command(s, c)
    PROVE  \/ EntryBegun(s, c, t)
           \/ /\ ~s.prgm /\ ArgType(c) \notin {"mkey", "lbl", "count", "ckey", "named"}
              /\ t = s \/ t = [s EXCEPT !.inc = NoEntry]
<1> DEFINE v == Begun(s, c, ArgType(c))
           type == ArgType(c)
           w == [v EXCEPT !.local = FALSE]
<1>1. /\ Screen(v) /\ Keeps(s, v, {"inc"}) /\ v.menu = s.menu /\ v.sect = s.sect
      /\ v.inc.cmd = c /\ v.inc.type = type /\ v.prgm = s.prgm
  BY BegunFrame
<1>2. CASE ~s.prgm /\ c \in PrgmOnly
  <2>1. t = s
    BY <1>2 DEF start_incomplete_command
  <2> QED
    BY <1>2, <2>1, ArgFacts
<1>3. CASE ~(~s.prgm /\ c \in PrgmOnly)
  <2>1. t = Prompted(s, v)
    BY <1>3 DEF start_incomplete_command
  <2> HIDE DEF v
  <2>2. Keeps(s, v, {"inc", "local"})
    BY <1>1 DEF Keeps
  <2>3. \A x : Prompt(v, x) /\ (type = "ckey" => x.menu["command"] \in Custom) => EntryBegun(s, c, x)
    BY <1>1, <2>2, PromptBegins
  <2>4. \A x \in Sections \ ProgramSections : Prompt(v, set_catalog_menu(v, x)) /\ Prompt(v, ByLevels(v, x))
    BY <1>1, PromptCatalog, PromptApplication
  <2>5. Prompt(v, v)
    BY <1>1, PromptSame
  <2>6. {"top", "vars_only", "real_only", "mat_only", "pgm_only"} \subseteq Sections \ ProgramSections
    BY DEF Sections, ProgramSections
  <2>7. /\ c = "ASSIGNa" => type = "named"
        /\ c = "LBL" => type = "other"
        /\ c = "XSTR" => type = "xstr"
        /\ type \in ArgTypes
    BY ArgFacts
  <2> HIDE DEF type
  <2>8. CASE c = "ASSIGNa"
    <3>1. t = set_catalog_menu(w, "top")
      BY <1>1, <2>1, <2>7, <2>8 DEF Prompted
    <3>2. v \in Calculators /\ FALSE \in BOOLEAN
      BY <1>1 DEF Screen
    <3>3. w \in Calculators /\ Keeps(v, w, {"local"})
      BY <3>2, PutLocal
    <3> HIDE DEF w
    <3>4. Screen(w)
      BY <1>1, <3>3, SameScreen
    <3>5. w.inc = v.inc
      BY <3>3 DEF Keeps, Fields
    <3>6. Keeps(s, w, {"inc", "local"})
      BY <2>2, <3>3 DEF Keeps
    <3>7. Prompt(w, t)
      BY <2>6, <3>1, <3>4, PromptCatalog
    <3>8. EntryBegun(s, c, t)
      BY <1>1, <2>7, <2>8, <3>5, <3>6, <3>7, PromptBegins DEF type
    <3> QED
      BY <3>8
  <2>9. CASE c # "ASSIGNa" /\ type = "named"
    <3>1. t = set_catalog_menu(v, "vars_only")
      BY <1>1, <2>1, <2>7, <2>9 DEF Prompted
    <3> QED
      BY <2>3, <2>4, <2>6, <2>9, <3>1
  <2>10. CASE type = "ckey"
    <3>1. t = Shows(v, "command", "custom1")
      BY <1>1, <2>1, <2>7, <2>10 DEF Prompted
    <3>2. "custom1" \in CommandMenus /\ "custom1" \in Custom
      BY DEF CommandMenus, Custom
    <3>3. t.menu["command"] = "custom1"
      BY <1>1, <3>1, <3>2, CommandShown
    <3>4. Prompt(v, t)
      BY <1>1, <3>1, <3>2, PromptShows
    <3> QED
      BY <2>3, <3>2, <3>3, <3>4
  <2>11. CASE type = "mkey"
    <3>1. t = Shows(v, "command", "blank")
      BY <1>1, <2>1, <2>7, <2>11 DEF Prompted
    <3>2. "blank" \in CommandMenus
      BY DEF CommandMenus
    <3>3. Prompt(v, t)
      BY <1>1, <3>1, <3>2, PromptShows
    <3> QED
      BY <2>3, <2>11, <3>3
  <2>12. CASE type \in {"var", "real"}
    <3>1. type = "var" => t = ByLevels(v, "vars_only")
      BY <1>1, <2>1, <2>7 DEF Prompted
    <3>2. type = "real" => t = ByLevels(v, "real_only")
      BY <1>1, <2>1, <2>7 DEF Prompted
    <3> QED
      BY <2>3, <2>4, <2>6, <2>12, <3>1, <3>2
  <2>13. CASE type = "rvar"
    <3>1. \/ t = set_catalog_menu(v, "real_only") \/ t = Shows(v, "command", "alpha1") \/ t = v
          \/ ~s.prgm /\ t = [s EXCEPT !.inc = NoEntry]
      BY <1>1, <2>1, <2>7, <2>13 DEF Prompted
    <3>2. "alpha1" \in CommandMenus
      BY DEF CommandMenus, AlphaMenus
    <3>3. Prompt(v, Shows(v, "command", "alpha1"))
      BY <1>1, <3>2, PromptShows
    <3> QED
      BY <2>3, <2>4, <2>5, <2>6, <2>13, <3>1, <3>3 DEF type
  <2>14. CASE type = "mat"
    <3>1. \/ t = set_catalog_menu(v, "mat_only") \/ t = v
          \/ ~s.prgm /\ t = [s EXCEPT !.inc = NoEntry]
      BY <1>1, <2>1, <2>7, <2>14 DEF Prompted
    <3> QED
      BY <2>3, <2>4, <2>5, <2>6, <2>14, <3>1 DEF type
  <2>15. CASE type \in {"lbl", "prgm"}
    <3>1. t = set_catalog_menu(v, "pgm_only")
      BY <1>1, <2>1, <2>7, <2>15 DEF Prompted
    <3> QED
      BY <2>3, <2>4, <2>6, <2>15, <3>1
  <2>16. CASE type \in {"num9", "num11", "count", "xstr", "other", "none"}
    <3>1. c \in {"LBL", "XSTR"} => t = Shows(v, "command", "alpha1")
      BY <1>1, <2>1, <2>7 DEF Prompted
    <3>2. c \notin {"LBL", "XSTR"} => t = v
      BY <1>1, <2>1, <2>7, <2>16 DEF Prompted
    <3>3. "alpha1" \in CommandMenus
      BY DEF CommandMenus, AlphaMenus
    <3>4. Prompt(v, Shows(v, "command", "alpha1"))
      BY <1>1, <3>3, PromptShows
    <3> QED
      BY <2>3, <2>5, <2>16, <3>1, <3>2, <3>4
  <2> QED
    BY <2>7, <2>8, <2>9, <2>10, <2>11, <2>12, <2>13, <2>14, <2>15, <2>16 DEF ArgTypes
<1> QED
  BY <1>2, <1>3

LEMMA BegunEntering ==
    ASSUME NEW s, Free(s), s.saved # -1 => s.prgm, NEW c, ArgType(c) # "none",
           NEW t, EntryBegun(s, c, t)
    PROVE  /\ Entering(t) /\ t.inc.cmd = c /\ BelowSame(s, t)
           /\ Keeps(s, t, {"inc", "menu", "sect", "local"})
<1>1. c \notin Internal /\ c # "none"
      /\ (ArgType(c) = "mkey" => c = "KEYG") /\ (ArgType(c) = "ckey" => c = "ASSIGNb")
  BY ArgFacts
<1>2. mode_command_entry(t)
  BY <1>1 DEF EntryBegun, mode_command_entry
<1>3. EntryFits(t)
  BY <1>1 DEF EntryBegun, EntryFits
<1>4. Entering(t)
  BY <1>2, <1>3, EntryInv DEF EntryBegun
<1>5. BelowSame(s, t)
  BY LevelFacts DEF EntryBegun, Beside, BelowSame
<1> QED
  BY <1>4, <1>5 DEF EntryBegun

(* The place the entry began at is saved. *)
LEMMA FreePlace ==
    ASSUME NEW s, Rest(s), NEW t \in Calculators, Keeps(s, t, {"saved", "pc"}),
           t.saved = s.pc, t.pc \in -1 .. s.lines
    PROVE  /\ Free(t) /\ t.lines = s.lines /\ t.prgm = s.prgm /\ t.menu = s.menu
<1>1. s \in Calculators /\ Screen(s) /\ Fits(s) /\ ~Stale(s)
      /\ s.lines \in 0 .. MaxLines /\ s.pc \in -1 .. s.lines
  BY RestFacts DEF Rest, Free, Counters
<1>7. /\ t.lines = s.lines /\ t.mvars = s.mvars /\ t.menu = s.menu /\ t.sect = s.sect
      /\ t.cb = s.cb /\ t.edit = s.edit /\ t.baseapp = s.baseapp /\ t.role = s.role
      /\ t.prgm = s.prgm /\ t.alen = s.alen /\ t.nlen = s.nlen /\ t.num = s.num
      /\ t.alpha = s.alpha /\ t.clall = s.clall /\ t.rpc = s.rpc /\ t.pend = s.pend
  BY DEF Keeps, Fields
<1>8. Screen(t)
  BY <1>1, SameScreen
<1>9. Fits(t) /\ ~Stale(t)
  BY <1>1, <1>7 DEF Fits, Stale
<1>10. Counters(t)
  BY <1>1, <1>7 DEF Rest, Free, Counters
<1>11. Free(t)
  BY <1>7, <1>8, <1>9, <1>10 DEF Rest, Free
<1> QED
  BY <1>7, <1>11

(* The place of a new line is opened. *)
LEMMA FreeOpened ==
    ASSUME NEW s, Rest(s), NEW t, t = Opened(s)
    PROVE  /\ Free(t) /\ Keeps(s, t, {"saved", "pc"}) /\ t.saved = s.pc
           /\ t.pc = After(s.pc, s.lines) /\ t.lines = s.lines
           /\ t.prgm = s.prgm /\ t.menu = s.menu /\ t # s
<1> DEFINE p == After(s.pc, s.lines)
           v == [s EXCEPT !.saved = s.pc]
<1>1. s \in Calculators /\ s.lines \in Nat /\ s.pc \in -1 .. s.lines /\ s.saved = -1
  BY RestFacts DEF Rest, Free, Counters
<1>2. p \in 0 .. s.lines
  BY <1>1, AfterLine
<1>3. t = [v EXCEPT !.pc = p]
  BY <1>1 DEF Opened, Calculators
<1> HIDE DEF p
<1>4. s.pc \in Int /\ p \in Int
  BY <1>1, <1>2
<1>5. v \in Calculators /\ v.saved = s.pc /\ Keeps(s, v, {"saved"})
  BY <1>1, <1>4, PutSaved
<1> HIDE DEF v
<1>6. t \in Calculators /\ t.pc = p /\ Keeps(v, t, {"pc"})
  BY <1>3, <1>4, <1>5, PutPc
<1>7. Keeps(s, t, {"saved", "pc"}) /\ t.saved = s.pc
  BY <1>5, <1>6 DEF Keeps, Fields
<1>8. Free(t) /\ t.lines = s.lines /\ t.prgm = s.prgm /\ t.menu = s.menu
  BY <1>2, <1>6, <1>7, FreePlace
<1>9. t # s
  BY <1>1, <1>2, <1>6, <1>7
<1> QED
  BY <1>6, <1>7, <1>8, <1>9 DEF p

LEMMA ForgottenRest ==
    ASSUME NEW s, Rest(s) PROVE Rest([s EXCEPT !.inc = NoEntry])
<1> DEFINE t == [s EXCEPT !.inc = NoEntry]
<1>1. s \in Calculators /\ Screen(s) /\ Fits(s) /\ ~Stale(s) /\ s.menu["command"] = "none"
  BY RestFacts
<1>2. NoEntry \in EntryStates /\ NoEntry.cmd = "none" /\ NoEntry.type = "none"
  BY DEF NoEntry, EntryStates, Words, ArgTypes
<1>3. t \in Calculators /\ t.inc = NoEntry /\ Keeps(s, t, {"inc"})
  BY <1>1, <1>2, PutEntry
<1> HIDE DEF t
<1>4. /\ t.lines = s.lines /\ t.mvars = s.mvars /\ t.menu = s.menu /\ t.sect = s.sect
      /\ t.cb = s.cb /\ t.edit = s.edit /\ t.baseapp = s.baseapp /\ t.role = s.role
      /\ t.prgm = s.prgm /\ t.alen = s.alen /\ t.nlen = s.nlen /\ t.num = s.num
      /\ t.alpha = s.alpha /\ t.clall = s.clall /\ t.rpc = s.rpc /\ t.pend = s.pend
      /\ t.pc = s.pc /\ t.saved = s.saved
  BY <1>3 DEF Keeps, Fields
<1>5. Screen(t)
  BY <1>1, <1>3, SameScreen
<1>6. Fits(t) /\ ~Stale(t) /\ Counters(t)
  BY <1>1, <1>4 DEF Fits, Stale, Rest, Free, Counters
<1>7. EntryFits(t) /\ ~mode_command_entry(t)
  BY <1>1, <1>2, <1>3, <1>4 DEF EntryFits, mode_command_entry, Internal
<1>8. Rest(t)
  BY <1>1, <1>4, <1>5, <1>6, <1>7 DEF Rest, Free
<1> QED
  BY <1>8 DEF t

(* An entry is begun at rest. *)
LEMMA StartsActed ==
    ASSUME NEW s, Rest(s), NEW c \in Words, ArgType(c) # "none",
           NEW v, Free(v), v.prgm = s.prgm, v.saved # -1 => v.prgm, v.menu = s.menu,
           v = s \/ (s.prgm /\ v.saved = s.pc /\ v.lines = s.lines
                     /\ (c # "PRP" => v.pc = After(s.pc, s.lines))),
           NEW t, t = start_incomplete_command(v, c)
    PROVE  Acted(s, t) \/ (s.prgm /\ v = s)
<1>1. Screen(v) /\ v.menu["command"] = "none"
  BY RestFacts DEF Free
<1>2. \/ EntryBegun(v, c, t)
      \/ ~v.prgm /\ (t = v \/ t = [v EXCEPT !.inc = NoEntry])
  BY <1>1, StartFrame
<1>3. CASE EntryBegun(v, c, t)
  <2>1. /\ Entering(t) /\ t.inc.cmd = c
        /\ Keeps(v, t, {"inc", "menu", "sect", "local"})
    BY <1>3, BegunEntering
  <2>2. t.prgm = v.prgm /\ t.saved = v.saved /\ t.pc = v.pc /\ t.lines = v.lines
    BY <2>1 DEF Keeps, Fields
  <2>3. Inv(t) /\ ~t.alpha
    BY <2>1 DEF Entering, Inv, Modes
  <2> QED
    BY <2>1, <2>2, <2>3 DEF Acted, Started
<1>4. CASE ~v.prgm /\ (t = v \/ t = [v EXCEPT !.inc = NoEntry])
  <2>1. v = s
    BY <1>4
  <2> QED
    BY <1>4, <2>1, ForgottenRest, RestActed
<1> QED
  BY <1>2, <1>3, <1>4

LEMMA AcceptedActed ==
    ASSUME NEW s, Rest(s), NEW c \in Words, c \notin Internal, c # "GTODOT",
           NEW t, t = Accepted(s, c)
    PROVE  Acted(s, t)
<1>1. s \in Calculators /\ s.lines \in 0 .. MaxLines /\ s.pc \in -1 .. s.lines /\ s.lines \in Nat
      /\ Free(s) /\ s.saved = -1
  BY RestFacts DEF Rest, Free, Counters
<1>2. CASE ArgType(c) = "none" /\ s.prgm /\ c \notin Immediate
  <2>1. t = store_command_after(s)
    BY <1>2 DEF Accepted
  <2> QED
    BY <2>1, RestStoreAfter, RestActed
<1>3. CASE ArgType(c) = "none" /\ (~s.prgm \/ c \in Immediate)
  <2>1. t = [s EXCEPT !.pend = c]
    BY <1>3 DEF Accepted
  <2> QED
    BY <2>1, Pends DEF Internal
<1>4. CASE ArgType(c) # "none" /\ s.prgm /\ c \notin Immediate
  <2> DEFINE v == Opened(s)
  <2>1. t = start_incomplete_command(v, c)
    BY <1>4 DEF Accepted
  <2>2. /\ Free(v) /\ v.saved = s.pc /\ v.pc = After(s.pc, s.lines) /\ v.lines = s.lines
        /\ v.prgm = s.prgm /\ v.menu = s.menu /\ v # s
    BY FreeOpened
  <2> HIDE DEF v
  <2> QED
    BY <1>4, <2>1, <2>2, StartsActed
<1>5. CASE ArgType(c) # "none" /\ s.prgm /\ c \in Immediate
  <2> DEFINE v == [s EXCEPT !.saved = s.pc]
  <2>1. t = start_incomplete_command(v, c)
    BY <1>5 DEF Accepted
  <2>2. v \in Calculators /\ v.saved = s.pc /\ Keeps(s, v, {"saved"})
    <3>1. s.pc \in Int
      BY <1>1
    <3> QED
      BY <1>1, <3>1, PutSaved
  <2> HIDE DEF v
  <2>3. /\ Free(v) /\ v.saved = s.pc /\ v.lines = s.lines /\ v.pc = s.pc
        /\ v.prgm = s.prgm /\ v.menu = s.menu
    <3>1. Keeps(s, v, {"saved", "pc"}) /\ v.pc = s.pc
      BY <2>2 DEF Keeps, Fields
    <3> QED
      BY <1>1, <2>2, <3>1, FreePlace
  <2>4. c = "PRP"
    <3>1. ArgType("GTODOTDOT") = "none" /\ ArgType("CLALLa") = "none"
      BY DEF ArgType
    <3> QED
      BY <1>5, <3>1 DEF Immediate
  <2>5. /\ Screen(v) /\ v.menu["command"] = "none" /\ v.prgm
    BY <1>5, <2>3, RestFacts DEF Free
  <2>6. EntryBegun(v, c, t)
    BY <2>1, <2>5, StartFrame
  <2>7. Entering(t) /\ t.inc.cmd = c /\ Keeps(v, t, {"inc", "menu", "sect", "local"})
    BY <1>5, <2>3, <2>6, BegunEntering
  <2>8. t.prgm = v.prgm /\ t.saved = v.saved /\ t.lines = v.lines
    BY <2>7 DEF Keeps, Fields
  <2>9. Inv(t) /\ ~t.alpha
    BY <2>7 DEF Entering, Inv, Modes
  <2> QED
    BY <1>5, <2>3, <2>4, <2>7, <2>8, <2>9 DEF Acted, Started
<1>6. CASE ArgType(c) # "none" /\ ~s.prgm
  <2>1. t = start_incomplete_command(s, c)
    BY <1>6 DEF Accepted
  <2> QED
    BY <1>1, <1>6, <2>1, StartsActed
<1> QED
  BY <1>2, <1>3, <1>4, <1>5, <1>6

-----------------------------------------------------------------------------
(* Commands at rest                                                        *)

(* CLALL asks before it does anything. *)
LEMMA AskedInv ==
    ASSUME NEW s, Rest(s), NEW t, t = [s EXCEPT !.clall = TRUE]
    PROVE  Inv(t) /\ ~t.alpha /\ ~t.num /\ ~mode_command_entry(t) /\ t.prgm = s.prgm
           /\ t.pc = s.pc /\ t.lines = s.lines /\ t.pend = "none"
<1>1. s \in Calculators /\ Screen(s) /\ Fits(s) /\ ~Stale(s) /\ TRUE \in BOOLEAN
  BY RestFacts
<1>2. t \in Calculators /\ Keeps(s, t, {"clall"})
  BY <1>1, PutClall
<1>3. /\ t.lines = s.lines /\ t.mvars = s.mvars /\ t.menu = s.menu /\ t.sect = s.sect
      /\ t.cb = s.cb /\ t.edit = s.edit /\ t.baseapp = s.baseapp /\ t.role = s.role
      /\ t.prgm = s.prgm /\ t.alen = s.alen /\ t.nlen = s.nlen /\ t.num = s.num
      /\ t.alpha = s.alpha /\ t.rpc = s.rpc /\ t.pend = s.pend
      /\ t.pc = s.pc /\ t.saved = s.saved /\ t.inc = s.inc
  BY <1>2 DEF Keeps, Fields
<1>4. Screen(t)
  BY <1>1, <1>2, SameScreen
<1>5. Fits(t) /\ ~Stale(t)
  BY <1>1, <1>3 DEF Fits, Stale
<1>6. Counters(t) /\ EntryFits(t) /\ ~mode_command_entry(t)
  BY <1>3 DEF Rest, Free, Counters, EntryFits, mode_command_entry
<1>7. Modes(t)
  BY <1>3, <1>5, <1>6 DEF Rest, Free, Modes
<1> QED
  BY <1>3, <1>4, <1>5, <1>6, <1>7 DEF Inv, Rest, Free

LEMMA ConfirmActed ==
    ASSUME NEW s, Rest(s) PROVE Acted(s, Confirm(s))
<1> DEFINE v == set_menu(s, "alpha", "none")
           t == [v EXCEPT !.clall = TRUE]
<1>1. "alpha" \in Levels \ {"app"} /\ "none" \in MenusOf("alpha")
  BY LevelFacts, MenusOfLevels
<1>2. Steers(s, v)
  BY <1>1, RestFacts, SteersAt
<1>3. Confirm(s) = t
  BY DEF Confirm
<1> HIDE DEF v
<1>4. Rest(v)
  BY <1>2, RestSteers
<1>5. Inv(t) /\ ~t.alpha /\ ~mode_command_entry(t)
  BY <1>4, AskedInv
<1> QED
  BY <1>3, <1>5 DEF Acted

LEMMA DoInteractive ==
    ASSUME NEW s, Rest(s), NEW c \in Words, c \notin Internal, c # "GTODOT",
           c = "A_THRU_F" => s.menu["app"] \in BaseMenus,
           NEW t, t = do_interactive(s, c)
    PROVE  Acted(s, t)
<1>1. s \in Calculators /\ Screen(s) /\ Fits(s) /\ ~Stale(s)
  BY RestFacts
<1>2. CASE t = s
  BY <1>2, RestActed
<1>3. CASE c = "A_THRU_F" /\ ~s.prgm
  <2> DEFINE v == set_base(s, TRUE)
  <2>1. t = set_menu(v, "app", "baseAF")
    BY <1>3 DEF do_interactive, PrgmOnly
  <2>2. Steers(s, v)
    BY <1>1, SteersBase
  <2>3. v.menu["app"] = "base1"
    BY <1>1, <1>3, BaseSet DEF BaseMenus
  <2> HIDE DEF v
  <2>4. "baseAF" \in AppMenus \ {"varmenu"} /\ "baseAF" # "none"
    BY DEF AppMenus
  <2>5. Screen(v) /\ Fits(v)
    BY <2>2 DEF Steers
  <2>6. OwnMenu(v, "baseAF")
    BY <2>3, <2>5 DEF OwnMenu, Fits, BaseMenus
  <2>7. Steers(v, t)
    BY <2>1, <2>4, <2>5, <2>6, SteersApp
  <2>8. Rest(t)
    BY <2>2, <2>7, RestSteers
  <2> QED
    BY <2>8, RestActed
<1>4. CASE c = "CLALLa"
  <2>1. t = Confirm(s)
    BY <1>4 DEF do_interactive, PrgmOnly, NoPrgm
  <2> QED
    BY <2>1, ConfirmActed
<1>5. CASE c = "SST" /\ s.prgm
  <2>1. t = sst(s)
    BY <1>5 DEF do_interactive, PrgmOnly, NoPrgm
  <2> QED
    BY <2>1, SteppedRest, RestActed
<1>6. CASE c = "BST"
  <2> DEFINE v == bst(s)
  <2>1. t = v \/ t = [v EXCEPT !.pend = "cancelled"]
    BY <1>6 DEF do_interactive, PrgmOnly, NoPrgm
  <2>2. Rest(v)
    BY SteppedRest
  <2> HIDE DEF v
  <2>3. "cancelled" \in Words
    BY DEF Words
  <2> QED
    BY <2>1, <2>2, <2>3, RestActed, Pends
<1>7. t \in {s, Accepted(s, c)} \/ (c = "A_THRU_F" /\ ~s.prgm) \/ c = "CLALLa"
      \/ (c = "SST" /\ s.prgm) \/ c = "BST"
  <2>1. CASE c \in {"A_THRU_F", "GOTOROW", "CLV", "LBL", "MVAR"}
    BY <2>1 DEF do_interactive, PrgmOnly, NoPrgm
  <2>2. CASE c \notin {"A_THRU_F", "GOTOROW", "CLV", "LBL", "MVAR"}
    BY <2>2 DEF do_interactive, PrgmOnly, NoPrgm
  <2> QED
    BY <2>1, <2>2
<1> QED
  BY <1>2, <1>3, <1>4, <1>5, <1>6, <1>7, AcceptedActed

-----------------------------------------------------------------------------
(* The end of an entry                                                     *)

LEMMA KeptCatalogFrame ==
    ASSUME NEW s, Screen(s), Fits(s), NEW t, t = KeptCatalog(s)
    PROVE  /\ Screen(t) /\ Fits(t) /\ Keeps(s, t, MenuFields \cup {"rpc"})
           /\ t.menu["app"] = s.menu["app"] /\ t.sect["app"] = s.sect["app"]
           /\ t.rpc => s.rpc \/ s.pend \in {"XEQ", "GTO"}
           /\ s.pend \notin {"XEQ", "GTO"} => t = s
<1> DEFINE x == s.sect["command"]
           v == Cleared(Shows(s, "transient", "catalog"), "transient")
           w == set_cat_section(v, x)
           y == [w EXCEPT !.rpc = TRUE]
           kept == /\ s.menu["command"] = "catalog" /\ x \in {"pgm", "pgm_only"}
                   /\ s.pend \in {"XEQ", "GTO"}
<1>1. CASE ~kept
  <2>1. t = s
    BY <1>1 DEF KeptCatalog
  <2> QED
    BY <2>1, KeepsNothing
<1>2. CASE kept
  <2>1. t = y
    BY <1>2 DEF KeptCatalog
  <2>2. /\ "transient" \in Levels /\ "catalog" \in MenusOf("transient")
        /\ "app" \in Levels /\ "app" \notin InFront["transient"]
        /\ InFront["transient"] = {"command", "alpha"} /\ "command" \in Levels /\ "alpha" \in Levels
    BY LevelFacts, MenusOfLevels
  <2>3. /\ Screen(v)
        /\ Keeps(s, v, {"menu", "sect"})
        /\ \A k \in Levels : v.menu[k] = IF k = "transient" THEN "catalog"
                                         ELSE IF k \in InFront["transient"] THEN "none" ELSE s.menu[k]
        /\ \A k \in Levels : v.sect[k] = IF k = "transient"
                                         THEN (IF "catalog" = "catalog" THEN s.sect["transient"] ELSE "top")
                                         ELSE IF k \in InFront["transient"] THEN "top" ELSE s.sect[k]
    BY <2>2, AtLevel
  <2> HIDE DEF v
  <2>4. v.menu["transient"] = "catalog" /\ v.menu["app"] = s.menu["app"]
        /\ v.sect["app"] = s.sect["app"]
    BY <2>2, <2>3
  <2>5. \A k \in InFront["transient"] : v.menu[k] = "none"
    BY <2>2, <2>3
  <2>6. get_cat_index(v) = "transient"
    BY <2>2, <2>4, <2>5, FrontLevel
  <2>7. x \in Sections /\ x \notin ProgramSections /\ x \notin ArgumentSections
    BY <1>2 DEF Sections, ProgramSections, ArgumentSections
  <2>8. Screen(w) /\ Keeps(v, w, {"sect"})
        /\ \A k \in Levels : w.sect[k] = IF k = "transient" THEN x ELSE v.sect[k]
    BY <2>3, <2>4, <2>6, <2>7, SectionSet
  <2> HIDE DEF w
  <2>9. w \in Calculators /\ TRUE \in BOOLEAN
    BY <2>8 DEF Screen
  <2>10. y \in Calculators /\ Keeps(w, y, {"rpc"})
    BY <2>9, PutRpc
  <2>11. y.menu = w.menu /\ y.sect = w.sect /\ w.menu = v.menu
    BY <2>8, <2>10 DEF Keeps, Fields
  <2>12. Screen(y)
    BY <2>8, <2>10, SameScreen
  <2>13. y.menu["app"] = s.menu["app"] /\ y.sect["app"] = s.sect["app"]
    BY <2>2, <2>4, <2>8, <2>11
  <2> HIDE DEF y
  <2>14. Keeps(s, y, {"menu", "sect", "rpc"})
    BY <2>3, <2>8, <2>10 DEF Keeps
  <2>15. Fits(y)
    <3>1. {"menu", "sect", "rpc"} \cap (AppFields \ {"menu"}) \subseteq {"sect", "hex", "nested", "err"}
      BY DEF AppFields
    <3> QED
      BY <2>13, <2>14, <3>1, FitsKept
  <2>16. Keeps(s, y, MenuFields \cup {"rpc"})
    BY <2>14 DEF Keeps, MenuFields, AppFields
  <2> QED
    BY <1>2, <2>1, <2>12, <2>13, <2>15, <2>16
<1> QED
  BY <1>1, <1>2

LEMMA KeptCustomFrame ==
    ASSUME NEW s, Screen(s), Fits(s), s.pend = "ASGN" => s.menu["command"] \in Custom,
           NEW t, t = KeptCustom(s)
    PROVE  Steers(s, t)
<1>1. CASE s.pend # "ASGN"
  BY <1>1, SteersSame DEF KeptCustom
<1>2. CASE s.pend = "ASGN"
  <2> DEFINE m == s.menu["command"]
             v == set_menu(s, "plain", m)
  <2>1. t = [v EXCEPT !.sticky = TRUE]
    BY <1>2 DEF KeptCustom
  <2>2. "plain" \in Levels \ {"app"} /\ m \in MenusOf("plain")
    BY <1>2, LevelFacts, MenusOfLevels DEF PlainMenus, Custom
  <2>3. Steers(s, v)
    BY <2>2, SteersAt
  <2> HIDE DEF v
  <2>4. Screen(v) /\ Fits(v) /\ v \in Calculators
    BY <2>3 DEF Steers, Screen
  <2>5. t \in Calculators /\ Keeps(v, t, {"sticky"})
    BY <2>1, <2>4, PutSticky
  <2>6. Steers(v, t)
    BY <2>4, <2>5, SteersFlag
  <2> QED
    BY <2>3, <2>6, SteersTwice
<1> QED
  BY <1>1, <1>2

(* The menu of the argument goes. *)
LEMMA SteersNone ==
    ASSUME NEW s, Screen(s), Fits(s), NEW t, t = Shows(s, "command", "none")
    PROVE  Steers(s, t) /\ t.menu["command"] = "none" /\ Beside(s, t) /\ Keeps(s, t, {"menu", "sect"})
<1>1. "none" \in CommandMenus
  BY DEF CommandMenus
<1>2. /\ Screen(t) /\ Keeps(s, t, {"menu", "sect"}) /\ Beside(s, t)
      /\ t.menu["command"] = "none"
  BY <1>1, CommandShown
<1>3. t.menu["app"] = s.menu["app"] /\ t.sect["app"] = s.sect["app"]
  BY <1>2, LevelFacts DEF Beside
<1>4. Keeps(s, t, {"menu", "sect", "sticky"})
  BY <1>2, KeepsMore
<1>5. Steers(s, t)
  BY <1>2, <1>3, <1>4, SteersFrame
<1> QED
  BY <1>2, <1>5

LEMMA DoItNowFrame ==
    ASSUME NEW s, Screen(s), Fits(s), s.pend = "ASGN" => s.menu["command"] \in Custom,
           s.lines \in 0 .. MaxLines, s.pc \in -1 .. s.lines,
           NEW t, t = DoItNow(s)
    PROVE  /\ Screen(t) /\ Fits(t) /\ (Stale(t) => Stale(s)) /\ Keeps(s, t, DoneFields)
           /\ t.menu["command"] = "none"
           /\ t.rpc => s.rpc \/ s.pend \in {"XEQ", "GTO"}
           /\ t.pend = IF s.pend = "BST" THEN "cancelled" ELSE s.pend
           /\ t.pc \in -1 .. s.lines
<1> DEFINE v == KeptCatalog(s)
           w == KeptCustom(v)
           y == Shows(w, "command", "none")
           b == bst(y)
<1>1. /\ Screen(v) /\ Fits(v) /\ Keeps(s, v, MenuFields \cup {"rpc"})
      /\ v.menu["app"] = s.menu["app"] /\ v.sect["app"] = s.sect["app"]
      /\ v.rpc => s.rpc \/ s.pend \in {"XEQ", "GTO"}
      /\ s.pend \notin {"XEQ", "GTO"} => v = s
  BY KeptCatalogFrame
<1>2. t = Stepped(y)
  BY DEF DoItNow
<1> HIDE DEF v
<1>3. v.pend = s.pend /\ v.mvars = s.mvars
  BY <1>1 DEF Keeps, MenuFields, AppFields, Fields
<1>4. v.pend = "ASGN" => v.menu["command"] \in Custom
  BY <1>1, <1>3
<1>5. Steers(v, w)
  BY <1>1, <1>4, KeptCustomFrame
<1> HIDE DEF w
<1>6. Steers(w, y) /\ y.menu["command"] = "none"
  BY <1>5, SteersNone DEF Steers
<1> HIDE DEF y
<1>7. Steers(v, y)
  BY <1>5, <1>6, SteersTwice
<1>8. Screen(y) /\ Fits(y) /\ (Stale(y) => Stale(s)) /\ y \in Calculators
  BY <1>1, <1>3, <1>7 DEF Steers, Screen, Stale
<1>9. Keeps(s, y, MenuFields \cup {"rpc"})
  BY <1>1, <1>7 DEF Keeps, Steers
<1>10. y.pend = s.pend /\ y.pc = s.pc /\ y.lines = s.lines
  BY <1>9 DEF Keeps, MenuFields, AppFields, Fields
<1>11. y.rpc = v.rpc
  BY <1>7 DEF Steers, Keeps, MenuFields, AppFields, Fields
<1>12. Keeps(s, y, DoneFields)
  BY <1>9 DEF Keeps, DoneFields
<1>13. CASE s.pend # "BST"
  <2>1. t = y
    BY <1>2, <1>10, <1>13 DEF Stepped
  <2> QED
    BY <1>1, <1>6, <1>8, <1>10, <1>11, <1>12, <1>13, <2>1
<1>14. CASE s.pend = "BST"
  <2>1. t = [b EXCEPT !.pend = "cancelled"]
    BY <1>2, <1>10, <1>14 DEF Stepped
  <2> DEFINE p == IF y.pc = -1 THEN y.lines ELSE y.pc - 1
  <2>2. b = [y EXCEPT !.pc = p]
    BY DEF bst
  <2>3. p \in -1 .. s.lines
    BY <1>10
  <2> HIDE DEF p
  <2>4. p \in Int /\ "cancelled" \in Words
    BY <2>3 DEF Words
  <2>5. b \in Calculators /\ b.pc = p /\ Keeps(y, b, {"pc"})
    BY <1>8, <2>2, <2>4, PutPc
  <2> HIDE DEF b
  <2>6. t \in Calculators /\ t.pend = "cancelled" /\ Keeps(b, t, {"pend"})
    BY <2>1, <2>4, <2>5, PutPend
  <2>7. Keeps(y, t, {"pc", "pend"}) /\ t.pc = p
    BY <2>5, <2>6 DEF Keeps, Fields
  <2>8. /\ t.menu = y.menu /\ t.sect = y.sect /\ t.cb = y.cb /\ t.edit = y.edit
        /\ t.baseapp = y.baseapp /\ t.role = y.role /\ t.mvars = y.mvars /\ t.rpc = y.rpc
    BY <2>7 DEF Keeps, Fields
  <2>9. Screen(t)
    BY <1>8, <2>6, <2>7, SameScreen
  <2>10. Fits(t) /\ (Stale(t) => Stale(s))
    BY <1>8, <2>8 DEF Fits, Stale
  <2>11. Keeps(s, t, DoneFields)
    BY <1>12, <2>7 DEF Keeps, DoneFields
  <2> QED
    BY <1>1, <1>6, <1>11, <1>14, <2>3, <2>6, <2>7, <2>8, <2>9, <2>10, <2>11
<1> QED
  BY <1>13, <1>14

(* After the end of an entry *)
LEMMA OverInv ==
    ASSUME NEW s, Entering(s), NEW t, Screen(t), Fits(t), ~Stale(t),
           Keeps(s, t, OverFields), t.menu["command"] = "none", t.inc = NoEntry,
           t.lines \in 0 .. MaxLines, t.pc \in -1 .. t.lines, t.saved = -1,
           t.pend \notin {"PGMSLVi", "PGMINTi"}, t.rpc => t.pend \in {"XEQ", "GTO"},
           t.clall => t.pend = "none"
    PROVE  Inv(t) /\ ~mode_command_entry(t) /\ ~t.alpha /\ ~t.num
<1>1. /\ t.num = s.num /\ t.nlen = s.nlen /\ t.alpha = s.alpha /\ t.alen = s.alen
      /\ t.prgm = s.prgm
  BY DEF Keeps, OverFields, DoneFields, MenuFields, AppFields, Fields
<1>2. ~t.num /\ ~t.alpha /\ Counters(s)
  BY <1>1, EnteringFree DEF Free
<1>3. Counters(t)
  BY <1>1, <1>2 DEF Counters
<1>4. NoEntry.cmd = "none" /\ NoEntry.type = "none"
  BY DEF NoEntry
<1>5. EntryFits(t) /\ ~mode_command_entry(t)
  BY <1>4 DEF EntryFits, mode_command_entry, Internal
<1>6. Modes(t)
  BY <1>2, <1>5 DEF Modes
<1> QED
  BY <1>2, <1>3, <1>5, <1>6 DEF Inv

LEMMA RestoredFrame ==
    ASSUME NEW s \in Calculators, NEW t, t = Restored(s)
    PROVE  t \in Calculators /\ t.pc = s.saved /\ t.saved = -1 /\ Keeps(s, t, {"pc", "saved"})
<1> DEFINE v == [s EXCEPT !.pc = s.saved]
<1>1. t = [v EXCEPT !.saved = -1]
  BY DEF Restored, Calculators
<1>2. s.saved \in Int /\ -1 \in Int
  BY DEF Calculators
<1>3. v \in Calculators /\ v.pc = s.saved /\ Keeps(s, v, {"pc"})
  BY <1>2, PutPc
<1> HIDE DEF v
<1>4. t \in Calculators /\ t.saved = -1 /\ Keeps(v, t, {"saved"})
  BY <1>1, <1>2, <1>3, PutSaved
<1> QED
  BY <1>3, <1>4 DEF Keeps, Fields

LEMMA StaysFit ==
    ASSUME NEW s, Screen(s), Fits(s), NEW t \in Calculators, NEW F, F \subseteq Plainer, Keeps(s, t, F)
    PROVE  /\ Screen(t) /\ Fits(t) /\ (Stale(t) <=> Stale(s))
           /\ t.menu = s.menu /\ t.sect = s.sect
<1>1. "menu" \notin F /\ "sect" \notin F
  BY DEF Plainer
<1>2. Screen(t)
  BY <1>1, SameScreen
<1>3. /\ t.menu = s.menu /\ t.sect = s.sect /\ t.cb = s.cb /\ t.edit = s.edit
      /\ t.baseapp = s.baseapp /\ t.role = s.role /\ t.mvars = s.mvars
  BY DEF Keeps, Fields, Plainer
<1> QED
  BY <1>2, <1>3 DEF Fits, Stale

(* The entry of a line ends. *)
LEMMA FinishLineOver ==
    ASSUME NEW s, Entering(s), s.prgm, NEW c \in Words, c \notin {"PGMSLVi", "PGMINTi"},
           s.inc.cmd = "PRP" => c \in Immediate \cup {"null", "cancelled"},
           NEW v, Screen(v), Fits(v), ~Stale(v), Keeps(s, v, {"inc", "menu", "sect", "pend"}),
           Beside(s, v), v.menu["command"] = "none", v.inc = NoEntry, v.pend = c,
           NEW t, t = FinishLine(v)
    PROVE  IsOver(s, t)
<1>1. /\ v.pc = s.pc /\ v.lines = s.lines /\ v.saved = s.saved /\ v.rpc = s.rpc
      /\ v.clall = s.clall /\ v.prgm = s.prgm
  BY DEF Keeps, Fields
<1>2. /\ s.lines \in 0 .. MaxLines /\ s.pc \in -1 .. s.lines /\ s.saved \in -1 .. s.lines
      /\ ~s.rpc /\ ~s.clall
  BY EnteringFree DEF Free, Counters
<1>3. v \in Calculators
  BY DEF Screen
<1> DEFINE r == Restored(v)
<1>4. r \in Calculators /\ r.pc = s.saved /\ r.saved = -1 /\ Keeps(v, r, {"pc", "saved"})
  BY <1>1, <1>3, RestoredFrame
<1>5. Keeps(s, r, {"inc", "menu", "sect", "pend", "pc", "saved"})
  BY <1>4 DEF Keeps
<1>6. /\ Screen(r) /\ Fits(r) /\ ~Stale(r) /\ r.menu = v.menu /\ r.sect = v.sect
  <2>1. {"pc", "saved"} \subseteq Plainer
    BY DEF Plainer
  <2> QED
    BY <1>4, <2>1, StaysFit
<1>7. /\ r.inc = NoEntry /\ r.pend = c /\ r.lines = s.lines /\ ~r.rpc /\ ~r.clall
  BY <1>1, <1>2, <1>4 DEF Keeps, Fields
<1>13. /\ c \in {"null", "cancelled"} => t = r
       /\ c = "SST" => t = [sst(r) EXCEPT !.pend = "none"]
       /\ c = "BST" => t = [bst(r) EXCEPT !.pend = "none"]
       /\ c \in Immediate => t = DoItNow(r)
  BY DEF FinishLine, Immediate
<1> HIDE DEF r
<1>8. \A x \in {r, sst(r), bst(r)} :
         /\ x \in Calculators /\ Keeps(r, x, {"pc"}) /\ x.pc \in -1 .. s.lines
  <2> DEFINE p1 == IF r.pc = r.lines THEN -1 ELSE r.pc + 1
             p2 == IF r.pc = -1 THEN r.lines ELSE r.pc - 1
  <2>1. p1 \in -1 .. s.lines /\ p2 \in -1 .. s.lines
    BY <1>2, <1>4, <1>7
  <2>2. sst(r) = [r EXCEPT !.pc = p1] /\ bst(r) = [r EXCEPT !.pc = p2]
    BY DEF sst, bst
  <2> HIDE DEF p1, p2
  <2>3. p1 \in Int /\ p2 \in Int
    BY <2>1
  <2>4. /\ [r EXCEPT !.pc = p1] \in Calculators /\ [r EXCEPT !.pc = p1].pc = p1
        /\ Keeps(r, [r EXCEPT !.pc = p1], {"pc"})
    BY <1>4, <2>3, PutPc
  <2>5. /\ [r EXCEPT !.pc = p2] \in Calculators /\ [r EXCEPT !.pc = p2].pc = p2
        /\ Keeps(r, [r EXCEPT !.pc = p2], {"pc"})
    BY <1>4, <2>3, PutPc
  <2>6. sst(r) \in Calculators /\ Keeps(r, sst(r), {"pc"}) /\ sst(r).pc \in -1 .. s.lines
    BY <2>1, <2>2, <2>4
  <2>7. bst(r) \in Calculators /\ Keeps(r, bst(r), {"pc"}) /\ bst(r).pc \in -1 .. s.lines
    BY <2>1, <2>2, <2>5
  <2>8. r \in Calculators /\ Keeps(r, r, {"pc"}) /\ r.pc \in -1 .. s.lines
    BY <1>2, <1>4, KeepsNothing
  <2> QED
    BY <2>6, <2>7, <2>8
<1>9. CASE c \in {"null", "cancelled"}
  <2>1. t = r
    BY <1>9, <1>13
  <2>2. Keeps(s, r, OverFields)
    BY <1>5 DEF Keeps, OverFields, DoneFields, MenuFields, AppFields
  <2>3. Inv(t) /\ ~mode_command_entry(t) /\ ~t.alpha /\ ~t.num
    BY <1>2, <1>4, <1>6, <1>7, <1>9, <2>1, <2>2, OverInv
  <2>4. BelowSame(s, t)
    BY <1>6, <2>1, LevelFacts DEF Beside, BelowSame
  <2>5. NoTrace(s, t)
    BY <1>4, <1>7, <2>1, <2>4 DEF NoTrace
  <2> QED
    BY <2>3, <2>5 DEF IsOver
<1>10. CASE c \in {"SST", "BST"}
  <2> DEFINE x == IF c = "SST" THEN sst(r) ELSE bst(r)
  <2>1. t = [x EXCEPT !.pend = "none"]
    BY <1>10, <1>13
  <2>2. x \in Calculators /\ Keeps(r, x, {"pc"}) /\ x.pc \in -1 .. s.lines
    BY <1>8
  <2> HIDE DEF x
  <2>3. "none" \in Words
    BY DEF Words
  <2>4. t \in Calculators /\ t.pend = "none" /\ Keeps(x, t, {"pend"})
    BY <2>1, <2>2, <2>3, PutPend
  <2>5. Keeps(r, t, {"pc", "pend"}) /\ t.pc \in -1 .. s.lines
    BY <2>2, <2>4 DEF Keeps, Fields
  <2>6. {"pc", "pend"} \subseteq Plainer
    BY DEF Plainer
  <2>7. Screen(t) /\ Fits(t) /\ ~Stale(t) /\ t.menu = r.menu
    BY <1>6, <2>4, <2>5, <2>6, StaysFit
  <2>8. t.inc = NoEntry /\ t.lines = s.lines /\ ~t.rpc /\ ~t.clall /\ t.saved = -1
    BY <1>4, <1>7, <2>5 DEF Keeps, Fields
  <2>9. Keeps(s, t, OverFields)
    BY <1>5, <2>5 DEF Keeps, OverFields, DoneFields, MenuFields, AppFields
  <2>10. Inv(t) /\ ~mode_command_entry(t) /\ ~t.alpha /\ ~t.num
    BY <1>2, <1>6, <2>4, <2>5, <2>7, <2>8, <2>9, OverInv
  <2> QED
    BY <2>4, <2>8, <2>10 DEF IsOver, NoTrace
<1>11. CASE c \in Immediate
  <2>1. t = DoItNow(r)
    BY <1>11, <1>13
  <2>2. c \notin {"ASGN", "BST", "XEQ", "GTO", "null", "cancelled"}
    BY <1>11 DEF Immediate
  <2>3. /\ Screen(t) /\ Fits(t) /\ (Stale(t) => Stale(r)) /\ Keeps(r, t, DoneFields)
        /\ t.menu["command"] = "none"
        /\ t.rpc => r.rpc \/ r.pend \in {"XEQ", "GTO"}
        /\ t.pend = IF r.pend = "BST" THEN "cancelled" ELSE r.pend
        /\ t.pc \in -1 .. r.lines
    BY <1>2, <1>4, <1>6, <1>7, <2>1, <2>2, DoItNowFrame
  <2>4. t.inc = NoEntry /\ t.lines = s.lines /\ ~t.clall /\ t.saved = -1
    BY <1>4, <1>7, <2>3 DEF Keeps, DoneFields, MenuFields, AppFields, Fields
  <2>5. Keeps(s, t, OverFields)
    BY <1>5, <2>3 DEF Keeps, OverFields, DoneFields, MenuFields, AppFields
  <2>6. t.pend = c /\ ~t.rpc
    BY <1>7, <2>2, <2>3
  <2>7. Inv(t) /\ ~mode_command_entry(t) /\ ~t.alpha /\ ~t.num
    BY <1>2, <1>6, <1>7, <2>3, <2>4, <2>5, <2>6, OverInv
  <2> QED
    BY <2>2, <2>4, <2>6, <2>7 DEF IsOver, NoTrace
<1>12. CASE c \notin {"null", "cancelled", "SST", "BST"} \cup Immediate
  <2> DEFINE x == store_command(v)
             y == [x EXCEPT !.pend = "none"]
  <2>1. /\ StoredAt(v, x) /\ x.pc = v.pc
        /\ x.lines = v.lines \/ x.lines = v.lines + 1
    BY <1>1, <1>2, StoreFrame
  <2>2. t = [x EXCEPT !.pend = "none", !.saved = -1]
    BY <1>12 DEF FinishLine, Immediate
  <2> HIDE DEF x
  <2>3. x \in Calculators /\ "none" \in Words /\ -1 \in Int
    BY <2>1 DEF StoredAt, Screen, Words
  <2>4. t = [y EXCEPT !.saved = -1]
    BY <2>2, <2>3 DEF Calculators
  <2>5. y \in Calculators /\ y.pend = "none" /\ Keeps(x, y, {"pend"})
    BY <2>3, PutPend
  <2> HIDE DEF y
  <2>6. t \in Calculators /\ t.saved = -1 /\ Keeps(y, t, {"saved"})
    BY <2>3, <2>4, <2>5, PutSaved
  <2>7. Keeps(x, t, {"pend", "saved"}) /\ t.pend = "none"
    BY <2>5, <2>6 DEF Keeps, Fields
  <2>8. {"pend", "saved"} \subseteq Plainer
    BY DEF Plainer
  <2>9. Screen(t) /\ Fits(t) /\ ~Stale(t) /\ t.menu = x.menu
    BY <2>1, <2>6, <2>7, <2>8, StaysFit DEF StoredAt
  <2>10. t.pc = s.pc /\ t.lines = x.lines /\ t.inc = x.inc /\ t.rpc = x.rpc /\ t.clall = x.clall
    BY <1>1, <2>1, <2>7 DEF Keeps, Fields
  <2>11. x.inc = NoEntry /\ ~x.rpc /\ ~x.clall /\ x.menu["command"] = "none"
    BY <1>1, <1>2, <2>1 DEF StoredAt, Keeps, LineFields, MenuFields, AppFields, Fields
  <2>12. Keeps(s, t, OverFields)
    BY <2>1, <2>7 DEF StoredAt, LineFields, Keeps, OverFields, DoneFields, MenuFields, AppFields
  <2>13. t.lines \in 0 .. MaxLines /\ t.pc \in -1 .. t.lines
         /\ (t.lines = s.lines \/ t.lines = s.lines + 1)
    BY <1>1, <1>2, <2>1, <2>10 DEF StoredAt
  <2>14. Inv(t) /\ ~mode_command_entry(t) /\ ~t.alpha /\ ~t.num
    BY <2>6, <2>7, <2>9, <2>10, <2>11, <2>12, <2>13, OverInv
  <2>15. s.inc.cmd # "PRP"
    BY <1>12
  <2> QED
    BY <2>7, <2>10, <2>13, <2>14, <2>15 DEF IsOver, NoTrace
<1> QED
  BY <1>9, <1>10, <1>11, <1>12

LEMMA UsualEnds ==
    ASSUME NEW s, Entering(s)
    PROVE  EndsWith(s, s.inc.cmd) /\ EndsWith(s, "null") /\ EndsWith(s, "cancelled")
<1>1. s.inc \in EntryStates /\ s.inc.cmd \notin Internal
  BY EnteringFree DEF Calculators, EntryFits
<1>2. s.inc.cmd \in Words
  BY <1>1 DEF EntryStates
<1>3. "null" \in Words /\ "cancelled" \in Words
  BY DEF Words
<1> QED
  BY <1>1, <1>2, <1>3 DEF EndsWith, Internal, Immediate

LEMMA BegunGoesOn ==
    ASSUME NEW s, Entering(s), NEW c, ArgType(c) # "none", NEW t, EntryBegun(s, c, t),
           c # "PRP" => s.inc.cmd # "PRP"
    PROVE  GoesOn(s, t)
<1>1. /\ Entering(t) /\ t.inc.cmd = c /\ BelowSame(s, t)
      /\ Keeps(s, t, {"inc", "menu", "sect", "local"})
  BY EnteringFree, BegunEntering
<1> QED
  BY <1>1 DEF GoesOn

(* An entry leads to that of another command. *)
LEMMA StartGoesOn ==
    ASSUME NEW s, Entering(s), NEW c \in Words, ArgType(c) \in {"mkey", "lbl", "count", "ckey"},
           s.menu["command"] # "ind", s.inc.cmd # "PRP", NEW t, t = start_incomplete_command(s, c)
    PROVE  GoesOn(s, t)
<1>1. /\ Screen(s)
      /\ s.menu["command"] \in {"varmenu", "integ"} => s.menu["app"] = s.menu["command"]
  BY EnteringFree
<1>2. EntryBegun(s, c, t)
  BY <1>1, StartFrame
<1> QED
  BY <1>2, BegunGoesOn

LEMMA NoEntryFacts ==
    /\ NoEntry \in EntryStates /\ NoEntry.cmd = "none" /\ NoEntry.type = "none"
    /\ "none" \in Words /\ "null" \in Words /\ "cancelled" \in Words
  BY DEF NoEntry, EntryStates, Words, ArgTypes

LEMMA FinishedOver ==
    ASSUME NEW s, Entering(s), NEW c, EndsWith(s, c), NEW t, t = Finished(s, c)
    PROVE  EntryStep(s, t)
<1> DEFINE x == [s EXCEPT !.pend = c]
<1>1. /\ s \in Calculators /\ Screen(s) /\ Fits(s) /\ ~Stale(s) /\ c \in Words /\ ~s.rpc /\ ~s.clall
      /\ s.lines \in 0 .. MaxLines /\ s.pc \in -1 .. s.lines /\ s.pend = "none"
      /\ (s.saved # -1 => s.prgm)
  BY EnteringFree DEF EndsWith, Free, Counters
<1>2. x \in Calculators /\ x.pend = c /\ Keeps(s, x, {"pend"})
  BY <1>1, PutPend
<1>3. t = finish_command_entry(x)
  BY DEF Finished
<1>4. [x EXCEPT !.pend = "none"] = s
  BY <1>1 DEF Calculators
<1> HIDE DEF x
<1>5. x.menu = s.menu /\ x.sect = s.sect /\ x.prgm = s.prgm
  BY <1>2 DEF Keeps, Fields
<1>6. CASE c = "ASSIGNa"
  <2>1. t = start_incomplete_command(s, "ASSIGNb")
    BY <1>2, <1>3, <1>4, <1>6 DEF finish_command_entry
  <2>2. "ASSIGNb" \in Words /\ ArgType("ASSIGNb") = "ckey"
    BY ArgFacts DEF Words
  <2>3. s.inc.cmd = "ASSIGNa" /\ s.menu["command"] # "ind"
    BY <1>6, EnteringFree DEF EndsWith, EntryFits
  <2>4. GoesOn(s, t)
    BY <2>1, <2>2, <2>3, StartGoesOn
  <2> QED
    BY <2>4 DEF EntryStep
<1>7. CASE c # "ASSIGNa" /\ s.prgm
  <2> DEFINE y == Shows(x, "command", "none")
             v == [y EXCEPT !.inc = NoEntry]
  <2>1. t = FinishLine(v)
    BY <1>2, <1>3, <1>5, <1>7 DEF finish_command_entry
  <2>2. {"pend"} \subseteq Plainer
    BY DEF Plainer
  <2>3. Screen(x) /\ Fits(x) /\ ~Stale(x)
    BY <1>1, <1>2, <2>2, StaysFit
  <2>4. /\ Steers(x, y) /\ y.menu["command"] = "none" /\ Beside(x, y)
        /\ Keeps(x, y, {"menu", "sect"})
    BY <2>3, SteersNone
  <2> HIDE DEF y
  <2>5. Screen(y) /\ Fits(y) /\ ~Stale(y) /\ y \in Calculators
    BY <2>3, <2>4 DEF Steers, Screen
  <2>6. v \in Calculators /\ v.inc = NoEntry /\ Keeps(y, v, {"inc"})
    BY <2>5, NoEntryFacts, PutEntry
  <2> HIDE DEF v
  <2>7. {"inc"} \subseteq Plainer
    BY DEF Plainer
  <2>8. Screen(v) /\ Fits(v) /\ ~Stale(v) /\ v.menu = y.menu /\ v.sect = y.sect
    BY <2>5, <2>6, <2>7, StaysFit
  <2>9. Keeps(s, v, {"inc", "menu", "sect", "pend"}) /\ v.pend = c
    BY <1>2, <2>4, <2>6 DEF Keeps, Fields
  <2>10. Beside(s, v) /\ v.menu["command"] = "none"
    BY <1>5, <2>4, <2>8 DEF Beside
  <2>11. IsOver(s, t)
    BY <1>1, <1>7, <2>1, <2>6, <2>8, <2>9, <2>10, FinishLineOver DEF EndsWith
  <2> QED
    BY <2>11 DEF EntryStep
<1>8. CASE c # "ASSIGNa" /\ ~s.prgm
  <2> DEFINE v == [x EXCEPT !.inc = NoEntry]
  <2>1. t = DoItNow(v)
    BY <1>2, <1>3, <1>5, <1>8 DEF finish_command_entry
  <2>2. v \in Calculators /\ v.inc = NoEntry /\ Keeps(x, v, {"inc"})
    BY <1>2, NoEntryFacts, PutEntry
  <2> HIDE DEF v
  <2>3. Keeps(s, v, {"inc", "pend"}) /\ v.pend = c
    BY <1>2, <2>2 DEF Keeps, Fields
  <2>4. {"inc", "pend"} \subseteq Plainer
    BY DEF Plainer
  <2>5. Screen(v) /\ Fits(v) /\ ~Stale(v) /\ v.menu = s.menu
    BY <1>1, <2>2, <2>3, <2>4, StaysFit
  <2>6. v.lines = s.lines /\ v.pc = s.pc /\ v.rpc = s.rpc /\ v.clall = s.clall /\ v.saved = s.saved
    BY <2>3 DEF Keeps, Fields
  <2>7. v.pend = "ASGN" => v.menu["command"] \in Custom
    BY <2>3, <2>5 DEF EndsWith
  <2>8. /\ Screen(t) /\ Fits(t) /\ (Stale(t) => Stale(v)) /\ Keeps(v, t, DoneFields)
        /\ t.menu["command"] = "none"
        /\ t.rpc => v.rpc \/ v.pend \in {"XEQ", "GTO"}
        /\ t.pend = IF v.pend = "BST" THEN "cancelled" ELSE v.pend
        /\ t.pc \in -1 .. v.lines
    BY <1>1, <2>1, <2>5, <2>6, <2>7, DoItNowFrame
  <2>9. t.inc = NoEntry /\ t.lines = s.lines /\ ~t.clall /\ t.saved = -1 /\ t.prgm = s.prgm
    <3>1. t.inc = v.inc /\ t.lines = v.lines /\ t.clall = v.clall /\ t.saved = v.saved
          /\ t.prgm = v.prgm /\ v.prgm = s.prgm
      BY <2>3, <2>8 DEF Keeps, DoneFields, MenuFields, AppFields, Fields
    <3> QED
      BY <1>1, <1>8, <2>2, <2>6, <3>1
  <2>10. Keeps(s, t, OverFields)
    BY <2>3, <2>8 DEF Keeps, OverFields, DoneFields, MenuFields, AppFields
  <2>11. t.rpc => t.pend \in {"XEQ", "GTO"}
    BY <1>1, <2>3, <2>6, <2>8
  <2>12. t.pend \notin {"PGMSLVi", "PGMINTi"}
    BY <2>3, <2>8 DEF EndsWith
  <2>13. Inv(t) /\ ~mode_command_entry(t) /\ ~t.alpha /\ ~t.num
    BY <1>1, <2>5, <2>6, <2>8, <2>9, <2>10, <2>11, <2>12, OverInv
  <2> QED
    BY <1>8, <2>13 DEF IsOver, NoTrace, EntryStep
<1> QED
  BY <1>6, <1>7, <1>8

LEMMA SamePend ==
    ASSUME NEW s \in Calculators, s.pend = "none" PROVE [s EXCEPT !.pend = "none"] = s
  BY DEF Calculators

LEMMA GivenUp ==
    ASSUME NEW s, Entering(s), NEW w, w = Forgone(s)
    PROVE  /\ Free(w) /\ Keeps(s, w, {"inc", "menu", "sect"}) /\ Beside(s, w) /\ BelowSame(s, w)
           /\ w.menu["command"] = "none" /\ w.inc = NoEntry /\ w = [w EXCEPT !.inc = NoEntry]
<1> DEFINE y == Shows(s, "command", "none")
           z == [y EXCEPT !.inc = NoEntry]
<1>1. Screen(s) /\ Fits(s) /\ ~Stale(s) /\ s \in Calculators
  BY EnteringFree DEF Free
<1>2. /\ Steers(s, y) /\ y.menu["command"] = "none" /\ Beside(s, y)
      /\ Keeps(s, y, {"menu", "sect"})
  BY <1>1, SteersNone
<1>3. w = [z EXCEPT !.pend = "none"]
  BY DEF Forgone
<1> HIDE DEF y
<1>4. y \in Calculators /\ Screen(y) /\ Fits(y) /\ ~Stale(y)
  BY <1>1, <1>2 DEF Steers, Screen
<1>5. z \in Calculators /\ z.inc = NoEntry /\ Keeps(y, z, {"inc"})
  BY <1>4, NoEntryFacts, PutEntry
<1> HIDE DEF z
<1>6. z.pend = s.pend /\ s.pend = "none"
  BY <1>2, <1>5 DEF Keeps, Fields, Entering
<1>7. w = z
  BY <1>3, <1>5, <1>6, SamePend
<1>8. {"inc"} \subseteq Plainer
  BY DEF Plainer
<1>9. Screen(w) /\ Fits(w) /\ ~Stale(w) /\ w.menu = y.menu /\ w.sect = y.sect
  BY <1>4, <1>5, <1>7, <1>8, StaysFit
<1>10. Keeps(s, w, {"inc", "menu", "sect"})
  BY <1>2, <1>5, <1>7 DEF Keeps
<1>11. /\ w.lines = s.lines /\ w.pc = s.pc /\ w.saved = s.saved /\ w.alen = s.alen
       /\ w.nlen = s.nlen /\ w.num = s.num /\ w.prgm = s.prgm /\ w.alpha = s.alpha
       /\ w.clall = s.clall /\ w.rpc = s.rpc /\ w.pend = s.pend
  BY <1>10 DEF Keeps, Fields
<1>12. Free(s)
  BY EnteringFree
<1>13. Free(w)
  BY <1>9, <1>11, <1>12 DEF Free, Counters
<1>14. Beside(s, w)
  BY <1>2, <1>9 DEF Beside
<1>15. BelowSame(s, w)
  BY <1>14, LevelFacts DEF Beside, BelowSame
<1>16. w = [w EXCEPT !.inc = NoEntry]
  BY <1>5, <1>7 DEF Calculators
<1> QED
  BY <1>2, <1>5, <1>7, <1>9, <1>10, <1>13, <1>14, <1>15, <1>16

LEMMA GivenUpOver ==
    ASSUME NEW s, Entering(s), ~s.prgm, NEW w, w = Forgone(s)
    PROVE  IsOver(s, w)
<1>1. /\ Free(w) /\ Keeps(s, w, {"inc", "menu", "sect"})
      /\ w.menu["command"] = "none" /\ w.inc = NoEntry
  BY GivenUp
<1>2. w.saved = s.saved
  BY <1>1 DEF Keeps, Fields
<1>3. w.saved = -1
  BY <1>2, EnteringFree
<1>4. Keeps(s, w, OverFields)
  BY <1>1 DEF Keeps, OverFields, DoneFields, MenuFields, AppFields
<1>5. /\ Screen(w) /\ Fits(w) /\ ~Stale(w) /\ w.lines \in 0 .. MaxLines /\ w.pc \in -1 .. w.lines
      /\ w.pend = "none" /\ ~w.rpc /\ ~w.clall
  BY <1>1 DEF Free, Counters
<1>6. Inv(w) /\ ~mode_command_entry(w) /\ ~w.alpha /\ ~w.num
  BY <1>1, <1>3, <1>4, <1>5, OverInv
<1> QED
  BY <1>6 DEF IsOver, NoTrace

(* Confirmation is asked for in the middle of an entry, which it ends. *)
LEMMA AskedOver ==
    ASSUME NEW s, Entering(s), NEW t, t = Asked(s)
    PROVE  IsOver(s, t)
<1> DEFINE y == set_menu(s, "alpha", "none")
           a == [y EXCEPT !.clall = TRUE]
           b == [a EXCEPT !.inc = NoEntry]
           c == [b EXCEPT !.saved = -1]
<1>1. Screen(s) /\ Fits(s) /\ ~Stale(s) /\ s.pend = "none" /\ ~s.rpc /\ s.lines \in 0 .. MaxLines
      /\ s.pc \in -1 .. s.lines
  BY EnteringFree DEF Free, Counters
<1>2. "alpha" \in Levels \ {"app"} /\ "none" \in MenusOf("alpha") /\ "command" \in Levels
      /\ "command" \in InFront["alpha"]
  BY LevelFacts, MenusOfLevels
<1>3. Steers(s, y)
  BY <1>1, <1>2, SteersAt
<1>4. /\ Keeps(s, y, {"menu", "sect", "err"})
      /\ \A k \in Levels : y.menu[k] = IF k = "alpha" THEN "none"
                                       ELSE IF k \in InFront["alpha"] THEN "none" ELSE s.menu[k]
  BY <1>1, <1>2, SetAt
<1>5. t = [c EXCEPT !.pend = "none"]
  BY DEF Confirm, Asked
<1> HIDE DEF y
<1>6. y.menu["command"] = "none" /\ y \in Calculators /\ Screen(y) /\ Fits(y) /\ ~Stale(y)
  BY <1>1, <1>2, <1>3, <1>4 DEF Steers, Screen
<1>7. a \in Calculators /\ a.clall /\ Keeps(y, a, {"clall"})
  BY <1>6, PutClall
<1> HIDE DEF a
<1>8. b \in Calculators /\ b.inc = NoEntry /\ Keeps(a, b, {"inc"})
  BY <1>7, NoEntryFacts, PutEntry
<1> HIDE DEF b
<1>9. c \in Calculators /\ c.saved = -1 /\ Keeps(b, c, {"saved"})
  BY <1>8, PutSaved
<1> HIDE DEF c
<1>10. c.pend = "none"
  BY <1>1, <1>4, <1>7, <1>8, <1>9 DEF Keeps, Fields
<1>11. t = c
  BY <1>5, <1>9, <1>10, SamePend
<1>12. Keeps(y, t, {"clall", "inc", "saved"})
  BY <1>7, <1>8, <1>9, <1>11 DEF Keeps
<1>13. {"clall", "inc", "saved"} \subseteq Plainer
  BY DEF Plainer
<1>14. Screen(t) /\ Fits(t) /\ ~Stale(t) /\ t.menu = y.menu
  BY <1>6, <1>9, <1>11, <1>12, <1>13, StaysFit
<1>15. t.inc = NoEntry /\ t.saved = -1 /\ t.pend = "none" /\ t.lines = s.lines /\ t.pc = s.pc
       /\ t.rpc = s.rpc
  <2>1. t.inc = NoEntry /\ t.saved = -1 /\ t.pend = "none"
    BY <1>8, <1>9, <1>10, <1>11 DEF Keeps, Fields
  <2>2. t.lines = y.lines /\ t.pc = y.pc /\ t.rpc = y.rpc
    BY <1>12 DEF Keeps, Fields
  <2>3. y.lines = s.lines /\ y.pc = s.pc /\ y.rpc = s.rpc
    BY <1>4 DEF Keeps, Fields
  <2> QED
    BY <2>1, <2>2, <2>3
<1>16. Keeps(s, t, OverFields)
  BY <1>4, <1>12 DEF Keeps, OverFields, DoneFields, MenuFields, AppFields
<1>17. Inv(t) /\ ~mode_command_entry(t) /\ ~t.alpha /\ ~t.num
  BY <1>1, <1>6, <1>14, <1>15, <1>16, OverInv
<1> QED
  BY <1>15, <1>17 DEF IsOver, NoTrace

LEMMA FoundOver ==
    ASSUME NEW s, Entering(s), s.inc.cmd = "XEQ", NEW found \in Found,
           NEW t, t = finish_xeq(s, found)
    PROVE  EntryStep(s, t)
<1> DEFINE w == Forgone(s)
<1>1. found \in Words /\ EndsWith(s, found)
  BY DEF Found, Words, Reached, EndsWith
<1>2. CASE t = Finished(s, found)
  BY <1>1, <1>2, FinishedOver
<1>3. CASE t = Asked(s)
  BY <1>3, AskedOver DEF EntryStep
<1>4. CASE t = w /\ ~s.prgm
  BY <1>4, GivenUpOver DEF EntryStep
<1>5. CASE t = start_incomplete_command(w, found)
  <2>1. /\ Free(w) /\ Keeps(s, w, {"inc", "menu", "sect"}) /\ Beside(s, w) /\ BelowSame(s, w)
        /\ w.menu["command"] = "none" /\ w.inc = NoEntry /\ w = [w EXCEPT !.inc = NoEntry]
        /\ ~s.prgm => IsOver(s, w)
    BY GivenUp, GivenUpOver
  <2> HIDE DEF w
  <2>2. w.saved = s.saved /\ w.prgm = s.prgm
    BY <2>1 DEF Keeps, Fields
  <2>3. w.saved # -1 => w.prgm
    BY <2>2, EnteringFree
  <2>4. Screen(w)
    BY <2>1 DEF Free
  <2>5. \/ EntryBegun(w, found, t)
        \/ ~w.prgm /\ (t = w \/ t = [w EXCEPT !.inc = NoEntry])
    BY <1>1, <1>5, <2>1, <2>4, StartFrame
  <2>6. CASE ~w.prgm /\ (t = w \/ t = [w EXCEPT !.inc = NoEntry])
    BY <2>1, <2>2, <2>6 DEF EntryStep
  <2>7. CASE EntryBegun(w, found, t) /\ ArgType(found) # "none"
    <3>1. /\ Entering(t) /\ BelowSame(w, t) /\ Keeps(w, t, {"inc", "menu", "sect", "local"})
      BY <2>1, <2>3, <2>7, BegunEntering
    <3>2. Keeps(s, t, {"inc", "menu", "sect", "local"})
      BY <2>1, <3>1 DEF Keeps
    <3>3. BelowSame(s, t)
      BY <2>1, <3>1 DEF BelowSame
    <3> QED
      BY <3>1, <3>2, <3>3 DEF GoesOn, EntryStep
  <2>8. CASE ArgType(found) = "none"
    <3>0. found # "CLV"
      BY <2>8 DEF ArgType
    <3>1. t = Finished(s, found) \/ t = Asked(s)
      BY <2>8, <3>0 DEF finish_xeq, Asked
    <3> QED
      BY <1>2, <1>3, <3>1
  <2> QED
    BY <2>5, <2>6, <2>7, <2>8
<1>6. \/ t = Finished(s, found)
      \/ t = Asked(s)
      \/ t = w /\ ~s.prgm
      \/ t = start_incomplete_command(w, found)
  BY DEF finish_xeq, Asked, Forgone
<1> QED
  BY <1>2, <1>3, <1>4, <1>5, <1>6

-----------------------------------------------------------------------------
(* The keys of an entry                                                    *)

(* One part of it is set. *)
LEMMA EntryInd ==
    ASSUME NEW i \in EntryStates, NEW b \in BOOLEAN
    PROVE  /\ [i EXCEPT !.ind = b] \in EntryStates
           /\ [i EXCEPT !.ind = b].cmd = i.cmd /\ [i EXCEPT !.ind = b].type = i.type
           /\ [i EXCEPT !.ind = b].ind = b
  BY DEF EntryStates

LEMMA EntrySpelled ==
    ASSUME NEW i \in EntryStates, NEW b \in BOOLEAN
    PROVE  /\ [i EXCEPT !.alpha = b] \in EntryStates
           /\ [i EXCEPT !.alpha = b].cmd = i.cmd /\ [i EXCEPT !.alpha = b].type = i.type
           /\ [i EXCEPT !.alpha = b].ind = i.ind
  BY DEF EntryStates

LEMMA EntryLen ==
    ASSUME NEW i \in EntryStates, NEW n \in Int
    PROVE  /\ [i EXCEPT !.len = n] \in EntryStates
           /\ [i EXCEPT !.len = n].cmd = i.cmd /\ [i EXCEPT !.len = n].type = i.type
           /\ [i EXCEPT !.len = n].ind = i.ind
  BY DEF EntryStates

LEMMA EntryMax ==
    ASSUME NEW i \in EntryStates, NEW n \in Int
    PROVE  /\ [i EXCEPT !.max = n] \in EntryStates
           /\ [i EXCEPT !.max = n].cmd = i.cmd /\ [i EXCEPT !.max = n].type = i.type
           /\ [i EXCEPT !.max = n].ind = i.ind
  BY DEF EntryStates

LEMMA EntryCmd ==
    ASSUME NEW i \in EntryStates, NEW c \in Words
    PROVE  /\ [i EXCEPT !.cmd = c] \in EntryStates
           /\ [i EXCEPT !.cmd = c].cmd = c /\ [i EXCEPT !.cmd = c].type = i.type
           /\ [i EXCEPT !.cmd = c].ind = i.ind
  BY DEF EntryStates

LEMMA EntryType ==
    ASSUME NEW i \in EntryStates, NEW y \in ArgTypes
    PROVE  /\ [i EXCEPT !.type = y] \in EntryStates
           /\ [i EXCEPT !.type = y].cmd = i.cmd /\ [i EXCEPT !.type = y].type = y
           /\ [i EXCEPT !.type = y].ind = i.ind
  BY DEF EntryStates

LEMMA EnteringFacts ==
    ASSUME NEW s, Entering(s)
    PROVE  /\ Screen(s) /\ s \in Calculators /\ s.inc \in EntryStates /\ s.inc.cmd # "none"
           /\ s.inc.cmd \notin Internal
           /\ s.inc.type = "ckey" => s.inc.cmd = "ASSIGNb" /\ s.menu["command"] \in Custom
           /\ s.inc.type = "mkey" => s.inc.cmd = "KEYG"
           /\ s.menu["command"] = "ind" => s.inc.cmd = "GTODOT"
           /\ s.menu["command"] \in {"varmenu", "integ"} => s.menu["app"] = s.menu["command"]
           /\ s.menu["command"] \in CommandMenus /\ s.sect["command"] \in Sections \ ProgramSections
           /\ EndsWith(s, s.inc.cmd) /\ EndsWith(s, "null") /\ EndsWith(s, "cancelled")
<1>1. Screen(s) /\ s \in Calculators /\ EntryFits(s)
      /\ (s.menu["command"] \in {"varmenu", "integ"} => s.menu["app"] = s.menu["command"])
  BY EnteringFree
<1>2. s.inc \in EntryStates
  BY <1>1 DEF Calculators
<1>3. s.inc.cmd # "none"
  BY DEF Entering, mode_command_entry
<1>4. "command" \in Levels /\ MenusOf("command") = CommandMenus
  BY LevelFacts, MenusOfLevels
<1>5. s.menu["command"] \in CommandMenus /\ Sectioned(s, "command") /\ s.sect["command"] \in Sections
  BY <1>1, <1>4 DEF Screen, Calculators, SectStates
<1>6. s.sect["command"] \notin ProgramSections
  BY <1>5 DEF Sectioned
<1> QED
  BY <1>1, <1>2, <1>3, <1>5, <1>6, UsualEnds DEF EntryFits

LEMMA EditedFrame ==
    ASSUME NEW s, Entering(s), s.inc.type # "ckey", NEW x, Revised(s, x), NEW v, v = Edited(s, x)
    PROVE  /\ Screen(v) /\ v.inc = x /\ Keeps(s, v, {"inc"})
           /\ v.menu = s.menu /\ v.sect = s.sect /\ v.kinds = s.kinds /\ v.prgm = s.prgm
           /\ \A t : Prompt(v, t) => GoesOn(s, t)
           /\ s.menu["command"] # "ind" \/ x.cmd = "GTODOT" => GoesOn(s, v)
<1>1. /\ Screen(s) /\ s \in Calculators /\ x \in EntryStates
      /\ s.inc.type = "mkey" => s.inc.cmd = "KEYG"
      /\ s.inc.cmd # "none" /\ s.inc.cmd \notin Internal
      /\ s.menu["command"] \in {"varmenu", "integ"} => s.menu["app"] = s.menu["command"]
  BY EnteringFacts DEF Revised
<1>2. v \in Calculators /\ v.inc = x /\ Keeps(s, v, {"inc"})
  BY <1>1, PutEntry DEF Edited
<1>3. Screen(v)
  BY <1>1, <1>2, SameScreen
<1>4. v.menu = s.menu /\ v.sect = s.sect /\ v.kinds = s.kinds /\ v.prgm = s.prgm
  BY <1>2 DEF Keeps, Fields
<1>5. /\ x.cmd # "none" /\ x.cmd \notin Internal /\ x.type # "ckey"
      /\ x.type = "mkey" => x.cmd = "KEYG"
      /\ x.cmd # "PRP" => s.inc.cmd # "PRP"
  BY <1>1 DEF Revised
<1>6. Keeps(s, v, {"inc", "local"})
  BY <1>2 DEF Keeps
<1>7. ASSUME NEW t, Prompt(v, t) PROVE GoesOn(s, t)
  BY <1>2, <1>3, <1>5, <1>6, <1>7, PromptGoesOn
<1>8. ASSUME s.menu["command"] # "ind" \/ x.cmd = "GTODOT" PROVE GoesOn(s, v)
  <2>1. Prompt(v, v)
    BY <1>1, <1>2, <1>3, <1>4, <1>8, PromptSame
  <2> QED
    BY <1>7, <2>1
<1> QED
  BY <1>2, <1>3, <1>4, <1>7, <1>8

(* What is shown for the command as it is now *)
LEMMA EditedShows ==
    ASSUME NEW s, Entering(s), s.inc.type # "ckey", NEW x, Revised(s, x), NEW v, v = Edited(s, x)
    PROVE  /\ \A m \in CommandMenus \ {"varmenu", "integ", "ind"} :
                  GoesOn(s, Shows(v, "command", m))
           /\ x.cmd = "GTODOT" => GoesOn(s, Shows(v, "command", "ind"))
           /\ \A k \in Sections \ ProgramSections : GoesOn(s, set_catalog_menu(v, k))
           /\ \A k \in Sections \ ProgramSections : GoesOn(s, ByApplication(v, k))
<1>1. /\ Screen(v) /\ v.inc = x /\ v.menu = s.menu
      /\ \A t : Prompt(v, t) => GoesOn(s, t)
  BY EditedFrame
<1>2. "ind" \in CommandMenus
  BY DEF CommandMenus
<1>3. ASSUME NEW m \in CommandMenus \ {"varmenu", "integ", "ind"} PROVE GoesOn(s, Shows(v, "command", m))
  <2>1. Prompt(v, Shows(v, "command", m))
    BY <1>1, PromptShows
  <2> QED
    BY <1>1, <2>1
<1>4. ASSUME x.cmd = "GTODOT" PROVE GoesOn(s, Shows(v, "command", "ind"))
  <2>1. Prompt(v, Shows(v, "command", "ind"))
    BY <1>1, <1>2, <1>4, PromptShows
  <2> QED
    BY <1>1, <2>1
<1>5. ASSUME NEW k \in Sections \ ProgramSections
      PROVE  GoesOn(s, set_catalog_menu(v, k)) /\ GoesOn(s, ByApplication(v, k))
  <2>1. Prompt(v, set_catalog_menu(v, k)) /\ Prompt(v, ByApplication(v, k))
    BY <1>1, PromptCatalog, PromptApplication
  <2> QED
    BY <1>1, <2>1
<1> QED
  BY <1>3, <1>4, <1>5

(* Nothing has changed but what is shown. *)
LEMMA AsItIs ==
    ASSUME NEW s, Entering(s), s.inc.type # "ckey"
    PROVE  Revised(s, s.inc) /\ Edited(s, s.inc) = s
<1>1. s \in Calculators /\ s.inc \in EntryStates
  BY EnteringFacts
<1>2. Revised(s, s.inc)
  BY <1>1 DEF Revised
<1>3. Edited(s, s.inc) = s
  BY <1>1 DEF Edited, Calculators
<1> QED
  BY <1>2, <1>3

LEMMA ShowsOn ==
    ASSUME NEW s, Entering(s), s.inc.type # "ckey"
    PROVE  /\ \A m \in CommandMenus \ {"varmenu", "integ", "ind"} :
                  GoesOn(s, Shows(s, "command", m))
           /\ s.inc.cmd = "GTODOT" => GoesOn(s, Shows(s, "command", "ind"))
           /\ \A k \in Sections \ ProgramSections : GoesOn(s, set_catalog_menu(s, k))
           /\ \A k \in Sections \ ProgramSections : GoesOn(s, ByApplication(s, k))
  BY AsItIs, EditedShows

LEMMA SectionOn ==
    ASSUME NEW s, Entering(s), s.inc.type # "ckey", s.menu["command"] = "catalog",
           NEW k \in Sections \ ProgramSections
    PROVE  GoesOn(s, set_cat_section(s, k))
<1>1. Screen(s)
  BY EnteringFacts
<1>2. Prompt(s, set_cat_section(s, k))
  BY <1>1, PromptSection
<1>3. \A t : Prompt(s, t) => GoesOn(s, t)
  BY AsItIs, EditedFrame
<1> QED
  BY <1>2, <1>3

-----------------------------------------------------------------------------
(* Menus an argument is chosen from                                        *)

LEMMA StackKeySteps ==
    ASSUME NEW s, Entering(s), s.inc.type # "ckey", s.menu["command"] \in {"st", "ind_st"}, NEW e,
           NEW t, t = StackKey(s, e)
    PROVE  EntryStep(s, t)
<1> DEFINE x == [s.inc EXCEPT !.ind = TRUE, !.alpha = FALSE, !.max = 2]
<1>1. s.inc \in EntryStates /\ s \in Calculators
      /\ EndsWith(s, s.inc.cmd) /\ EndsWith(s, "null") /\ EndsWith(s, "cancelled")
  BY EnteringFacts
<1>2. [s EXCEPT !.inc.ind = TRUE, !.inc.alpha = FALSE, !.inc.max = 2] = Edited(s, x)
  BY <1>1 DEF Edited, Calculators, EntryStates
<1>3. Revised(s, x)
  <2> DEFINE a == [s.inc EXCEPT !.ind = TRUE]
             b == [a EXCEPT !.alpha = FALSE]
  <2>1. a \in EntryStates /\ a.cmd = s.inc.cmd /\ a.type = s.inc.type
    BY <1>1, EntryInd
  <2> HIDE DEF a
  <2>2. b \in EntryStates /\ b.cmd = s.inc.cmd /\ b.type = s.inc.type
    BY <2>1, EntrySpelled
  <2> HIDE DEF b
  <2>3. x = [b EXCEPT !.max = 2]
    BY DEF a, b
  <2>4. x \in EntryStates /\ x.cmd = s.inc.cmd /\ x.type = s.inc.type
    BY <2>2, <2>3, EntryMax
  <2> QED
    BY <2>4 DEF Revised
<1>4. \/ t = Finished(s, s.inc.cmd) \/ t = Finished(s, "null") \/ t = Finished(s, "cancelled")
      \/ t = set_catalog_menu(Edited(s, x), "real_only") \/ t = s
  BY <1>2 DEF StackKey
<1> HIDE DEF x
<1>5. "real_only" \in Sections \ ProgramSections
  BY DEF Sections, ProgramSections
<1>6. CASE t = set_catalog_menu(Edited(s, x), "real_only")
  BY <1>3, <1>5, <1>6, EditedShows DEF EntryStep
<1> QED
  BY <1>1, <1>4, <1>6, FinishedOver, GoesOnSame DEF EntryStep

LEMMA CustomKeySteps ==
    ASSUME NEW s, Entering(s), s.inc.type = "ckey", NEW e, NEW t, t = CustomKey(s, e)
    PROVE  EntryStep(s, t)
<1> DEFINE m == Sibling(s.menu["command"])
<1>1. /\ Screen(s) /\ s.inc.cmd = "ASSIGNb" /\ s.menu["command"] \in Custom
      /\ EndsWith(s, "null") /\ EndsWith(s, "cancelled")
  BY EnteringFacts
<1>2. EndsWith(s, "ASGN")
  BY <1>1 DEF EndsWith, Words
<1>3. \/ t = Finished(s, "ASGN") \/ t = Finished(s, "null") \/ t = Finished(s, "cancelled")
      \/ t = Shows(s, "command", m) \/ t = s
  BY DEF CustomKey
<1>4. m \in Custom /\ m \in CommandMenus
  BY <1>1 DEF Sibling, Custom, CommandMenus
<1> HIDE DEF m
<1>5. CASE t = Shows(s, "command", m)
  <2>1. /\ Screen(t) /\ Keeps(s, t, {"menu", "sect"}) /\ Beside(s, t) /\ t.menu["command"] = m
    BY <1>1, <1>4, <1>5, CommandShown
  <2>2. t.inc = s.inc
    BY <2>1 DEF Keeps, Fields
  <2>3. mode_command_entry(t) /\ EntryFits(t)
    BY <1>1, <1>4, <2>1, <2>2 DEF mode_command_entry, EntryFits, Custom, Internal
  <2>4. m \notin {"varmenu", "integ"}
    BY <1>4 DEF Custom
  <2>5. Keeps(s, t, {"inc", "menu", "sect", "local"})
    BY <2>1 DEF Keeps
  <2>6. GoesOn(s, t)
    BY <2>1, <2>2, <2>3, <2>4, <2>5, GoesOnBy
  <2> QED
    BY <2>6 DEF EntryStep
<1> QED
  BY <1>1, <1>2, <1>3, <1>5, FinishedOver, GoesOnSame DEF EntryStep

LEMMA MenuKeySteps ==
    ASSUME NEW s, Entering(s), s.inc.type = "mkey", NEW e, NEW t, t = MenuKey(s, e)
    PROVE  EntryStep(s, t)
<1>1. s.inc.cmd = "KEYG" /\ s.menu["command"] # "ind" /\ EndsWith(s, "null")
  BY EnteringFacts
<1>2. "KEY1G" \in Words /\ ArgType("KEY1G") = "lbl"
  BY ArgFacts DEF Words
<1>3. t = start_incomplete_command(s, "KEY1G") \/ t = Finished(s, "null") \/ t = s
  BY DEF MenuKey
<1>4. CASE t = start_incomplete_command(s, "KEY1G")
  BY <1>1, <1>2, <1>4, StartGoesOn DEF EntryStep
<1> QED
  BY <1>1, <1>3, <1>4, FinishedOver, GoesOnSame DEF EntryStep

LEMMA OuterSections ==
    ASSUME NEW x
    PROVE  Outer(x) # "none" => Outer(x) \in Sections \ ProgramSections
  BY DEF Outer, Sections, ProgramSections

LEMMA CatalogItemSteps ==
    ASSUME NEW s, Entering(s), s.inc.type # "ckey", s.menu["command"] = "catalog", NEW item,
           ItemFits(s, item), item = "cmp" => s.sect["command"] = "ext",
           NEW t, t = CatalogItem(s, item)
    PROVE  EntryStep(s, t) \/ Lingers(s, t)
<1> DEFINE section == s.sect["command"]
           found == IF section \in {"fcn", "ext", "misc", "cmp"} THEN item ELSE "XEQ"
<1>1. EndsWith(s, s.inc.cmd)
  BY EnteringFacts
<1>2. /\ {"fcn", "pgm", "real", "mat", "ext", "misc", "cmp"} \subseteq Sections \ ProgramSections
  BY DEF Sections, ProgramSections
<1>3. \/ t = set_cat_section(s, item) /\ item \in {"fcn", "pgm", "real", "mat"}
      \/ t = s \/ t = [s EXCEPT !.pend = "linger1"]
      \/ t = set_cat_section(s, "ext") \/ t = set_cat_section(s, "misc")
      \/ t = set_cat_section(s, "cmp") \/ t = Finished(s, s.inc.cmd)
      \/ /\ t = finish_xeq(s, found) /\ s.inc.cmd = "XEQ"
         /\ section \in {"fcn", "ext", "misc", "cmp"} => item \notin {"no", "cmp"}
  <2>1. CASE section \in {"fcn", "ext", "misc", "cmp"} /\ item = "no"
    BY <2>1 DEF CatalogItem
  <2>2. CASE section = "ext" /\ item = "cmp"
    BY <2>2 DEF CatalogItem
  <2>3. CASE section \in {"fcn", "ext", "misc", "cmp"} /\ item \notin {"no", "cmp"}
    <3>1. t = Finished(s, s.inc.cmd) \/ (t = finish_xeq(s, item) /\ s.inc.cmd = "XEQ")
      BY <2>3 DEF CatalogItem
    <3> QED
      BY <2>3, <3>1
  <2>4. CASE section = "top"
    <3>1. \/ t = set_cat_section(s, item) /\ item \in {"fcn", "pgm", "real", "mat"}
          \/ t = s \/ t = [s EXCEPT !.pend = "linger1"]
          \/ t = Finished(s, s.inc.cmd)
          \/ t = finish_xeq(s, "XEQ") /\ s.inc.cmd = "XEQ"
      BY <2>4 DEF CatalogItem
    <3> QED
      BY <2>4, <3>1
  <2>5. CASE section \notin {"top", "fcn", "ext", "misc", "cmp"}
    <3>1. \/ t = s \/ t = set_cat_section(s, "ext") \/ t = set_cat_section(s, "misc")
          \/ t = Finished(s, s.inc.cmd)
          \/ t = finish_xeq(s, "XEQ") /\ s.inc.cmd = "XEQ"
      <4>1. CASE section = "ext1"
        BY <4>1 DEF CatalogItem
      <4>2. CASE section = "ext2"
        BY <4>2 DEF CatalogItem
      <4>3. CASE section \notin {"ext1", "ext2"}
        BY <2>5, <4>3 DEF CatalogItem
      <4> QED
        BY <4>1, <4>2, <4>3
    <3> QED
      BY <2>5, <3>1
  <2> QED
    BY <2>1, <2>2, <2>3, <2>4, <2>5
<1>4. CASE /\ t = finish_xeq(s, found) /\ s.inc.cmd = "XEQ"
           /\ section \in {"fcn", "ext", "misc", "cmp"} => item \notin {"no", "cmp"}
  <2>1. found \in Found
    BY <1>4 DEF ItemFits, Found
  <2> QED
    BY <1>4, <2>1, FoundOver
<1>5. CASE t = set_cat_section(s, item) /\ item \in {"fcn", "pgm", "real", "mat"}
  BY <1>2, <1>5, SectionOn DEF EntryStep
<1>6. CASE t = set_cat_section(s, "ext") \/ t = set_cat_section(s, "misc") \/ t = set_cat_section(s, "cmp")
  BY <1>2, <1>6, SectionOn DEF EntryStep
<1>7. CASE t = Finished(s, s.inc.cmd)
  BY <1>1, <1>7, FinishedOver
<1> QED
  BY <1>3, <1>4, <1>5, <1>6, <1>7, GoesOnSame DEF EntryStep, Lingers

LEMMA CatalogExitSteps ==
    ASSUME NEW s, Entering(s), s.inc.type # "ckey", s.menu["command"] = "catalog",
           NEW t, t = CatalogExit(s)
    PROVE  EntryStep(s, t)
<1>1. EndsWith(s, "cancelled")
  BY EnteringFacts
<1>2. CASE Outer(s.sect["command"]) # "none"
  BY <1>2, OuterSections, SectionOn DEF CatalogExit, EntryStep
<1>3. CASE Outer(s.sect["command"]) = "none"
  BY <1>1, <1>3, FinishedOver DEF CatalogExit
<1> QED
  BY <1>2, <1>3

LEMMA ParameterKeySteps ==
    ASSUME NEW s, Entering(s), NEW e, NEW t, t = ParameterKey(s, e)
    PROVE  EntryStep(s, t)
<1>1. t = Finished(s, s.inc.cmd) \/ t = Finished(s, "cancelled") \/ t = s
  BY DEF ParameterKey
<1> QED
  BY <1>1, EnteringFacts, FinishedOver, GoesOnSame DEF EntryStep

-----------------------------------------------------------------------------
(* Numeric arguments                                                       *)

LEMMA SpelledOn ==
    ASSUME NEW s, Argument(s) PROVE GoesOn(s, Spelled(s))
<1> DEFINE x == [s.inc EXCEPT !.alpha = TRUE]
<1>1. s \in Calculators /\ s.inc \in EntryStates
  BY EnteringFacts DEF Argument
<1>2. Spelled(s) = Shows(Edited(s, x), "command", "alpha1")
  BY <1>1 DEF Spelled, Edited, Calculators, EntryStates
<1>3. Revised(s, x)
  BY <1>1, EntrySpelled DEF Revised
<1> HIDE DEF x
<1>4. "alpha1" \in CommandMenus \ {"varmenu", "integ", "ind"}
  BY DEF CommandMenus, AlphaMenus
<1> QED
  BY <1>2, <1>3, <1>4, EditedShows DEF Argument

LEMMA IndirectOn ==
    ASSUME NEW s, Argument(s) PROVE GoesOn(s, Indirect(s))
<1> DEFINE a == [s.inc EXCEPT !.ind = TRUE]
           x == [a EXCEPT !.max = 2]
<1>1. s \in Calculators /\ s.inc \in EntryStates
  BY EnteringFacts DEF Argument
<1>2. Indirect(s) = set_catalog_menu(Edited(s, x), "real_only")
  BY <1>1 DEF Indirect, Edited, Calculators, EntryStates
<1>3. a \in EntryStates /\ a.cmd = s.inc.cmd /\ a.type = s.inc.type
  BY <1>1, EntryInd
<1> HIDE DEF a
<1>4. Revised(s, x)
  BY <1>3, EntryMax DEF Revised
<1> HIDE DEF x
<1>5. "real_only" \in Sections \ ProgramSections
  BY DEF Sections, ProgramSections
<1> QED
  BY <1>2, <1>4, <1>5, EditedShows DEF Argument

LEMMA GtoDotOn ==
    ASSUME NEW s, Argument(s), s.inc.cmd = "GTO" PROVE GoesOn(s, GtoDot(s))
<1> DEFINE a == [s.inc EXCEPT !.cmd = "GTODOT"]
           b == [a EXCEPT !.type = "other"]
           x == [b EXCEPT !.max = CountDigits]
<1>1. s \in Calculators /\ s.inc \in EntryStates /\ "GTODOT" \in Words /\ "other" \in ArgTypes
      /\ CountDigits \in Int
  BY EnteringFacts DEF Argument, Words, ArgTypes
<1>2. GtoDot(s) = Shows(Edited(s, x), "command", "ind")
  BY <1>1 DEF GtoDot, Edited, Calculators, EntryStates
<1>3. a \in EntryStates /\ a.cmd = "GTODOT"
  BY <1>1, EntryCmd
<1> HIDE DEF a
<1>4. b \in EntryStates /\ b.cmd = "GTODOT" /\ b.type = "other"
  BY <1>1, <1>3, EntryType
<1> HIDE DEF b
<1>5. x \in EntryStates /\ x.cmd = "GTODOT" /\ x.type = "other"
  BY <1>1, <1>4, EntryMax
<1> HIDE DEF x
<1>6. Revised(s, x)
  BY <1>5 DEF Revised, Internal
<1> QED
  BY <1>2, <1>5, <1>6, EditedShows DEF Argument

LEMMA NumberDoneSteps ==
    ASSUME NEW s, Argument(s), NEW list, NEW t, t = NumberDone(s, list)
    PROVE  EntryStep(s, t)
<1>1. /\ EndsWith(s, s.inc.cmd) /\ Entering(s)
      /\ s.menu["command"] = "ind" => s.inc.cmd = "GTODOT"
  BY EnteringFacts DEF Argument
<1>2. "GOTOCOLUMN" \in Words /\ ArgType("GOTOCOLUMN") = "count"
  BY ArgFacts DEF Words
<1>3. \/ t = start_incomplete_command(s, "GOTOCOLUMN") /\ s.inc.cmd = "GOTOROW"
      \/ t = Finished(s, "none") /\ s.inc.cmd # "PRP"
      \/ t = Finished(s, s.inc.cmd)
  BY DEF NumberDone
<1>4. CASE t = start_incomplete_command(s, "GOTOCOLUMN") /\ s.inc.cmd = "GOTOROW"
  BY <1>1, <1>2, <1>4, StartGoesOn DEF EntryStep
<1>5. CASE t = Finished(s, "none") /\ s.inc.cmd # "PRP"
  <2>1. EndsWith(s, "none")
    BY <1>5, NoEntryFacts DEF EndsWith
  <2> QED
    BY <1>1, <1>5, <2>1, FinishedOver
<1>6. CASE t = Finished(s, s.inc.cmd)
  BY <1>1, <1>6, FinishedOver
<1> QED
  BY <1>3, <1>4, <1>5, <1>6

LEMMA NumericEnterSteps ==
    ASSUME NEW s, Argument(s), NEW e, NEW t, t = NumericEnter(s, e)
    PROVE  EntryStep(s, t)
<1>1. t = s \/ t = Spelled(s) \/ t = NumberDone(s, e.item = "list")
  BY DEF NumericEnter
<1> QED
  BY <1>1, SpelledOn, NumberDoneSteps, GoesOnSame DEF Argument, EntryStep

LEMMA NumericDotSteps ==
    ASSUME NEW s, Argument(s), NEW t, t = NumericDot(s)
    PROVE  EntryStep(s, t)
<1>1. t = s \/ t = Shows(s, "command", "st") \/ t = Shows(s, "command", "ind_st") \/ t = Indirect(s)
  BY DEF NumericDot
<1>2. {"st", "ind_st"} \subseteq CommandMenus \ {"varmenu", "integ", "ind"}
  BY DEF CommandMenus
<1> QED
  BY <1>1, <1>2, ShowsOn, IndirectOn, GoesOnSame DEF Argument, EntryStep

LEMMA OfferedOn ==
    ASSUME NEW s, Argument(s) PROVE GoesOn(s, Offered(s))
<1>1. \/ Offered(s) = set_catalog_menu(s, "real_only") \/ Offered(s) = ByApplication(s, "vars_only")
      \/ Offered(s) = ByApplication(s, "real_only") \/ Offered(s) = set_catalog_menu(s, "pgm_only")
      \/ Offered(s) = Shows(s, "command", "ind") /\ s.inc.cmd = "GTODOT"
      \/ Offered(s) = Shows(s, "command", "alpha1") \/ Offered(s) = s
  BY DEF Offered
<1>2. {"real_only", "vars_only", "pgm_only"} \subseteq Sections \ ProgramSections
  BY DEF Sections, ProgramSections
<1>3. "alpha1" \in CommandMenus \ {"varmenu", "integ", "ind"}
  BY DEF CommandMenus, AlphaMenus
<1> QED
  BY <1>1, <1>2, <1>3, ShowsOn, GoesOnSame DEF Argument

(* The argument has another length. *)
LEMMA LengthOn ==
    ASSUME NEW s, Argument(s), NEW n \in Int, NEW v, v = WithLength(s, n)
    PROVE  GoesOn(s, v) /\ Argument(v) /\ v.menu = s.menu /\ v.inc.cmd = s.inc.cmd
           /\ v.inc.type = s.inc.type /\ v.sect = s.sect
<1> DEFINE x == [s.inc EXCEPT !.len = n]
<1>1. s \in Calculators /\ s.inc \in EntryStates /\ (s.menu["command"] = "ind" => s.inc.cmd = "GTODOT")
  BY EnteringFacts DEF Argument
<1>2. v = Edited(s, x)
  BY <1>1 DEF WithLength, Edited, Calculators, EntryStates
<1>3. Revised(s, x) /\ x.cmd = s.inc.cmd /\ x.type = s.inc.type
  BY <1>1, EntryLen DEF Revised
<1> HIDE DEF x
<1>4. GoesOn(s, v) /\ v.inc = x /\ v.menu = s.menu /\ v.sect = s.sect
  BY <1>1, <1>2, <1>3, EditedFrame DEF Argument
<1> QED
  BY <1>3, <1>4 DEF Argument, GoesOn

LEMMA NumericBspSteps ==
    ASSUME NEW s, Argument(s), NEW v, GoesOn(s, v), Argument(v), NEW t, t = NumericBsp(s, v)
    PROVE  EntryStep(s, t)
<1>1. /\ EndsWith(s, "null") /\ Entering(s)
      /\ s.menu["command"] = "ind" => s.inc.cmd = "GTODOT"
  BY EnteringFacts DEF Argument
<1>2. "KEYG" \in Words /\ ArgType("KEYG") = "mkey" /\ "vars_only" \in Sections \ ProgramSections
  BY ArgFacts DEF Words, Reached, Sections, ProgramSections
<1>3. \/ t = Finished(s, "null")
      \/ t = start_incomplete_command(s, "KEYG") /\ s.inc.cmd = "KEY1G"
      \/ t = ByApplication(v, "vars_only") \/ t = Offered(v) \/ t = v
  BY DEF NumericBsp
<1>4. CASE t = start_incomplete_command(s, "KEYG") /\ s.inc.cmd = "KEY1G"
  BY <1>1, <1>2, <1>4, StartGoesOn DEF EntryStep
<1>5. CASE t = ByApplication(v, "vars_only") \/ t = Offered(v)
  <2>1. GoesOn(v, t)
    BY <1>2, <1>5, ShowsOn, OfferedOn DEF Argument
  <2> QED
    BY <2>1, GoesOnTwice DEF EntryStep
<1> QED
  BY <1>1, <1>3, <1>4, <1>5, FinishedOver DEF EntryStep

LEMMA NumericKeySteps ==
    ASSUME NEW s, Argument(s), NEW e, NEW t, t = NumericKey(s, e)
    PROVE  EntryStep(s, t)
<1> DEFINE n == s.inc.len
           v == WithLength(s, n + 1)
           w == WithLength(s, IF n = 0 THEN 0 ELSE n - 1)
           to == [s.inc EXCEPT !.type = "lbl"]
           a == [s.inc EXCEPT !.cmd = "GTO"]
           b == [a EXCEPT !.type = "lbl"]
           c == [b EXCEPT !.ind = TRUE]
           x == [c EXCEPT !.max = 2]
           y == [s.inc EXCEPT !.cmd = "STO_ADD"]
<1>1. /\ EndsWith(s, "cancelled")
      /\ EndsWith(s, "GTODOTDOT") \/ s.inc.cmd # "GTODOT"
      /\ s.menu["command"] = "ind" => s.inc.cmd = "GTODOT"
  BY EnteringFacts DEF Argument, EndsWith, Words
<1>2. /\ s \in Calculators /\ s.inc \in EntryStates /\ n \in Int /\ Entering(s)
      /\ s.inc.type \notin {"ckey", "mkey"}
      /\ "GTO" \in Words /\ "STO_ADD" \in Words /\ "lbl" \in ArgTypes
  BY EnteringFacts DEF Argument, EntryStates, Words, Reached, ArgTypes
<1>3. \/ t = Finished(s, "cancelled")
      \/ /\ s.menu["command"] = "ind"
         /\ t = set_catalog_menu([s EXCEPT !.inc.cmd = "GTO", !.inc.type = "lbl",
                                           !.inc.ind = TRUE, !.inc.max = 2], "real_only")
      \/ s.menu["command"] = "ind" /\ t = Spelled([s EXCEPT !.inc.type = "lbl"])
      \/ s.inc.cmd = "STO" /\ t = [s EXCEPT !.inc.cmd = "STO_ADD"]
      \/ s.inc.cmd = "GTO" /\ t = GtoDot(s)
      \/ s.inc.cmd = "GTODOT" /\ t = Finished(s, "GTODOTDOT")
      \/ t = NumericEnter(s, e) \/ t = NumericDot(s)
      \/ t = NumericDigit(s, v, e) \/ t = NumericBsp(s, w)
      \/ t = s
  <2>1. CASE e.key = "bsp"
    <3>1. CASE n < s.inc.max
      <4>1. t = NumericBsp(s, WithLength(s, IF s.inc.len = 0 THEN 0 ELSE s.inc.len - 1))
        BY <2>1, <3>1 DEF NumericKey
      <4> QED
        BY <4>1
    <3>2. CASE ~(n < s.inc.max)
      <4>1. t = s
        BY <2>1, <3>2 DEF NumericKey
      <4> QED
        BY <4>1
    <3> QED
      BY <3>1, <3>2
  <2>2. CASE e.key \in {"exit", "top", "arith", "digit"}
    <3>1. CASE e.key = "exit"
      BY <3>1 DEF NumericKey
    <3>2. CASE e.key = "top"
      BY <3>2 DEF NumericKey
    <3>3. CASE e.key = "arith"
      BY <3>3 DEF NumericKey
    <3>4. CASE e.key = "digit"
      <4>1. CASE n < s.inc.max
        <5>1. t = NumericDigit(s, WithLength(s, s.inc.len + 1), e)
          BY <3>4, <4>1 DEF NumericKey
        <5> QED
          BY <5>1
      <4>2. CASE ~(n < s.inc.max)
        <5>1. t = s
          BY <3>4, <4>2 DEF NumericKey
        <5> QED
          BY <5>1
      <4> QED
        BY <4>1, <4>2
    <3> QED
      BY <2>2, <3>1, <3>2, <3>3, <3>4
  <2>3. CASE e.key \in {"enter", "ALPHA"}
    <3>1. CASE s.menu["command"] = "ind"
      <4>1. t = Spelled([s EXCEPT !.inc.type = "lbl"])
        BY <2>3, <3>1 DEF NumericKey
      <4> QED
        BY <3>1, <4>1
    <3>2. CASE s.menu["command"] # "ind"
      <4>1. t = NumericEnter(s, e)
        BY <2>3, <3>2 DEF NumericKey
      <4> QED
        BY <4>1
    <3> QED
      BY <3>1, <3>2
  <2>4. CASE e.key = "dot"
    <3>1. \/ s.inc.cmd = "GTO" /\ t = GtoDot(s)
          \/ s.inc.cmd = "GTODOT" /\ t = Finished(s, "GTODOTDOT")
          \/ t = NumericDot(s) \/ t = s
      BY <2>4 DEF NumericKey
    <3> QED
      BY <3>1
  <2>5. CASE e.key \notin {"bsp", "exit", "top", "arith", "digit", "enter", "ALPHA", "dot"}
    <3>1. t = s
      BY <2>5 DEF NumericKey
    <3> QED
      BY <3>1
  <2> QED
    BY <2>1, <2>2, <2>3, <2>4, <2>5
<1>4. CASE /\ s.menu["command"] = "ind"
           /\ t = set_catalog_menu([s EXCEPT !.inc.cmd = "GTO", !.inc.type = "lbl",
                                             !.inc.ind = TRUE, !.inc.max = 2], "real_only")
  <2>1. [s EXCEPT !.inc.cmd = "GTO", !.inc.type = "lbl", !.inc.ind = TRUE, !.inc.max = 2] = Edited(s, x)
    BY <1>2 DEF Edited, Calculators, EntryStates
  <2>2. a \in EntryStates /\ a.cmd = "GTO"
    BY <1>2, EntryCmd
  <2> HIDE DEF a
  <2>3. b \in EntryStates /\ b.cmd = "GTO" /\ b.type = "lbl"
    BY <1>2, <2>2, EntryType
  <2> HIDE DEF b
  <2>4. c \in EntryStates /\ c.cmd = "GTO" /\ c.type = "lbl"
    BY <2>3, EntryInd
  <2> HIDE DEF c
  <2>5. x \in EntryStates /\ x.cmd = "GTO" /\ x.type = "lbl"
    BY <2>4, EntryMax
  <2> HIDE DEF x
  <2>6. Revised(s, x)
    BY <1>1, <1>4, <2>5 DEF Revised, Internal
  <2>7. "real_only" \in Sections \ ProgramSections
    BY DEF Sections, ProgramSections
  <2> QED
    BY <1>2, <1>4, <2>1, <2>6, <2>7, EditedShows DEF EntryStep
<1>5. CASE s.menu["command"] = "ind" /\ t = Spelled([s EXCEPT !.inc.type = "lbl"])
  <2>1. [s EXCEPT !.inc.type = "lbl"] = Edited(s, to)
    BY <1>2 DEF Edited, Calculators
  <2>2. to \in EntryStates /\ to.cmd = s.inc.cmd /\ to.type = "lbl"
    BY <1>2, EntryType
  <2> HIDE DEF to
  <2>3. Revised(s, to)
    BY <1>1, <1>5, <2>2 DEF Revised, Internal
  <2> DEFINE z == Edited(s, to)
  <2>4. z.inc = to /\ GoesOn(s, z)
    BY <1>1, <1>2, <1>5, <2>2, <2>3, EditedFrame
  <2>5. t = Spelled(z)
    BY <1>5, <2>1
  <2> HIDE DEF z
  <2>6. Argument(z)
    BY <2>2, <2>4 DEF Argument, GoesOn
  <2>7. GoesOn(z, t)
    BY <2>5, <2>6, SpelledOn
  <2> QED
    BY <2>4, <2>7, GoesOnTwice DEF EntryStep
<1>6. CASE s.inc.cmd = "STO" /\ t = [s EXCEPT !.inc.cmd = "STO_ADD"]
  <2>1. t = Edited(s, y)
    BY <1>2, <1>6 DEF Edited, Calculators
  <2>2. y \in EntryStates /\ y.cmd = "STO_ADD" /\ y.type = s.inc.type
    BY <1>2, EntryCmd
  <2> HIDE DEF y
  <2>3. Revised(s, y)
    BY <1>2, <1>6, <2>2 DEF Revised, Internal
  <2> QED
    BY <1>1, <1>2, <1>6, <2>1, <2>3, EditedFrame DEF EntryStep
<1>7. CASE s.inc.cmd = "GTO" /\ t = GtoDot(s)
  BY <1>7, GtoDotOn DEF EntryStep
<1>8. CASE t = NumericDigit(s, v, e)
  <2>1. GoesOn(s, v) /\ Argument(v)
    BY <1>2, LengthOn
  <2> HIDE DEF v
  <2>2. t = NumberDone(v, e.item = "list") \/ t = Shows(v, "command", "none")
    BY <1>8 DEF NumericDigit
  <2>3. "none" \in CommandMenus \ {"varmenu", "integ", "ind"}
    BY DEF CommandMenus
  <2>4. EntryStep(v, t)
    BY <2>1, <2>2, <2>3, NumberDoneSteps, ShowsOn DEF Argument, EntryStep
  <2> QED
    BY <2>1, <2>4, GoesOnToStep
<1>9. CASE t = NumericBsp(s, w)
  <2>1. (IF n = 0 THEN 0 ELSE n - 1) \in Int
    BY <1>2
  <2>2. GoesOn(s, w) /\ Argument(w)
    BY <2>1, LengthOn
  <2> HIDE DEF w
  <2> QED
    BY <1>9, <2>2, NumericBspSteps
<1>10. CASE t = NumericEnter(s, e) \/ t = NumericDot(s)
  BY <1>10, NumericEnterSteps, NumericDotSteps
<1>11. CASE t = Finished(s, "cancelled")
  BY <1>2, <1>11, EnteringFacts, FinishedOver
<1>12. CASE s.inc.cmd = "GTODOT" /\ t = Finished(s, "GTODOTDOT")
  BY <1>1, <1>2, <1>12, FinishedOver
<1>13. CASE t = s
  BY <1>2, <1>13, GoesOnSame DEF EntryStep
<1> QED
  BY <1>3, <1>4, <1>5, <1>6, <1>7, <1>8, <1>9, <1>10, <1>11, <1>12, <1>13

-----------------------------------------------------------------------------
(* Arguments that are spelled                                              *)

LEMMA TypedOn ==
    ASSUME NEW s, Argument(s), NEW v, v = Typed(s)
    PROVE  /\ GoesOn(s, v)
           /\ \A m \in CommandMenus \ {"varmenu", "integ", "ind"} : GoesOn(s, Shows(v, "command", m))
<1> DEFINE a == [s.inc EXCEPT !.alpha = TRUE]
           n == IF s.inc.len < NameLength THEN s.inc.len + 1 ELSE s.inc.len
           x == [a EXCEPT !.len = n]
<1>1. /\ s \in Calculators /\ s.inc \in EntryStates /\ s.inc.type # "ckey" /\ Entering(s)
      /\ s.menu["command"] = "ind" => s.inc.cmd = "GTODOT"
  BY EnteringFacts DEF Argument
<1>2. n \in Int
  BY <1>1 DEF EntryStates
<1>3. v = Edited(s, x)
  BY <1>1 DEF Typed, Edited, Calculators, EntryStates
<1>4. a \in EntryStates /\ a.cmd = s.inc.cmd /\ a.type = s.inc.type
  BY <1>1, EntrySpelled
<1> HIDE DEF a, n
<1>5. Revised(s, x) /\ x.cmd = s.inc.cmd
  BY <1>2, <1>4, EntryLen DEF Revised
<1> HIDE DEF x
<1>6. GoesOn(s, v)
  BY <1>1, <1>3, <1>5, EditedFrame
<1>7. \A m \in CommandMenus \ {"varmenu", "integ", "ind"} : GoesOn(s, Shows(v, "command", m))
  BY <1>1, <1>3, <1>5, EditedShows
<1> QED
  BY <1>6, <1>7

LEMMA ParentOfCommand ==
    ASSUME NEW m \in CommandMenus
    PROVE  /\ Parent(m) \in CommandMenus \ {"varmenu", "integ", "ind"}
           /\ Sibling(m) \in CommandMenus \ {"varmenu", "integ", "ind"}
  BY DEF Parent, Sibling, CommandMenus, AlphaMenus

LEMMA AlphaTopOn ==
    ASSUME NEW s, Argument(s), NEW e, NEW t, t = AlphaTop(s, e)
    PROVE  GoesOn(s, t)
<1>1. Entering(s) /\ s.inc.type # "ckey" /\ s.menu["command"] \in CommandMenus
  BY EnteringFacts DEF Argument
<1>2. "alphasub" \in CommandMenus \ {"varmenu", "integ", "ind"}
  BY DEF CommandMenus, AlphaMenus
<1>3. \/ t = Shows(s, "command", "alphasub")
      \/ t = Shows(Typed(s), "command", Parent(s.menu["command"]))
  BY DEF AlphaTop
<1>4. CASE t = Shows(s, "command", "alphasub")
  BY <1>1, <1>2, <1>4, ShowsOn
<1>5. CASE t = Shows(Typed(s), "command", Parent(s.menu["command"]))
  BY <1>1, <1>5, ParentOfCommand, TypedOn
<1> QED
  BY <1>3, <1>4, <1>5

LEMMA OutOfAlphaOn ==
    ASSUME NEW s, Argument(s) PROVE GoesOn(s, OutOfAlpha(s))
<1> DEFINE b == ~(s.inc.ind \/ s.inc.type # "rvar") /\ s.inc.alpha
           x == [s.inc EXCEPT !.alpha = b]
           v == Shows(Edited(s, x), "command", "none")
<1>1. /\ s \in Calculators /\ s.inc \in EntryStates /\ s.inc.type \notin {"ckey", "mkey"} /\ Entering(s)
  BY EnteringFacts DEF Argument
<1>2. b \in BOOLEAN
  BY <1>1 DEF EntryStates
<1>3. [s EXCEPT !.inc.alpha = ~(s.inc.ind \/ s.inc.type # "rvar") /\ @,
                !.menu["command"] = "none", !.sect["command"] = "top"] = v
  BY <1>1 DEF Shows, Edited, Calculators, EntryStates, MenuStates, SectStates
<1>4. OutOfAlpha(s) = Offered(v)
  BY <1>3 DEF OutOfAlpha
<1> HIDE DEF b
<1>5. Revised(s, x) /\ x.type = s.inc.type
  BY <1>1, <1>2, EntrySpelled DEF Revised
<1> HIDE DEF x
<1>6. "none" \in CommandMenus \ {"varmenu", "integ", "ind"}
  BY DEF CommandMenus
<1>7. GoesOn(s, v)
  BY <1>1, <1>5, <1>6, EditedShows
<1>8. v.inc = x
  <2>1. Edited(s, x).inc = x
    BY <1>1, <1>5, EditedFrame
  <2> QED
    BY <2>1 DEF Shows
<1> HIDE DEF v
<1>9. Argument(v)
  BY <1>1, <1>5, <1>7, <1>8 DEF Argument, GoesOn
<1> QED
  BY <1>4, <1>7, <1>9, OfferedOn, GoesOnTwice

LEMMA BackToIndOn ==
    ASSUME NEW s, Argument(s), s.inc.cmd = "GTODOT" PROVE GoesOn(s, BackToInd(s))
<1> DEFINE a == [s.inc EXCEPT !.type = "other"]
           b == [a EXCEPT !.max = CountDigits]
           x == [b EXCEPT !.alpha = FALSE]
<1>1. s \in Calculators /\ s.inc \in EntryStates /\ "other" \in ArgTypes
      /\ CountDigits \in Int /\ Entering(s) /\ s.inc.type # "ckey"
  BY EnteringFacts DEF Argument, ArgTypes
<1>2. BackToInd(s) = Shows(Edited(s, x), "command", "ind")
  BY <1>1 DEF BackToInd, Edited, Calculators, EntryStates
<1>3. a \in EntryStates /\ a.cmd = "GTODOT" /\ a.type = "other"
  BY <1>1, EntryType
<1> HIDE DEF a
<1>4. b \in EntryStates /\ b.cmd = "GTODOT" /\ b.type = "other"
  BY <1>1, <1>3, EntryMax
<1> HIDE DEF b
<1>5. x \in EntryStates /\ x.cmd = "GTODOT" /\ x.type = "other"
  BY <1>1, <1>4, EntrySpelled
<1> HIDE DEF x
<1>6. Revised(s, x)
  BY <1>5 DEF Revised, Internal
<1> QED
  BY <1>1, <1>2, <1>5, <1>6, EditedShows

LEMMA SomeSections ==
    {"top", "real_only", "mat_only", "vars_only", "pgm_only"} \subseteq Sections \ ProgramSections
  BY DEF Sections, ProgramSections

LEMMA LeaveLettersSteps ==
    ASSUME NEW s, Argument(s), NEW t, t = LeaveLetters(s)
    PROVE  EntryStep(s, t)
<1>1. Entering(s) /\ s.inc.type # "ckey" /\ EndsWith(s, "null")
  BY EnteringFacts DEF Argument
<1>2. \/ t = OutOfAlpha(s) \/ (s.inc.cmd = "GTODOT" /\ t = BackToInd(s))
      \/ t = set_catalog_menu(s, "top") \/ t = set_catalog_menu(s, "vars_only")
      \/ t = Finished(s, "null") \/ t = set_catalog_menu(s, "mat_only")
      \/ t = set_catalog_menu(s, "pgm_only")
  <2>1. CASE s.inc.cmd = "ASSIGNa"
    BY <2>1 DEF LeaveLetters
  <2>2. CASE s.inc.cmd # "ASSIGNa"
    BY <2>2 DEF LeaveLetters
  <2> QED
    BY <2>1, <2>2
<1>3. CASE \/ t = set_catalog_menu(s, "top") \/ t = set_catalog_menu(s, "vars_only")
           \/ t = set_catalog_menu(s, "mat_only") \/ t = set_catalog_menu(s, "pgm_only")
  BY <1>1, <1>3, SomeSections, ShowsOn DEF EntryStep
<1> QED
  BY <1>1, <1>2, <1>3, OutOfAlphaOn, BackToIndOn, FinishedOver DEF EntryStep

LEMMA AlphaBspEmptySteps ==
    ASSUME NEW s, Argument(s), NEW t, t = AlphaBspEmpty(s)
    PROVE  EntryStep(s, t)
<1>1. Entering(s) /\ s.inc.type # "ckey" /\ EndsWith(s, "null")
  BY EnteringFacts DEF Argument
<1>2. \/ t = LeaveLetters(s) \/ t = Finished(s, "null")
      \/ /\ s.menu["command"] = "catalog" /\ Outer(s.sect["command"]) # "none"
         /\ t = set_cat_section(s, Outer(s.sect["command"]))
  BY DEF AlphaBspEmpty
<1>3. CASE /\ s.menu["command"] = "catalog" /\ Outer(s.sect["command"]) # "none"
           /\ t = set_cat_section(s, Outer(s.sect["command"]))
  BY <1>1, <1>3, OuterSections, SectionOn DEF EntryStep
<1> QED
  BY <1>1, <1>2, <1>3, LeaveLettersSteps, FinishedOver

LEMMA AlphaBspLastOn ==
    ASSUME NEW s, Argument(s), NEW t, t = AlphaBspLast(s)
    PROVE  GoesOn(s, t)
<1>1. Entering(s) /\ s.inc.type # "ckey"
  BY DEF Argument
<1>2. \/ t = OutOfAlpha(s) \/ (s.inc.cmd = "GTODOT" /\ t = BackToInd(s))
      \/ t = set_catalog_menu(s, "top") \/ t = set_catalog_menu(s, "vars_only")
      \/ t = set_catalog_menu(s, "real_only") \/ t = set_catalog_menu(s, "mat_only")
      \/ t = set_catalog_menu(s, "pgm_only") \/ t = s
  <2>1. CASE s.inc.cmd = "ASSIGNa"
    BY <2>1 DEF AlphaBspLast
  <2>2. CASE s.inc.cmd # "ASSIGNa"
    BY <2>2 DEF AlphaBspLast
  <2> QED
    BY <2>1, <2>2
<1>3. CASE \/ t = set_catalog_menu(s, "top") \/ t = set_catalog_menu(s, "vars_only")
           \/ t = set_catalog_menu(s, "real_only") \/ t = set_catalog_menu(s, "mat_only")
           \/ t = set_catalog_menu(s, "pgm_only")
  BY <1>1, <1>3, SomeSections, ShowsOn
<1> QED
  BY <1>1, <1>2, <1>3, OutOfAlphaOn, BackToIndOn, GoesOnSame

LEMMA AlphaBspSteps ==
    ASSUME NEW s, Argument(s), NEW t, t = AlphaBsp(s)
    PROVE  EntryStep(s, t)
<1> DEFINE v == WithLength(s, 0)
           w == WithLength(s, s.inc.len - 1)
<1>1. /\ Entering(s) /\ s.inc.type # "ckey" /\ EndsWith(s, "null") /\ s.inc.len \in Int
      /\ s.menu["command"] = "ind" => s.inc.cmd = "GTODOT"
  BY EnteringFacts DEF Argument, EntryStates
<1>2. GoesOn(s, v) /\ Argument(v) /\ GoesOn(s, w)
  <2>1. 0 \in Int /\ s.inc.len - 1 \in Int
    BY <1>1
  <2> QED
    BY <2>1, LengthOn
<1>3. \/ t = AlphaBspEmpty(s) \/ t = AlphaBspLast(v) \/ t = w \/ t = Finished(s, "null")
      \/ t = start_incomplete_command(s, "KEYG") /\ s.inc.cmd = "KEY1G"
  BY DEF AlphaBsp, KeyLabelBsp
<1> HIDE DEF v, w
<1>4. CASE t = start_incomplete_command(s, "KEYG") /\ s.inc.cmd = "KEY1G"
  <2>1. "KEYG" \in Words /\ ArgType("KEYG") = "mkey"
    BY ArgFacts DEF Words, Reached
  <2> QED
    BY <1>1, <1>4, <2>1, StartGoesOn DEF EntryStep
<1>5. CASE t = AlphaBspLast(v)
  BY <1>2, <1>5, AlphaBspLastOn, GoesOnTwice DEF EntryStep
<1>6. CASE t = AlphaBspEmpty(s)
  BY <1>6, AlphaBspEmptySteps
<1> QED
  BY <1>1, <1>2, <1>3, <1>4, <1>5, <1>6, FinishedOver DEF EntryStep

LEMMA AlphaExitSteps ==
    ASSUME NEW s, Argument(s), NEW t, t = AlphaExit(s)
    PROVE  EntryStep(s, t)
<1> DEFINE v == Shows(s, "command", "none")
           m == Parent(s.menu["command"])
<1>1. Entering(s) /\ s.inc.type # "ckey" /\ s.menu["command"] \in CommandMenus
  BY EnteringFacts DEF Argument
<1>2. m \in CommandMenus \ {"varmenu", "integ", "ind"}
  BY <1>1, ParentOfCommand
<1>3. CASE m = "none"
  <2>1. GoesOn(s, v)
    BY <1>1, <1>2, <1>3, ShowsOn
  <2>2. t = Finished(v, "cancelled")
    BY <1>3 DEF AlphaExit
  <2> HIDE DEF v
  <2>3. Entering(v) /\ EndsWith(v, "cancelled")
    BY <2>1, EnteringFacts DEF GoesOn
  <2> QED
    BY <2>1, <2>2, <2>3, FinishedOver, GoesOnToStep
<1>4. CASE m # "none"
  <2>1. t = Shows(s, "command", m)
    BY <1>4 DEF AlphaExit
  <2> HIDE DEF m
  <2> QED
    BY <1>1, <1>2, <2>1, ShowsOn DEF EntryStep
<1> QED
  BY <1>3, <1>4

LEMMA NamedSteps ==
    ASSUME NEW s, Argument(s), NEW e, s.inc.cmd = "XEQ" => e.item \in Found \cup {"local"},
           NEW t, t = Named(s, e)
    PROVE  EntryStep(s, t)
<1> DEFINE v == Shows(s, "command", "none")
<1>1. Entering(s) /\ s.inc.type # "ckey" /\ EndsWith(s, s.inc.cmd)
  BY EnteringFacts DEF Argument
<1>2. \/ t = finish_xeq(s, e.item) /\ s.inc.cmd = "XEQ" /\ e.item # "local"
      \/ t = Finished(v, s.inc.cmd) \/ t = Finished(s, s.inc.cmd)
  BY DEF Named
<1>3. CASE t = finish_xeq(s, e.item) /\ s.inc.cmd = "XEQ" /\ e.item # "local"
  BY <1>1, <1>3, FoundOver
<1>4. CASE t = Finished(v, s.inc.cmd)
  <2>1. "none" \in CommandMenus \ {"varmenu", "integ", "ind"}
    BY DEF CommandMenus
  <2>2. GoesOn(s, v)
    BY <1>1, <2>1, ShowsOn
  <2>4. v.inc = s.inc
    BY EnteringFacts DEF Argument, Shows, Calculators
  <2> HIDE DEF v
  <2>3. Entering(v) /\ EndsWith(v, v.inc.cmd)
    BY <2>2, EnteringFacts DEF GoesOn
  <2> QED
    BY <1>4, <2>2, <2>3, <2>4, FinishedOver, GoesOnToStep
<1>5. CASE t = Finished(s, s.inc.cmd)
  BY <1>1, <1>5, FinishedOver
<1> QED
  BY <1>2, <1>3, <1>4, <1>5

LEMMA AlphaEnterSteps ==
    ASSUME NEW s, Argument(s), NEW e, s.inc.cmd = "XEQ" => e.item \in Found \cup {"local"},
           NEW t, t = AlphaEnter(s, e)
    PROVE  EntryStep(s, t)
<1>1. t = Shows(s, "command", "alpha1") \/ t = Named(s, e) \/ t = s
  BY DEF AlphaEnter
<1>2. "alpha1" \in CommandMenus \ {"varmenu", "integ", "ind"}
  BY DEF CommandMenus, AlphaMenus
<1> QED
  BY <1>1, <1>2, NamedSteps, ShowsOn, GoesOnSame DEF EntryStep, Argument

LEMMA AlphaKeySteps ==
    ASSUME NEW s, Argument(s), NEW e, NameFits(s, e), e.key \in {"enter", "ALPHA"} => s.inc.alpha,
           NEW t, t = AlphaKey(s, e)
    PROVE  EntryStep(s, t)
<1> DEFINE a == [s.inc EXCEPT !.ind = TRUE]
           x == [a EXCEPT !.alpha = FALSE]
           m == Sibling(s.menu["command"])
<1>1. /\ Entering(s) /\ s.inc.type # "ckey" /\ s \in Calculators /\ s.inc \in EntryStates
      /\ s.menu["command"] \in CommandMenus
  BY EnteringFacts DEF Argument
<1>2. \/ t = Typed(s) \/ t = AlphaTop(s, e) \/ t = s
      \/ t = set_catalog_menu([s EXCEPT !.inc.ind = TRUE, !.inc.alpha = FALSE], "real_only")
      \/ t = set_catalog_menu(s, "top") \/ t = Shows(s, "command", m)
      \/ t = AlphaExit(s) \/ t = AlphaBsp(s)
      \/ t = AlphaEnter(s, e) /\ e.key \in {"enter", "ALPHA"}
  <2>1. CASE e.key = "dot"
    <3>1. \/ t = Typed(s) \/ t = s
          \/ t = set_catalog_menu([s EXCEPT !.inc.ind = TRUE, !.inc.alpha = FALSE], "real_only")
      BY <2>1 DEF AlphaKey
    <3> QED
      BY <3>1
  <2>2. CASE e.key \in {"char", "top", "CATALOG", "digit", "E", "arith"}
    <3>1. t = Typed(s) \/ t = AlphaTop(s, e) \/ t = s \/ t = set_catalog_menu(s, "top")
      <4>1. CASE e.key = "char"
        <5>1. t = Typed(s)
          BY <4>1 DEF AlphaKey
        <5> QED
          BY <5>1
      <4>2. CASE e.key = "top"
        <5>1. t = IF s.menu["command"] = "none" THEN s ELSE AlphaTop(s, e)
          BY <4>2 DEF AlphaKey
        <5> QED
          BY <5>1
      <4>3. CASE e.key = "CATALOG"
        BY <4>3 DEF AlphaKey
      <4>4. CASE e.key \in {"digit", "E", "arith"}
        <5>1. t = IF s.menu["command"] = "catalog" THEN s ELSE Typed(s)
          BY <4>4 DEF AlphaKey
        <5> QED
          BY <5>1
      <4> QED
        BY <2>2, <4>1, <4>2, <4>3, <4>4
    <3> QED
      BY <3>1
  <2>3. CASE e.key \in {"up", "down"}
    <3>1. t = s \/ t = Shows(s, "command", Sibling(s.menu["command"]))
      BY <2>3 DEF AlphaKey
    <3> QED
      BY <3>1
  <2>4. CASE e.key \in {"exit", "bsp", "enter", "ALPHA"}
    <3>1. \/ t = AlphaExit(s) \/ t = AlphaBsp(s)
          \/ t = AlphaEnter(s, e) /\ e.key \in {"enter", "ALPHA"}
      <4>1. CASE e.key = "exit"
        BY <4>1 DEF AlphaKey
      <4>2. CASE e.key = "bsp"
        BY <4>2 DEF AlphaKey
      <4>3. CASE e.key \in {"enter", "ALPHA"}
        BY <4>3 DEF AlphaKey
      <4> QED
        BY <2>4, <4>1, <4>2, <4>3
    <3> QED
      BY <3>1
  <2>5. CASE e.key \notin {"dot", "char", "top", "CATALOG", "digit", "E", "arith", "up", "down",
                           "exit", "bsp", "enter", "ALPHA"}
    <3>1. t = s
      BY <2>5 DEF AlphaKey
    <3> QED
      BY <3>1
  <2> QED
    BY <2>1, <2>2, <2>3, <2>4, <2>5
<1>3. CASE t = set_catalog_menu([s EXCEPT !.inc.ind = TRUE, !.inc.alpha = FALSE], "real_only")
  <2>1. [s EXCEPT !.inc.ind = TRUE, !.inc.alpha = FALSE] = Edited(s, x)
    BY <1>1 DEF Edited, Calculators, EntryStates
  <2>2. a \in EntryStates /\ a.cmd = s.inc.cmd /\ a.type = s.inc.type
    BY <1>1, EntryInd
  <2> HIDE DEF a
  <2>3. Revised(s, x)
    BY <2>2, EntrySpelled DEF Revised
  <2> HIDE DEF x
  <2> QED
    BY <1>1, <1>3, <2>1, <2>3, SomeSections, EditedShows DEF EntryStep
<1>4. CASE t = Shows(s, "command", m)
  <2>1. m \in CommandMenus \ {"varmenu", "integ", "ind"}
    BY <1>1, ParentOfCommand
  <2> HIDE DEF m
  <2> QED
    BY <1>1, <1>4, <2>1, ShowsOn DEF EntryStep
<1>5. CASE t = set_catalog_menu(s, "top")
  BY <1>1, <1>5, SomeSections, ShowsOn DEF EntryStep
<1>6. CASE t = AlphaEnter(s, e) /\ e.key \in {"enter", "ALPHA"}
  BY <1>6, AlphaEnterSteps DEF NameFits
<1>7. CASE t = Typed(s) \/ t = AlphaTop(s, e)
  BY <1>7, TypedOn, AlphaTopOn DEF EntryStep
<1>8. CASE t = AlphaExit(s) \/ t = AlphaBsp(s)
  BY <1>8, AlphaExitSteps, AlphaBspSteps
<1> QED
  BY <1>1, <1>2, <1>3, <1>4, <1>5, <1>6, <1>7, <1>8, GoesOnSame DEF EntryStep

-----------------------------------------------------------------------------
(* Any key                                                                 *)

LEMMA LabelKeySteps ==
    ASSUME NEW s, Argument(s), s.inc.cmd = "LBL", NEW e, NameFits(s, e), NEW t, t = LabelKey(s, e)
    PROVE  EntryStep(s, t)
<1> DEFINE x == [s.inc EXCEPT !.alpha = TRUE]
<1>1. /\ Entering(s) /\ s.inc.type # "ckey" /\ s \in Calculators /\ s.inc \in EntryStates
  BY EnteringFacts DEF Argument
<1>2. \/ t = AlphaKey(s, e) /\ (e.key \in {"enter", "ALPHA"} => s.inc.alpha)
      \/ t = set_catalog_menu([s EXCEPT !.inc.alpha = TRUE], "top")
      \/ t = Shows(s, "command", "alpha1") \/ t = NumericKey(s, e)
  <2>1. CASE LetterOfLabel(s, e)
    <3>1. t = AlphaKey(s, e)
      BY <2>1 DEF LabelKey, LetterOfLabel
    <3>2. e.key \notin {"enter", "ALPHA"}
      BY <2>1 DEF LetterOfLabel
    <3> QED
      BY <3>1, <3>2
  <2>2. CASE ~LetterOfLabel(s, e) /\ e.key = "CATALOG"
    <3>1. t = set_catalog_menu([s EXCEPT !.inc.alpha = TRUE], "top")
      BY <2>2 DEF LabelKey
    <3> QED
      BY <3>1
  <2>3. CASE ~LetterOfLabel(s, e) /\ e.key # "CATALOG"
    <3>1. \/ t = Shows(s, "command", "alpha1")
          \/ t = IF s.inc.alpha THEN AlphaKey(s, e) ELSE NumericKey(s, e)
      BY <2>3 DEF LabelKey
    <3> QED
      BY <3>1
  <2> QED
    BY <2>1, <2>2, <2>3
<1>3. CASE t = set_catalog_menu([s EXCEPT !.inc.alpha = TRUE], "top")
  <2>1. [s EXCEPT !.inc.alpha = TRUE] = Edited(s, x)
    BY <1>1 DEF Edited, Calculators
  <2>2. Revised(s, x)
    BY <1>1, EntrySpelled DEF Revised
  <2>3. t = set_catalog_menu(Edited(s, x), "top")
    BY <1>3, <2>1
  <2> HIDE DEF x
  <2>4. GoesOn(s, set_catalog_menu(Edited(s, x), "top"))
    BY <1>1, <2>2, SomeSections, EditedShows
  <2> QED
    BY <2>3, <2>4 DEF EntryStep
<1>4. CASE t = Shows(s, "command", "alpha1")
  <2>1. "alpha1" \in CommandMenus \ {"varmenu", "integ", "ind"}
    BY DEF CommandMenus, AlphaMenus
  <2> QED
    BY <1>1, <1>4, <2>1, ShowsOn DEF EntryStep
<1>5. CASE t = AlphaKey(s, e) /\ (e.key \in {"enter", "ALPHA"} => s.inc.alpha)
  BY <1>5, AlphaKeySteps
<1>6. CASE t = NumericKey(s, e)
  BY <1>6, NumericKeySteps
<1> QED
  BY <1>2, <1>3, <1>4, <1>5, <1>6

LEMMA ArgumentKeySteps ==
    ASSUME NEW s, Argument(s), NEW e, KeyFits(s, e), NEW t, t = ArgumentKey(s, e)
    PROVE  EntryStep(s, t) \/ Lingers(s, t)
<1>1. Entering(s) /\ s.inc.type # "ckey"
  BY DEF Argument
<1>2. CASE s.menu["command"] = "catalog" /\ e.key = "top"
  <2>1. t = CatalogItem(s, e.item)
    BY <1>2 DEF ArgumentKey
  <2> QED
    BY <1>1, <1>2, <2>1, CatalogItemSteps DEF KeyFits
<1>3. CASE s.menu["command"] = "catalog" /\ e.key \in {"up", "down", "exit"}
  <2>1. t = s \/ t = CatalogExit(s)
    BY <1>3 DEF ArgumentKey
  <2> QED
    BY <1>1, <1>3, <2>1, CatalogExitSteps, GoesOnSame DEF EntryStep
<1>4. CASE \/ s.menu["command"] \in {"varmenu", "integ"} /\ e.key \in {"top", "exit"}
           \/ s.menu["command"] = "varmenu" /\ e.key \in {"up", "down"}
  <2>1. t = ParameterKey(s, e) \/ t = s
    BY <1>4 DEF ArgumentKey
  <2> QED
    BY <1>1, <2>1, ParameterKeySteps, GoesOnSame DEF EntryStep
<1>5. CASE /\ ~(s.menu["command"] = "catalog" /\ e.key \in {"top", "up", "down", "exit"})
           /\ ~(s.menu["command"] \in {"varmenu", "integ"} /\ e.key \in {"top", "exit"})
           /\ ~(s.menu["command"] = "varmenu" /\ e.key \in {"up", "down"})
  <2>1. t = IF s.inc.alpha THEN AlphaKey(s, e) ELSE NumericKey(s, e)
    BY <1>5 DEF ArgumentKey
  <2> QED
    BY <2>1, AlphaKeySteps, NumericKeySteps DEF KeyFits
<1> QED
  BY <1>2, <1>3, <1>4, <1>5

LEMMA NameOrNumberKeySteps ==
    ASSUME NEW s, Argument(s), NEW e, KeyFits(s, e), NEW t, t = NameOrNumberKey(s, e)
    PROVE  EntryStep(s, t) \/ Lingers(s, t)
<1>1. \/ (t = LabelKey(s, e) /\ s.inc.cmd = "LBL") \/ t = Spelled(s) \/ t = ArgumentKey(s, e)
  BY DEF NameOrNumberKey
<1> QED
  BY <1>1, LabelKeySteps, SpelledOn, ArgumentKeySteps DEF KeyFits, EntryStep

LEMMA EntryKeySteps ==
    ASSUME NEW s, Entering(s), NEW e, KeyFits(s, e), NEW t, t = keydown_command_entry(s, e)
    PROVE  EntryStep(s, t) \/ Lingers(s, t)
<1>1. s.inc.type = "ckey" => s.menu["command"] \in Custom
  BY EnteringFacts
<1>2. CASE s.menu["command"] \in {"st", "ind_st"}
  <2>1. t = StackKey(s, e) /\ s.inc.type # "ckey"
    BY <1>1, <1>2 DEF keydown_command_entry, Custom
  <2> QED
    BY <1>2, <2>1, StackKeySteps
<1>3. CASE s.menu["command"] \notin {"st", "ind_st"} /\ s.inc.type = "ckey"
  <2>1. t = CustomKey(s, e)
    BY <1>3 DEF keydown_command_entry
  <2> QED
    BY <1>3, <2>1, CustomKeySteps
<1>4. CASE s.menu["command"] \notin {"st", "ind_st"} /\ s.inc.type = "mkey"
  <2>1. t = MenuKey(s, e)
    BY <1>4 DEF keydown_command_entry
  <2> QED
    BY <1>4, <2>1, MenuKeySteps
<1>5. CASE s.menu["command"] \notin {"st", "ind_st"} /\ s.inc.type \notin {"ckey", "mkey"}
  <2>1. t = NameOrNumberKey(s, e)
    BY <1>5 DEF keydown_command_entry
  <2> QED
    BY <1>5, <2>1, NameOrNumberKeySteps DEF Argument
<1> QED
  BY <1>2, <1>3, <1>4, <1>5

-----------------------------------------------------------------------------
(* What is shown again                                                     *)

LEMMA RedrawnSame ==
    ASSUME NEW s, Screen(s), Fits(s) PROVE Redrawn(s, s)
  BY DEF Redrawn, Keeps

LEMMA CatalogUpdated ==
    ASSUME NEW s, Screen(s), Fits(s), NEW t, t = update_catalog(s)
    PROVE  Redrawn(s, t)
<1> DEFINE ix == get_cat_index(s)
<1>1. /\ ix \in Levels /\ Sectioned(s, ix) /\ s.sect[ix] = get_cat_section(s)
      /\ s.menu[ix] = get_front_menu(s)
  BY FrontLevel DEF Screen, get_cat_section, get_front_menu
<1>2. \/ t = s
      \/ s.menu[ix] = "catalog" /\ t = set_cat_section(s, "top")
      \/ s.menu[ix] = "catalog" /\ s.sect[ix] \in ArgumentSections /\ t = Shows(s, ix, "none")
      \/ s.menu[ix] = "catalog" /\ s.sect[ix] \in ProgramSections /\ ~s.mvars /\ t = Shows(s, ix, "none")
  BY <1>1 DEF update_catalog, ArgumentSections
<1>3. CASE t = s
  BY <1>3, RedrawnSame
<1>4. CASE s.menu[ix] = "catalog" /\ t = set_cat_section(s, "top")
  <2>1. "top" \in Sections /\ "top" \notin ProgramSections /\ "top" \notin ArgumentSections
    BY DEF Sections, ProgramSections, ArgumentSections
  <2>2. Steers(s, t) /\ Keeps(s, t, {"sect"}) /\ t.menu = s.menu
    BY <1>4, <2>1, SteersSection
  <2>3. Keeps(s, t, AppFields) /\ Keeps(s, t, {"menu", "sect"})
    BY <2>2 DEF Keeps, AppFields
  <2> QED
    BY <2>2, <2>3 DEF Steers, Redrawn
<1>5. CASE s.menu[ix] = "catalog" /\ s.sect[ix] \in ArgumentSections /\ t = Shows(s, ix, "none")
  <2>1. ix = "command"
    BY <1>1, <1>5 DEF Sectioned
  <2>2. Steers(s, t) /\ t.menu["command"] = "none" /\ Beside(s, t) /\ Keeps(s, t, {"menu", "sect"})
    BY <1>5, <2>1, SteersNone
  <2>3. Keeps(s, t, AppFields)
    BY <2>2 DEF Keeps, AppFields
  <2> QED
    BY <1>5, <2>1, <2>2, <2>3 DEF Steers, Redrawn, Beside
<1>6. CASE s.menu[ix] = "catalog" /\ s.sect[ix] \in ProgramSections /\ ~s.mvars /\ t = Shows(s, ix, "none")
  <2>1. ix = "app"
    BY <1>1, <1>6 DEF Sectioned
  <2>2. "none" \in AppMenus /\ "none" \notin EditMenus \cup BaseMenus /\ "catalog" \notin EditMenus \cup BaseMenus
    BY DEF AppMenus, EditMenus, BaseMenus
  <2>3. /\ Screen(t) /\ Keeps(s, t, {"menu", "sect"}) /\ t.menu["app"] = "none"
        /\ \A k \in Levels \ {"app"} : t.menu[k] = s.menu[k]
    <3>1. t = Shows(s, "app", "none") /\ "app" \in Levels /\ "none" \in MenusOf("app")
      BY <1>6, <2>1, LevelFacts, MenusOfLevels
    <3>2. /\ Screen(Shows(s, "app", "none")) /\ Keeps(s, Shows(s, "app", "none"), {"menu", "sect"})
          /\ \A k \in Levels : Shows(s, "app", "none").menu[k] = IF k = "app" THEN "none" ELSE s.menu[k]
      BY <3>1, ShowsMenu
    <3> QED
      BY <3>1, <3>2
  <2>4. t.cb = s.cb /\ t.edit = s.edit /\ t.baseapp = s.baseapp /\ t.role = s.role
    BY <2>3 DEF Keeps, Fields
  <2>5. Fits(t)
    BY <1>6, <2>1, <2>2, <2>3, <2>4 DEF Fits
  <2>6. Keeps(s, t, AppFields)
    BY <2>3 DEF Keeps, AppFields
  <2>7. Stale(s)
    BY <1>6, <2>1 DEF Stale
  <2> QED
    BY <2>3, <2>5, <2>6, <2>7, LevelFacts DEF Redrawn
<1> QED
  BY <1>2, <1>3, <1>4, <1>5, <1>6

(* Without a menu of variables that has lost its program nothing is drawn away. *)
LEMMA VarmenuDrawn ==
    ASSUME NEW s, Screen(s), Fits(s), s.menu["command"] # "none" => ~Stale(s),
           NEW t, t = draw_varmenu(s)
    PROVE  Redrawn(s, t) /\ (~Stale(s) => t = s) /\ t.menu["command"] = s.menu["command"]
<1>1. CASE ~(s.menu["app"] = "varmenu" /\ ~s.mvars)
  <2>1. t = s
    BY <1>1 DEF draw_varmenu
  <2> QED
    BY <2>1, RedrawnSame
<1>2. CASE s.menu["app"] = "varmenu" /\ ~s.mvars
  <2>1. t = set_appmenu(s, "none", FALSE) /\ Told(s) /\ "none" \in AppMenus /\ "none" \notin OfOwn
    BY <1>2, FitsTold DEF draw_varmenu, AppMenus, OfOwn, EditMenus, BaseMenus
  <2>2. Screen(t) /\ Keeps(s, t, AppFields) /\ LeftFor(s, t, "none") /\ Sunk(s, t)
    BY <2>1, AppMenuSet
  <2>3. Fits(t)
    BY <2>1, <2>2, StillFits DEF LeftFor
  <2>4. Stale(s)
    BY <1>2 DEF Stale
  <2>5. t.menu["command"] = s.menu["command"]
    BY <2>2, <2>4, LevelFacts DEF Sunk
  <2> QED
    BY <2>2, <2>3, <2>4, <2>5 DEF Redrawn
<1> QED
  BY <1>1, <1>2

LEMMA RedisplayFrame ==
    ASSUME NEW s, Screen(s), Fits(s), s.menu["command"] # "none" => ~Stale(s),
           NEW t, t = redisplay(s)
    PROVE  Redrawn(s, t)
<1> DEFINE v == draw_varmenu(s)
<1>1. t = s \/ t = update_catalog(s) \/ t = update_catalog(v)
  BY DEF redisplay
<1>2. Redrawn(s, v) /\ (~Stale(s) => v = s) /\ v.menu["command"] = s.menu["command"]
  BY VarmenuDrawn
<1> HIDE DEF v
<1>3. CASE t = s
  BY <1>3, RedrawnSame
<1>4. CASE t = update_catalog(s)
  BY <1>4, CatalogUpdated
<1>5. CASE t = update_catalog(v)
  <2>1. Redrawn(v, t)
    BY <1>2, <1>5, CatalogUpdated DEF Redrawn
  <2>2. Keeps(s, t, AppFields)
    BY <1>2, <2>1, KeepsTwice DEF Redrawn
  <2> QED
    BY <1>2, <2>1, <2>2 DEF Redrawn
<1> QED
  BY <1>1, <1>3, <1>4, <1>5

(* The menus of letters list nothing. *)
LEMMA LettersStay ==
    ASSUME NEW s, alpha_active(s) PROVE redisplay(s) = s
  BY DEF alpha_active, redisplay, update_catalog, AlphaMenus

LEMMA SettledFrame ==
    ASSUME NEW s, Screen(s), Fits(s), NEW t, t = Settled(s)
    PROVE  /\ Screen(t) /\ Fits(t) /\ Keeps(s, t, Forgets)
           /\ t.menu = s.menu /\ t.sect = s.sect
<1>1. s \in Calculators
  BY DEF Screen
<1> DEFINE a == s.sticky /\ s.menu["plain"] # "none"
           b == IF s.menu["app"] = "varmenu" THEN s.role ELSE 0
           c == s.vm /\ s.menu["app"] \in {"varmenu", "integ"}
           d == IF s.edit THEN s.prev ELSE "none"
           f == s.nested /\ s.edit
<1>2. t = [s EXCEPT !.refuse = FALSE, !.err = FALSE, !.sticky = a, !.role = b, !.vm = c,
                    !.prev = d, !.nested = f]
  BY <1>1 DEF Settled, Calculators
<1>3. a \in BOOLEAN /\ c \in BOOLEAN /\ f \in BOOLEAN
  BY <1>1 DEF Calculators
<1>4. b \in RoleStates /\ d \in PrevStates
  BY <1>1 DEF Calculators, RoleStates, PrevStates
<1>5. s.menu["app"] = "varmenu" => b = s.role
  OBVIOUS
<1> HIDE DEF a, b, c, d, f
<1>10. FALSE \in BOOLEAN
  OBVIOUS
<1>11. t \in Calculators
  <2> DEFINE v == [s EXCEPT !.refuse = FALSE]
             w == [v EXCEPT !.err = FALSE]
             x == [w EXCEPT !.sticky = a]
             y == [x EXCEPT !.role = b]
             z == [y EXCEPT !.vm = c]
             o == [z EXCEPT !.prev = d]
  <2>1. t = [o EXCEPT !.nested = f]
    BY <1>1, <1>2 DEF Calculators
  <2>2. v \in Calculators
    BY <1>1, <1>10, PutRefuse
  <2> HIDE DEF v
  <2>3. w \in Calculators
    BY <2>2, <1>10, PutErr
  <2> HIDE DEF w
  <2>4. x \in Calculators
    BY <2>3, <1>3, PutSticky
  <2> HIDE DEF x
  <2>5. y \in Calculators
    BY <2>4, <1>4, PutRole
  <2> HIDE DEF y
  <2>6. z \in Calculators
    BY <2>5, <1>3, PutVm
  <2> HIDE DEF z
  <2>7. o \in Calculators
    BY <2>6, <1>4, PutPrev
  <2> HIDE DEF o
  <2> QED
    BY <2>1, <2>7, <1>3, PutNested
<1>12. t.role = b
  BY <1>1, <1>2 DEF Calculators
<1>13. Keeps(s, t, Forgets)
  BY <1>1, <1>2 DEF Calculators, Keeps, Fields, Forgets
<1>6. t \in Calculators /\ t.role = b /\ Keeps(s, t, Forgets)
  BY <1>11, <1>12, <1>13
<1>7. Screen(t)
  BY <1>6, SameScreen DEF Forgets
<1>8. /\ t.cb = s.cb /\ t.edit = s.edit /\ t.baseapp = s.baseapp /\ t.menu = s.menu /\ t.sect = s.sect
  BY <1>6 DEF Keeps, Fields, Forgets
<1>9. Fits(t)
  BY <1>5, <1>6, <1>8 DEF Fits
<1> QED
  BY <1>6, <1>7, <1>8, <1>9

LEMMA ApartTwice ==
    ASSUME NEW s, NEW v, NEW t, Apart(s, v), Apart(v, t) PROVE Apart(s, t)
  BY DEF Apart, Keeps

LEMMA ApartFacts ==
    ASSUME NEW s, NEW t, Apart(s, t)
    PROVE  /\ t.pc = s.pc /\ t.lines = s.lines /\ t.saved = s.saved /\ t.prgm = s.prgm
           /\ t.inc = s.inc /\ t.alpha = s.alpha /\ t.alen = s.alen /\ t.num = s.num
           /\ t.nlen = s.nlen /\ t.pend = s.pend /\ t.clall = s.clall /\ t.rpc = s.rpc
           /\ t.mvars = s.mvars /\ BelowSame(s, t) /\ t.menu["app"] = s.menu["app"]
<1>1. BelowSame(s, t) /\ t.menu["app"] = s.menu["app"]
  BY LevelFacts DEF Apart, BelowSame
<1> QED
  BY <1>1 DEF Apart, Keeps, Fields, Forgets

LEMMA ApartInv ==
    ASSUME NEW s, Inv(s), NEW t, Apart(s, t), Screen(t), Fits(t), Stale(t) => Stale(s),
           t.menu["command"] = s.menu["command"]
           \/ (s.menu["command"] = "catalog" /\ t.menu["command"] = "none"),
           s.alpha \/ s.num => t.menu = s.menu
    PROVE  Inv(t)
<1>1. /\ t.pc = s.pc /\ t.lines = s.lines /\ t.saved = s.saved /\ t.prgm = s.prgm
      /\ t.inc = s.inc /\ t.alpha = s.alpha /\ t.alen = s.alen /\ t.num = s.num
      /\ t.nlen = s.nlen /\ t.pend = s.pend /\ t.clall = s.clall /\ t.rpc = s.rpc
      /\ t.menu["app"] = s.menu["app"]
  BY ApartFacts
<1>2. "catalog" \notin Custom
  BY DEF Custom
<1>3. EntryFits(t)
  BY <1>1, <1>2 DEF Inv, EntryFits
<1>4. Counters(t)
  BY <1>1 DEF Inv, Counters
<1>5. t.menu = s.menu => alpha_active(t) = alpha_active(s)
  <2>1. t.menu = s.menu => get_cat_index(t) = get_cat_index(s)
    BY FrontLevel
  <2> QED
    BY <2>1 DEF alpha_active, get_front_menu
<1>6. /\ t.alpha => alpha_active(t) /\ ~t.num /\ t.pend \in Quiet \cup {"CLA"} /\ (t.pend = "CLA" => ~t.prgm)
      /\ t.num => ~alpha_active(t) /\ t.pend = "none"
  BY <1>1, <1>5 DEF Inv, Modes
<1>7. /\ t.menu["command"] # "none" => mode_command_entry(t)
      /\ t.menu["command"] \in {"varmenu", "integ"} => t.menu["app"] = t.menu["command"]
  BY <1>1 DEF Inv, Modes, mode_command_entry
<1>8. Stale(t) => t.pend = "cancelled" /\ ~InEntry(t)
  BY <1>1 DEF Inv, Modes, InEntry, mode_command_entry
<1>9. Modes(t)
  BY <1>1, <1>6, <1>7, <1>8 DEF Inv, Modes, mode_command_entry
<1> QED
  BY <1>3, <1>4, <1>9 DEF Inv

LEMMA SettledInv ==
    ASSUME NEW s, Inv(s), NEW t, t = Settled(s)
    PROVE  Inv(t) /\ Apart(s, t)
<1>1. /\ Screen(t) /\ Fits(t) /\ Keeps(s, t, Forgets) /\ t.menu = s.menu /\ t.sect = s.sect
  BY SettledFrame DEF Inv
<1>2. Apart(s, t)
  BY <1>1 DEF Apart, Keeps
<1>3. Stale(t) => Stale(s)
  BY <1>1, <1>2, ApartFacts DEF Stale
<1> QED
  BY <1>1, <1>2, <1>3, ApartInv

LEMMA RedrawnInv ==
    ASSUME NEW s, Inv(s), ~Stale(s), NEW t, t = redisplay(s)
    PROVE  Inv(t) /\ Apart(s, t)
<1>1. Redrawn(s, t)
  BY RedisplayFrame DEF Inv
<1>2. Apart(s, t) /\ ~Stale(t) /\ Screen(t) /\ Fits(t)
  BY <1>1 DEF Redrawn, Apart, Keeps
<1>3. s.alpha => t.menu = s.menu
  BY LettersStay DEF Inv, Modes
<1>4. s.num => t.menu = s.menu
  <2> SUFFICES ASSUME s.num PROVE t.menu = s.menu
    OBVIOUS
  <2>1. s.menu["command"] = "none"
    BY DEF Inv, Modes
  <2>2. \A l \in Levels : t.menu[l] = s.menu[l]
    BY <1>1, <2>1 DEF Redrawn
  <2>3. s.menu \in [Levels -> AnyMenu] /\ t.menu \in [Levels -> AnyMenu]
    BY <1>2 DEF Inv, Screen, Calculators, MenuStates
  <2> QED
    BY <2>2, <2>3
<1> QED
  BY <1>1, <1>2, <1>3, <1>4, ApartInv DEF Redrawn

LEMMA ShownInv ==
    ASSUME NEW s, Inv(s), NEW t, t = Shown(s)
    PROVE  Inv(t) /\ Apart(s, t)
<1>1. CASE s.pend = "none"
  <2>1. t = Settled(redisplay(s)) /\ ~Stale(s)
    BY <1>1 DEF Shown, Inv, Modes
  <2>2. Inv(redisplay(s)) /\ Apart(s, redisplay(s))
    BY <2>1, RedrawnInv
  <2>3. Inv(t) /\ Apart(redisplay(s), t)
    BY <2>1, <2>2, SettledInv
  <2> QED
    BY <2>2, <2>3, ApartTwice
<1>2. CASE s.pend # "none"
  <2>1. t = Settled(s)
    BY <1>2 DEF Shown
  <2> QED
    BY <2>1, SettledInv
<1> QED
  BY <1>1, <1>2

-----------------------------------------------------------------------------
(* Numbers                                                                 *)

LEMMA RestCalm ==
    ASSUME NEW s, Rest(s) PROVE Calm(s) /\ s.nlen = 0 /\ ~s.num
  BY DEF Rest, Free, Calm, Counters

LEMMA NumCalm ==
    ASSUME NEW s, Inv(s), s.num
    PROVE  Calm(s) /\ s.nlen \in 1 .. NumLength /\ ~alpha_active(s) /\ (s.prgm => s.pc \in 0 .. s.lines)
<1>1. Calm(s) /\ ~alpha_active(s)
  BY DEF Inv, Modes, Calm
<1>2. s.nlen \in 1 .. NumLength /\ (s.prgm => s.pc \in 0 .. s.lines)
  BY DEF Inv, Counters
<1> QED
  BY <1>1, <1>2

LEMMA Typing ==
    ASSUME NEW s, Calm(s), NEW t \in Calculators, Keeps(s, t, NumFields),
           t.pc \in -1 .. s.lines, t.nlen \in 0 .. NumLength, t.num <=> t.nlen # 0,
           t.num => ~alpha_active(s) /\ (s.prgm => t.pc # -1)
    PROVE  /\ Inv(t) /\ ~t.alpha /\ ~mode_command_entry(t) /\ (~t.num => Rest(t))
           /\ \A w : Acted(w, t)
<1>1. NumFields \subseteq Plainer
  BY DEF NumFields, Plainer
<1>2. Screen(t) /\ Fits(t) /\ ~Stale(t) /\ t.menu = s.menu /\ t.sect = s.sect
  BY <1>1, StaysFit DEF Calm
<1>3. /\ t.inc = s.inc /\ t.saved = s.saved /\ t.clall = s.clall /\ t.rpc = s.rpc
      /\ t.pend = s.pend /\ t.alpha = s.alpha /\ t.alen = s.alen /\ t.lines = s.lines
      /\ t.prgm = s.prgm
  BY DEF Keeps, Fields, NumFields
<1>4. Counters(t)
  BY <1>3 DEF Calm, Counters
<1>5. EntryFits(t) /\ ~mode_command_entry(t)
  BY <1>2, <1>3 DEF Calm, EntryFits, mode_command_entry
<1>6. alpha_active(t) = alpha_active(s)
  <2>1. get_cat_index(t) = get_cat_index(s)
    BY <1>2, FrontLevel
  <2> QED
    BY <1>2, <2>1 DEF alpha_active, get_front_menu
<1>7. Modes(t)
  BY <1>2, <1>3, <1>5, <1>6 DEF Modes, Calm
<1> QED
  BY <1>2, <1>3, <1>4, <1>5, <1>7 DEF Calm, Inv, Acted, Rest, Free

LEMMA DigitsTyped ==
    ASSUME NEW s, Calm(s), NEW n \in 0 .. NumLength, NEW p \in -1 .. s.lines, NEW b \in BOOLEAN,
           b <=> n # 0, b => ~alpha_active(s) /\ (s.prgm => p # -1), NEW c \in BOOLEAN,
           NEW t, t = Digits(s, b, n, p, c)
    PROVE  /\ Inv(t) /\ ~t.alpha /\ ~mode_command_entry(t) /\ (~b => Rest(t))
           /\ \A w : Acted(w, t)
<1>1. s \in Calculators /\ n \in Int /\ p \in Int
  BY DEF Calm, Screen, Counters
<1> DEFINE v == [s EXCEPT !.num = b]
           w == [v EXCEPT !.nlen = n]
           x == [w EXCEPT !.pc = p]
<1>2. t = [x EXCEPT !.vm = c]
  BY <1>1 DEF Calculators, Digits
<1>3. v \in Calculators /\ v.num = b /\ Keeps(s, v, {"num"})
  BY <1>1, PutNum
<1> HIDE DEF v
<1>4. w \in Calculators /\ w.nlen = n /\ Keeps(v, w, {"nlen"})
  BY <1>1, <1>3, PutNlen
<1> HIDE DEF w
<1>5. x \in Calculators /\ x.pc = p /\ Keeps(w, x, {"pc"})
  BY <1>1, <1>4, PutPc
<1> HIDE DEF x
<1>6. t \in Calculators /\ t.vm = c /\ Keeps(x, t, {"vm"})
  BY <1>2, <1>5, PutVm
<1>7. t.num = b /\ t.nlen = n /\ t.pc = p
  BY <1>3, <1>4, <1>5, <1>6 DEF Keeps, Fields
<1>8. Keeps(s, t, NumFields)
  BY <1>3, <1>4, <1>5, <1>6 DEF Keeps, NumFields
<1> QED
  BY <1>6, <1>7, <1>8, Typing

LEMMA NumberShown ==
    ASSUME NEW s, Calm(s), ~alpha_active(s), NEW n \in 1 .. NumLength, NEW p \in -1 .. s.lines,
           s.prgm => p # -1, NEW c \in BOOLEAN, NEW t, t = Digits(s, TRUE, n, p, c)
    PROVE  \A w : Acted(w, t)
<1>1. n \in 0 .. NumLength /\ n # 0
  OBVIOUS
<1>2. \A b \in BOOLEAN : b = TRUE => (b <=> n # 0) /\ (b => ~alpha_active(s) /\ (s.prgm => p # -1))
  BY <1>1
<1> DEFINE b == TRUE
<1>3. b \in BOOLEAN /\ (b <=> n # 0) /\ (b => ~alpha_active(s) /\ (s.prgm => p # -1)) /\ t = Digits(s, b, n, p, c)
  BY <1>1
<1> HIDE DEF b
<1> QED
  BY <1>1, <1>3, DigitsTyped

LEMMA NumberGone ==
    ASSUME NEW s, Calm(s), NEW p \in -1 .. s.lines, NEW c \in BOOLEAN,
           NEW t, t = Digits(s, FALSE, 0, p, c)
    PROVE  Rest(t)
<1> DEFINE b == FALSE
           n == 0
<1>1. b \in BOOLEAN /\ (b <=> n # 0) /\ ~b /\ t = Digits(s, b, n, p, c) /\ n \in 0 .. NumLength
  OBVIOUS
<1> HIDE DEF b, n
<1> QED
  BY <1>1, DigitsTyped

LEMMA NumberSteps ==
    ASSUME NEW s, Inv(s), s.num, NEW e, NEW t, t = keydown_number_entry(s, e)
    PROVE  \A w : Acted(w, t)
<1>1. /\ Calm(s) /\ s.nlen \in 1 .. NumLength /\ ~alpha_active(s) /\ (s.prgm => s.pc \in 0 .. s.lines)
      /\ s \in Calculators /\ s.pc \in -1 .. s.lines /\ s.lines \in Nat
  BY NumCalm DEF Calm, Screen, Counters
<1>2. s.vm \in BOOLEAN /\ s.num = TRUE
  BY <1>1 DEF Calculators
<1> DEFINE n == Lengthened(s, e)
<1>3. \/ t = NumberBsp(s)
      \/ t = s
      \/ t = [s EXCEPT !.nlen = n]
  BY <1>1 DEF keydown_number_entry, Calculators
<1>4. CASE t = s
  <2>1. ~s.alpha /\ ~mode_command_entry(s)
    BY <1>1 DEF Calm
  <2> QED
    BY <1>4, <2>1 DEF Acted
<1>5. CASE t = [s EXCEPT !.nlen = n]
  <2>1. n \in 1 .. NumLength
    BY <1>1 DEF Lengthened
  <2>2. t = Digits(s, TRUE, n, s.pc, s.vm)
    BY <1>1, <1>2, <1>5 DEF Digits, Calculators
  <2> HIDE DEF n
  <2>3. s.prgm => s.pc # -1
    BY <1>1
  <2> QED
    BY <1>1, <1>2, <2>1, <2>2, <2>3, NumberShown
<1>6. CASE t = NumberBsp(s)
  <2>1. CASE s.nlen # 1
    <3>1. s.nlen - 1 \in 1 .. NumLength
      BY <1>1, <2>1
    <3>4. t = [s EXCEPT !.nlen = s.nlen - 1]
      BY <1>6, <2>1 DEF NumberBsp
    <3>2. t = Digits(s, TRUE, s.nlen - 1, s.pc, s.vm)
      BY <1>1, <1>2, <3>4 DEF Digits, Calculators
    <3>3. s.prgm => s.pc # -1
      BY <1>1
    <3> QED
      BY <1>1, <1>2, <3>1, <3>2, <3>3, NumberShown
  <2>2. CASE s.nlen = 1 /\ s.prgm
    <3>1. s.pc - 1 \in -1 .. s.lines /\ 0 \in 0 .. NumLength
      BY <1>1, <2>2
    <3>2. t = Digits(s, FALSE, 0, s.pc - 1, s.vm)
      BY <1>1, <1>2, <1>6, <2>2 DEF NumberBsp, EndNumber, Digits, Calculators
    <3>3. Rest(t)
      BY <1>1, <1>2, <3>1, <3>2, NumberGone
    <3> QED
      BY <3>3, RestActed
  <2>3. CASE s.nlen = 1 /\ ~s.prgm
    <3>1. 0 \in 0 .. NumLength
      OBVIOUS
    <3> DEFINE r == EndNumber(s)
    <3>2. r = Digits(s, FALSE, 0, s.pc, s.vm)
      BY <1>1, <1>2 DEF EndNumber, Digits, Calculators
    <3>3. t = [r EXCEPT !.pend = "CLX"]
      BY <1>6, <2>3 DEF NumberBsp
    <3> HIDE DEF r
    <3>4. Rest(r)
      BY <1>1, <1>2, <3>2, NumberGone
    <3>5. "CLX" \in Words /\ "CLX" \notin {"PGMSLVi", "PGMINTi"}
      BY DEF Words
    <3> QED
      BY <3>3, <3>4, <3>5, Pends
  <2> QED
    BY <2>1, <2>2, <2>3
<1> QED
  BY <1>3, <1>4, <1>5, <1>6

(* The first digit: it is not one that does not fit the word. *)
LEMMA StartNumberSteps ==
    ASSUME NEW s, Rest(s), ~alpha_active(s), NEW e, is_number_key(s, e), e.item # "wide",
           NEW t, t = StartNumber(s, e)
    PROVE  Acted(s, t)
<1>1. /\ Calm(s) /\ s.nlen = 0 /\ ~s.num /\ s \in Calculators /\ s.pc \in -1 .. s.lines
      /\ s.lines \in Nat /\ s.vm \in BOOLEAN
  BY RestCalm DEF Calm, Screen, Counters, Calculators
<1>2. ~Shortens(e)
  BY DEF is_number_key, Shortens
<1>3. 1 \in 0 .. NumLength /\ 0 < NumLength
  OBVIOUS
<1> DEFINE p == After(s.pc, s.lines)
           v == [s EXCEPT !.num = TRUE, !.pc = p]
           w == [s EXCEPT !.num = TRUE, !.vm = FALSE]
<1>4. p \in 0 .. s.lines
  BY <1>1, AfterLine
<1>5. \/ t = s
      \/ ~Invalid(s, e) /\ s.prgm /\ t = keydown_number_entry(v, e)
      \/ ~Invalid(s, e) /\ ~s.prgm /\ t = keydown_number_entry(w, e)
  BY DEF StartNumber
<1>6. CASE t = s
  BY <1>6, RestActed
<1>7. CASE ~Invalid(s, e) /\ s.prgm /\ t = keydown_number_entry(v, e)
  <2> DEFINE x == [s EXCEPT !.num = TRUE]
  <2>1. v.hex = s.hex /\ v.nlen = 0 /\ v = [x EXCEPT !.pc = p]
    BY <1>1 DEF Calculators
  <2> DEFINE n == Lengthened(v, e)
  <2>3. t = [v EXCEPT !.nlen = n]
    BY <1>2, <1>7, <2>1 DEF keydown_number_entry, Invalid
  <2>12. n \in 1 .. NumLength
    BY <1>3, <2>1 DEF Lengthened
  <2> HIDE DEF n
  <2>4. p \in Int /\ n \in Int /\ TRUE \in BOOLEAN /\ p # -1
    BY <1>1, <1>4, <2>12
  <2>5. x \in Calculators /\ x.num = TRUE /\ Keeps(s, x, {"num"})
    BY <1>1, <2>4, PutNum
  <2> HIDE DEF x, p
  <2>6. v \in Calculators /\ v.pc = p /\ Keeps(x, v, {"pc"})
    BY <2>1, <2>4, <2>5, PutPc
  <2> HIDE DEF v
  <2>7. t \in Calculators /\ t.nlen = n /\ Keeps(v, t, {"nlen"})
    BY <2>3, <2>4, <2>6, PutNlen
  <2>8. t.num /\ t.pc = p
    BY <2>5, <2>6, <2>7 DEF Keeps, Fields
  <2>9. Keeps(s, t, NumFields)
    BY <2>5, <2>6, <2>7 DEF Keeps, NumFields
  <2>10. t.pc \in -1 .. s.lines /\ t.nlen \in 0 .. NumLength /\ (t.num <=> t.nlen # 0)
    BY <1>1, <1>4, <2>7, <2>8, <2>12
  <2>11. t.num => ~alpha_active(s) /\ (s.prgm => t.pc # -1)
    BY <2>4, <2>8
  <2> QED
    BY <1>1, <2>7, <2>9, <2>10, <2>11, Typing
<1>8. CASE ~Invalid(s, e) /\ ~s.prgm /\ t = keydown_number_entry(w, e)
  <2> DEFINE x == [s EXCEPT !.num = TRUE]
  <2>1. w.hex = s.hex /\ w.nlen = 0 /\ w = [x EXCEPT !.vm = FALSE]
    BY <1>1 DEF Calculators
  <2> DEFINE n == Lengthened(w, e)
  <2>3. t = [w EXCEPT !.nlen = n]
    BY <1>2, <1>8, <2>1 DEF keydown_number_entry, Invalid
  <2>12. n \in 1 .. NumLength
    BY <1>3, <2>1 DEF Lengthened
  <2> HIDE DEF n
  <2>4. n \in Int /\ TRUE \in BOOLEAN /\ FALSE \in BOOLEAN
    BY <2>12
  <2>5. x \in Calculators /\ x.num = TRUE /\ Keeps(s, x, {"num"})
    BY <1>1, <2>4, PutNum
  <2> HIDE DEF x
  <2>6. w \in Calculators /\ Keeps(x, w, {"vm"})
    BY <2>1, <2>4, <2>5, PutVm
  <2> HIDE DEF w
  <2>7. t \in Calculators /\ t.nlen = n /\ Keeps(w, t, {"nlen"})
    BY <2>3, <2>4, <2>6, PutNlen
  <2>8. t.num /\ t.pc = s.pc
    BY <2>5, <2>6, <2>7 DEF Keeps, Fields
  <2>9. Keeps(s, t, NumFields)
    BY <2>5, <2>6, <2>7 DEF Keeps, NumFields
  <2>10. t.pc \in -1 .. s.lines /\ t.nlen \in 0 .. NumLength /\ (t.num <=> t.nlen # 0)
    BY <1>1, <2>7, <2>8, <2>12
  <2> QED
    BY <1>1, <1>8, <2>7, <2>9, <2>10, Typing
<1> QED
  BY <1>5, <1>6, <1>7, <1>8

-----------------------------------------------------------------------------
(* Keys for the menu in front                                              *)

LEMMA PendsAfter ==
    ASSUME NEW s, Rest(s), NEW v, Steers(s, v), NEW x \in Words, x \notin {"PGMSLVi", "PGMINTi"},
           NEW t, t = [v EXCEPT !.pend = x]
    PROVE  Acted(s, t)
<1>1. Rest(v)
  BY RestSteers
<1> QED
  BY <1>1, Pends

LEMMA RestActs ==
    ASSUME NEW s, Rest(s), NEW v, Steers(s, v) PROVE Acted(s, v)
  BY RestSteers, RestActed

LEMMA StoreActed ==
    ASSUME NEW s, Rest(s) PROVE Acted(s, store_command_after(s))
  BY RestStoreAfter, RestActed

LEMMA ChosenActed ==
    ASSUME NEW s, Rest(s), NEW v, Steers(s, v), NEW c \in Words,
           c \in {"PGMSLVi", "PGMINTi"} => v.menu["app"] = "catalog"
    PROVE  Acted(s, Chosen(v, c))
<1>1. Rest(v)
  BY RestSteers
<1>2. CASE v.prgm
  <2>1. Rest(store_command_after(v)) /\ Chosen(v, c) = store_command_after(v)
    BY <1>1, <1>2, RestStoreAfter DEF Chosen
  <2> QED
    BY <2>1, RestActed
<1>3. CASE ~v.prgm
  <2>1. Chosen(v, c) = [v EXCEPT !.pend = c]
    BY <1>3 DEF Chosen
  <2> QED
    BY <1>1, <2>1, Pends
<1> QED
  BY <1>2, <1>3

LEMMA DoAfter ==
    ASSUME NEW s, Rest(s), NEW v, Steers(s, v), NEW c \in Words, c \notin Internal,
           c \notin {"GTODOT", "A_THRU_F"}, NEW t, t = do_interactive(v, c)
    PROVE  Acted(s, t)
<1>1. Rest(v)
  BY RestSteers
<1>2. Acted(v, t)
  BY <1>1, DoInteractive
<1> QED
  BY <1>2, ActedSteers

(* A menu of the levels in front goes, the one of the applications if it   *)
(* has nothing to lead back to.                                            *)
LEMMA MenuGoes ==
    ASSUME NEW s, Screen(s), Fits(s), NEW l \in {"transient", "plain", "app"},
           l = "app" => s.menu["app"] = "catalog", NEW t, t = set_menu(s, l, "none")
    PROVE  Steers(s, t)
<1>1. CASE l # "app"
  <2>1. l \in Levels \ {"app"} /\ "none" \in MenusOf(l) /\ l # "command"
    BY <1>1, LevelFacts, MenusOfLevels
  <2> QED
    BY <2>1, SteersAt
<1>2. CASE l = "app"
  <2>1. "none" \in AppMenus \ {"varmenu"} /\ "none" \notin OfOwn
    BY DEF AppMenus, OfOwn, EditMenus, BaseMenus
  <2>2. s.cb # 5
    BY <1>2 DEF Fits
  <2> QED
    BY <1>2, <2>1, <2>2, SteersApp
<1> QED
  BY <1>1, <1>2

LEMMA ChosenFromSteers ==
    ASSUME NEW s, Screen(s), Fits(s), NEW l \in {"transient", "plain", "app"}, NEW t,
           t = ChosenFrom(s, l)
    PROVE  Steers(s, t)
<1>1. t = s \/ (l # "app" /\ t = set_menu(s, l, "none"))
  BY DEF ChosenFrom
<1> QED
  BY <1>1, MenuGoes, SteersSame

LEMMA LeftCatalogSteers ==
    ASSUME NEW s, Screen(s), Fits(s), NEW l \in {"transient", "plain", "app"},
           s.menu[l] = "catalog", NEW t, t = LeftCatalog(s, l)
    PROVE  Steers(s, t)
<1>1. t = s \/ t = set_menu(s, l, "none")
  BY DEF LeftCatalog
<1> QED
  BY <1>1, MenuGoes, SteersSame

(* The level that takes the keys is the one in front. *)
LEMMA LevelUp ==
    ASSUME NEW s, Screen(s), MenuUp(s), NEW l, l = Level(s)
    PROVE  /\ l \in {"transient", "plain", "app"} /\ get_cat_index(s) = l
           /\ s.menu[l] \in MenusOf(l) /\ Sectioned(s, l) /\ get_cat_section(s) = s.sect[l]
           /\ s.menu[l] \in Custom \cup {"programmable"} => l = "plain"
           /\ s.menu[l] \in {"varmenu", "integ"} => l = "app"
           /\ s.menu[l] \in EditMenus \cup BaseMenus \cup {"simq", "solve", "matrix"} => l = "app"
<1>1. l \in {"transient", "plain", "app"} /\ l \in Levels
  BY LevelFacts DEF Level
<1>2. get_cat_index(s) = l
  <2>1. CASE l = "transient"
    <3>1. s.menu["transient"] # "none"
      BY <2>1 DEF Level
    <3> QED
      BY <2>1, <3>1, FrontLevel, LevelFacts DEF MenuUp
  <2>2. CASE l = "plain"
    <3>1. s.menu["transient"] = "none" /\ s.menu["plain"] # "none"
      BY <2>2 DEF Level
    <3> QED
      BY <2>2, <3>1, FrontLevel, LevelFacts DEF MenuUp
  <2>3. CASE l = "app"
    <3>1. s.menu["transient"] = "none" /\ s.menu["plain"] = "none"
      BY <2>3 DEF Level
    <3> QED
      BY <2>3, <3>1, FrontLevel, LevelFacts DEF MenuUp
  <2> QED
    BY <1>1, <2>1, <2>2, <2>3
<1>3. s.menu[l] \in MenusOf(l) /\ Sectioned(s, l) /\ get_cat_section(s) = s.sect[l]
  BY <1>1, <1>2 DEF Screen, get_cat_section
<1>4. /\ s.menu[l] \in Custom \cup {"programmable"} => l = "plain"
      /\ s.menu[l] \in {"varmenu", "integ"} => l = "app"
      /\ s.menu[l] \in EditMenus \cup BaseMenus \cup {"simq", "solve", "matrix"} => l = "app"
  <2>1. CASE l = "transient"
    BY <1>3, <2>1, MenusOfLevels DEF Custom, EditMenus, BaseMenus
  <2>2. CASE l = "plain"
    BY <1>3, <2>2, MenusOfLevels DEF Custom, EditMenus, BaseMenus, PlainMenus
  <2>3. CASE l = "app"
    BY <1>3, <2>3, MenusOfLevels DEF Custom, EditMenus, BaseMenus, AppMenus
  <2> QED
    BY <1>1, <2>1, <2>2, <2>3
<1> QED
  BY <1>1, <1>2, <1>3, <1>4

LEMMA WordFacts ==
    /\ \A x \in {"RUN", "cancelled", "null", "VMEXEC", "VMSTO", "VMSOLVE", "linger1", "XEQ", "op",
                 "STO", "BST", "LBL", "CLV", "CLALLa", "INTEG", "PMEXEC", "CUSTOM", "CLA", "SST",
                 "ASSIGNa", "MVAR", "DIM", "EDITN", "GOTOROW"} :
           x \in Words /\ x \notin Internal /\ x \notin {"GTODOT", "A_THRU_F"}
    /\ "A_THRU_F" \in Words /\ "A_THRU_F" \notin Internal
    /\ "PGMSLVi" \in Words /\ "PGMINTi" \in Words
  BY DEF Words, Reached, Internal

(* The menu of a program *)
LEMMA PrgmMenuActed ==
    ASSUME NEW s, Rest(s), NEW e, NEW t, t = do_prgm_menu_key(s, e)
    PROVE  Acted(s, t)
<1> DEFINE x == IF e.item = "run" THEN "RUN" ELSE "cancelled"
<1>1. \/ t = [set_menu(s, "plain", "none") EXCEPT !.pend = x]
      \/ t = [s EXCEPT !.pend = "RUN"] \/ t = [s EXCEPT !.pend = "null"] \/ t = s
  BY DEF do_prgm_menu_key
<1>2. /\ x \in Words /\ x \notin {"PGMSLVi", "PGMINTi"}
      /\ "RUN" \in Words /\ "null" \in Words
  BY WordFacts DEF Internal
<1>3. Steers(s, set_menu(s, "plain", "none")) /\ Steers(s, s)
  BY RestFacts, MenuGoes, SteersSame
<1> HIDE DEF x
<1> QED
  BY <1>1, <1>2, <1>3, PendsAfter, RestActed

(* The limits of an integral come up. *)
LEMMA LimitsActed ==
    ASSUME NEW s, Rest(s), s.menu["app"] = "varmenu", NEW t,
           t = [set_menu(s, "app", "integ") EXCEPT !.cb = 5]
    PROVE  Acted(s, t)
<1>1. /\ s \in Calculators /\ Screen(s) /\ Fits(s) /\ Told(s) /\ ~Stale(s) /\ s.menu["command"] = "none"
  BY RestFacts
<1>2. s.mvars
  BY <1>1 DEF Stale
<1> DEFINE v == set_menu(s, "app", "integ")
<1>3. "integ" \in AppMenus /\ "integ" \notin EditMenus \cup BaseMenus \cup {"varmenu", "catalog"}
  BY DEF AppMenus, EditMenus, BaseMenus
<1>4. /\ Screen(v) /\ Keeps(s, v, AppFields) /\ Sunk(s, v)
      /\ Refused(s, v) \/ Allowed(s, v, "integ")
  BY <1>1, <1>3, SetApp
<1>5. t = [v EXCEPT !.cb = 5]
  OBVIOUS
<1> HIDE DEF v
<1>6. Taken(s, v, "integ")
  BY <1>1, <1>3, <1>4 DEF Fits, Refused, Allowed, Stays, OwnMenu, EditMenus
<1>7. v \in Calculators /\ 5 \in CbStates
  BY <1>4 DEF Screen, CbStates
<1>8. t \in Calculators /\ t.cb = 5 /\ Keeps(v, t, {"cb"})
  BY <1>5, <1>7, PutCallback
<1>9. /\ t.menu = v.menu /\ t.sect = v.sect /\ t.edit = v.edit /\ t.baseapp = v.baseapp
      /\ t.role = v.role /\ t.mvars = v.mvars /\ v.mvars = s.mvars
  BY <1>4, <1>8 DEF Keeps, Fields, AppFields
<1>10. Screen(t)
  BY <1>4, <1>8, SameScreen
<1>11. ~s.edit
  BY <1>1, <1>3 DEF Fits, EditMenus
<1>12. Fits(t)
  BY <1>3, <1>6, <1>8, <1>9, <1>11 DEF Fits, Taken
<1>13. Keeps(s, t, MenuFields)
  BY <1>4, <1>8 DEF Keeps, AppFields, MenuFields
<1>14. ~Stale(t)
  BY <1>2, <1>9 DEF Stale
<1>15. t.menu["command"] = "none"
  BY <1>1, <1>4, <1>9, LevelFacts DEF Sunk
<1> QED
  BY <1>10, <1>12, <1>13, <1>14, <1>15, RestActs DEF Steers

(* The menu of variables *)
LEMMA VarmenuActed ==
    ASSUME NEW s, Rest(s), s.menu["app"] = "varmenu", NEW e, NEW t, t = VarmenuKey(s, e)
    PROVE  Acted(s, t)
<1>1. /\ Screen(s) /\ Fits(s) /\ Steers(s, s) /\ s.cb # 5
  BY RestFacts, SteersSame DEF Fits
<1>2. ASSUME NEW x \in {"RUN", "cancelled", "null", "VMEXEC", "VMSTO", "VMSOLVE", "linger1"}
      PROVE  Acted(s, [s EXCEPT !.pend = x])
  <2>1. x \in Words /\ x \notin {"PGMSLVi", "PGMINTi"}
    BY WordFacts DEF Internal
  <2> QED
    BY <1>1, <2>1, PendsAfter
<1>3. Acted(s, VarmenuItem(s))
  <2>1. \/ VarmenuItem(s) = store_command_after(s)
        \/ VarmenuItem(s) = [s EXCEPT !.pend = IF s.vm THEN "VMEXEC" ELSE "VMSTO"]
        \/ VarmenuItem(s) = [s EXCEPT !.pend = IF s.vm THEN "VMSOLVE" ELSE "VMSTO"]
        \/ VarmenuItem(s) = [set_menu(s, "app", "integ") EXCEPT !.cb = 5]
        \/ VarmenuItem(s) = [s EXCEPT !.pend = "VMSTO"]
    BY DEF VarmenuItem
  <2>2. Acted(s, [s EXCEPT !.pend = IF s.vm THEN "VMEXEC" ELSE "VMSTO"])
    BY <1>2
  <2>3. Acted(s, [s EXCEPT !.pend = IF s.vm THEN "VMSOLVE" ELSE "VMSTO"])
    BY <1>2
  <2> QED
    BY <1>2, <2>1, <2>2, <2>3, StoreActed, LimitsActed
<1>4. ASSUME NEW x \in {"VMEXEC", "cancelled"}, t = [set_menu(s, "app", "none") EXCEPT !.pend = x]
      PROVE  Acted(s, t)
  <2>1. "none" \in AppMenus \ {"varmenu"} /\ "none" \notin OfOwn
    BY DEF AppMenus, OfOwn, EditMenus, BaseMenus
  <2>2. Steers(s, set_menu(s, "app", "none"))
    BY <1>1, <2>1, SteersApp
  <2>3. x \in Words /\ x \notin {"PGMSLVi", "PGMINTi"}
    BY <1>4, WordFacts DEF Internal
  <2> QED
    BY <1>4, <2>2, <2>3, PendsAfter
<1> DEFINE y == IF s.role = 3 THEN "VMEXEC" ELSE "cancelled"
<1>5. \/ t = [s EXCEPT !.pend = "null"] \/ t = [s EXCEPT !.pend = "linger1"] \/ t = VarmenuItem(s)
      \/ t = [set_menu(s, "app", "none") EXCEPT !.pend = y]
      \/ t = s
  BY DEF VarmenuKey
<1>6. y \in {"VMEXEC", "cancelled"}
  OBVIOUS
<1> HIDE DEF y
<1>7. CASE t = [set_menu(s, "app", "none") EXCEPT !.pend = y]
  BY <1>4, <1>6, <1>7
<1> QED
  BY <1>2, <1>3, <1>5, <1>7, RestActed

(* A custom menu *)
LEMMA CustomMenuActed ==
    ASSUME NEW s, Rest(s), NEW l \in {"transient", "plain", "app"}, NEW item,
           item \in {"item", "op", "XEQ", "STO", "CLALLa", "BST", "no"},
           s.local \/ item # "item",
           NEW t, t = CustomMenuKey(s, l, item)
    PROVE  Acted(s, t)
<1>1. /\ Screen(s) /\ Fits(s) /\ Steers(s, s)
  BY RestFacts, SteersSame
<1>2. \/ t = do_interactive(s, "XEQ")
      \/ t = Chosen(s, "XEQ")
      \/ t = s \/ t = Confirm(s)
      \/ item \in {"STO", "BST"} /\ t = do_interactive(s, item)
      \/ t = ChosenFrom(store_command_after(s), l)
      \/ item \in {"XEQ", "op"} /\ t = [s EXCEPT !.pend = item]
  <2>1. CASE s.local
    BY <2>1 DEF CustomMenuKey
  <2>2. CASE ~s.local
    BY <2>2 DEF CustomMenuKey
  <2> QED
    BY <2>1, <2>2
<1>3. CASE t = do_interactive(s, "XEQ")
  BY <1>1, <1>3, WordFacts, DoAfter
<1>4. CASE t = Chosen(s, "XEQ")
  BY <1>1, <1>4, WordFacts, ChosenActed
<1>5. CASE t = s \/ t = Confirm(s)
  BY <1>5, RestActed, ConfirmActed
<1>6. CASE item \in {"STO", "BST"} /\ t = do_interactive(s, item)
  <2>1. item \in Words /\ item \notin Internal /\ item \notin {"GTODOT", "A_THRU_F"}
    BY <1>6, WordFacts
  <2> QED
    BY <1>1, <1>6, <2>1, DoAfter
<1>7. CASE t = ChosenFrom(store_command_after(s), l)
  <2>1. Rest(store_command_after(s))
    BY RestStoreAfter
  <2>2. Steers(store_command_after(s), t)
    BY <1>7, <2>1, RestFacts, ChosenFromSteers
  <2>3. Rest(t)
    BY <2>1, <2>2, RestSteers
  <2> QED
    BY <2>3, RestActed
<1>8. CASE item \in {"XEQ", "op"} /\ t = [s EXCEPT !.pend = item]
  <2>1. item \in Words /\ item \notin {"PGMSLVi", "PGMINTi"}
    BY <1>8, WordFacts DEF Internal
  <2> QED
    BY <1>1, <1>8, <2>1, PendsAfter
<1> QED
  BY <1>2, <1>3, <1>4, <1>5, <1>6, <1>7, <1>8

-----------------------------------------------------------------------------
(* Catalogs                                                                *)

LEMMA PendsRun ==
    ASSUME NEW s, Rest(s), NEW t, t = RunPends(s)
    PROVE  \A w : Acted(w, t)
<1> DEFINE v == [s EXCEPT !.pend = "XEQ"]
<1>1. s \in Calculators /\ "XEQ" \in Words /\ TRUE \in BOOLEAN /\ "XEQ" \notin {"PGMSLVi", "PGMINTi"}
  BY RestFacts, WordFacts DEF Internal
<1>2. t = [v EXCEPT !.rpc = TRUE]
  BY DEF RunPends
<1>3. v \in Calculators /\ v.pend = "XEQ" /\ Keeps(s, v, {"pend"}) /\ Inv(v) /\ Acted(s, v)
  BY <1>1, PutPend, Pends
<1> HIDE DEF v
<1>4. t \in Calculators /\ t.rpc /\ Keeps(v, t, {"rpc"})
  BY <1>1, <1>2, <1>3, PutRpc
<1>5. Screen(t) /\ Fits(t) /\ (Stale(t) <=> Stale(v)) /\ t.menu = v.menu /\ t.sect = v.sect
  <2>1. {"rpc"} \subseteq Plainer
    BY DEF Plainer
  <2>2. Screen(v) /\ Fits(v)
    BY <1>3 DEF Inv
  <2> QED
    BY <1>4, <2>1, <2>2, StaysFit
<1>6. /\ t.inc = v.inc /\ t.saved = v.saved /\ t.clall = v.clall /\ t.pend = v.pend
      /\ t.alpha = v.alpha /\ t.alen = v.alen /\ t.lines = v.lines /\ t.pc = v.pc
      /\ t.prgm = v.prgm /\ t.num = v.num /\ t.nlen = v.nlen
  BY <1>4 DEF Keeps, Fields
<1>7. /\ v.inc = s.inc /\ v.alpha = s.alpha /\ v.num = s.num
  BY <1>3 DEF Keeps, Fields
<1>8. ~t.alpha /\ ~t.num /\ ~mode_command_entry(t) /\ ~mode_command_entry(v)
  BY <1>6, <1>7 DEF Rest, Free, mode_command_entry
<1>9. Counters(t) /\ EntryFits(t)
  BY <1>3, <1>5, <1>6 DEF Inv, Counters, EntryFits
<1>10. Modes(t)
  BY <1>3, <1>5, <1>6, <1>8 DEF Inv, Modes
<1> QED
  BY <1>5, <1>8, <1>9, <1>10 DEF Inv, Acted

LEMMA RunActed ==
    ASSUME NEW s, Rest(s), MenuUp(s), NEW l, l = Level(s), s.menu[l] = "catalog", s.sect[l] = "pgm",
           NEW t, t = RunFromCatalog(s, l)
    PROVE  Acted(s, t)
<1>1. /\ Screen(s) /\ Fits(s) /\ Steers(s, s) /\ s.menu["command"] = "none"
      /\ l \in {"transient", "plain", "app"} /\ get_cat_section(s) = "pgm"
  BY RestFacts, SteersSame, LevelUp
<1> DEFINE a == set_menu(s, "plain", "none")
           b == set_menu(a, "transient", "catalog")
           v == IF l = "plain" THEN set_cat_section(b, "pgm") ELSE s
<1>2. \/ t = ChosenFrom(store_command_after(s), l)
      \/ t = RunPends(v)
      \/ t = [s EXCEPT !.pend = "XEQ"]
  BY <1>1 DEF RunFromCatalog, RunPends
<1>3. Steers(s, a)
  BY <1>1, MenuGoes
<1>4. Screen(a) /\ Fits(a)
  BY <1>3 DEF Steers
<1> HIDE DEF a
<1>5. "transient" \in Levels \ {"app"} /\ "catalog" \in MenusOf("transient")
  BY LevelFacts, MenusOfLevels
<1>6. Steers(a, b) /\ Screen(b) /\ Fits(b)
  BY <1>4, <1>5, SteersAt DEF Steers
<1>7. b.menu[get_cat_index(b)] = "catalog"
  <2>1. \A k \in Levels : b.menu[k] = IF k = "transient" THEN "catalog"
                                      ELSE IF k \in InFront["transient"] THEN "none" ELSE a.menu[k]
    BY <1>4, <1>5, SetAt
  <2> HIDE DEF b
  <2>2. b.menu["transient"] = "catalog" /\ \A k \in InFront["transient"] : b.menu[k] = "none"
    BY <2>1, LevelFacts
  <2>3. get_cat_index(b) = "transient"
    BY <2>2, FrontLevel, LevelFacts
  <2> QED
    BY <2>2, <2>3
<1> HIDE DEF b
<1>8. "pgm" \in Sections /\ "pgm" \notin ProgramSections /\ "pgm" \notin ArgumentSections
  BY DEF Sections, ProgramSections, ArgumentSections
<1>9. Steers(b, set_cat_section(b, "pgm"))
  BY <1>6, <1>7, <1>8, SteersSection
<1>10. Steers(s, v)
  BY <1>1, <1>3, <1>6, <1>9, SteersTwice
<1> HIDE DEF v
<1>11. CASE t = ChosenFrom(store_command_after(s), l)
  <2>1. Rest(store_command_after(s))
    BY RestStoreAfter
  <2>2. Steers(store_command_after(s), t)
    BY <1>1, <1>11, <2>1, RestFacts, ChosenFromSteers
  <2>3. Rest(t)
    BY <2>1, <2>2, RestSteers
  <2> QED
    BY <2>3, RestActed
<1>12. CASE t = RunPends(v)
  <2>1. Rest(v)
    BY <1>10, RestSteers
  <2> QED
    BY <1>12, <2>1, PendsRun
<1>13. CASE t = [s EXCEPT !.pend = "XEQ"]
  BY <1>1, <1>13, WordFacts, PendsAfter DEF Internal
<1> QED
  BY <1>2, <1>11, <1>12, <1>13

LEMMA CatalogActed ==
    ASSUME NEW s, Rest(s), MenuUp(s), NEW l, l = Level(s), s.menu[l] = "catalog", NEW item,
           s.sect[l] \in {"fcn", "ext", "misc", "cmp"} => item \in CommandItems,
           NEW t, t = CatalogKey(s, l, item)
    PROVE  Acted(s, t)
<1>1. /\ Screen(s) /\ Fits(s) /\ Steers(s, s) /\ s.menu["command"] = "none"
      /\ l \in {"transient", "plain", "app"} /\ get_cat_section(s) = s.sect[l]
      /\ get_cat_index(s) = l /\ Sectioned(s, l)
  BY RestFacts, SteersSame, LevelUp
<1>2. \A x \in {"fcn", "pgm", "real", "mat", "ext", "misc", "cmp"} : Steers(s, set_cat_section(s, x))
  <2>1. \A x \in {"fcn", "pgm", "real", "mat", "ext", "misc", "cmp"} :
            x \in Sections /\ x \notin ProgramSections /\ x \notin ArgumentSections
    BY DEF Sections, ProgramSections, ArgumentSections
  <2> QED
    BY <1>1, <2>1, SteersSection
<1>3. Steers(s, LeftCatalog(s, l))
  BY <1>1, LeftCatalogSteers
<1> DEFINE v == LeftCatalog(s, l)
<1>4. \/ item \in {"fcn", "pgm"} /\ t = set_cat_section(s, item)
      \/ item \in {"real", "mat"} /\ t = set_cat_section(s, item)
      \/ t = s
      \/ t = [s EXCEPT !.pend = "linger1"] \/ t = [s EXCEPT !.pend = "null"]
      \/ t = set_cat_section(s, "ext") \/ t = set_cat_section(s, "misc")
      \/ t = [v EXCEPT !.pend = "null"]
      \/ s.sect[l] = "pgm" /\ t = RunFromCatalog(s, l)
      \/ s.sect[l] \in ProgramSections /\ t = Chosen(s, PgmCommand(s.sect[l]))
      \/ t = [set_cat_section(s, "cmp") EXCEPT !.pend = "null"]
      \/ item \in {"op", "STO", "LBL", "CLV"} /\ t = do_interactive(v, item)
      \/ t = Chosen(v, "op")
  <2> HIDE DEF v
  <2> DEFINE x == s.sect[l]
  <2>1. x = get_cat_section(s) /\ "no" \notin {"fcn", "pgm", "real", "mat", "mem", "item", "end", "cmp"}
    BY <1>1
  <2>2. CASE x = "top"
    <3>1. CASE item \in {"fcn", "pgm"}
      <4>1. t = set_cat_section(s, item)
        BY <2>1, <2>2, <3>1 DEF CatalogKey, ProgramSections
      <4> QED
        BY <3>1, <4>1
    <3>2. CASE item \in {"real", "mat"}
      <4>1. t = set_cat_section(s, item) \/ t = s
        BY <2>1, <2>2, <3>2 DEF CatalogKey, ProgramSections
      <4> QED
        BY <3>2, <4>1
    <3>3. CASE item = "mem"
      <4>1. t = [s EXCEPT !.pend = "linger1"]
        BY <2>1, <2>2, <3>3 DEF CatalogKey, ProgramSections
      <4> QED
        BY <4>1
    <3>4. CASE item \notin {"fcn", "pgm", "real", "mat", "mem"}
      <4>1. t = Chosen(v, "op")
        BY <2>1, <2>2, <3>4 DEF CatalogKey, ProgramSections, v
      <4> QED
        BY <4>1
    <3> QED
      BY <3>1, <3>2, <3>3, <3>4
  <2>3. CASE x = "ext1"
    <3>1. t = set_cat_section(s, "ext")
      BY <2>1, <2>3 DEF CatalogKey, ProgramSections
    <3> QED
      BY <3>1
  <2>4. CASE x = "ext2"
    <3>1. t = set_cat_section(s, "misc")
      BY <2>1, <2>4 DEF CatalogKey, ProgramSections
    <3> QED
      BY <3>1
  <2>5. CASE x \notin {"top", "ext1", "ext2"} /\ item = "no"
    <3>1. t = [s EXCEPT !.pend = "null"] \/ t = [v EXCEPT !.pend = "null"]
      BY <2>1, <2>5 DEF CatalogKey, v
    <3> QED
      BY <3>1
  <2>6. CASE x = "pgm" /\ item # "no"
    <3>1. CASE item = "end" /\ s.prgm
      <4>1. t = s
        BY <2>1, <2>6, <3>1 DEF CatalogKey, ProgramSections
      <4> QED
        BY <4>1
    <3>2. CASE item = "item" \/ (item = "end" /\ ~s.prgm)
      <4>1. t = RunFromCatalog(s, l)
        BY <2>1, <2>6, <3>2 DEF CatalogKey, ProgramSections
      <4> QED
        BY <2>6, <4>1
    <3>3. CASE item \notin {"item", "end"}
      <4>1. t = Chosen(v, "op")
        BY <2>1, <2>6, <3>3 DEF CatalogKey, ProgramSections, v
      <4> QED
        BY <4>1
    <3> QED
      BY <3>1, <3>2, <3>3
  <2>7. CASE x \in ProgramSections /\ item # "no"
    <3>1. x \in ProgramSections /\ x \notin {"top", "ext1", "ext2", "pgm", "fcn", "ext", "misc", "cmp"}
      BY <2>7 DEF ProgramSections
    <3>2. t = Chosen(s, PgmCommand(x))
      BY <2>1, <2>7, <3>1 DEF CatalogKey
    <3> QED
      BY <2>7, <3>2
  <2>8. CASE x \in {"fcn", "ext", "misc", "cmp"} /\ item # "no"
    <3>1. x \notin ProgramSections
      BY <2>8 DEF ProgramSections
    <3>2. CASE x = "ext" /\ item = "cmp"
      <4>1. t = [set_cat_section(s, "cmp") EXCEPT !.pend = "null"]
        BY <2>1, <3>1, <3>2 DEF CatalogKey
      <4> QED
        BY <4>1
    <3>3. CASE x # "ext" /\ item = "cmp"
      <4>1. t = Chosen(v, "op")
        BY <2>1, <2>8, <3>1, <3>3 DEF CatalogKey, v
      <4> QED
        BY <4>1
    <3>4. CASE item # "cmp"
      <4>1. t = do_interactive(v, item)
        BY <2>1, <2>8, <3>1, <3>4 DEF CatalogKey, v
      <4>2. item \in {"op", "STO", "LBL", "CLV"}
        BY <2>8, <3>4 DEF CommandItems
      <4> QED
        BY <4>1, <4>2
    <3> QED
      BY <3>2, <3>3, <3>4
  <2>9. CASE x \notin {"top", "ext1", "ext2", "pgm", "fcn", "ext", "misc", "cmp"} \cup ProgramSections
             /\ item # "no"
    <3>1. t = Chosen(v, "op")
      BY <2>1, <2>9 DEF CatalogKey, v
    <3> QED
      BY <3>1
  <2> QED
    BY <2>2, <2>3, <2>4, <2>5, <2>6, <2>7, <2>8, <2>9
<1> HIDE DEF v
<1>5. CASE item \in {"fcn", "pgm", "real", "mat"} /\ t = set_cat_section(s, item)
  BY <1>2, <1>5, RestActs
<1>6. CASE t = s \/ t = set_cat_section(s, "ext") \/ t = set_cat_section(s, "misc")
  BY <1>2, <1>6, RestActs, RestActed
<1>7. "null" \in Words /\ "null" \notin {"PGMSLVi", "PGMINTi"} /\ "linger1" \in Words
      /\ "linger1" \notin {"PGMSLVi", "PGMINTi"} /\ "op" \in Words /\ "op" \notin {"PGMSLVi", "PGMINTi"}
  BY WordFacts DEF Internal
<1>8. CASE t = [s EXCEPT !.pend = "linger1"] \/ t = [s EXCEPT !.pend = "null"]
  BY <1>1, <1>7, <1>8, PendsAfter
<1>9. CASE t = [v EXCEPT !.pend = "null"]
  <2>1. Steers(s, v)
    BY <1>3 DEF v
  <2> QED
    BY <1>7, <1>9, <2>1, PendsAfter
<1>10. CASE s.sect[l] = "pgm" /\ t = RunFromCatalog(s, l)
  BY <1>10, RunActed
<1>11. CASE s.sect[l] \in ProgramSections /\ t = Chosen(s, PgmCommand(s.sect[l]))
  <2>1. l = "app" /\ s.menu["app"] = "catalog"
    BY <1>1, <1>11 DEF Sectioned
  <2>2. PgmCommand(s.sect[l]) \in {"PGMSLVi", "PGMINTi", "PMEXEC"}
    BY <1>11 DEF PgmCommand, ProgramSections
  <2>3. PgmCommand(s.sect[l]) \in Words
    BY <2>2, WordFacts
  <2> QED
    BY <1>1, <1>11, <2>1, <2>3, ChosenActed
<1>12. CASE t = [set_cat_section(s, "cmp") EXCEPT !.pend = "null"]
  BY <1>2, <1>7, <1>12, PendsAfter
<1>13. CASE item \in {"op", "STO", "LBL", "CLV"} /\ t = do_interactive(v, item)
  <2>1. Steers(s, v)
    BY <1>3 DEF v
  <2>2. item \in Words /\ item \notin Internal /\ item \notin {"GTODOT", "A_THRU_F"}
    BY <1>13, WordFacts
  <2> QED
    BY <1>13, <2>1, <2>2, DoAfter
<1>14. CASE t = Chosen(v, "op")
  <2>1. Steers(s, v)
    BY <1>3 DEF v
  <2> QED
    BY <1>7, <1>14, <2>1, ChosenActed
<1> QED
  BY <1>4, <1>5, <1>6, <1>8, <1>9, <1>10, <1>11, <1>12, <1>13, <1>14

-----------------------------------------------------------------------------
(* Function menus, the arrows and EXIT                                     *)

LEMMA IntegActed ==
    ASSUME NEW s, Rest(s), NEW item, NEW t, t = IntegKey(s, item)
    PROVE  Acted(s, t)
<1>1. \/ t = [s EXCEPT !.pend = "linger1"] \/ t = Chosen(s, "VMSTO")
      \/ t = [s EXCEPT !.pend = "INTEG"] \/ t = [s EXCEPT !.pend = "null"]
  BY DEF IntegKey
<1>2. Steers(s, s)
  BY RestFacts, SteersSame
<1>3. /\ "linger1" \in Words /\ "VMSTO" \in Words /\ "INTEG" \in Words /\ "null" \in Words
  BY WordFacts
<1> QED
  BY <1>1, <1>2, <1>3, PendsAfter, ChosenActed

LEMMA FunctionActed ==
    ASSUME NEW s, Rest(s), NEW l \in {"transient", "plain", "app"}, NEW item \in Functions,
           item = "xcomp" => l = "plain",
           item = "A_THRU_F" => l = "app" /\ s.menu["app"] \in BaseMenus,
           NEW t, t = FunctionKey(s, l, item)
    PROVE  Acted(s, t)
<1>1. Screen(s) /\ Fits(s)
  BY RestFacts
<1>2. CASE item = "xcomp"
  <2>1. "xcomp" \in PlainMenus /\ "xcomp" \in MenusOf("plain") /\ "plain" \in Levels \ {"app"}
    BY LevelFacts, MenusOfLevels DEF PlainMenus
  <2>2. t = set_menu(s, "plain", "xcomp")
    BY <1>2, <2>1 DEF FunctionKey
  <2> QED
    BY <1>1, <2>1, <2>2, SteersAt, RestActs
<1>3. CASE item # "xcomp"
  <2>1. item \notin PlainMenus \cup AppMenus
    BY <1>3 DEF Functions, PlainMenus, AppMenus
  <2> DEFINE v == ChosenFrom(s, l)
  <2>2. \/ t = [v EXCEPT !.pend = "null"] \/ t = do_interactive(v, item)
    BY <2>1 DEF FunctionKey
  <2>3. Steers(s, v)
    BY <1>1, ChosenFromSteers
  <2>4. l = "app" => v = s
    BY DEF ChosenFrom
  <2> HIDE DEF v
  <2>5. "null" \in Words /\ "null" \notin {"PGMSLVi", "PGMINTi"}
    BY WordFacts DEF Internal
  <2>6. CASE t = [v EXCEPT !.pend = "null"]
    BY <2>3, <2>5, <2>6, PendsAfter
  <2>7. CASE t = do_interactive(v, item) /\ item = "A_THRU_F"
    <3>1. t = do_interactive(s, "A_THRU_F") /\ s.menu["app"] \in BaseMenus
      BY <2>4, <2>7
    <3>2. "A_THRU_F" \in Words /\ "A_THRU_F" \notin Internal
      BY WordFacts
    <3> QED
      BY <3>1, <3>2, DoInteractive
  <2>8. CASE t = do_interactive(v, item) /\ item # "A_THRU_F"
    <3>1. item \in Words /\ item \notin Internal /\ item \notin {"GTODOT", "A_THRU_F"}
      BY <1>3, <2>8, WordFacts DEF Functions
    <3> QED
      BY <2>3, <2>8, <3>1, DoAfter
  <2> QED
    BY <2>2, <2>6, <2>7, <2>8
<1> QED
  BY <1>2, <1>3

LEMMA ArrowActed ==
    ASSUME NEW s, Rest(s), MenuUp(s), NEW l, l = Level(s), NEW t, t = ArrowKey(s, l, s.menu[l])
    PROVE  Acted(s, t)
<1>1. /\ Screen(s) /\ Fits(s)
      /\ l \in {"transient", "plain", "app"} /\ s.menu[l] \in MenusOf(l)
      /\ s.menu[l] \in Custom => l = "plain"
  BY RestFacts, LevelUp
<1>2. \/ t = s
      \/ (l = "plain" /\ t = set_menu(s, l, "custom2"))
      \/ (l = "plain" /\ t = set_menu(s, l, "custom1"))
      \/ Sibling(s.menu[l]) # "none" /\ t = set_menu(s, l, Sibling(s.menu[l]))
  BY <1>1 DEF ArrowKey
<1>3. "plain" \in Levels \ {"app"} /\ "custom1" \in MenusOf("plain") /\ "custom2" \in MenusOf("plain")
      /\ "transient" \in Levels
  BY LevelFacts, MenusOfLevels DEF PlainMenus
<1>4. CASE l = "plain" /\ (t = set_menu(s, l, "custom1") \/ t = set_menu(s, l, "custom2"))
  BY <1>1, <1>3, <1>4, SteersAt, RestActs
<1>5. CASE Sibling(s.menu[l]) # "none" /\ t = set_menu(s, l, Sibling(s.menu[l]))
  <2>1. CASE l = "plain"
    <3>1. Sibling(s.menu[l]) \in MenusOf("plain")
      BY <1>1, <1>5, <2>1, MenusOfLevels DEF Sibling, PlainMenus
    <3> QED
      BY <1>1, <1>3, <1>5, <2>1, <3>1, SteersAt, RestActs
  <2>2. CASE l = "app"
    <3> DEFINE m == Sibling(s.menu["app"])
    <3>1. s.menu["app"] \in AppMenus
      BY <1>1, <2>2, MenusOfLevels
    <3>2. s.menu["app"] \in EditMenus /\ m \in EditMenus
      BY <1>5, <2>2, <3>1 DEF Sibling, AppMenus, EditMenus
    <3>3. s.cb = 1
      BY <1>1, <3>2 DEF Fits
    <3>4. m \in AppMenus \ {"varmenu"} /\ m # "none"
      BY <3>2 DEF AppMenus, EditMenus
    <3>5. OwnMenu(s, m)
      BY <3>2, <3>3 DEF OwnMenu
    <3>6. t = set_menu(s, "app", m)
      BY <1>5, <2>2
    <3> HIDE DEF m
    <3> QED
      BY <1>1, <3>4, <3>5, <3>6, SteersApp, RestActs
  <2>3. CASE l = "transient"
    <3>1. s.menu[l] \in {"none", "catalog"}
      BY <1>1, <2>3, MenusOfLevels
    <3> QED
      BY <1>5, <3>1 DEF Sibling
  <2> QED
    BY <1>1, <2>1, <2>2, <2>3
<1> QED
  BY <1>2, <1>4, <1>5, RestActed

(* A menu of variables may come back whose program is gone: it goes when   *)
(* the key goes up.                                                        *)
LEMMA PendsCancelled ==
    ASSUME NEW s, Rest(s), NEW v, Screen(v), Fits(v), Keeps(s, v, AppFields),
           v.menu["command"] = "none", NEW t, t = [v EXCEPT !.pend = "cancelled"]
    PROVE  Acted(s, t)
<1>1. v \in Calculators /\ "cancelled" \in Words
  BY WordFacts DEF Screen
<1>2. t \in Calculators /\ t.pend = "cancelled" /\ Keeps(v, t, {"pend"})
  BY <1>1, PutPend
<1>3. {"pend"} \subseteq Plainer
  BY DEF Plainer
<1>4. Screen(t) /\ Fits(t) /\ t.menu = v.menu /\ t.sect = v.sect
  BY <1>2, <1>3, StaysFit
<1>5. Keeps(s, t, AppFields \cup {"pend"})
  BY <1>2 DEF Keeps
<1>6. /\ t.inc = s.inc /\ t.lines = s.lines /\ t.pc = s.pc /\ t.saved = s.saved /\ t.alen = s.alen
      /\ t.nlen = s.nlen /\ t.num = s.num /\ t.prgm = s.prgm /\ t.clall = s.clall
      /\ t.alpha = s.alpha /\ t.rpc = s.rpc
  BY <1>5 DEF Keeps, Fields, AppFields
<1>7. t.menu["command"] = "none" /\ ~mode_command_entry(t) /\ ~t.num /\ ~t.alpha /\ ~t.clall /\ ~t.rpc
      /\ t.saved = -1
  BY <1>4, <1>6 DEF Rest, Free, mode_command_entry
<1>8. Counters(t)
  BY <1>6 DEF Rest, Free, Counters
<1>9. EntryFits(t)
  BY <1>6, <1>7 DEF Rest, EntryFits, mode_command_entry
<1>10. Modes(t)
  BY <1>2, <1>7 DEF Modes, InEntry
<1> QED
  BY <1>4, <1>7, <1>8, <1>9, <1>10 DEF Inv, Acted

LEMMA ExitActed ==
    ASSUME NEW s, Rest(s), MenuUp(s), NEW l, l = Level(s), s.menu[l] # "varmenu",
           NEW t, t = ExitKey(s, l, s.menu[l])
    PROVE  Acted(s, t)
<1>1. /\ Screen(s) /\ Fits(s) /\ Told(s) /\ Steers(s, s) /\ s.menu["command"] = "none" /\ s \in Calculators
      /\ l \in {"transient", "plain", "app"} /\ s.menu[l] \in MenusOf(l)
      /\ get_cat_index(s) = l
  BY RestFacts, LevelUp, SteersSame
<1> DEFINE x == Outer(get_cat_section(s))
           w == IF x # "none" THEN set_cat_section(s, x) ELSE set_menu(s, l, "none")
           m == Parent(s.menu[l])
           v == set_menu(s, l, m)
<1>2. \/ s.menu[l] = "catalog" /\ t = [w EXCEPT !.pend = "cancelled"]
      \/ t = s
      \/ t = [s EXCEPT !.nested = FALSE]
      \/ s.menu[l] # "catalog" /\ t = [v EXCEPT !.pend = "cancelled"]
  BY DEF ExitKey
<1>3. "cancelled" \in Words /\ "cancelled" \notin {"PGMSLVi", "PGMINTi"}
  BY WordFacts DEF Internal
<1>4. CASE s.menu[l] = "catalog" /\ t = [w EXCEPT !.pend = "cancelled"]
  <2>1. CASE x # "none"
    <3>1. x \in Sections /\ x \notin ProgramSections /\ x \notin ArgumentSections
      BY <2>1 DEF Outer, Sections, ProgramSections, ArgumentSections
    <3>2. w = set_cat_section(s, x)
      BY <2>1
    <3> HIDE DEF w, x
    <3>3. Steers(s, w)
      BY <1>1, <1>4, <3>1, <3>2, SteersSection
    <3> QED
      BY <1>3, <1>4, <3>3, PendsAfter
  <2>2. CASE x = "none"
    <3>1. w = set_menu(s, l, "none")
      BY <2>2
    <3> HIDE DEF w, x
    <3>2. Steers(s, w)
      BY <1>1, <1>4, <3>1, MenuGoes
    <3> QED
      BY <1>3, <1>4, <3>2, PendsAfter
  <2> QED
    BY <2>1, <2>2
<1> HIDE DEF w
<1>5. CASE t = [s EXCEPT !.nested = FALSE]
  <2>1. t \in Calculators /\ Keeps(s, t, {"nested"})
    BY <1>1, <1>5, PutNested
  <2>2. Steers(s, t)
    BY <1>1, <2>1, SteersFlag
  <2> QED
    BY <2>2, RestActs
<1>6. CASE s.menu[l] # "catalog" /\ t = [v EXCEPT !.pend = "cancelled"]
  <2>1. CASE l = "plain"
    <3>1. m \in MenusOf("plain") /\ "plain" \in Levels \ {"app"}
      BY <1>1, <2>1, MenusOfLevels, LevelFacts DEF Parent, PlainMenus, m
    <3>2. Steers(s, v)
      <4>1. v = set_menu(s, "plain", m)
        BY <2>1
      <4> HIDE DEF v, m
      <4> QED
        BY <1>1, <3>1, <4>1, SteersAt
    <3> HIDE DEF v, m
    <3> QED
      BY <1>3, <1>6, <3>2, PendsAfter
  <2>2. CASE l = "app"
    <3>1. s.menu["app"] \in AppMenus /\ s.menu["app"] \notin {"varmenu", "catalog"}
      BY <1>1, <1>6, <2>2, MenusOfLevels
    <3>2. m \in AppMenus \ {"varmenu"} /\ m \in {"none", "matrix", "base1"}
          /\ (m = "base1" => s.menu["app"] \in BaseMenus)
      BY <2>2, <3>1 DEF Parent, AppMenus, BaseMenus, m
    <3>3. m \in OfOwn => OwnMenu(s, m)
      BY <1>1, <3>2 DEF OfOwn, OwnMenu, Fits, EditMenus, BaseMenus
    <3>4. v = set_menu(s, "app", m)
      BY <2>2
    <3> HIDE DEF v, m
    <3>5. /\ Screen(v) /\ Keeps(s, v, AppFields) /\ Sunk(s, v)
          /\ Refused(s, v) \/ Allowed(s, v, m)
      BY <1>1, <3>2, <3>4, SetApp
    <3>6. Fits(v)
      BY <1>1, <3>3, <3>5, StillFits
    <3>7. v.menu["command"] = "none"
      BY <1>1, <3>5, LevelFacts DEF Sunk
    <3> QED
      BY <1>6, <3>5, <3>6, <3>7, PendsCancelled
  <2>3. CASE l = "transient"
    <3>1. s.menu[l] = "none"
      BY <1>1, <1>6, <2>3, MenusOfLevels
    <3> QED
      BY <2>3, <3>1 DEF Level
  <2> QED
    BY <1>1, <2>1, <2>2, <2>3
<1> QED
  BY <1>2, <1>4, <1>5, <1>6, RestActed

-----------------------------------------------------------------------------
(* The keys that lead to menus                                             *)

LEMMA BaseAppSteers ==
    ASSUME NEW s, Screen(s), Fits(s), NEW t, t = BaseApp(s)
    PROVE  Steers(s, t)
<1> DEFINE v == set_menu(s, "app", "base1")
<1>1. "base1" \in AppMenus /\ Told(s) /\ "base1" \in BaseMenus /\ "base1" \notin EditMenus
  BY FitsTold DEF AppMenus, BaseMenus, EditMenus
<1>2. /\ Screen(v) /\ Keeps(s, v, AppFields) /\ Sunk(s, v)
      /\ Refused(s, v) \/ Allowed(s, v, "base1")
  BY <1>1, SetApp
<1>3. \/ v.menu["app"] = "base1" /\ t = [v EXCEPT !.cb = 2, !.baseapp = TRUE]
      \/ v.menu["app"] # "base1" /\ t = v
  BY DEF BaseApp
<1> HIDE DEF v
<1>4. CASE Refused(s, v)
  <2>1. v.menu["app"] \in EditMenus
    BY <1>4 DEF Refused, Fits
  <2>2. t = v
    BY <1>1, <1>3, <2>1 DEF EditMenus
  <2>3. Fits(v)
    BY <1>4 DEF Refused, Fits
  <2>4. v.mvars = s.mvars /\ Keeps(s, v, MenuFields)
    BY <1>2 DEF Keeps, Fields, AppFields, MenuFields
  <2>5. Stale(v) => Stale(s)
    BY <1>4, <2>4 DEF Refused, Stale
  <2>6. s.menu["command"] = "none" => v.menu["command"] = "none"
    BY <1>4 DEF Refused
  <2> QED
    BY <1>2, <2>2, <2>3, <2>4, <2>5, <2>6 DEF Steers
<1>5. CASE Taken(s, v, "base1") \/ Stays(s, v, "base1")
  <2>1. v.menu["app"] = "base1" /\ v \in Calculators
    BY <1>2, <1>5 DEF Taken, Stays, Screen
  <2>2. t = [v EXCEPT !.cb = 2, !.baseapp = TRUE]
    BY <1>3, <2>1
  <2> DEFINE x == [v EXCEPT !.cb = 2]
  <2>3. t = [x EXCEPT !.baseapp = TRUE] /\ 2 \in CbStates /\ TRUE \in BOOLEAN
    BY <2>2 DEF CbStates
  <2>4. x \in Calculators /\ x.cb = 2 /\ Keeps(v, x, {"cb"})
    BY <2>1, <2>3, PutCallback
  <2> HIDE DEF x
  <2>5. t \in Calculators /\ t.baseapp /\ Keeps(x, t, {"baseapp"})
    BY <2>3, <2>4, PutBaseapp
  <2>6. Keeps(v, t, {"cb", "baseapp"}) /\ t.cb = 2
    BY <2>4, <2>5 DEF Keeps, Fields
  <2>7. Screen(t)
    BY <1>2, <2>5, <2>6, SameScreen
  <2>8. t.menu = v.menu /\ t.sect = v.sect /\ t.edit = v.edit /\ t.mvars = v.mvars /\ v.mvars = s.mvars
    BY <1>2, <2>6 DEF Keeps, Fields, AppFields
  <2>9. ~t.edit
    BY <1>5, <2>8 DEF Taken, Stays, OwnMenu, Fits, EditMenus, BaseMenus
  <2>10. Fits(t)
    BY <2>1, <2>5, <2>6, <2>8, <2>9 DEF Fits, EditMenus, BaseMenus
  <2>11. Keeps(s, t, MenuFields)
    BY <1>2, <2>6 DEF Keeps, AppFields, MenuFields
  <2>12. s.menu["command"] = "none" => t.menu["command"] = "none"
    BY <1>2, <2>8, LevelFacts DEF Sunk
  <2>13. Stale(t) => Stale(s)
    <3>1. t.sect["app"] \in {"top", s.sect["app"]} /\ "top" \notin ProgramSections
      BY <1>5, <2>8 DEF Taken, Stays, ProgramSections
    <3> QED
      BY <2>1, <2>8, <3>1 DEF Stale
  <2> QED
    BY <2>7, <2>10, <2>11, <2>12, <2>13 DEF Steers
<1> QED
  BY <1>2, <1>4, <1>5 DEF Allowed

LEMMA AppInFront ==
    ASSUME NEW s, \A k \in InFront["app"] : s.menu[k] = "none"
    PROVE  get_cat_index(s) = "app"
  BY FrontLevel, LevelFacts

(* The programs to solve or to integrate, if there are any *)
LEMMA CatalogAnswers ==
    ASSUME NEW s, Screen(s), Fits(s), NEW v, v = set_menu_return_err(s, "app", "catalog", FALSE)
    PROVE  /\ Steers(s, v) /\ v.mvars = s.mvars /\ Keeps(s, v, AppFields)
           /\ ~v.err => /\ v.menu["app"] = "catalog" /\ get_cat_index(v) = "app"
                        /\ v.menu["command"] = "none"
<1>1. "catalog" \in AppMenus \ {"varmenu"} /\ Told(s) /\ FALSE \in BOOLEAN /\ "catalog" \notin OfOwn
  BY FitsTold DEF AppMenus, OfOwn, EditMenus, BaseMenus
<1>2. /\ Screen(v) /\ Keeps(s, v, AppFields) /\ Sunk(s, v)
      /\ \/ v.err /\ Refused(s, v)
         \/ /\ ~v.err /\ Allowed(s, v, "catalog")
            /\ \A l \in Levels \ {"app"} : v.menu[l] = "none"
  BY <1>1, SetAppErr
<1>3. Steers(s, v)
  BY <1>1, <1>2, AnswerSteers
<1>4. ASSUME ~v.err
      PROVE  v.menu["app"] = "catalog" /\ get_cat_index(v) = "app" /\ v.menu["command"] = "none"
  <2>1. v.menu["app"] = "catalog"
    BY <1>1, <1>2, <1>4 DEF Allowed, Taken, Stays
  <2>2. \A k \in InFront["app"] : v.menu[k] = "none"
    BY <1>2, <1>4, LevelFacts
  <2>3. get_cat_index(v) = "app"
    BY <2>2, AppInFront
  <2>4. v.menu["command"] = "none"
    BY <1>2, <1>4, LevelFacts
  <2> QED
    BY <2>1, <2>3, <2>4
<1>5. v.mvars = s.mvars
  BY <1>2 DEF Keeps, Fields, AppFields
<1> QED
  BY <1>2, <1>3, <1>4, <1>5

LEMMA ProgramsListed ==
    ASSUME NEW s, Screen(s), Fits(s), NEW x \in {"pgm_solve", "pgm_integ", "pgm_menu"}, s.mvars,
           NEW v, Steers(s, v), v.mvars = s.mvars, v.menu["app"] = "catalog",
           get_cat_index(v) = "app", v.menu["command"] = "none", Keeps(s, v, AppFields),
           NEW t, t = set_cat_section(v, x)
    PROVE  Steers(s, t)
<1>1. x \in Sections /\ x \notin ArgumentSections /\ Screen(v) /\ Fits(v)
  BY DEF Sections, ArgumentSections, Steers
<1>2. Screen(t) /\ Keeps(v, t, {"sect"})
  BY <1>1, SectionSet
<1>3. t.menu = v.menu /\ t.mvars = v.mvars
  BY <1>2 DEF Keeps, Fields
<1>4. Fits(t)
  <2>1. {"sect"} \cap (AppFields \ {"menu"}) \subseteq {"sect", "hex", "nested", "err"}
    OBVIOUS
  <2>2. t.menu["app"] = v.menu["app"]
    BY <1>3
  <2> QED
    BY <1>1, <1>2, <2>1, <2>2, FitsKept
<1>5. Keeps(s, t, MenuFields)
  BY <1>2 DEF Keeps, AppFields, MenuFields
<1>6. ~Stale(t)
  BY <1>3 DEF Stale
<1> QED
  BY <1>2, <1>3, <1>4, <1>5, <1>6 DEF Steers

LEMMA SolveIntegSteers ==
    ASSUME NEW s, Screen(s), Fits(s), ~Stale(s), NEW x \in {"pgm_solve", "pgm_integ"},
           NEW t, t = set_solve_integ(s, x)
    PROVE  Steers(s, t)
<1> DEFINE v == set_menu_return_err(s, "app", "catalog", FALSE)
<1>1. \/ t = set_menu(s, "app", "solve")
      \/ s.mvars /\ v.err /\ t = v
      \/ s.mvars /\ ~v.err /\ t = set_cat_section(v, x)
  BY DEF set_solve_integ
<1>2. CASE t = set_menu(s, "app", "solve")
  <2>1. "solve" \in AppMenus \ {"varmenu"} /\ "solve" \notin OfOwn /\ "solve" # "none"
    BY DEF AppMenus, OfOwn, EditMenus, BaseMenus
  <2> QED
    BY <1>2, <2>1, SteersApp
<1>3. v = set_menu_return_err(s, "app", "catalog", FALSE)
  OBVIOUS
<1> HIDE DEF v
<1>4. /\ Steers(s, v) /\ v.mvars = s.mvars /\ Keeps(s, v, AppFields)
      /\ ~v.err => /\ v.menu["app"] = "catalog" /\ get_cat_index(v) = "app"
                   /\ v.menu["command"] = "none"
  BY <1>3, CatalogAnswers
<1>5. CASE s.mvars /\ ~v.err /\ t = set_cat_section(v, x)
  <2>1. x \in {"pgm_solve", "pgm_integ", "pgm_menu"}
    OBVIOUS
  <2> QED
    BY <1>4, <1>5, <2>1, ProgramsListed
<1> QED
  BY <1>1, <1>2, <1>4, <1>5

LEMMA ToMenuSteers ==
    ASSUME NEW s, Screen(s), Fits(s), ~Stale(s), NEW k \in MenuKeys, NEW t, t = ToMenu(s, k)
    PROVE  Steers(s, t)
<1>1. \/ t = set_solve_integ(s, "pgm_solve") \/ t = set_solve_integ(s, "pgm_integ")
      \/ t = set_menu(s, "app", "matrix") \/ t = BaseApp(s)
      \/ t = set_plainmenu(s, "pgm1") \/ t = set_plainmenu(s, "catalog")
  BY DEF ToMenu, MenuKeys
<1>2. "matrix" \in AppMenus \ {"varmenu"} /\ "matrix" \notin OfOwn /\ "matrix" # "none"
  BY DEF AppMenus, OfOwn, EditMenus, BaseMenus
<1>3. "pgm1" \in PlainMenus /\ "catalog" \in PlainMenus
  BY DEF PlainMenus
<1>4. CASE t = set_menu(s, "app", "matrix")
  BY <1>2, <1>4, SteersApp
<1> QED
  BY <1>1, <1>3, <1>4, SolveIntegSteers, BaseAppSteers, SteersPlain

-----------------------------------------------------------------------------
(* Keys outside an entry                                                   *)

LEMMA SameAlpha ==
    ASSUME NEW s \in Calculators, s.alpha = FALSE PROVE [s EXCEPT !.alpha = FALSE] = s
  BY DEF Calculators

LEMMA RunMode ==
    ASSUME NEW s, Rest(s), NEW t, t = Unprogrammed(s)
    PROVE  \A w : Acted(w, t)
<1> DEFINE x == [s EXCEPT !.prgm = FALSE]
<1>1. s \in Calculators /\ FALSE \in BOOLEAN /\ "cancelled" \in Words
      /\ "cancelled" \notin {"PGMSLVi", "PGMINTi"}
  BY RestFacts, WordFacts DEF Internal
<1>2. t = [x EXCEPT !.pend = "cancelled"]
  BY DEF Unprogrammed
<1>3. x \in Calculators /\ Keeps(s, x, {"prgm"}) /\ x.prgm = FALSE
  BY <1>1, PutPrgm
<1> HIDE DEF x
<1>4. Screen(x) /\ Fits(x) /\ (Stale(x) <=> Stale(s)) /\ x.menu = s.menu
  <2>1. {"prgm"} \subseteq Plainer
    BY DEF Plainer
  <2> QED
    BY <1>3, <2>1, RestFacts, StaysFit
<1>5. /\ x.lines = s.lines /\ x.pc = s.pc /\ x.saved = s.saved /\ x.alen = s.alen /\ x.nlen = s.nlen
      /\ x.num = s.num /\ x.alpha = s.alpha
  BY <1>3 DEF Keeps, Fields
<1>6. Counters(x) /\ ~x.num /\ ~x.alpha /\ x.saved = -1 /\ x.menu["command"] = "none"
  BY <1>3, <1>4, <1>5 DEF Rest, Free, Counters
<1>7. Keeps(s, x, RestFields)
  BY <1>3 DEF Keeps, RestFields
<1>8. Rest(x)
  <2>1. Inv(s) /\ ~mode_command_entry(s) /\ s.pend = "none" /\ ~s.clall
    BY RestInv DEF Rest, Free
  <2> QED
    BY <1>4, <1>6, <1>7, <2>1, RestFacts, RestBy
<1> QED
  BY <1>1, <1>2, <1>8, Pends

LEMMA PlainlyFacts ==
    ASSUME NEW s, Plainly(s)
    PROVE  /\ s.menu["alpha"] = "none" /\ ~s.clall
           /\ Offering(s) = s.menu[Level(s)]
           /\ ~MenuUp(s) => s.menu[Level(s)] = "none"
<1>1. Screen(s) /\ s.menu["command"] = "none" /\ ~s.clall /\ ~mode_command_entry(s)
  BY RestFacts DEF Plainly, Rest, Free
<1>2. s.menu["alpha"] = "none"
  <2>1. SUFFICES ASSUME s.menu["alpha"] # "none" PROVE FALSE
    OBVIOUS
  <2>2. get_cat_index(s) = "alpha"
    BY <1>1, <2>1, FrontLevel, LevelFacts
  <2>3. s.menu["alpha"] \in AlphaMenus \cup {"none"}
    BY <1>1, LevelFacts, MenusOfLevels DEF Screen
  <2> QED
    BY <2>1, <2>2, <2>3 DEF Plainly, alpha_active, get_front_menu
<1>3. Offering(s) = s.menu[Level(s)]
  BY <1>1 DEF Offering, Plainly
<1>4. ~MenuUp(s) => s.menu[Level(s)] = "none"
  BY <1>1, <1>2 DEF MenuUp, Level
<1> QED
  BY <1>1, <1>2, <1>3, <1>4

LEMMA ReachedFacts ==
    ASSUME NEW c \in Reached \cup {"op"}
    PROVE  c \in Words /\ c \notin Internal /\ c \notin {"GTODOT", "A_THRU_F"}
  BY DEF Words, Reached, Internal

LEMMA CommandKeyActed ==
    ASSUME NEW s, Plainly(s), NEW e, Fitting(s, e), e.key = "top" => ~MenuUp(s),
           NEW t, t = CommandKey(s, e)
    PROVE  Acted(s, t)
<1>1. /\ Rest(s) /\ s \in Calculators /\ Screen(s) /\ Fits(s) /\ ~Stale(s) /\ Steers(s, s)
      /\ s.alpha = FALSE
  BY RestFacts, SteersSame DEF Plainly, Rest, Free, Calculators
<1> DEFINE v == set_menu(s, "alpha", "alpha1")
<1>2. \/ t = [v EXCEPT !.alpha = FALSE]
      \/ t = Unprogrammed(s)
      \/ e.key \in MenuKeys /\ t = ToMenu(s, e.key)
      \/ t = [s EXCEPT !.pend = "CUSTOM"] \/ t = do_interactive(s, "CUSTOM")
      \/ t = do_interactive(s, "ASSIGNa") \/ t = [s EXCEPT !.pend = "linger1"]
      \/ e.key \in {"top", "map"} /\ t = do_interactive(s, e.item)
      \/ t = do_interactive(s, "op")
      \/ t = do_interactive(s, "RUN") \/ t = do_interactive(s, "SST")
      \/ t = s
  <2> HIDE DEF v
  <2>1. CASE e.key = "ALPHA"
    <3>1. t = [v EXCEPT !.alpha = FALSE]
      BY <2>1 DEF CommandKey, MenuKeys, v
    <3> QED
      BY <2>1, <3>1
  <2>2. CASE e.key = "exit"
    <3>1. t = Unprogrammed(s)
      BY <2>2 DEF CommandKey, MenuKeys, Unprogrammed
    <3> QED
      BY <2>2, <3>1
  <2>3. CASE e.key \in MenuKeys
    <3>1. t = ToMenu(s, e.key)
      BY <2>3 DEF CommandKey, MenuKeys
    <3> QED
      BY <2>3, <3>1
  <2>4. CASE e.key = "CUSTOM" /\ s.prgm
    <3>1. t = [s EXCEPT !.pend = "CUSTOM"]
      BY <2>4 DEF CommandKey, MenuKeys
    <3> QED
      BY <2>4, <3>1
  <2>5. CASE e.key = "CUSTOM" /\ ~s.prgm
    <3>1. t = do_interactive(s, "CUSTOM")
      BY <2>5 DEF CommandKey, MenuKeys
    <3> QED
      BY <2>5, <3>1
  <2>6. CASE e.key = "ASSIGN"
    <3>1. t = do_interactive(s, "ASSIGNa")
      BY <2>6 DEF CommandKey, MenuKeys
    <3> QED
      BY <2>6, <3>1
  <2>7. CASE e.key = "SHOW"
    <3>1. t = [s EXCEPT !.pend = "linger1"]
      BY <2>7 DEF CommandKey, MenuKeys
    <3> QED
      BY <2>7, <3>1
  <2>8. CASE e.key \in {"top", "map"}
    <3>1. t = do_interactive(s, e.item)
      BY <2>8 DEF CommandKey, MenuKeys
    <3> QED
      BY <2>8, <3>1
  <2>9. CASE e.key \in {"enter", "bsp", "arith", "chs"}
    <3>1. t = do_interactive(s, "op")
      BY <2>9 DEF CommandKey, MenuKeys
    <3> QED
      BY <2>9, <3>1
  <2>10. CASE e.key = "run"
    <3>1. t = do_interactive(s, "RUN")
      BY <2>10 DEF CommandKey, MenuKeys, KeyCommand
    <3> QED
      BY <2>10, <3>1
  <2>11. CASE e.key \in {"down", "SST"}
    <3>1. t = do_interactive(s, "SST")
      BY <2>11 DEF CommandKey, MenuKeys, KeyCommand
    <3> QED
      BY <2>11, <3>1
  <2>12. CASE e.key \notin MenuKeys \cup {"ALPHA", "exit", "CUSTOM", "ASSIGN", "SHOW", "top", "map", "enter",
                                          "bsp", "arith", "chs", "run", "down", "SST"}
    <3>1. t = s
      BY <2>12 DEF CommandKey
    <3> QED
      BY <3>1
  <2> QED
    BY <2>1, <2>2, <2>3, <2>4, <2>5, <2>6, <2>7, <2>8, <2>9, <2>10, <2>11, <2>12
<1>3. CASE t = [v EXCEPT !.alpha = FALSE]
  <2>1. "alpha" \in Levels \ {"app"} /\ "alpha1" \in MenusOf("alpha") /\ "alpha" # "command"
    BY LevelFacts, MenusOfLevels DEF AlphaMenus
  <2>2. Steers(s, v)
    BY <1>1, <2>1, SteersAt
  <2> HIDE DEF v
  <2>3. v \in Calculators /\ v.alpha = FALSE
    BY <1>1, <2>2, RestSteers DEF Rest, Free, Screen, Calculators
  <2>4. t = v
    BY <1>3, <2>3, SameAlpha
  <2> QED
    BY <1>1, <2>2, <2>4, RestActs
<1> HIDE DEF v
<1>4. CASE t = Unprogrammed(s)
  BY <1>1, <1>4, RunMode
<1>5. CASE e.key \in MenuKeys /\ t = ToMenu(s, e.key)
  BY <1>1, <1>5, ToMenuSteers, RestActs
<1>6. CASE t = [s EXCEPT !.pend = "CUSTOM"] \/ t = [s EXCEPT !.pend = "linger1"]
  <2>1. /\ "CUSTOM" \in Words /\ "CUSTOM" \notin {"PGMSLVi", "PGMINTi"}
        /\ "linger1" \in Words /\ "linger1" \notin {"PGMSLVi", "PGMINTi"}
    BY WordFacts DEF Internal
  <2> QED
    BY <1>1, <1>6, <2>1, PendsAfter
<1>7. ASSUME NEW c \in {"CUSTOM", "ASSIGNa", "op", "RUN", "SST"}, t = do_interactive(s, c)
      PROVE  Acted(s, t)
  <2>1. c \in Words /\ c \notin Internal /\ c \notin {"GTODOT", "A_THRU_F"}
    BY WordFacts
  <2> QED
    BY <1>1, <1>7, <2>1, DoAfter
<1>8. CASE e.key \in {"top", "map"} /\ t = do_interactive(s, e.item)
  <2>1. e.item \in Reached \cup {"op"}
    <3>1. CASE e.key = "top"
      <4>1. e.item \in TopItems(s) /\ ~s.clall /\ Offering(s) = "none"
        BY <3>1, PlainlyFacts DEF Fitting
      <4>2. "none" \notin Custom
        BY DEF Custom
      <4>3. e.item \in FunctionItems("none")
        BY <4>1, <4>2 DEF TopItems
      <4> QED
        BY <4>3 DEF FunctionItems, Reached
    <3>2. CASE e.key = "map"
      BY <3>2 DEF Fitting
    <3> QED
      BY <1>8, <3>1, <3>2
  <2>2. e.item \in Words /\ e.item \notin Internal /\ e.item \notin {"GTODOT", "A_THRU_F"}
    BY <2>1, ReachedFacts
  <2> QED
    BY <1>1, <1>8, <2>2, DoAfter
<1> QED
  BY <1>1, <1>2, <1>3, <1>4, <1>5, <1>6, <1>7, <1>8, RestActed

LEMMA FunctionsOffered ==
    ASSUME NEW m \in (PlainMenus \cup AppMenus) \ ({"none", "catalog", "programmable", "varmenu", "integ"} \cup Custom),
           NEW item \in FunctionItems(m)
    PROVE  /\ item \in Functions
           /\ item = "xcomp" => m = "pgm2"
           /\ item = "A_THRU_F" => m = "base1"
<1>1. m \notin {"none", "programmable", "varmenu", "integ", "alpha1", "ind", "alphasub", "blank", "st", "ind_st"}
  BY DEF PlainMenus, AppMenus
<1>2. CASE m \in {"pgm1", "pgm2", "matrix"}
  BY <1>2 DEF FunctionItems, Functions
<1>3. CASE m \in {"edit1", "base1", "solve"}
  BY <1>3 DEF FunctionItems, Functions
<1>4. CASE m \notin {"pgm1", "pgm2", "matrix", "edit1", "base1", "solve"}
  <2>1. FunctionItems(m) = {"op", "null"}
    BY <1>1, <1>4 DEF FunctionItems
  <2> QED
    BY <2>1 DEF Functions
<1> QED
  BY <1>2, <1>3, <1>4

LEMMA TopKeyActed ==
    ASSUME NEW s, Plainly(s), MenuUp(s), NEW l, l = Level(s), NEW item, item \in TopItems(s),
           s.menu[l] \notin {"programmable", "varmenu"},
           NEW t, t = TopKey(s, l, s.menu[l], item)
    PROVE  Acted(s, t)
<1>1. /\ Rest(s) /\ Screen(s) /\ ~s.clall /\ Offering(s) = s.menu[l]
      /\ s.menu[l] \in Custom \cup {"programmable"} => l = "plain"
      /\ s.menu[l] \in {"varmenu", "integ"} => l = "app"
      /\ l \in {"transient", "plain", "app"} /\ s.menu[l] \in MenusOf(l)
      /\ get_cat_section(s) = s.sect[l]
  BY RestFacts, PlainlyFacts, LevelUp DEF Plainly
<1>2. CASE s.menu[l] = "catalog"
  <2>1. item \in SectionItems(s, s.sect[l])
    BY <1>1, <1>2 DEF TopItems, Custom
  <2>2. s.sect[l] \in {"fcn", "ext", "misc", "cmp"} => item \in CommandItems
    BY <2>1 DEF SectionItems, CommandItems
  <2>3. t = CatalogKey(s, l, item)
    BY <1>2 DEF TopKey, Custom
  <2> QED
    BY <1>1, <1>2, <2>2, <2>3, CatalogActed
<1>3. CASE s.menu[l] \in Custom
  <2>1. s.menu[l] # "catalog"
    BY <1>3 DEF Custom
  <2>2. item \in IF s.local THEN {"item", "XEQ"} ELSE {"op", "XEQ", "STO", "CLALLa", "BST", "no"}
    BY <1>1, <1>3, <2>1 DEF TopItems
  <2>3. t = CustomMenuKey(s, l, item)
    BY <1>3 DEF TopKey, Custom
  <2>4. item \in {"item", "op", "XEQ", "STO", "CLALLa", "BST", "no"} /\ (s.local \/ item # "item")
    BY <2>2
  <2> QED
    BY <1>1, <2>3, <2>4, CustomMenuActed
<1>4. CASE s.menu[l] = "integ"
  <2>1. t = IntegKey(s, item)
    BY <1>4 DEF TopKey, Custom
  <2> QED
    BY <1>1, <2>1, IntegActed
<1>5. CASE s.menu[l] \notin {"catalog", "integ"} \cup Custom
  <2>1. s.menu[l] # "none"
    <3>1. CASE l = "transient"
      BY <3>1 DEF Level
    <3>2. CASE l = "plain"
      BY <3>2 DEF Level
    <3>3. CASE l = "app"
      BY <3>3 DEF Level, MenuUp
    <3> QED
      BY <1>1, <3>1, <3>2, <3>3
  <2>2. s.menu[l] \in PlainMenus \cup AppMenus
    BY <1>1, MenusOfLevels DEF PlainMenus
  <2>3. item \in FunctionItems(s.menu[l])
    BY <1>1, <1>5 DEF TopItems
  <2>4. /\ item \in Functions
        /\ item = "xcomp" => s.menu[l] = "pgm2"
        /\ item = "A_THRU_F" => s.menu[l] = "base1"
    BY <1>5, <2>1, <2>2, <2>3, FunctionsOffered
  <2>5. item = "xcomp" => l = "plain"
    BY <1>1, <2>4, MenusOfLevels DEF AppMenus
  <2>6. item = "A_THRU_F" => l = "app" /\ s.menu["app"] \in BaseMenus
    BY <1>1, <2>4, MenusOfLevels DEF PlainMenus, BaseMenus
  <2>7. t = FunctionKey(s, l, item)
    BY <1>5 DEF TopKey
  <2> QED
    BY <1>1, <2>4, <2>5, <2>6, <2>7, FunctionActed
<1> QED
  BY <1>2, <1>3, <1>4, <1>5

LEMMA ByMenuActed ==
    ASSUME NEW s, Plainly(s), MenuUp(s), NEW l, l = Level(s), NEW e,
           e.key = "top" => e.item \in TopItems(s),
           NEW t, t = ByMenu(s, e, l, s.menu[l])
    PROVE  Acted(s, t)
<1>1. Rest(s) /\ Screen(s) /\ (s.menu[l] \in {"varmenu", "integ"} => l = "app")
  BY RestFacts, LevelUp DEF Plainly
<1>2. CASE s.menu[l] = "programmable"
  <2>1. t = do_prgm_menu_key(s, e)
    BY <1>2 DEF ByMenu
  <2> QED
    BY <1>1, <2>1, PrgmMenuActed
<1>3. CASE s.menu[l] = "varmenu"
  <2>1. t = VarmenuKey(s, e)
    BY <1>3 DEF ByMenu
  <2>2. s.menu["app"] = "varmenu"
    BY <1>1, <1>3
  <2> QED
    BY <1>1, <2>1, <2>2, VarmenuActed
<1>4. CASE s.menu[l] \notin {"programmable", "varmenu"}
  <2>1. CASE e.key = "top"
    <3>1. t = TopKey(s, l, s.menu[l], e.item)
      BY <1>4, <2>1 DEF ByMenu
    <3> QED
      BY <1>4, <2>1, <3>1, TopKeyActed
  <2>2. CASE e.key = "exit"
    <3>1. t = ExitKey(s, l, s.menu[l])
      BY <1>4, <2>2 DEF ByMenu
    <3> QED
      BY <1>1, <1>4, <3>1, ExitActed
  <2>3. CASE e.key \notin {"top", "exit"}
    <3>1. t = ArrowKey(s, l, s.menu[l])
      BY <1>4, <2>3 DEF ByMenu
    <3> QED
      BY <1>1, <3>1, ArrowActed
  <2> QED
    BY <2>1, <2>2, <2>3
<1> QED
  BY <1>2, <1>3, <1>4

LEMMA NormalActed ==
    ASSUME NEW s, Plainly(s), NEW e, Fitting(s, e), NEW t, t = keydown_normal_mode(s, e)
    PROVE  Acted(s, t)
<1>1. Rest(s) /\ ~alpha_active(s)
  BY DEF Plainly
<1>2. CASE is_number_key(s, e) /\ t = StartNumber(s, e)
  BY <1>1, <1>2, StartNumberSteps DEF Fitting
<1>3. CASE t = DeleteLine(s)
  BY <1>1, <1>3, DeletedRest, RestActed
<1>4. CASE MenuTakes(s, e, s.menu[Level(s)]) /\ t = ByMenu(s, e, Level(s), s.menu[Level(s)])
  BY <1>4, ByMenuActed DEF MenuTakes, Fitting
<1>5. CASE ~MenuTakes(s, e, s.menu[Level(s)]) /\ t = CommandKey(s, e)
  BY <1>5, CommandKeyActed DEF MenuTakes
<1>6. CASE is_number_key(s, e)
  <2>1. t = StartNumber(s, e) \/ t = DeleteLine(s)
    BY <1>6 DEF keydown_normal_mode
  <2> QED
    BY <1>2, <1>3, <1>6, <2>1
<1>7. CASE ~is_number_key(s, e)
  <2>1. CASE MenuTakes(s, e, s.menu[Level(s)])
    <3>1. t = ByMenu(s, e, Level(s), s.menu[Level(s)]) \/ t = DeleteLine(s)
      BY <1>7, <2>1 DEF keydown_normal_mode
    <3> QED
      BY <1>3, <1>4, <2>1, <3>1
  <2>2. CASE ~MenuTakes(s, e, s.menu[Level(s)])
    <3>1. t = CommandKey(s, e) \/ t = DeleteLine(s)
      BY <1>7, <2>2 DEF keydown_normal_mode
    <3> QED
      BY <1>3, <1>5, <2>2, <3>1
  <2> QED
    BY <2>1, <2>2
<1> QED
  BY <1>6, <1>7

-----------------------------------------------------------------------------
(* The end of a string                                                     *)

LEMMA LetteredFacts ==
    ASSUME NEW s, Lettered(s)
    PROVE  /\ s \in Calculators /\ Screen(s) /\ Fits(s) /\ ~Stale(s) /\ Counters(s) /\ EntryFits(s)
           /\ s.menu["command"] = "none" /\ ~s.rpc /\ s.nlen = 0 /\ ~s.num
           /\ ~(s.alpha /\ s.prgm) => s.saved = -1
           /\ ~s.alpha => Rest(s)
           /\ s.alpha => alpha_active(s)
           /\ s.lines \in 0 .. MaxLines /\ s.pc \in -1 .. s.lines /\ s.saved \in -1 .. s.lines
           /\ s.lines \in Nat
  BY DEF Lettered, Ready, Inv, Modes, Screen, Counters, Rest, Free

LEMMA LetteredRest ==
    ASSUME NEW s, Lettered(s), NEW t, Screen(t), Fits(t), ~Stale(t), Keeps(s, t, RestFields),
           t.menu["command"] = "none", Counters(t), ~t.num, ~t.alpha, t.saved = -1
    PROVE  Rest(t)
  BY RestBy DEF Lettered, Ready

LEMMA StoredLine ==
    ASSUME NEW s, Screen(s), Fits(s), ~Stale(s), s.lines \in 0 .. MaxLines,
           NEW t, t = store_command(s)
    PROVE  t.lines = StoredLines(s)
<1>1. CASE Refuses(s)
  BY <1>1 DEF store_command, StoredLines
<1>2. CASE ~Refuses(s)
  <2> DEFINE n == s.lines + 1
             v == [s EXCEPT !.lines = n]
  <2>1. t = Rewritten(v)
    BY <1>2 DEF store_command
  <2>2. s \in Calculators /\ n \in Int
    BY DEF Screen
  <2> HIDE DEF n
  <2>3. v \in Calculators /\ v.lines = n /\ Keeps(s, v, {"lines"})
    BY <2>2, PutLines
  <2> HIDE DEF v
  <2>4. Screen(v) /\ Fits(v) /\ (Stale(v) <=> Stale(s))
    <3>1. {"lines"} \subseteq Plainer
      BY DEF Plainer
    <3> QED
      BY <2>3, <3>1, StaysFit
  <2>5. Keeps(v, t, {"menu", "sect", "err", "role"})
    BY <2>1, <2>4, RewrittenFrame
  <2>6. t.lines = n
    BY <2>3, <2>5 DEF Keeps, Fields
  <2> QED
    BY <1>2, <2>6 DEF StoredLines, n
<1> QED
  BY <1>1, <1>2

(* Where a string leaves the program when it ends, the menu behind having   *)
(* been changed before                                                     *)
LEMMA EndAlphaAfter ==
    ASSUME NEW s, Lettered(s), NEW v, Steers(s, v), NEW t, t = EndAlpha(v)
    PROVE  /\ Rest(t) /\ t.prgm = s.prgm
           /\ ~(s.alpha /\ s.prgm) => /\ t.pc = s.pc /\ t.lines = s.lines
                                      /\ t.menu = v.menu /\ t.sect = v.sect
           /\ s.alpha /\ s.prgm /\ s.alen = 0 => /\ t.pc = s.saved /\ t.lines = s.lines
                                                 /\ t.menu = v.menu /\ t.sect = v.sect
           /\ s.alpha /\ s.prgm /\ s.alen # 0 => t.pc = s.pc /\ t.lines = StoredLines(s)
<1>0. /\ s \in Calculators /\ ~Stale(s) /\ Counters(s) /\ s.menu["command"] = "none" /\ ~s.num
      /\ ~(s.alpha /\ s.prgm) => s.saved = -1
      /\ s.lines \in 0 .. MaxLines /\ s.pc \in -1 .. s.lines /\ s.saved \in -1 .. s.lines
      /\ s.lines \in Nat
  BY LetteredFacts
<1>a. /\ v \in Calculators /\ Screen(v) /\ Fits(v) /\ ~Stale(v) /\ v.menu["command"] = "none"
      /\ Keeps(s, v, MenuFields)
  BY <1>0 DEF Steers, Screen
<1>b. /\ v.alpha = s.alpha /\ v.prgm = s.prgm /\ v.alen = s.alen /\ v.saved = s.saved
      /\ v.pc = s.pc /\ v.lines = s.lines /\ v.num = s.num /\ v.nlen = s.nlen /\ v.locked = s.locked
  BY <1>a DEF Keeps, Fields, MenuFields, AppFields
<1>c. Keeps(v, t, RestFields) => Keeps(s, t, RestFields)
  BY <1>a DEF Keeps, RestFields, LineFields
<1>1. /\ ~(v.alpha /\ v.prgm) => v.saved = -1
      /\ v.lines \in 0 .. MaxLines /\ v.pc \in -1 .. v.lines /\ v.saved \in -1 .. v.lines
      /\ v.lines \in Nat /\ Counters(v) /\ ~v.num /\ StoredLines(v) = StoredLines(s)
  BY <1>0, <1>b DEF Counters, StoredLines, Refuses
<1>2. FALSE \in BOOLEAN /\ 0 \in Int /\ -1 \in Int /\ v.saved \in Int
  BY <1>1, <1>a
<1>3. CASE ~(v.alpha /\ v.prgm)
  <2>1. t = [v EXCEPT !.alpha = FALSE]
    BY <1>3 DEF EndAlpha
  <2>2. t \in Calculators /\ t.alpha = FALSE /\ Keeps(v, t, {"alpha"})
    BY <1>1, <1>a, <1>2, <2>1, PutAlpha
  <2>3. Screen(t) /\ Fits(t) /\ (Stale(t) <=> Stale(v)) /\ t.menu = v.menu /\ t.sect = v.sect
    <3>1. {"alpha"} \subseteq Plainer
      BY DEF Plainer
    <3> QED
      BY <1>1, <1>a, <2>2, <3>1, StaysFit
  <2>4. /\ t.lines = v.lines /\ t.pc = v.pc /\ t.saved = v.saved /\ t.alen = v.alen /\ t.nlen = v.nlen
        /\ t.num = v.num /\ t.prgm = v.prgm
    BY <2>2 DEF Keeps, Fields
  <2>5. Counters(t)
    BY <1>1, <1>a, <2>4 DEF Counters
  <2>6. Keeps(v, t, RestFields)
    BY <2>2 DEF Keeps, RestFields
  <2>7. Rest(t)
    BY <1>1, <1>a, <1>3, <2>2, <2>3, <2>4, <2>5, <2>6, <1>c, LetteredRest
  <2> QED
    BY <1>3, <1>b, <2>3, <2>4, <2>7
<1>4. CASE v.alpha /\ v.prgm /\ v.alen = 0
  <2> DEFINE x == [v EXCEPT !.pc = v.saved]
             y == [x EXCEPT !.saved = -1]
  <2>1. t = [y EXCEPT !.alpha = FALSE]
    BY <1>4 DEF EndAlpha, finish_alpha_prgm_line, Restored
  <2>2. x \in Calculators /\ x.pc = v.saved /\ Keeps(v, x, {"pc"})
    BY <1>1, <1>a, <1>2, PutPc
  <2> HIDE DEF x
  <2>3. y \in Calculators /\ y.saved = -1 /\ Keeps(x, y, {"saved"})
    BY <1>2, <2>2, PutSaved
  <2> HIDE DEF y
  <2>4. t \in Calculators /\ t.alpha = FALSE /\ Keeps(y, t, {"alpha"})
    BY <1>2, <2>1, <2>3, PutAlpha
  <2>5. Keeps(v, t, {"pc", "saved", "alpha"})
    BY <2>2, <2>3, <2>4 DEF Keeps
  <2>6. Screen(t) /\ Fits(t) /\ (Stale(t) <=> Stale(v)) /\ t.menu = v.menu /\ t.sect = v.sect
    <3>1. {"pc", "saved", "alpha"} \subseteq Plainer
      BY DEF Plainer
    <3> QED
      BY <1>1, <1>a, <2>4, <2>5, <3>1, StaysFit
  <2>7. /\ t.lines = v.lines /\ t.alen = v.alen /\ t.nlen = v.nlen
        /\ t.num = v.num /\ t.prgm = v.prgm
    BY <2>5 DEF Keeps, Fields
  <2>8. t.pc = v.saved /\ t.saved = -1
    BY <2>2, <2>3, <2>4 DEF Keeps, Fields
  <2>9. Counters(t)
    BY <1>1, <1>a, <2>7, <2>8 DEF Counters
  <2>10. Keeps(v, t, RestFields)
    BY <2>5 DEF Keeps, RestFields, LineFields
  <2>11. Rest(t)
    BY <1>1, <1>a, <2>4, <2>6, <2>7, <2>8, <2>9, <2>10, <1>c, LetteredRest
  <2> QED
    BY <1>4, <1>b, <2>6, <2>7, <2>8, <2>11
<1>5. CASE v.alpha /\ v.prgm /\ v.alen # 0
  <2> DEFINE r == store_command(v)
             x == [r EXCEPT !.alpha = FALSE]
             y == [x EXCEPT !.alen = 0]
  <2>1. t = [y EXCEPT !.saved = -1]
    BY <1>5 DEF EndAlpha, finish_alpha_prgm_line
  <2>2. StoredAt(v, r) /\ r.pc = v.pc /\ r.lines = StoredLines(v)
        /\ (r.lines = v.lines \/ r.lines = v.lines + 1)
    BY <1>1, <1>a, StoreFrame, StoredLine
  <2> HIDE DEF r
  <2>3. r \in Calculators /\ Screen(r) /\ Fits(r) /\ ~Stale(r) /\ r.menu["command"] = "none"
        /\ r.lines \in 0 .. MaxLines /\ Keeps(v, r, LineFields)
    BY <1>1, <1>a, <2>2 DEF StoredAt, Screen
  <2>4. x \in Calculators /\ x.alpha = FALSE /\ Keeps(r, x, {"alpha"})
    BY <1>2, <2>3, PutAlpha
  <2> HIDE DEF x
  <2>5. y \in Calculators /\ y.alen = 0 /\ Keeps(x, y, {"alen"})
    BY <1>2, <2>4, PutAlen
  <2> HIDE DEF y
  <2>6. t \in Calculators /\ t.saved = -1 /\ Keeps(y, t, {"saved"})
    BY <1>2, <2>1, <2>5, PutSaved
  <2>7. Keeps(r, t, {"alpha", "alen", "saved"})
    BY <2>4, <2>5, <2>6 DEF Keeps
  <2>8. Screen(t) /\ Fits(t) /\ ~Stale(t) /\ t.menu = r.menu
    <3>1. {"alpha", "alen", "saved"} \subseteq Plainer
      BY DEF Plainer
    <3> QED
      BY <2>3, <2>6, <2>7, <3>1, StaysFit
  <2>9. /\ t.lines = r.lines /\ t.pc = r.pc /\ t.nlen = r.nlen /\ t.num = r.num /\ t.prgm = r.prgm
    BY <2>7 DEF Keeps, Fields
  <2>10. r.nlen = v.nlen /\ r.num = v.num /\ r.prgm = v.prgm
    BY <2>3 DEF Keeps, Fields, LineFields, MenuFields, AppFields
  <2>11. t.alpha = FALSE /\ t.alen = 0
    BY <2>4, <2>5, <2>6 DEF Keeps, Fields
  <2>12. r.pc \in -1 .. r.lines
    BY <1>1, <1>a, <2>2
  <2>13. Counters(t)
    BY <1>1, <1>a, <2>3, <2>6, <2>9, <2>10, <2>11, <2>12 DEF Counters
  <2>14. Keeps(v, t, RestFields)
    BY <2>3, <2>7 DEF Keeps, RestFields
  <2>15. Rest(t)
    BY <1>1, <1>a, <2>3, <2>6, <2>8, <2>9, <2>10, <2>11, <2>13, <2>14, <1>c, LetteredRest
  <2> QED
    BY <1>1, <1>5, <1>b, <2>2, <2>9, <2>10, <2>15
<1> QED
  BY <1>3, <1>4, <1>5

LEMMA EndAlphaRest ==
    ASSUME NEW s, Lettered(s), NEW t, t = EndAlpha(s)
    PROVE  /\ Rest(t) /\ t.prgm = s.prgm
           /\ ~(s.alpha /\ s.prgm) => /\ t.pc = s.pc /\ t.lines = s.lines
                                      /\ t.menu = s.menu /\ t.sect = s.sect
           /\ s.alpha /\ s.prgm /\ s.alen = 0 => /\ t.pc = s.saved /\ t.lines = s.lines
                                                 /\ t.menu = s.menu /\ t.sect = s.sect
           /\ s.alpha /\ s.prgm /\ s.alen # 0 => t.pc = s.pc /\ t.lines = StoredLines(s)
<1>1. Steers(s, s)
  BY LetteredFacts, SteersSame
<1> QED
  BY <1>1, EndAlphaAfter

-----------------------------------------------------------------------------
(* The keys of a string                                                    *)

(* The letters are on the level of the strings *)
LEMMA LettersUp ==
    ASSUME NEW s, Screen(s), s.menu["command"] = "none"
    PROVE  alpha_active(s) <=> s.menu["alpha"] \in AlphaMenus
<1>1. CASE s.menu["alpha"] = "none"
  <2> DEFINE l == get_cat_index(s)
  <2>1. l \in Levels /\ (l # "app" => s.menu[l] # "none")
    BY FrontLevel
  <2>2. s.menu[l] \in MenusOf(l)
    BY <2>1 DEF Screen
  <2>3. l \in {"transient", "plain", "app"}
    BY <1>1, <2>1, LevelFacts
  <2>4. s.menu[l] \in {"none", "catalog"} \cup PlainMenus \cup AppMenus
    BY <2>2, <2>3, MenusOfLevels
  <2>5. s.menu[l] \notin AlphaMenus
    BY <2>4 DEF PlainMenus, AppMenus, AlphaMenus
  <2> HIDE DEF l
  <2>6. get_front_menu(s) = s.menu[l]
    BY DEF get_front_menu, l
  <2> QED
    BY <1>1, <2>5, <2>6 DEF alpha_active, AlphaMenus
<1>2. CASE s.menu["alpha"] # "none"
  <2>1. get_cat_index(s) = "alpha"
    <3>1. \A k \in InFront["alpha"] : s.menu[k] = "none"
      BY LevelFacts
    <3> QED
      BY <1>2, <3>1, FrontLevel, LevelFacts
  <2> QED
    BY <2>1 DEF alpha_active, get_front_menu
<1> QED
  BY <1>1, <1>2

LEMMA StrungInv ==
    ASSUME NEW s, Lettered(s), NEW t, Strung(s, t)
    PROVE  Inv(t) /\ t.alpha /\ ~mode_command_entry(t) /\ BelowSame(s, t)
           /\ t.prgm = s.prgm /\ t.lines = s.lines
<1>1. /\ s \in Calculators /\ Screen(s) /\ Fits(s) /\ ~Stale(s) /\ Counters(s) /\ EntryFits(s)
      /\ s.menu["command"] = "none" /\ ~s.rpc /\ ~s.num /\ ~mode_command_entry(s) /\ ~s.clall
      /\ ~(s.alpha /\ s.prgm) => s.saved = -1
      /\ s.pc \in -1 .. s.lines /\ s.saved \in -1 .. s.lines
  BY LetteredFacts DEF Lettered, Ready
<1>2. /\ t.cb = s.cb /\ t.edit = s.edit /\ t.baseapp = s.baseapp /\ t.role = s.role
      /\ t.lines = s.lines /\ t.nlen = s.nlen /\ t.num = s.num /\ t.prgm = s.prgm /\ t.inc = s.inc
      /\ t.clall = s.clall /\ t.rpc = s.rpc /\ t.mvars = s.mvars
  BY DEF Strung, Keeps, Fields, StringFields
<1>3. t.menu["command"] = "none" /\ t.menu["app"] = s.menu["app"] /\ BelowSame(s, t)
  BY <1>1, LevelFacts DEF Strung, BelowSame
<1>4. Screen(t) /\ Fits(t) /\ ~Stale(t)
  BY <1>1, <1>2, <1>3 DEF Strung, Fits, Stale
<1>5. EntryFits(t)
  BY <1>1, <1>2, <1>3 DEF EntryFits, Custom
<1>6. Counters(t)
  BY <1>1, <1>2 DEF Counters, Strung
<1>7. alpha_active(t) /\ ~mode_command_entry(t)
  BY <1>1, <1>2, <1>3, <1>4, LettersUp DEF Strung, mode_command_entry
<1>8. Modes(t)
  <2>1. t.saved # -1 => s.prgm
    BY <1>1 DEF Strung
  <2>2. t.pend \in {"none", "linger1", "CLA"} /\ (t.pend = "CLA" => ~s.prgm) /\ t.alpha = TRUE
    BY DEF Strung
  <2> QED
    BY <1>1, <1>2, <1>3, <1>4, <1>7, <2>1, <2>2 DEF Modes, Quiet
<1> QED
  BY <1>2, <1>3, <1>4, <1>5, <1>6, <1>7, <1>8 DEF Inv, Strung

LEMMA StrungKey ==
    ASSUME NEW s, Lettered(s), NEW t, Strung(s, t)
    PROVE  StringKey(s, t)
  BY StrungInv DEF StringKey, AlphaOn, Fresh, Opens, Strung

LEMMA StrungSame ==
    ASSUME NEW s, Lettered(s), s.alpha
    PROVE  Strung(s, s)
<1>1. Screen(s) /\ s.menu["command"] = "none" /\ alpha_active(s) /\ Counters(s)
      /\ s.pc \in -1 .. s.lines /\ (~s.prgm => s.saved = -1) /\ s.pend = "none" /\ s.alpha = TRUE
  BY LetteredFacts DEF Lettered, Ready, Screen, Calculators
<1>2. Keeps(s, s, StringFields)
  BY KeepsNothing
<1> QED
  BY <1>1, <1>2, LettersUp DEF Strung, Counters

LEMMA StrungAlen ==
    ASSUME NEW s, NEW v, Strung(s, v), NEW n \in 0 .. MaxAlpha, NEW t, t = [v EXCEPT !.alen = n]
    PROVE  Strung(s, t)
<1>1. v \in Calculators /\ Screen(v) /\ n \in Int
  BY DEF Strung, Screen
<1>2. t \in Calculators /\ t.alen = n /\ Keeps(v, t, {"alen"})
  BY <1>1, PutAlen
<1>3. t.menu = v.menu /\ t.sect = v.sect /\ t.pc = v.pc /\ t.saved = v.saved /\ t.pend = v.pend
      /\ t.alpha = v.alpha
  BY <1>2 DEF Keeps, Fields
<1>4. Screen(t)
  BY <1>1, <1>2, SameScreen
<1>5. Keeps(s, t, StringFields)
  BY <1>2 DEF Strung, Keeps, StringFields
<1> QED
  BY <1>2, <1>3, <1>4, <1>5 DEF Strung

LEMMA StrungPend ==
    ASSUME NEW s, NEW v, Strung(s, v), NEW x \in {"linger1", "CLA"}, x = "CLA" => ~s.prgm,
           NEW t, t = [v EXCEPT !.pend = x]
    PROVE  Strung(s, t)
<1>1. v \in Calculators /\ Screen(v) /\ x \in Words
  BY WordFacts DEF Strung, Screen
<1>2. t \in Calculators /\ t.pend = x /\ Keeps(v, t, {"pend"})
  BY <1>1, PutPend
<1>3. t.menu = v.menu /\ t.sect = v.sect /\ t.pc = v.pc /\ t.saved = v.saved /\ t.alen = v.alen
      /\ t.alpha = v.alpha
  BY <1>2 DEF Keeps, Fields
<1>4. Screen(t)
  BY <1>1, <1>2, SameScreen
<1>5. Keeps(s, t, StringFields)
  BY <1>2 DEF Strung, Keeps, StringFields
<1> QED
  BY <1>2, <1>3, <1>4, <1>5 DEF Strung

LEMMA StrungMenu ==
    ASSUME NEW s, Lettered(s), NEW v, Strung(s, v), NEW m \in AlphaMenus,
           NEW t, t = set_menu(v, "alpha", m)
    PROVE  Strung(s, t)
<1>1. v \in Calculators /\ Screen(v) /\ m \in MenusOf("alpha")
  BY MenusOfLevels DEF Strung, Screen
<1>2. /\ Screen(t) /\ Keeps(v, t, {"menu", "sect", "err"})
      /\ \A k \in Levels : t.menu[k] = IF k = "alpha" THEN m
                                       ELSE IF k \in {"command"} THEN "none" ELSE v.menu[k]
      /\ t.sect["app"] = v.sect["app"]
  BY <1>1, SetAt, LevelFacts
<1>3. t.pc = v.pc /\ t.saved = v.saved /\ t.alen = v.alen /\ t.pend = v.pend /\ t.alpha = v.alpha
  BY <1>2 DEF Keeps, Fields
<1>4. Keeps(s, t, StringFields)
  BY <1>2 DEF Strung, Keeps, StringFields
<1>5. s.menu["command"] = "none"
  BY LetteredFacts
<1>6. \A l \in Levels \ {"alpha"} : t.menu[l] = s.menu[l]
  BY <1>2, <1>5 DEF Strung
<1>7. t.menu["alpha"] = m
  BY <1>2, LevelFacts
<1> QED
  BY <1>2, <1>3, <1>4, <1>6, <1>7 DEF Strung

(* A line of a program begins with a string, or the alpha register is edited *)
LEMMA LineStarted ==
    ASSUME NEW s, Lettered(s), alpha_active(s), ~s.alpha, s.prgm,
           NEW t, t = start_alpha_prgm_line(s)
    PROVE  Strung(s, t) /\ t.alen = 0
<1>1. s \in Calculators /\ Screen(s) /\ Rest(s) /\ s.menu["alpha"] \in AlphaMenus
      /\ s.pc \in -1 .. s.lines /\ s.lines \in Nat /\ s.pend = "none"
  BY LetteredFacts, LettersUp DEF Lettered, Ready
<1> DEFINE x == Opened(s)
           y == [x EXCEPT !.alen = 0]
<1>2. t = [y EXCEPT !.alpha = TRUE]
  BY DEF start_alpha_prgm_line
<1>3. /\ x \in Calculators /\ Keeps(s, x, {"saved", "pc"}) /\ x.saved = s.pc
      /\ x.pc = After(s.pc, s.lines)
  BY <1>1, FreeOpened DEF Free, Screen
<1> HIDE DEF x
<1>4. y \in Calculators /\ y.alen = 0 /\ Keeps(x, y, {"alen"})
  BY <1>3, PutAlen
<1> HIDE DEF y
<1>5. t \in Calculators /\ t.alpha = TRUE /\ Keeps(y, t, {"alpha"})
  BY <1>2, <1>4, PutAlpha
<1>6. Keeps(s, t, {"saved", "pc", "alen", "alpha"})
  BY <1>3, <1>4, <1>5 DEF Keeps
<1>7. t.menu = s.menu /\ t.sect = s.sect /\ t.pend = s.pend
  BY <1>6 DEF Keeps, Fields
<1>8. t.saved = s.pc /\ t.pc = After(s.pc, s.lines) /\ t.alen = 0
  BY <1>3, <1>4, <1>5 DEF Keeps, Fields
<1>9. Screen(t)
  BY <1>1, <1>5, <1>6, SameScreen
<1>10. Keeps(s, t, StringFields)
  BY <1>6 DEF Keeps, StringFields
<1>11. After(s.pc, s.lines) \in -1 .. s.lines
  BY <1>1, AfterLine
<1>12. 0 \in 0 .. MaxAlpha
  BY KeyboardAssumption
<1> QED
  BY <1>1, <1>5, <1>7, <1>8, <1>9, <1>10, <1>11, <1>12 DEF Strung

LEMMA RegisterStarted ==
    ASSUME NEW s, Lettered(s), alpha_active(s), ~s.prgm, NEW t, t = [s EXCEPT !.alpha = TRUE]
    PROVE  Strung(s, t)
<1>1. s \in Calculators /\ Screen(s) /\ s.menu["alpha"] \in AlphaMenus
      /\ s.pc \in -1 .. s.lines /\ s.pend = "none" /\ Counters(s)
  BY LetteredFacts, LettersUp DEF Lettered, Ready
<1>2. t \in Calculators /\ t.alpha = TRUE /\ Keeps(s, t, {"alpha"})
  BY <1>1, PutAlpha
<1>3. t.menu = s.menu /\ t.sect = s.sect /\ t.pend = s.pend /\ t.pc = s.pc /\ t.saved = s.saved
      /\ t.alen = s.alen
  BY <1>2 DEF Keeps, Fields
<1>4. Screen(t)
  BY <1>1, <1>2, SameScreen
<1>5. Keeps(s, t, StringFields)
  BY <1>2 DEF Keeps, StringFields
<1> QED
  BY <1>1, <1>2, <1>3, <1>4, <1>5 DEF Strung, Counters

LEMMA LetterStrung ==
    ASSUME NEW s, Lettered(s), alpha_active(s), NEW t, t = Letter(s)
    PROVE  Strung(s, t)
<1>1. CASE ~s.prgm
  <2>1. t = [s EXCEPT !.alpha = TRUE]
    BY <1>1 DEF Letter
  <2> QED
    BY <1>1, <2>1, RegisterStarted
<1>2. CASE s.prgm
  <2> DEFINE v == IF s.prgm /\ ~s.alpha THEN start_alpha_prgm_line(s) ELSE s
             n == IF v.alen < MaxAlpha THEN v.alen + 1 ELSE v.alen
  <2>1. t = [v EXCEPT !.alen = n]
    BY <1>2 DEF Letter
  <2>2. Strung(s, v)
    <3>1. CASE s.alpha
      BY <1>2, <3>1, StrungSame
    <3>2. CASE ~s.alpha
      BY <1>2, <3>2, LineStarted
    <3> QED
      BY <3>1, <3>2
  <2> HIDE DEF v
  <2>3. v.alen \in 0 .. MaxAlpha
    BY <2>2 DEF Strung
  <2>4. n \in 0 .. MaxAlpha
    BY <2>3, KeyboardAssumption
  <2> HIDE DEF n
  <2> QED
    BY <2>1, <2>2, <2>4, StrungAlen
<1> QED
  BY <1>1, <1>2

(* Where the entry of a string ends does not depend on the menus *)
LEMMA EndedSame ==
    ASSUME NEW s, Lettered(s), NEW v, Steers(s, v)
    PROVE  /\ EndAlpha(v).pc = EndAlpha(s).pc /\ EndAlpha(v).lines = EndAlpha(s).lines
           /\ EndAlpha(v).prgm = EndAlpha(s).prgm
<1>1. CASE ~(s.alpha /\ s.prgm)
  BY <1>1, EndAlphaAfter, EndAlphaRest
<1>2. CASE s.alpha /\ s.prgm /\ s.alen = 0
  BY <1>2, EndAlphaAfter, EndAlphaRest
<1>3. CASE s.alpha /\ s.prgm /\ s.alen # 0
  BY <1>3, EndAlphaAfter, EndAlphaRest
<1> QED
  BY <1>1, <1>2, <1>3

(* After the end of a string *)
LEMMA OverBy ==
    ASSUME NEW s, Lettered(s), NEW v, Steers(s, v), NEW t, Acted(EndAlpha(v), t),
           s.alpha /\ s.prgm /\ s.alen = 0 /\ ~mode_command_entry(t)
           /\ t.pend \in {"null", "cancelled"} =>
               t.pc = s.saved /\ t.lines = s.lines /\ BelowSame(s, t)
    PROVE  StringKey(s, t)
<1>1. Acted(EndAlpha(s), t)
  BY EndedSame DEF Acted, Started
<1>2. CASE s.alpha
  BY <1>1, <1>2 DEF StringKey, AlphaOver
<1>3. CASE ~s.alpha
  <2>1. EndAlpha(s).pc = s.pc /\ EndAlpha(s).lines = s.lines /\ EndAlpha(s).prgm = s.prgm
    BY <1>3, EndAlphaRest
  <2>2. Acted(s, t)
    BY <1>1, <2>1 DEF Acted, Started
  <2> QED
    BY <1>3, <2>2 DEF StringKey, Fresh, Acted
<1> QED
  BY <1>2, <1>3

LEMMA OverQuiet ==
    ASSUME NEW s, Lettered(s), NEW v, Steers(s, v), NEW t, Acted(EndAlpha(v), t),
           s.prgm => t.pend \notin {"null", "cancelled"}
    PROVE  StringKey(s, t)
  BY OverBy

(* Without a string *)
LEMMA ActedString ==
    ASSUME NEW s, ~s.alpha, NEW t, Acted(s, t)
    PROVE  StringKey(s, t)
  BY DEF StringKey, Fresh, Acted

LEMMA AlphaNone ==
    ASSUME NEW s, Screen(s), Fits(s), NEW m \in AlphaMenus \cup {"none"},
           NEW t, t = set_menu(s, "alpha", m)
    PROVE  Steers(s, t) /\ BelowSame(s, t) /\ t.menu["alpha"] = m /\ Keeps(s, t, {"menu", "sect", "err"})
<1>1. m \in MenusOf("alpha") /\ "alpha" \in Levels \ {"app"}
  BY MenusOfLevels, LevelFacts
<1>2. Steers(s, t)
  BY <1>1, SteersAt
<1>3. /\ Keeps(s, t, {"menu", "sect", "err"})
      /\ \A k \in Levels : t.menu[k] = IF k = "alpha" THEN m
                                       ELSE IF k \in {"command"} THEN "none" ELSE s.menu[k]
  BY <1>1, SetAt, LevelFacts
<1> QED
  BY <1>2, <1>3, LevelFacts DEF BelowSame

LEMMA AlphaExitString ==
    ASSUME NEW s, Lettered(s), alpha_active(s), NEW t, t = AlphaExitKey(s)
    PROVE  StringKey(s, t)
<1> DEFINE m == Parent(s.menu["alpha"])
           v == set_menu(s, "alpha", m)
<1>1. Screen(s) /\ Fits(s) /\ s.menu["alpha"] \in AlphaMenus
  BY LetteredFacts, LettersUp
<1>2. m \in {"none", "alpha1"}
  BY <1>1 DEF Parent, AlphaMenus
<1>3. m \in AlphaMenus \cup {"none"} /\ (m # "none" => m \in AlphaMenus)
  BY <1>2 DEF AlphaMenus
<1>4. t = IF v.menu["alpha"] = "none" THEN [EndAlpha(v) EXCEPT !.pend = "cancelled"] ELSE v
  BY DEF AlphaExitKey
<1> HIDE DEF m
<1>5. Steers(s, v) /\ BelowSame(s, v) /\ v.menu["alpha"] = m
  BY <1>1, <1>3, AlphaNone
<1>6. CASE m = "none"
  <2> DEFINE r == EndAlpha(v)
  <2>1. /\ Rest(r)
        /\ s.alpha /\ s.prgm /\ s.alen = 0 => r.pc = s.saved /\ r.lines = s.lines /\ r.menu = v.menu
    BY <1>5, EndAlphaAfter
  <2>2. t = [r EXCEPT !.pend = "cancelled"]
    BY <1>4, <1>5, <1>6
  <2>3. r \in Calculators
    BY <2>1, RestFacts
  <2> HIDE DEF r
  <2>4. Acted(r, t)
    BY <2>1, <2>2, WordFacts, Pends
  <2>5. Keeps(r, t, {"pend"})
    BY <2>2, <2>3, WordFacts, PutPend
  <2>6. t.pc = r.pc /\ t.lines = r.lines /\ t.menu = r.menu
    BY <2>5 DEF Keeps, Fields
  <2>7. s.alpha /\ s.prgm /\ s.alen = 0 => t.pc = s.saved /\ t.lines = s.lines /\ BelowSame(s, t)
    BY <1>5, <2>1, <2>6 DEF BelowSame
  <2>8. Acted(EndAlpha(v), t)
    BY <2>4 DEF r
  <2> HIDE DEF v
  <2> QED
    BY <1>5, <2>7, <2>8, OverBy
<1>7. CASE m # "none"
  <2>1. t = v
    BY <1>4, <1>5, <1>7
  <2>2. CASE s.alpha
    <3>1. Strung(s, t)
      BY <1>3, <1>7, <2>1, <2>2, StrungSame, StrungMenu
    <3> QED
      BY <3>1, StrungKey
  <2>3. CASE ~s.alpha
    <3>1. Rest(s)
      BY <2>3, LetteredFacts
    <3>2. Acted(s, t)
      BY <1>5, <2>1, <3>1, RestActs
    <3> QED
      BY <2>3, <3>2, ActedString
  <2> QED
    BY <2>2, <2>3
<1> QED
  BY <1>6, <1>7

(* A command given in program mode cancels nothing: it is a line, or begins one *)
LEMMA StartQuiet ==
    ASSUME NEW s, Free(s), s.menu["command"] = "none", s.prgm, NEW c \in Words,
           NEW t, t = start_incomplete_command(s, c)
    PROVE  t.pend = "none"
<1>1. EntryBegun(s, c, t)
  BY StartFrame DEF Free
<1> QED
  BY <1>1 DEF EntryBegun, Keeps, Fields, Free

LEMMA AcceptedQuiet ==
    ASSUME NEW s, Rest(s), s.prgm, NEW c \in Words \ {"null", "cancelled"},
           NEW t, t = Accepted(s, c)
    PROVE  t.pend \notin {"null", "cancelled"}
<1>1. /\ s \in Calculators /\ Screen(s) /\ Fits(s) /\ ~Stale(s) /\ s.menu["command"] = "none"
      /\ s.pend = "none" /\ s.lines \in 0 .. MaxLines /\ s.pc \in -1 .. s.lines
  BY RestFacts DEF Rest, Free, Counters
<1>2. CASE ArgType(c) = "none" /\ c \notin Immediate
  <2>1. t = store_command_after(s)
    BY <1>2 DEF Accepted
  <2>2. Keeps(s, t, LineFields)
    BY <1>1, <2>1, StoreAfterFrame DEF StoredAt
  <2>3. t.pend = s.pend
    BY <2>2 DEF Keeps, Fields, LineFields, MenuFields, AppFields
  <2> QED
    BY <1>1, <2>3
<1>3. CASE ArgType(c) = "none" /\ c \in Immediate
  <2>1. t = [s EXCEPT !.pend = c]
    BY <1>3 DEF Accepted
  <2>2. t.pend = c
    BY <1>1, <2>1, PutPend
  <2> QED
    BY <2>2
<1>4. CASE ArgType(c) # "none" /\ c \notin Immediate
  <2> DEFINE v == Opened(s)
  <2>1. t = start_incomplete_command(v, c)
    BY <1>4 DEF Accepted
  <2>2. Free(v) /\ v.prgm = s.prgm /\ v.menu = s.menu
    BY FreeOpened
  <2> HIDE DEF v
  <2>3. t.pend = "none"
    BY <1>1, <2>1, <2>2, StartQuiet
  <2> QED
    BY <2>3
<1>5. CASE ArgType(c) # "none" /\ c \in Immediate
  <2> DEFINE v == [s EXCEPT !.saved = s.pc]
  <2>1. t = start_incomplete_command(v, c)
    BY <1>5 DEF Accepted
  <2>2. s.pc \in Int
    BY <1>1
  <2>3. v \in Calculators /\ v.saved = s.pc /\ Keeps(s, v, {"saved"})
    BY <1>1, <2>2, PutSaved
  <2> HIDE DEF v
  <2>4. v.pc = s.pc /\ Keeps(s, v, {"saved", "pc"})
    BY <2>3 DEF Keeps, Fields
  <2>5. Free(v) /\ v.prgm = s.prgm /\ v.menu = s.menu
    BY <1>1, <2>3, <2>4, FreePlace
  <2>6. t.pend = "none"
    BY <1>1, <2>1, <2>5, StartQuiet
  <2> QED
    BY <2>6
<1> QED
  BY <1>2, <1>3, <1>4, <1>5

LEMMA DoQuiet ==
    ASSUME NEW s, Rest(s), s.prgm, NEW c \in Words \ {"null", "cancelled"},
           NEW t, t = do_interactive(s, c)
    PROVE  t.pend \notin {"null", "cancelled"}
<1>1. s \in Calculators /\ Screen(s) /\ Fits(s) /\ s.pend = "none" /\ Rest(s)
  BY RestFacts DEF Rest, Free
<1>2. CASE t = s
  BY <1>1, <1>2
<1>3. CASE t = Confirm(s)
  <2> DEFINE v == set_menu(s, "alpha", "none")
  <2>1. t = [v EXCEPT !.clall = TRUE]
    BY <1>3 DEF Confirm
  <2>2. Steers(s, v)
    BY <1>1, AlphaNone
  <2> HIDE DEF v
  <2>3. v.pend = "none" /\ v \in Calculators
    BY <1>1, <2>2 DEF Steers, Screen, Keeps, Fields, MenuFields, AppFields
  <2>4. Keeps(v, t, {"clall"})
    BY <2>1, <2>3, PutClall
  <2>5. t.pend = v.pend
    BY <2>4 DEF Keeps, Fields
  <2> QED
    BY <2>3, <2>5
<1>4. CASE t = sst(s) \/ t = bst(s)
  <2>1. Rest(t)
    BY <1>1, <1>4, SteppedRest
  <2> QED
    BY <2>1 DEF Rest, Free
<1>5. CASE t = Accepted(s, c)
  BY <1>5, AcceptedQuiet
<1>6. t = s \/ t = Confirm(s) \/ t = sst(s) \/ t = bst(s) \/ t = Accepted(s, c)
  BY DEF do_interactive
<1> QED
  BY <1>2, <1>3, <1>4, <1>5, <1>6

(* The string ends, and a command follows *)
LEMMA StringCommand ==
    ASSUME NEW s, Lettered(s), NEW v, Steers(s, v), NEW c \in Words, c \notin Internal,
           c \notin {"GTODOT", "A_THRU_F", "null", "cancelled"},
           NEW t, t = do_interactive(EndAlpha(v), c)
    PROVE  StringKey(s, t)
<1> DEFINE r == EndAlpha(v)
<1>1. Rest(r) /\ r.prgm = s.prgm
  BY EndAlphaAfter
<1> HIDE DEF r
<1>2. t = do_interactive(r, c)
  BY DEF r
<1>3. Acted(r, t)
  BY <1>1, <1>2, DoInteractive
<1>4. s.prgm => t.pend \notin {"null", "cancelled"}
  BY <1>1, <1>2, DoQuiet
<1>5. Acted(EndAlpha(v), t)
  BY <1>3 DEF r
<1> QED
  BY <1>4, <1>5, OverQuiet

(* The string ends, and its letters with it *)
LEMMA StringLeft ==
    ASSUME NEW s, Lettered(s), NEW v, Steers(s, v), NEW t, t = set_menu(EndAlpha(v), "alpha", "none")
    PROVE  StringKey(s, t)
<1> DEFINE r == EndAlpha(v)
<1>1. Rest(r)
  BY EndAlphaAfter
<1> HIDE DEF r
<1>2. t = set_menu(r, "alpha", "none")
  BY DEF r
<1>3. Steers(r, t)
  BY <1>1, <1>2, AlphaNone, RestFacts
<1>4. Rest(t) /\ Acted(r, t)
  BY <1>1, <1>3, RestActs, RestSteers
<1>5. t.pend = "none"
  BY <1>4 DEF Rest, Free
<1>6. Acted(EndAlpha(v), t)
  BY <1>4 DEF r
<1> QED
  BY <1>5, <1>6, OverQuiet

LEMMA AlphaBspString ==
    ASSUME NEW s, Lettered(s), alpha_active(s), NEW e, NEW t, t = AlphaBspKey(s, e)
    PROVE  StringKey(s, t)
<1>1. Screen(s) /\ Fits(s) /\ Steers(s, s) /\ s.alen \in 0 .. MaxAlpha
  BY LetteredFacts, SteersSame DEF Counters
<1>2. CASE s.prgm /\ s.alpha /\ s.alen > 0
  <2> DEFINE n == s.alen - 1
  <2>1. t = [s EXCEPT !.alen = n]
    BY <1>2 DEF AlphaBspKey
  <2>2. n \in 0 .. MaxAlpha
    BY <1>1, <1>2, KeyboardAssumption
  <2> HIDE DEF n
  <2>3. Strung(s, t)
    BY <1>2, <2>1, <2>2, StrungSame, StrungAlen
  <2> QED
    BY <2>3, StrungKey
<1>3. CASE s.prgm /\ s.alpha /\ ~(s.alen > 0)
  <2>1. t = EndAlpha(s)
    BY <1>3 DEF AlphaBspKey, EndAlpha
  <2>2. Rest(t)
    BY <2>1, EndAlphaRest
  <2>3. Acted(EndAlpha(s), t) /\ t.pend = "none"
    BY <2>2, RestActed DEF Rest, Free
  <2> QED
    BY <1>1, <2>3, OverQuiet
<1>4. CASE s.prgm /\ ~s.alpha
  <2> DEFINE v == DeleteLine(s)
  <2>1. t = set_menu(v, "alpha", "alpha1")
    BY <1>4 DEF AlphaBspKey
  <2>2. Rest(v)
    BY <1>4, LetteredFacts, DeletedRest
  <2> HIDE DEF v
  <2>3. Steers(v, t)
    BY <2>1, <2>2, AlphaNone, RestFacts DEF AlphaMenus
  <2>4. Rest(t)
    BY <2>2, <2>3, RestSteers
  <2> QED
    BY <1>4, <2>4, RestActed, ActedString
<1>5. CASE ~s.prgm /\ s.alpha /\ e.item = "len"
  <2>1. t = s
    BY <1>5 DEF AlphaBspKey
  <2> QED
    BY <1>5, <2>1, StrungSame, StrungKey
<1>6. CASE ~s.prgm /\ ~(s.alpha /\ e.item = "len")
  <2>1. t = [s EXCEPT !.pend = "CLA"]
    BY <1>6 DEF AlphaBspKey
  <2>2. CASE s.alpha
    <3>1. Strung(s, t)
      BY <1>6, <2>1, <2>2, StrungSame, StrungPend
    <3> QED
      BY <3>1, StrungKey
  <2>3. CASE ~s.alpha
    <3>1. Acted(s, t)
      BY <2>1, <2>3, LetteredFacts, WordFacts, Pends
    <3> QED
      BY <2>3, <3>1, ActedString
  <2> QED
    BY <2>2, <2>3
<1> QED
  BY <1>2, <1>3, <1>4, <1>5, <1>6

LEMMA AlphaEnterString ==
    ASSUME NEW s, Lettered(s), alpha_active(s), NEW e, NEW t, t = AlphaEnterKey(s, e)
    PROVE  StringKey(s, t)
<1>1. Steers(s, s)
  BY LetteredFacts, SteersSame
<1>2. CASE t = set_menu(EndAlpha(s), "alpha", "none")
  BY <1>1, <1>2, StringLeft
<1>3. CASE s.prgm /\ ~s.alpha /\ t = s
  <2>1. Rest(s)
    BY <1>3, LetteredFacts
  <2> QED
    BY <1>3, <2>1, RestActed, ActedString
<1>4. CASE s.prgm /\ ~s.alpha /\ t = [start_alpha_prgm_line(s) EXCEPT !.alen = 1]
  <2> DEFINE v == start_alpha_prgm_line(s)
  <2>1. Strung(s, v)
    BY <1>4, LineStarted
  <2> HIDE DEF v
  <2>2. t = [v EXCEPT !.alen = 1] /\ 1 \in 0 .. MaxAlpha
    BY <1>4, KeyboardAssumption DEF v
  <2>3. Strung(s, t)
    BY <2>1, <2>2, StrungAlen
  <2> QED
    BY <2>3, StrungKey
<1>5. CASE ~s.prgm /\ ~s.alpha /\ t = [s EXCEPT !.alpha = TRUE]
  BY <1>5, RegisterStarted, StrungKey
<1>6. \/ t = set_menu(EndAlpha(s), "alpha", "none")
      \/ s.prgm /\ ~s.alpha /\ t = s
      \/ s.prgm /\ ~s.alpha /\ t = [start_alpha_prgm_line(s) EXCEPT !.alen = 1]
      \/ ~s.prgm /\ ~s.alpha /\ t = [s EXCEPT !.alpha = TRUE]
  <2>1. CASE s.prgm /\ (s.alpha \/ Shift(e))
    BY <2>1 DEF AlphaEnterKey
  <2>2. CASE s.prgm /\ ~s.alpha /\ ~Shift(e)
    BY <2>2 DEF AlphaEnterKey
  <2>3. CASE ~s.prgm /\ (Shift(e) \/ s.alpha)
    BY <2>3 DEF AlphaEnterKey
  <2>4. CASE ~s.prgm /\ ~Shift(e) /\ ~s.alpha
    BY <2>4 DEF AlphaEnterKey
  <2> QED
    BY <2>1, <2>2, <2>3, <2>4
<1> QED
  BY <1>2, <1>3, <1>4, <1>5, <1>6

(* The letters the top row offers *)
LEMMA LettersOffered ==
    ASSUME NEW s, Lettered(s), alpha_active(s), NEW item \in TopItems(s), item # "sub"
    PROVE  s.menu["alpha"] = "alphasub"
<1>1. Screen(s) /\ s.menu["command"] = "none" /\ ~s.clall /\ s.menu["alpha"] \in AlphaMenus
  BY LetteredFacts, LettersUp DEF Lettered, Ready
<1>2. get_cat_index(s) = "alpha"
  <2>1. \A k \in InFront["alpha"] : s.menu[k] = "none"
    BY <1>1, LevelFacts
  <2>2. s.menu["alpha"] # "none"
    BY <1>1 DEF AlphaMenus
  <2> QED
    BY <2>1, <2>2, FrontLevel, LevelFacts
<1>3. Offering(s) = s.menu["alpha"]
  BY <1>2 DEF Offering, get_front_menu
<1>4. CASE s.menu["alpha"] = "alpha1"
  <2>1. FunctionItems("alpha1") = {"sub"}
    BY DEF FunctionItems
  <2>2. TopItems(s) = FunctionItems("alpha1")
    BY <1>1, <1>3, <1>4 DEF TopItems, Custom
  <2> QED
    BY <2>1, <2>2
<1> QED
  BY <1>1, <1>4 DEF AlphaMenus

LEMMA AlphaTopString ==
    ASSUME NEW s, Lettered(s), alpha_active(s), NEW e, e.item \in TopItems(s),
           NEW t, t = IF e.item = "sub" THEN set_menu(s, "alpha", "alphasub")
                      ELSE IF LockedLine(s) THEN s
                      ELSE set_menu(Letter(s), "alpha", Parent(s.menu["alpha"]))
    PROVE  StringKey(s, t)
<1>1. Screen(s) /\ Fits(s)
  BY LetteredFacts
<1>2. "alphasub" \in AlphaMenus /\ "alpha1" \in AlphaMenus
  BY DEF AlphaMenus
<1>3. CASE e.item = "sub"
  <2>1. t = set_menu(s, "alpha", "alphasub")
    BY <1>3
  <2>2. CASE s.alpha
    <3>1. Strung(s, t)
      BY <1>2, <2>1, <2>2, StrungSame, StrungMenu
    <3> QED
      BY <3>1, StrungKey
  <2>3. CASE ~s.alpha
    <3>1. Steers(s, t)
      BY <1>1, <1>2, <2>1, AlphaNone
    <3>2. Acted(s, t)
      BY <2>3, <3>1, LetteredFacts, RestActs
    <3> QED
      BY <2>3, <3>2, ActedString
  <2> QED
    BY <2>2, <2>3
<1>4. CASE e.item # "sub" /\ LockedLine(s)
  <2>1. t = s /\ ~s.alpha
    BY <1>4 DEF LockedLine
  <2>2. Acted(s, t)
    BY <2>1, LetteredFacts, RestActed
  <2> QED
    BY <2>1, <2>2, ActedString
<1>5. CASE e.item # "sub" /\ ~LockedLine(s)
  <2>1. s.menu["alpha"] = "alphasub"
    BY <1>5, LettersOffered
  <2>2. Parent("alphasub") = "alpha1"
    BY DEF Parent
  <2> DEFINE v == Letter(s)
  <2>3. t = set_menu(v, "alpha", "alpha1")
    BY <1>5, <2>1, <2>2
  <2>4. Strung(s, v)
    BY LetterStrung
  <2> HIDE DEF v
  <2>5. Strung(s, t)
    BY <1>2, <2>3, <2>4, StrungMenu
  <2> QED
    BY <2>5, StrungKey
<1> QED
  BY <1>3, <1>4, <1>5

LEMMA AlphaCustomString ==
    ASSUME NEW s, Lettered(s), ~(s.prgm /\ s.alpha), NEW t, t = AlphaCustom(s)
    PROVE  StringKey(s, t)
<1> DEFINE v == set_plainmenu(s, "none")
<1>1. Steers(s, v)
  <2>1. "none" \in PlainMenus
    BY DEF PlainMenus
  <2> QED
    BY <2>1, LetteredFacts, SteersPlain
<1>2. t = IF s.prgm THEN [v EXCEPT !.pend = "CUSTOM"] ELSE do_interactive(EndAlpha(v), "CUSTOM")
  BY DEF AlphaCustom
<1> HIDE DEF v
<1>3. CASE s.prgm
  <2>1. t = [v EXCEPT !.pend = "CUSTOM"]
    BY <1>2, <1>3
  <2>2. Rest(s) /\ ~s.alpha
    BY <1>3, LetteredFacts
  <2>3. Acted(s, t)
    BY <1>1, <2>1, <2>2, WordFacts, PendsAfter
  <2> QED
    BY <2>2, <2>3, ActedString
<1>4. CASE ~s.prgm
  <2>1. t = do_interactive(EndAlpha(v), "CUSTOM")
    BY <1>2, <1>4
  <2> QED
    BY <1>1, <2>1, WordFacts, StringCommand
<1> QED
  BY <1>3, <1>4

LEMMA KeyCommandFacts ==
    ASSUME NEW s, NEW e, Fitting(s, e), e.key \in {"run", "map", "SST", "down"}
    PROVE  /\ KeyCommand(e) \in Words \ Internal
           /\ KeyCommand(e) \notin {"GTODOT", "A_THRU_F", "null", "cancelled"}
<1>1. CASE e.key = "run"
  BY <1>1, WordFacts DEF KeyCommand
<1>2. CASE e.key \in {"SST", "down"}
  BY <1>2, WordFacts DEF KeyCommand
<1>3. CASE e.key = "map"
  <2>1. e.item \in Reached \cup {"op"}
    BY <1>3 DEF Fitting
  <2>2. KeyCommand(e) = e.item
    BY <1>3 DEF KeyCommand
  <2>3. e.item \notin {"null", "cancelled"}
    BY <2>1 DEF Reached
  <2> QED
    BY <2>1, <2>2, <2>3, ReachedFacts
<1> QED
  BY <1>1, <1>2, <1>3

(* The keys while the letters are shown *)
LEMMA AlphaModeString ==
    ASSUME NEW s, Lettered(s), alpha_active(s), NEW e, Fitting(s, e),
           ~(e.key = "CUSTOM" /\ s.prgm /\ s.alpha),
           NEW t, t = keydown_alpha_mode(s, e)
    PROVE  StringKey(s, t)
<1>1. Screen(s) /\ Fits(s) /\ ~Stale(s) /\ Steers(s, s)
  BY LetteredFacts, SteersSame
<1>2. ASSUME t = s PROVE StringKey(s, t)
  <2>1. CASE s.alpha
    BY <1>2, <2>1, StrungSame, StrungKey
  <2>2. CASE ~s.alpha
    <3>1. Acted(s, t)
      BY <1>2, <2>2, LetteredFacts, RestActed
    <3> QED
      BY <2>2, <3>1, ActedString
  <2> QED
    BY <2>1, <2>2
<1>3. CASE e.key \in {"char", "digit", "dot", "E", "arith"}
  <2>1. t = IF LockedLine(s) THEN s ELSE Letter(s)
    BY <1>3 DEF keydown_alpha_mode, MenuKeys
  <2>2. CASE LockedLine(s)
    BY <1>2, <2>1, <2>2
  <2>3. CASE ~LockedLine(s)
    BY <2>1, <2>3, LetterStrung, StrungKey
  <2> QED
    BY <2>2, <2>3
<1>4. CASE e.key = "top"
  <2>1. e.item \in TopItems(s)
    BY <1>4 DEF Fitting
  <2>2. t = IF e.item = "sub" THEN set_menu(s, "alpha", "alphasub")
            ELSE IF LockedLine(s) THEN s
            ELSE set_menu(Letter(s), "alpha", Parent(s.menu["alpha"]))
    BY <1>4 DEF keydown_alpha_mode, MenuKeys
  <2> QED
    BY <2>1, <2>2, AlphaTopString
<1>5. CASE e.key = "exit"
  <2>1. t = AlphaExitKey(s)
    BY <1>5 DEF keydown_alpha_mode, MenuKeys
  <2> QED
    BY <2>1, AlphaExitString
<1>6. CASE e.key = "bsp"
  <2>1. t = AlphaBspKey(s, e)
    BY <1>6 DEF keydown_alpha_mode, MenuKeys
  <2> QED
    BY <2>1, AlphaBspString
<1>7. CASE e.key \in {"enter", "ALPHA"}
  <2>1. t = AlphaEnterKey(s, e)
    BY <1>7 DEF keydown_alpha_mode, MenuKeys
  <2> QED
    BY <2>1, AlphaEnterString
<1>8. CASE e.key \in MenuKeys
  <2>1. t = set_menu(EndAlpha(ToMenu(s, e.key)), "alpha", "none")
    BY <1>8 DEF keydown_alpha_mode, MenuKeys
  <2>2. Steers(s, ToMenu(s, e.key))
    BY <1>1, <1>8, ToMenuSteers
  <2> QED
    BY <2>1, <2>2, StringLeft
<1>9. CASE e.key = "CUSTOM"
  <2>1. t = AlphaCustom(s)
    BY <1>9 DEF keydown_alpha_mode, MenuKeys
  <2>2. ~(s.prgm /\ s.alpha)
    BY <1>9
  <2> QED
    BY <2>1, <2>2, AlphaCustomString
<1>10. CASE e.key = "SHOW"
  <2>1. t = [s EXCEPT !.pend = "linger1"]
    BY <1>10 DEF keydown_alpha_mode, MenuKeys
  <2>2. CASE s.alpha
    <3>1. Strung(s, t)
      BY <2>1, <2>2, StrungSame, StrungPend
    <3> QED
      BY <3>1, StrungKey
  <2>3. CASE ~s.alpha
    <3>1. Acted(s, t)
      BY <2>1, <2>3, LetteredFacts, WordFacts, Pends
    <3> QED
      BY <2>3, <3>1, ActedString
  <2> QED
    BY <2>2, <2>3
<1>11. CASE e.key \in {"run", "map", "SST"}
  <2> DEFINE c == KeyCommand(e)
  <2>1. t = do_interactive(EndAlpha(s), c)
    BY <1>11 DEF keydown_alpha_mode, MenuKeys
  <2>2. c \in Words \ Internal /\ c \notin {"GTODOT", "A_THRU_F", "null", "cancelled"}
    BY <1>11, KeyCommandFacts
  <2> HIDE DEF c
  <2> QED
    BY <1>1, <2>1, <2>2, StringCommand
<1>12. CASE e.key \notin MenuKeys \cup {"char", "digit", "dot", "E", "arith", "top", "exit", "bsp",
                                        "enter", "ALPHA", "CUSTOM", "SHOW", "run", "map", "SST"}
  <2>1. t = s
    BY <1>12 DEF keydown_alpha_mode, MenuKeys
  <2> QED
    BY <1>2, <2>1
<1> QED
  BY <1>3, <1>4, <1>5, <1>6, <1>7, <1>8, <1>9, <1>10, <1>11, <1>12

-----------------------------------------------------------------------------
(* A number is left, program mode is toggled, letters are fetched          *)

LEMMA CalmSteers ==
    ASSUME NEW s, Calm(s), NEW t, Steers(s, t)
    PROVE  Calm(t) /\ t.pc = s.pc /\ t.lines = s.lines /\ t.prgm = s.prgm /\ t.nlen = s.nlen
           /\ t.num = s.num
<1>1. /\ t.lines = s.lines /\ t.pc = s.pc /\ t.saved = s.saved /\ t.alen = s.alen /\ t.nlen = s.nlen
      /\ t.num = s.num /\ t.prgm = s.prgm /\ t.inc = s.inc /\ t.alpha = s.alpha /\ t.clall = s.clall
      /\ t.rpc = s.rpc /\ t.pend = s.pend
  BY DEF Steers, Keeps, Fields, MenuFields, AppFields
<1>2. Screen(t) /\ Fits(t) /\ ~Stale(t) /\ t.menu["command"] = "none"
  BY DEF Steers, Calm
<1>3. Counters(t)
  BY <1>1 DEF Calm, Counters
<1>4. EntryFits(t)
  BY <1>1, <1>2 DEF Calm, EntryFits, Custom
<1> QED
  BY <1>1, <1>2, <1>3, <1>4 DEF Calm, mode_command_entry

LEMMA CalmStored ==
    ASSUME NEW s, Calm(s), s.prgm => s.pc # -1, NEW t, t = store_command(s)
    PROVE  Calm(t) /\ t.pc = s.pc /\ t.lines = StoredLines(s) /\ t.prgm = s.prgm
<1>1. /\ s \in Calculators /\ Screen(s) /\ Fits(s) /\ ~Stale(s) /\ s.lines \in 0 .. MaxLines
      /\ s.pc \in -1 .. s.lines /\ s.saved = -1 /\ s.menu["command"] = "none"
  BY DEF Calm, Counters, Screen
<1>2. StoredAt(s, t) /\ t.pc = s.pc /\ (t.lines = s.lines \/ t.lines = s.lines + 1)
      /\ t.lines = StoredLines(s)
  BY <1>1, StoreFrame, StoredLine
<1>3. /\ Screen(t) /\ Fits(t) /\ ~Stale(t) /\ Keeps(s, t, LineFields) /\ t.menu["command"] = "none"
      /\ t.lines \in 0 .. MaxLines
  BY <1>1, <1>2 DEF StoredAt
<1>4. /\ t.saved = s.saved /\ t.alen = s.alen /\ t.nlen = s.nlen
      /\ t.num = s.num /\ t.prgm = s.prgm /\ t.inc = s.inc /\ t.alpha = s.alpha /\ t.clall = s.clall
      /\ t.rpc = s.rpc /\ t.pend = s.pend
  BY <1>3 DEF Keeps, Fields, LineFields, MenuFields, AppFields
<1>5. t.pc \in -1 .. t.lines /\ t.saved \in -1 .. t.lines
  BY <1>1, <1>2, <1>3, <1>4
<1>6. Counters(t)
  BY <1>1, <1>2, <1>3, <1>4, <1>5 DEF Calm, Counters
<1>7. EntryFits(t)
  BY <1>3, <1>4 DEF Calm, EntryFits, Custom
<1> QED
  BY <1>2, <1>3, <1>4, <1>6, <1>7 DEF Calm, mode_command_entry

LEMMA NumberOut ==
    ASSUME NEW s, Calm(s), NEW t, t = EndNumber(s)
    PROVE  Rest(t) /\ t.pc = s.pc /\ t.lines = s.lines /\ t.prgm = s.prgm
<1> DEFINE x == [s EXCEPT !.num = FALSE]
<1>1. s \in Calculators /\ s.pc \in -1 .. s.lines /\ 0 \in 0 .. NumLength
  BY NumberAssumption DEF Calm, Screen, Counters
<1>2. t = [x EXCEPT !.nlen = 0]
  BY DEF EndNumber
<1>3. x \in Calculators /\ x.num = FALSE /\ Keeps(s, x, {"num"})
  BY <1>1, PutNum
<1> HIDE DEF x
<1>4. t \in Calculators /\ t.nlen = 0 /\ Keeps(x, t, {"nlen"})
  BY <1>2, <1>3, PutNlen
<1>5. Keeps(s, t, {"num", "nlen"})
  BY <1>3, <1>4 DEF Keeps
<1>6. t.num = FALSE /\ t.pc = s.pc /\ t.lines = s.lines /\ t.prgm = s.prgm
  BY <1>3, <1>4, <1>5 DEF Keeps, Fields
<1>7. Keeps(s, t, NumFields)
  BY <1>5 DEF Keeps, NumFields
<1> QED
  BY <1>1, <1>4, <1>6, <1>7, Typing

(* A key that does not go on with the number ends it *)
LEMMA NumberLeft ==
    ASSUME NEW s, Ready(s), s.num, NEW t, t = EndNumber(IF s.prgm THEN store_command(s) ELSE s)
    PROVE  Rest(t) /\ t.pc = Ended(s).pc /\ t.lines = Ended(s).lines /\ t.prgm = Ended(s).prgm
<1>1. Calm(s) /\ (s.prgm => s.pc # -1) /\ ~s.alpha /\ s \in Calculators
  <2>1. s.prgm => s.pc \in 0 .. s.lines
    BY NumCalm DEF Ready
  <2>2. Calm(s)
    BY NumCalm DEF Ready
  <2> QED
    BY <2>1, <2>2 DEF Calm, Screen
<1>2. CASE s.prgm
  <2> DEFINE v == store_command(s)
  <2>1. Calm(v)
    BY <1>1, CalmStored
  <2>2. t = EndNumber(v) /\ Ended(s) = v
    BY <1>2 DEF Ended
  <2> HIDE DEF v
  <2> QED
    BY <2>1, <2>2, NumberOut
<1>3. CASE ~s.prgm
  <2>1. t = EndNumber(s)
    BY <1>3
  <2>2. Ended(s) = [s EXCEPT !.alpha = FALSE]
    BY <1>3 DEF Ended, EndAlpha
  <2>3. s.alpha = FALSE
    BY <1>1 DEF Calculators
  <2>4. Ended(s) = s
    BY <1>1, <2>2, <2>3, SameAlpha
  <2> QED
    BY <1>1, <2>1, <2>4, NumberOut
<1> QED
  BY <1>2, <1>3

LEMMA FreshFrom ==
    ASSUME NEW s, NEW v, v.pc = s.pc, v.lines = s.lines, v.prgm = s.prgm, NEW t, Fresh(v, t)
    PROVE  Fresh(s, t)
  BY DEF Fresh, Started, Opens

LEMMA ActedFresh ==
    ASSUME NEW s, NEW t, Acted(s, t) PROVE Fresh(s, t)
  BY DEF Fresh, Acted

LEMMA RestOutcome ==
    ASSUME NEW s, NEW t, Rest(t) PROVE Outcome(s, t)
<1>1. Acted(EndAlpha(s), t) /\ Acted(Ended(s), t) /\ t.pend = "none"
  BY RestActed DEF Rest, Free
<1> QED
  BY <1>1, ActedFresh DEF Outcome, AlphaOver

LEMMA StringOutcome ==
    ASSUME NEW s, Lettered(s), NEW t, StringKey(s, t)
    PROVE  Outcome(s, t)
<1>1. CASE s.alpha
  BY <1>1 DEF StringKey, Outcome
<1>2. CASE ~s.alpha
  <2>1. Ended(s) = EndAlpha(s)
    BY DEF Ended, Lettered
  <2>2. EndAlpha(s).pc = s.pc /\ EndAlpha(s).lines = s.lines /\ EndAlpha(s).prgm = s.prgm
    BY <1>2, EndAlphaRest
  <2>3. Fresh(s, t)
    BY <1>2 DEF StringKey
  <2> QED
    BY <1>2, <2>1, <2>2, <2>3, FreshFrom DEF Outcome
<1> QED
  BY <1>1, <1>2

(* The answer to the question of CLALL *)
LEMMA AnsweredOutcome ==
    ASSUME NEW s, Inv(s), s.pend = "none", s.clall, NEW e, NEW t, t = Answered(s, e)
    PROVE  Outcome(s, t) /\ ~mode_command_entry(s)
<1>1. ~mode_command_entry(s) /\ ~s.num /\ ~s.alpha /\ s \in Calculators
  BY DEF Inv, Modes, Screen
<1> DEFINE v == [s EXCEPT !.clall = FALSE]
           x == CASE e.key = "top" /\ e.item = "yes" -> "CLALLb"
                  [] e.key = "exit" -> "cancelled"
                  [] OTHER -> "null"
<1>2. t = [v EXCEPT !.pend = x]
  BY DEF Answered
<1>3. x \in {"CLALLb", "cancelled", "null"}
  BY DEF x
<1> HIDE DEF x
<1>4. v \in Calculators /\ v.clall = FALSE /\ Keeps(s, v, {"clall"})
  BY <1>1, PutClall
<1> HIDE DEF v
<1>5. Rest(v)
  <2>1. /\ v.menu = s.menu /\ v.sect = s.sect /\ v.lines = s.lines /\ v.pc = s.pc /\ v.saved = s.saved
        /\ v.alen = s.alen /\ v.nlen = s.nlen /\ v.num = s.num /\ v.prgm = s.prgm /\ v.inc = s.inc
        /\ v.alpha = s.alpha /\ v.rpc = s.rpc /\ v.pend = s.pend /\ v.mvars = s.mvars
    BY <1>4 DEF Keeps, Fields
  <2>2. Screen(s) /\ Fits(s)
    BY DEF Inv
  <2>3. Screen(v) /\ Fits(v) /\ (Stale(v) <=> Stale(s))
    <3>1. {"clall"} \subseteq Plainer
      BY DEF Plainer
    <3> QED
      BY <1>4, <2>2, <3>1, StaysFit
  <2>4. Counters(v) /\ EntryFits(v)
    BY <2>1 DEF Inv, Counters, EntryFits
  <2>5. ~Stale(s) /\ s.menu["command"] = "none" /\ ~s.rpc /\ s.saved = -1
    BY <1>1 DEF Inv, Modes
  <2> QED
    BY <1>1, <1>4, <2>1, <2>3, <2>4, <2>5 DEF Rest, Free, mode_command_entry
<1>6. x \in Words
  BY <1>3 DEF Words
<1>7. Acted(Ended(s), t)
  <2>1. x \in {"PGMSLVi", "PGMINTi"} => v.menu["app"] = "catalog"
    BY <1>3
  <2> QED
    BY <1>2, <1>5, <1>6, <2>1, Pends
<1> QED
  BY <1>1, <1>7, ActedFresh DEF Outcome

LEMMA ModeChanged ==
    ASSUME NEW s, Rest(s), NEW b \in BOOLEAN,
           NEW t, t = InMode(s, b)
    PROVE  Rest(t) /\ t.menu = s.menu /\ t.cb = s.cb
<1> DEFINE x == [s EXCEPT !.alpha = FALSE]
           y == [x EXCEPT !.prgm = b]
<1>1. s \in Calculators /\ Screen(s) /\ Fits(s)
  BY RestFacts
<1>2. t = [y EXCEPT !.vm = FALSE]
  BY DEF InMode
<1>3. x \in Calculators /\ x.alpha = FALSE /\ Keeps(s, x, {"alpha"})
  BY <1>1, PutAlpha
<1> HIDE DEF x
<1>4. y \in Calculators /\ y.prgm = b /\ Keeps(x, y, {"prgm"})
  BY <1>3, PutPrgm
<1> HIDE DEF y
<1>5. t \in Calculators /\ t.vm = FALSE /\ Keeps(y, t, {"vm"})
  BY <1>2, <1>4, PutVm
<1>6. Keeps(s, t, {"alpha", "prgm", "vm"})
  BY <1>3, <1>4, <1>5 DEF Keeps
<1>7. t.alpha = FALSE /\ t.cb = s.cb /\ t.lines = s.lines /\ t.pc = s.pc /\ t.saved = s.saved
      /\ t.alen = s.alen /\ t.nlen = s.nlen /\ t.num = s.num /\ t.inc = s.inc
      /\ t.clall = s.clall /\ t.rpc = s.rpc /\ t.pend = s.pend
  BY <1>3, <1>4, <1>5, <1>6 DEF Keeps, Fields
<1>8. Screen(t) /\ Fits(t) /\ (Stale(t) <=> Stale(s)) /\ t.menu = s.menu /\ t.sect = s.sect
  <2>1. {"alpha", "prgm", "vm"} \subseteq Plainer
    BY DEF Plainer
  <2> QED
    BY <1>1, <1>5, <1>6, <2>1, StaysFit
<1>9. Counters(t) /\ EntryFits(t)
  BY <1>7, <1>8 DEF Rest, Free, Counters, EntryFits
<1> QED
  BY <1>7, <1>8, <1>9 DEF Rest, Free, mode_command_entry

LEMMA ToggledRest ==
    ASSUME NEW s, Ready(s), ~mode_command_entry(s), NEW t, t = Toggled(s)
    PROVE  Rest(t)
<1> DEFINE v == IF s.prgm /\ s.num /\ ~s.alpha THEN store_command(s) ELSE EndAlpha(s)
           x == EndNumber(v)
           b == ~x.prgm
           w == InMode(x, b)
<1>1. /\ s \in Calculators /\ Screen(s) /\ Fits(s) /\ (s.num => ~s.alpha)
      /\ s.prgm \in BOOLEAN
  BY DEF Ready, Inv, Modes, Screen, Calculators
<1>2. Rest(x) /\ x.prgm = s.prgm
  <2>1. CASE s.num
    <3>1. x = EndNumber(IF s.prgm THEN store_command(s) ELSE s)
      <4>1. CASE s.prgm
        BY <1>1, <2>1, <4>1
      <4>2. CASE ~s.prgm
        <5>1. s.alpha = FALSE
          BY <1>1, <2>1 DEF Calculators
        <5>2. EndAlpha(s) = s
          BY <1>1, <4>2, <5>1, SameAlpha DEF EndAlpha
        <5> QED
          BY <4>2, <5>2
      <4> QED
        BY <4>1, <4>2
    <3>2. Rest(x)
      BY <2>1, <3>1, NumberLeft
    <3>3. x.prgm = s.prgm
      <4>1. CASE s.prgm
        <5>1. Calm(s) /\ s.pc # -1
          BY <2>1, <4>1, NumCalm DEF Ready
        <5>2. Calm(store_command(s)) /\ store_command(s).prgm = s.prgm
          BY <5>1, CalmStored
        <5> QED
          BY <3>1, <4>1, <5>2, NumberOut
      <4>2. CASE ~s.prgm
        BY <2>1, <3>1, <4>2, NumCalm, NumberOut DEF Ready
      <4> QED
        BY <4>1, <4>2
    <3> QED
      BY <3>2, <3>3
  <2>2. CASE ~s.num
    <3>1. v = EndAlpha(s)
      BY <2>2
    <3>2. Lettered(s)
      BY <2>2 DEF Lettered
    <3>3. Rest(v) /\ v.prgm = s.prgm
      BY <3>1, <3>2, EndAlphaRest
    <3> HIDE DEF v
    <3> QED
      BY <3>3, RestCalm, NumberOut
  <2> QED
    BY <2>1, <2>2
<1>3. \/ t = w
      \/ t = set_menu(w, "app", "base1") /\ ~s.prgm /\ s.menu["app"] = "baseAF"
      \/ t = set_menu(w, "plain", "none")
  BY DEF Toggled, InMode
<1>3b. b \in BOOLEAN
  OBVIOUS
<1>5a. ~s.prgm => x.menu["app"] = s.menu["app"]
  <2>1. CASE ~s.prgm
    <3> HIDE DEF b
    <3>1. v = [s EXCEPT !.alpha = FALSE]
      BY <2>1 DEF EndAlpha
    <3>2. v \in Calculators /\ Keeps(s, v, {"alpha"})
      BY <1>1, <3>1, PutAlpha
    <3>3. v.menu = s.menu
      BY <3>2 DEF Keeps, Fields
    <3>4. x.menu = v.menu
      <4> DEFINE y == [v EXCEPT !.num = FALSE]
      <4>1. x = [y EXCEPT !.nlen = 0]
        BY DEF EndNumber
      <4> HIDE DEF x, v
      <4>2. y \in Calculators /\ Keeps(v, y, {"num"})
        BY <3>2, PutNum
      <4>2a. y.menu = v.menu
        BY <4>2 DEF Keeps, Fields
      <4> HIDE DEF y
      <4>3. Keeps(y, x, {"nlen"})
        BY <4>1, <4>2, PutNlen
      <4> QED
        BY <4>2a, <4>3 DEF Keeps, Fields
    <3> QED
      BY <3>3, <3>4
  <2> QED
    BY <2>1
<1> HIDE DEF v, x
<1> HIDE DEF b
<1>5. Rest(w) /\ w.menu = x.menu
  BY <1>2, <1>3b, ModeChanged
<1> HIDE DEF w
<1>6. CASE t = w
  BY <1>5, <1>6
<1>7. CASE t = set_menu(w, "app", "base1") /\ ~s.prgm /\ s.menu["app"] = "baseAF"
  <2>1. w.menu["app"] = "baseAF"
    BY <1>5a, <1>5, <1>7
  <2>2. Screen(w) /\ Fits(w)
    BY <1>5, RestFacts
  <2>3. OwnMenu(w, "base1")
    BY <2>1, <2>2 DEF OwnMenu, Fits, BaseMenus
  <2>4. Steers(w, t)
    <3>1. "base1" \in AppMenus \ {"varmenu"}
      BY DEF AppMenus
    <3> QED
      BY <1>7, <2>2, <2>3, <3>1, SteersApp
  <2> QED
    BY <1>5, <2>4, RestSteers
<1>8. CASE t = set_menu(w, "plain", "none")
  <2>1. "plain" \in Levels \ {"app"} /\ "none" \in MenusOf("plain")
    BY LevelFacts, MenusOfLevels
  <2>2. Steers(w, t)
    BY <1>5, <1>8, <2>1, RestFacts, SteersAt
  <2> QED
    BY <1>5, <2>2, RestSteers
<1> QED
  BY <1>3, <1>6, <1>7, <1>8

(* The letters of the hex digits *)
LEMMA BaseMenuLevel ==
    ASSUME NEW s, Screen(s), get_front_menu(s) \in BaseMenus
    PROVE  get_cat_index(s) = "app" /\ s.menu["app"] \in BaseMenus
<1> DEFINE l == get_cat_index(s)
<1>1. l \in Levels
  BY FrontLevel
<1>2. s.menu[l] \in MenusOf(l) /\ s.menu[l] \in BaseMenus
  BY <1>1 DEF Screen, get_front_menu
<1> HIDE DEF l
<1>3. l \notin {"command", "alpha", "transient", "plain"}
  BY <1>2, MenusOfLevels DEF BaseMenus, CommandMenus, AlphaMenus, PlainMenus
<1>4. l = "app"
  BY <1>1, <1>3, LevelFacts
<1> QED
  BY <1>2, <1>4 DEF l

LEMMA LettersFetched ==
    ASSUME NEW s, Ready(s), s.num, get_front_menu(s) = "base1",
           NEW t, t = set_menu(s, "app", "baseAF")
    PROVE  Outcome(s, t) /\ ~mode_command_entry(s)
<1>1. /\ Calm(s) /\ s.nlen \in 1 .. NumLength /\ ~alpha_active(s)
      /\ (s.prgm => s.pc \in 0 .. s.lines) /\ Screen(s) /\ Fits(s)
  BY NumCalm DEF Ready, Calm
<1>2. s.menu["app"] \in BaseMenus
  BY <1>1, BaseMenuLevel DEF BaseMenus
<1>3. OwnMenu(s, "baseAF") /\ "baseAF" \in AppMenus \ {"varmenu"} /\ "baseAF" # "none"
  BY <1>1, <1>2 DEF OwnMenu, Fits, BaseMenus, AppMenus
<1>4. Steers(s, t) /\ Sunk(s, t)
  BY <1>1, <1>3, SteersApp, SetApp, FitsTold
<1>5. Calm(t) /\ t.pc = s.pc /\ t.lines = s.lines /\ t.prgm = s.prgm /\ t.nlen = s.nlen /\ t.num = s.num
  BY <1>1, <1>4, CalmSteers
<1>6. ~alpha_active(t)
  <2>1. s.menu["alpha"] \notin AlphaMenus
    BY <1>1, LettersUp DEF Calm
  <2>2. t.menu["alpha"] \in {"none", s.menu["alpha"]}
    BY <1>4, LevelFacts DEF Sunk
  <2>3. t.menu["alpha"] \notin AlphaMenus
    BY <2>1, <2>2 DEF AlphaMenus
  <2> QED
    BY <1>5, <2>3, LettersUp DEF Calm
<1>7. \A w : Acted(w, t)
  <2>1. t \in Calculators /\ Keeps(t, t, NumFields)
    BY <1>5, KeepsNothing DEF Calm, Screen
  <2>2. t.pc \in -1 .. t.lines /\ t.nlen \in 0 .. NumLength /\ (t.num <=> t.nlen # 0)
    BY <1>5 DEF Calm, Counters
  <2>3. t.num => ~alpha_active(t) /\ (t.prgm => t.pc # -1)
    BY <1>1, <1>5, <1>6
  <2> QED
    BY <1>5, <2>1, <2>2, <2>3, Typing
<1> QED
  BY <1>1, <1>7, ActedFresh DEF Outcome, Calm

-----------------------------------------------------------------------------
(* A key goes down                                                         *)

LEMMA RestString ==
    ASSUME NEW s, Lettered(s), NEW t, Rest(t) PROVE StringKey(s, t)
<1>1. Steers(s, s)
  BY LetteredFacts, SteersSame
<1>2. Acted(EndAlpha(s), t) /\ t.pend = "none"
  BY RestActed DEF Rest, Free
<1> QED
  BY <1>1, <1>2, OverQuiet

LEMMA StepString ==
    ASSUME NEW s, Lettered(s), NEW e, NEW t, t = Step(s, e)
    PROVE  StringKey(s, t)
<1> DEFINE r == EndAlpha(s)
           c == clear_all_rtns(r)
<1>1. Rest(r)
  BY EndAlphaRest
<1>2. t = bst(c) \/ t = sst(c)
  BY DEF Step
<1> HIDE DEF r
<1>3. Steers(r, c)
  BY <1>1, RestFacts, SteersRtns
<1> HIDE DEF c
<1>4. Rest(t)
  BY <1>1, <1>2, <1>3, RestSteers, SteppedRest
<1> QED
  BY <1>4, RestString

LEMMA RowsFrame ==
    ASSUME NEW s, Screen(s), Fits(s), NEW e, InRows(s, e),
           NEW t, t = set_cat_section(s, Row(get_cat_section(s), e))
    PROVE  /\ Steers(s, t) /\ Keeps(s, t, {"sect"}) /\ t.menu = s.menu
           /\ ~alpha_active(s)
<1> DEFINE x == Row(get_cat_section(s), e)
<1>1. get_front_menu(s) = "catalog" /\ get_cat_section(s) \in {"top", "ext1", "ext2"}
  BY DEF InRows
<1>2. x \in {"top", "ext1", "ext2"}
  BY <1>1 DEF Row
<1> HIDE DEF x
<1>3. x \in Sections /\ x \notin ProgramSections /\ x \notin ArgumentSections
  BY <1>2 DEF Sections, ProgramSections, ArgumentSections
<1>4. s.menu[get_cat_index(s)] = "catalog"
  BY <1>1 DEF get_front_menu
<1>5. t = set_cat_section(s, x)
  BY DEF x
<1>6. ~alpha_active(s)
  BY <1>1 DEF alpha_active, AlphaMenus
<1> QED
  BY <1>3, <1>4, <1>5, <1>6, SteersSection

LEMMA RowsString ==
    ASSUME NEW s, Lettered(s), NEW e, InRows(s, e),
           NEW t, t = set_cat_section(s, Row(get_cat_section(s), e))
    PROVE  StringKey(s, t)
<1>1. Steers(s, t) /\ ~alpha_active(s)
  BY LetteredFacts, RowsFrame
<1>2. Rest(s)
  BY <1>1, LetteredFacts
<1>3. Rest(t)
  BY <1>1, <1>2, RestSteers
<1> QED
  BY <1>3, RestString

LEMMA ShowLineString ==
    ASSUME NEW s, Lettered(s), ~s.prgm, NEW t, t = ShowLine(s)
    PROVE  StringKey(s, t)
<1> DEFINE c == clear_all_rtns(s)
           p == IF c.pc = -1 THEN c.lines ELSE c.pc - 1
           r == EndAlpha(c)
           q == [r EXCEPT !.pc = p]
<1>1. Screen(s) /\ Fits(s)
  BY LetteredFacts
<1>2. Steers(s, c)
  BY <1>1, SteersRtns
<1>3. t = [[[c EXCEPT !.pc = p] EXCEPT !.alpha = FALSE] EXCEPT !.pend = "cancelled"]
  BY DEF ShowLine, bst
<1> HIDE DEF c
<1>4. c \in Calculators /\ c.prgm = s.prgm /\ c.pc = s.pc /\ c.lines = s.lines
  BY <1>2 DEF Steers, Screen, Keeps, Fields, MenuFields, AppFields
<1>5. r = [c EXCEPT !.alpha = FALSE]
  BY <1>4 DEF EndAlpha
<1>6. Rest(r) /\ r.lines = s.lines
  BY <1>2, EndAlphaAfter
<1>7. p \in -1 .. s.lines
  <2>1. s.pc \in -1 .. s.lines /\ s.lines \in Nat
    BY LetteredFacts
  <2> QED
    BY <1>4, <2>1
<1> HIDE DEF p
<1>8. t = [[[c EXCEPT !.alpha = FALSE] EXCEPT !.pc = p] EXCEPT !.pend = "cancelled"]
  BY <1>3, <1>4 DEF Calculators
<1>9. t = [q EXCEPT !.pend = "cancelled"]
  BY <1>5, <1>8
<1> HIDE DEF r
<1>10. Rest(q)
  BY <1>6, <1>7, RestMoves
<1> HIDE DEF q
<1>11. \A w : Acted(w, t)
  BY <1>9, <1>10, WordFacts, Pends
<1>12. Acted(EndAlpha(c), t)
  BY <1>11
<1> QED
  BY <1>2, <1>12, OverQuiet

(* No command is being entered, and no number *)
LEMMA LetteredKey ==
    ASSUME NEW s, Lettered(s), NEW e, Fitting(s, e), ~(e.key = "CUSTOM" /\ s.prgm /\ s.alpha),
           NEW t, t = Dispatched(s, e)
    PROVE  StringKey(s, t)
<1>1. ~mode_command_entry(s) /\ ~s.num
  BY DEF Lettered
<1>2. CASE Stepping(s, e) /\ s.prgm
  <2>1. t = Step(s, e)
    BY <1>1, <1>2 DEF Dispatched
  <2> QED
    BY <2>1, StepString
<1>3. CASE ~(Stepping(s, e) /\ s.prgm) /\ InRows(s, e)
  <2>1. t = set_cat_section(s, Row(get_cat_section(s), e))
    BY <1>1, <1>3 DEF Dispatched
  <2> QED
    BY <1>3, <2>1, RowsString
<1>4. CASE ~(Stepping(s, e) /\ s.prgm) /\ ~InRows(s, e) /\ Stepping(s, e) /\ Up(e)
  <2>1. t = ShowLine(s) /\ ~s.prgm
    BY <1>1, <1>4 DEF Dispatched
  <2> QED
    BY <2>1, ShowLineString
<1>5. CASE ~(Stepping(s, e) /\ s.prgm) /\ ~InRows(s, e) /\ ~(Stepping(s, e) /\ Up(e))
  <2>1. t = ByMode(s, e)
    BY <1>1, <1>5 DEF Dispatched
  <2>2. CASE alpha_active(s)
    <3>1. t = keydown_alpha_mode(s, e)
      BY <1>1, <2>1, <2>2 DEF ByMode
    <3> QED
      BY <2>2, <3>1, AlphaModeString
  <2>3. CASE ~alpha_active(s)
    <3>1. t = keydown_normal_mode(s, e)
      BY <1>1, <2>1, <2>3 DEF ByMode
    <3>2. ~s.alpha /\ Plainly(s)
      BY <2>3, LetteredFacts DEF Plainly
    <3>3. Acted(s, t)
      BY <3>1, <3>2, NormalActed
    <3> QED
      BY <3>2, <3>3, ActedString
  <2> QED
    BY <2>2, <2>3
<1> QED
  BY <1>2, <1>3, <1>4, <1>5

(* A command is being entered *)
LEMMA EntryKey ==
    ASSUME NEW s, Entering(s), NEW e, KeyFits(s, e), NEW t, t = Dispatched(s, e)
    PROVE  t = s \/ EntryStep(s, t) \/ Lingers(s, t)
<1>1. mode_command_entry(s) /\ ~s.num /\ Inv(s) /\ s.pend = "none" /\ Screen(s) /\ Fits(s)
      /\ ~s.alpha
  BY DEF Entering, Inv, Modes
<1>2. CASE Stepping(s, e)
  BY <1>1, <1>2 DEF Dispatched
<1>3. CASE ~Stepping(s, e) /\ InRows(s, e)
  <2>1. t = set_cat_section(s, Row(get_cat_section(s), e))
    BY <1>1, <1>3 DEF Dispatched
  <2>2. Steers(s, t) /\ Keeps(s, t, {"sect"}) /\ t.menu = s.menu
    BY <1>1, <1>3, <2>1, RowsFrame
  <2>3. Apart(s, t)
    BY <2>2 DEF Apart, Keeps
  <2>4. Inv(t)
    BY <1>1, <2>2, <2>3, ApartInv DEF Steers
  <2>5. t.pend = s.pend /\ t.inc = s.inc
    BY <2>2 DEF Keeps, Fields
  <2>6. GoesOn(s, t)
    BY <1>1, <2>2, <2>4, <2>5 DEF GoesOn, Entering, mode_command_entry, Keeps, BelowSame
  <2> QED
    BY <2>6 DEF EntryStep
<1>4. CASE ~Stepping(s, e) /\ ~InRows(s, e)
  <2>1. t = ByMode(s, e)
    BY <1>1, <1>4 DEF Dispatched
  <2>2. t = keydown_command_entry(s, e)
    BY <1>1, <2>1 DEF ByMode
  <2> QED
    BY <2>2, EntryKeySteps
<1> QED
  BY <1>2, <1>3, <1>4

(* The keys of a number *)
LEMMA NumberKeyOn ==
    ASSUME NEW s, s.num, NEW e, is_number_key(s, e) \/ e.key = "bsp" \/ e.key = "chs",
           NEW t, t = Dispatched(s, e)
    PROVE  t = keydown_number_entry(s, e)
<1>1. e.key \in {"top", "digit", "dot", "E", "bsp", "chs"}
  BY DEF is_number_key
<1>2. ~Up(e) /\ ~Down(e)
  BY <1>1 DEF Up, Down
<1>3. ~Stepping(s, e) /\ ~InRows(s, e)
  BY <1>2 DEF Stepping, InRows
<1>4. t = ByMode(s, e)
  BY <1>3 DEF Dispatched
<1> QED
  BY <1>4 DEF ByMode

LEMMA NumberKey ==
    ASSUME NEW s, Ready(s), s.num, NEW e, NEW v, v = LeaveNumber(s, e), Fitting(v, e),
           ~(e.key = "CUSTOM" /\ s.prgm /\ s.alpha), NEW t, t = Dispatched(v, e)
    PROVE  Outcome(s, t)
<1>1. ~s.alpha
  BY DEF Ready, Inv, Modes
<1>2. CASE ~is_number_key(s, e) /\ e.key # "bsp" /\ (e.key # "chs" \/ basekeys(s) \/ s.hex)
  <2>1. v = EndNumber(IF s.prgm THEN store_command(s) ELSE s)
    BY <1>2 DEF LeaveNumber
  <2>2. Rest(v) /\ v.pc = Ended(s).pc /\ v.lines = Ended(s).lines /\ v.prgm = Ended(s).prgm
    BY <2>1, NumberLeft
  <2>3. Lettered(v) /\ ~v.alpha
    BY <2>2, RestInv DEF Lettered, Ready, Rest, Free
  <2>4. StringKey(v, t)
    BY <2>3, LetteredKey
  <2>5. Fresh(v, t)
    BY <2>3, <2>4 DEF StringKey
  <2> QED
    BY <1>1, <2>2, <2>5, FreshFrom DEF Outcome
<1>3. CASE ~(~is_number_key(s, e) /\ e.key # "bsp" /\ (e.key # "chs" \/ basekeys(s) \/ s.hex))
  <2>1. v = s
    BY <1>3 DEF LeaveNumber
  <2>2. t = keydown_number_entry(s, e)
    BY <1>3, <2>1, NumberKeyOn
  <2>3. \A w : Acted(w, t)
    BY <2>2, NumberSteps DEF Ready
  <2> QED
    BY <1>1, <2>3, ActedFresh DEF Outcome
<1> QED
  BY <1>2, <1>3

LEMMA KeyResults ==
    ASSUME NEW s, Inv(s), s.pend = "none", NEW e, Fitting(LeaveNumber(s, e), e),
           mode_command_entry(s) => KeyFits(s, e),
           ~(e.key = "CUSTOM" /\ s.prgm /\ s.alpha),
           NEW t, t = keydown(s, e)
    PROVE  KeyResult(s, t)
<1>1. CASE s.clall
  <2>1. t = Answered(s, e)
    BY <1>1 DEF keydown
  <2> QED
    BY <1>1, <2>1, AnsweredOutcome DEF KeyResult
<1>2. CASE ~s.clall /\ e.key = "PRGM"
  <2>1. t = Toggled(s) /\ Ready(s)
    BY <1>2 DEF keydown, Ready, ToLetters
  <2>2. CASE mode_command_entry(s)
    BY <2>1, <2>2 DEF Toggled, KeyResult
  <2>3. CASE ~mode_command_entry(s)
    BY <2>1, <2>3, ToggledRest, RestOutcome DEF KeyResult
  <2> QED
    BY <2>2, <2>3
<1>3. CASE ~s.clall /\ e.key # "PRGM" /\ ToLetters(s, e)
  <2>1. t = set_menu(s, "app", "baseAF") /\ Ready(s) /\ s.num /\ get_front_menu(s) = "base1"
    BY <1>3 DEF keydown, Ready, ToLetters
  <2> QED
    BY <2>1, LettersFetched DEF KeyResult
<1>4. CASE ~s.clall /\ e.key # "PRGM" /\ ~ToLetters(s, e)
  <2> DEFINE v == LeaveNumber(s, e)
  <2>1. t = Dispatched(v, e) /\ Ready(s)
    BY <1>4 DEF keydown, Ready
  <2>2. Fitting(v, e)
    OBVIOUS
  <2>3. CASE s.num
    <3>1. ~mode_command_entry(s)
      BY <2>1, <2>3 DEF Ready, Inv, Modes
    <3> HIDE DEF v
    <3>2. v = LeaveNumber(s, e)
      BY DEF v
    <3>3. Outcome(s, t)
      BY <2>1, <2>2, <2>3, <3>2, NumberKey
    <3> QED
      BY <3>1, <3>3 DEF KeyResult
  <2>4. CASE ~s.num
    <3>1. v = s
      BY <2>4 DEF LeaveNumber
    <3>2. t = Dispatched(s, e) /\ Fitting(s, e)
      BY <2>1, <2>2, <3>1
    <3>3. CASE mode_command_entry(s)
      <4>1. Entering(s)
        BY <3>3 DEF Entering
      <4> QED
        BY <3>2, <3>3, <4>1, EntryKey DEF KeyResult
    <3>4. CASE ~mode_command_entry(s)
      <4>1. Lettered(s)
        BY <2>1, <2>4, <3>4 DEF Lettered
      <4> QED
        BY <3>2, <3>4, <4>1, LetteredKey, StringOutcome DEF KeyResult
    <3> QED
      BY <3>3, <3>4
  <2> QED
    BY <2>3, <2>4
<1> QED
  BY <1>1, <1>2, <1>3, <1>4

-----------------------------------------------------------------------------
(* The keys that are pressed fit the state they are pressed in             *)

LEMMA NumberKeySame ==
    ASSUME NEW s, NEW e, NEW k, k.key = e.key
    PROVE  LeaveNumber(s, k) = LeaveNumber(s, e)
  BY DEF LeaveNumber, is_number_key

LEMMA SectionsOffer ==
    ASSUME NEW s, NEW x, NEW item \in SectionItems(s, x)
    PROVE  /\ item # "wide" /\ (item = "cmp" => x = "ext")
           /\ x \in {"fcn", "ext", "misc", "cmp"} => item \in Found \cup {"no", "cmp"}
<1>1. CASE x = "top"
  BY <1>1 DEF SectionItems
<1>2. CASE x \in {"ext1", "ext2"}
  BY <1>2 DEF SectionItems
<1>3. CASE x \in {"pgm", "pgm_only"}
  BY <1>3 DEF SectionItems
<1>4. CASE x = "ext"
  BY <1>4 DEF SectionItems, Found
<1>5. CASE x \in {"fcn", "misc", "cmp"}
  BY <1>5 DEF SectionItems, Found
<1>6. CASE x \notin {"top", "ext1", "ext2", "pgm", "pgm_only", "ext", "fcn", "misc", "cmp"}
  BY <1>6 DEF SectionItems
<1> QED
  BY <1>1, <1>2, <1>3, <1>4, <1>5, <1>6

LEMMA NothingWide ==
    ASSUME NEW s
    PROVE  /\ \A m : "wide" \notin FunctionItems(m)
           /\ "wide" \notin TopItems(s) /\ "wide" \notin EnterItems(s)
<1>1. \A m : "wide" \notin FunctionItems(m)
  BY DEF FunctionItems
<1>2. "wide" \notin SectionItems(s, get_cat_section(s))
  BY SectionsOffer
<1>3. "wide" \notin TopItems(s)
  <2>1. CASE s.clall
    BY <2>1 DEF TopItems
  <2>2. CASE ~s.clall /\ Offering(s) = "catalog"
    BY <1>2, <2>2 DEF TopItems
  <2>3. CASE ~s.clall /\ Offering(s) # "catalog" /\ Offering(s) \in Custom
    BY <2>3 DEF TopItems
  <2>4. CASE ~s.clall /\ Offering(s) # "catalog" /\ Offering(s) \notin Custom
    BY <1>1, <2>4 DEF TopItems
  <2> QED
    BY <2>1, <2>2, <2>3, <2>4
<1>4. "wide" \notin EnterItems(s)
  BY DEF EnterItems
<1> QED
  BY <1>1, <1>3, <1>4

LEMMA ItemsFit ==
    ASSUME ~Flawed, hand \in Hands, NEW s, NEW k, NEW item \in Items(s, k)
    PROVE  /\ k = "top" => item \in TopItems(s)
           /\ k \in {"enter", "ALPHA"} => item \in EnterItems(s)
           /\ k = "map" => item \in Reached \cup {"op"}
           /\ item # "wide"
<1>1. CASE k = "top"
  BY <1>1, NothingWide DEF Items
<1>2. CASE k \in {"enter", "ALPHA"}
  BY <1>2, NothingWide DEF Items
<1>3. CASE k = "digit"
  <2>1. item \in {"no", "list"}
    BY <1>3 DEF Items
  <2> QED
    BY <1>3, <2>1
<1>4. CASE k = "bsp"
  <2>1. item \in {"no", "len"}
    BY <1>4 DEF Items
  <2> QED
    BY <1>4, <2>1
<1>5. CASE k = "exit"
  <2>1. item \in {"no", "run"}
    BY <1>5 DEF Items
  <2> QED
    BY <1>5, <2>1
<1>6. CASE k = "map"
  <2>1. item \in hand.commands
    BY <1>6 DEF Items
  <2>2. item \in Reached \cup {"op"}
    BY <2>1, HandsAssumption
  <2> QED
    BY <1>6, <2>2 DEF Reached
<1>7. CASE k = "chs"
  <2>1. item \in {"no", "minus"}
    BY <1>7 DEF Items
  <2> QED
    BY <1>7, <2>1
<1>8. CASE k \notin {"top", "enter", "ALPHA", "digit", "bsp", "chs", "exit", "map"}
  <2>1. item \in {"no"}
    BY <1>8 DEF Items
  <2> QED
    BY <1>8, <2>1
<1> QED
  BY <1>1, <1>2, <1>3, <1>4, <1>5, <1>6, <1>7, <1>8

LEMMA EntryOffers ==
    ASSUME NEW s, Entering(s), s.menu["command"] = "catalog"
    PROVE  TopItems(s) = SectionItems(s, s.sect["command"])
<1>1. mode_command_entry(s) /\ ~s.clall
  BY DEF Entering, Inv, Modes
<1>2. get_cat_index(s) = "command"
  BY FrontLevel, LevelFacts
<1>3. Offering(s) = "catalog" /\ get_cat_section(s) = s.sect["command"]
  BY <1>1, <1>2 DEF Offering, get_front_menu, get_cat_section
<1>4. "catalog" \notin Custom
  BY DEF Custom
<1>5. TopItems(s) = SectionItems(s, get_cat_section(s))
  BY <1>1, <1>3, <1>4 DEF TopItems
<1> QED
  BY <1>3, <1>5

LEMMA PressedFits ==
    ASSUME ~Flawed, hand \in Hands, NEW s, Inv(s), s.pend = "none", NEW e \in Pressed(s)
    PROVE  /\ Fitting(LeaveNumber(s, e), e)
           /\ mode_command_entry(s) => KeyFits(s, e)
           /\ ~(e.key = "CUSTOM" /\ s.prgm /\ s.alpha)
<1>1. PICK k \in Keys : /\ e \in {[key |-> k, item |-> i] : i \in Meant(s, k) \ (Reached \ hand.commands)}
                        /\ ~Avoided(s, k)
  BY DEF Pressed
<1>2. PICK i \in Meant(s, k) : e = [key |-> k, item |-> i]
  BY <1>1
<1>3. e.key = k /\ e.item = i
  BY <1>2
<1> DEFINE v == LeaveNumber(s, e)
<1>4. i \in Items(v, k)
  <2>1. LeaveNumber(s, [key |-> k, item |-> "no"]) = v
    BY <1>3, NumberKeySame
  <2> QED
    BY <1>2, <2>1 DEF Meant
<1> HIDE DEF v
<1>5. Fitting(v, e)
  BY <1>3, <1>4, ItemsFit DEF Fitting
<1>6. ASSUME mode_command_entry(s) PROVE KeyFits(s, e)
  <2>1. ~s.num /\ Entering(s)
    BY <1>6 DEF Entering, Inv, Modes
  <2>2. v = s
    BY <2>1 DEF v, LeaveNumber
  <2>3. NameFits(s, e)
    <3>1. ASSUME e.key \in {"enter", "ALPHA"}, s.inc.cmd = "XEQ", s.inc.alpha
          PROVE  e.item \in Found \cup {"local"}
      <4>1. e.item \in EnterItems(s)
        BY <1>5, <2>2, <3>1 DEF Fitting
      <4>2. EnterItems(s) = {"XEQ", "op", "STO", "BST", "CLALLa", "local"}
        BY <3>1 DEF EnterItems
      <4> QED
        BY <4>1, <4>2 DEF Found
    <3> QED
      BY <3>1 DEF NameFits
  <2>4. ASSUME e.key = "top", s.menu["command"] = "catalog"
        PROVE  ItemFits(s, e.item) /\ (e.item = "cmp" => s.sect["command"] = "ext")
    <3>1. e.item \in SectionItems(s, s.sect["command"])
      BY <1>5, <2>1, <2>2, <2>4, EntryOffers DEF Fitting
    <3> QED
      BY <3>1, SectionsOffer DEF ItemFits
  <2> QED
    BY <2>3, <2>4 DEF KeyFits
<1>7. ~(e.key = "CUSTOM" /\ s.prgm /\ s.alpha)
  BY <1>1, <1>3 DEF Avoided
<1> QED
  BY <1>5, <1>6, <1>7 DEF v

-----------------------------------------------------------------------------
(* A key goes down                                                         *)

LEMMA SameLetters ==
    ASSUME NEW s, NEW t, t.menu = s.menu
    PROVE  alpha_active(t) = alpha_active(s)
<1>1. get_cat_index(t) = get_cat_index(s)
  BY FrontLevel
<1> QED
  BY <1>1 DEF alpha_active, get_front_menu

LEMMA ListeningInv ==
    ASSUME NEW s, Inv(s), s.pend \in {"none", "linger2"}, NEW r \in BOOLEAN,
           NEW t, t = Listening(s, r)
    PROVE  /\ Inv(t) /\ t.pend = "none" /\ t.menu = s.menu
           /\ Keeps(s, t, {"pend", "refuse"})
<1> DEFINE v == [s EXCEPT !.pend = "none"]
<1>1. s \in Calculators /\ Screen(s) /\ Fits(s) /\ ~Stale(s) /\ "none" \in Words
  BY DEF Inv, Modes, Screen, Words
<1>2. t = [v EXCEPT !.refuse = r]
  BY DEF Listening
<1>3. v \in Calculators /\ v.pend = "none" /\ Keeps(s, v, {"pend"})
  BY <1>1, PutPend
<1> HIDE DEF v
<1>4. t \in Calculators /\ Keeps(v, t, {"refuse"})
  BY <1>2, <1>3, PutRefuse
<1>5. Keeps(s, t, {"pend", "refuse"}) /\ t.pend = "none"
  BY <1>3, <1>4 DEF Keeps, Fields
<1>6. {"pend", "refuse"} \subseteq Plainer
  BY DEF Plainer
<1>7. Screen(t) /\ Fits(t) /\ ~Stale(t) /\ t.menu = s.menu
  BY <1>1, <1>4, <1>5, <1>6, StaysFit
<1>8. /\ t.pc = s.pc /\ t.lines = s.lines /\ t.saved = s.saved /\ t.prgm = s.prgm
      /\ t.inc = s.inc /\ t.alpha = s.alpha /\ t.alen = s.alen /\ t.num = s.num
      /\ t.nlen = s.nlen /\ t.clall = s.clall /\ t.rpc = s.rpc
  BY <1>5 DEF Keeps, Fields
<1>9. EntryFits(t) /\ Counters(t)
  BY <1>7, <1>8 DEF Inv, EntryFits, Counters
<1>10. ~s.rpc
  BY DEF Inv, Modes
<1>11. mode_command_entry(t) = mode_command_entry(s) /\ alpha_active(t) = alpha_active(s)
  BY <1>7, <1>8, SameLetters DEF mode_command_entry
<1>12. Modes(t)
  BY <1>5, <1>7, <1>8, <1>10, <1>11 DEF Inv, Modes, Quiet
<1> QED
  BY <1>5, <1>7, <1>9, <1>12 DEF Inv

(* What SHOW and its like put on the display leaves an entry as it is. *)
LEMMA LingersInv ==
    ASSUME NEW s, Inv(s), mode_command_entry(s), s.pend = "none", NEW t, Lingers(s, t)
    PROVE  Inv(t) /\ t.menu = s.menu /\ Keeps(s, t, {"pend"})
<1>1. s \in Calculators /\ Screen(s) /\ Fits(s) /\ ~Stale(s) /\ "linger1" \in Words
  BY DEF Inv, Modes, Screen, Words
<1>2. t \in Calculators /\ t.pend = "linger1" /\ Keeps(s, t, {"pend"})
  BY <1>1, PutPend DEF Lingers
<1>3. {"pend"} \subseteq Plainer
  BY DEF Plainer
<1>4. Screen(t) /\ Fits(t) /\ ~Stale(t) /\ t.menu = s.menu
  BY <1>1, <1>2, <1>3, StaysFit
<1>5. /\ t.pc = s.pc /\ t.lines = s.lines /\ t.saved = s.saved /\ t.prgm = s.prgm
      /\ t.inc = s.inc /\ t.alpha = s.alpha /\ t.alen = s.alen /\ t.num = s.num
      /\ t.nlen = s.nlen /\ t.clall = s.clall /\ t.rpc = s.rpc
  BY <1>2 DEF Keeps, Fields
<1>6. EntryFits(t) /\ Counters(t)
  BY <1>4, <1>5 DEF Inv, EntryFits, Counters
<1>7. mode_command_entry(t) /\ ~t.num /\ ~t.alpha /\ ~t.clall /\ ~t.rpc
  BY <1>5 DEF Inv, Modes, mode_command_entry
<1>8. Modes(t)
  BY <1>2, <1>4, <1>5, <1>7 DEF Inv, Modes, Quiet
<1> QED
  BY <1>2, <1>4, <1>6, <1>8 DEF Inv

LEMMA KeyInv ==
    ASSUME NEW s, Inv(s), s.pend = "none", NEW t, KeyResult(s, t)
    PROVE  Inv(t)
<1>1. CASE mode_command_entry(s)
  BY <1>1, LingersInv DEF KeyResult, EntryStep, GoesOn, Entering, IsOver
<1>2. CASE ~mode_command_entry(s)
  BY <1>2 DEF KeyResult, Outcome, AlphaOn, AlphaOver, Acted, Fresh
<1> QED
  BY <1>1, <1>2

LEMMA EndedParts ==
    ASSUME NEW s, Inv(s), ~Stale(s)
    PROVE  Ended(s).pc = EndedPc(s) /\ Ended(s).lines = EndedLines(s)
<1> DEFINE v == store_command(s)
<1>1. /\ s \in Calculators /\ Screen(s) /\ Fits(s) /\ s.lines \in 0 .. MaxLines
      /\ s.alpha \in BOOLEAN /\ s.prgm \in BOOLEAN /\ s.num \in BOOLEAN
  BY DEF Inv, Screen, Counters, Calculators
<1>2. v.pc = s.pc /\ v.lines = StoredLines(s) /\ v \in Calculators
  BY <1>1, StoreFrame, StoredLine DEF StoredAt, Screen
<1>3. CASE s.num /\ s.prgm
  BY <1>2, <1>3 DEF Ended, EndedPc, EndedLines
<1>4. CASE ~(s.num /\ s.prgm) /\ ~(s.alpha /\ s.prgm)
  <2>1. Ended(s) = [s EXCEPT !.alpha = FALSE]
    BY <1>4 DEF Ended, EndAlpha
  <2> QED
    BY <1>1, <1>4, <2>1 DEF EndedPc, EndedLines, Calculators
<1>5. CASE ~(s.num /\ s.prgm) /\ s.alpha /\ s.prgm /\ s.alen = 0
  <2>1. Ended(s) = [[s EXCEPT !.pc = s.saved, !.saved = -1] EXCEPT !.alpha = FALSE]
    BY <1>5 DEF Ended, EndAlpha, finish_alpha_prgm_line, Restored
  <2> QED
    BY <1>1, <1>5, <2>1 DEF EndedPc, EndedLines, Calculators
<1>6. CASE ~(s.num /\ s.prgm) /\ s.alpha /\ s.prgm /\ s.alen # 0
  <2>1. Ended(s) = [v EXCEPT !.alpha = FALSE, !.alen = 0, !.saved = -1]
    BY <1>6 DEF Ended, EndAlpha, finish_alpha_prgm_line
  <2> HIDE DEF v
  <2> QED
    BY <1>2, <1>6, <2>1 DEF EndedPc, EndedLines, Calculators
<1> QED
  BY <1>1, <1>3, <1>4, <1>5, <1>6

LEMMA EndedAlike ==
    ASSUME NEW s, Inv(s), s.pend \in {"none", "linger2"}, NEW r \in BOOLEAN,
           NEW t, t = Listening(s, r)
    PROVE  Ended(t).pc = Ended(s).pc /\ Ended(t).lines = Ended(s).lines
<1>1. ~Stale(s)
  BY DEF Inv, Modes
<1>2. Inv(t) /\ t.pend = "none" /\ Keeps(s, t, {"pend", "refuse"})
  BY ListeningInv
<1>3. ~Stale(t)
  BY <1>2 DEF Inv, Modes
<1>4. /\ t.pc = s.pc /\ t.lines = s.lines /\ t.saved = s.saved /\ t.prgm = s.prgm
      /\ t.alpha = s.alpha /\ t.alen = s.alen /\ t.num = s.num /\ t.locked = s.locked
  BY <1>2 DEF Keeps, Fields
<1>5. EndedPc(t) = EndedPc(s) /\ EndedLines(t) = EndedLines(s)
  BY <1>4 DEF EndedPc, EndedLines, StoredLines, Refuses
<1> QED
  BY <1>1, <1>2, <1>3, <1>5, EndedParts

LEMMA BelowAlike ==
    ASSUME NEW s, NEW t, BelowSame(s, t)
    PROVE  Below(t) = Below(s)
  BY DEF BelowSame, Below

LEMMA BelowThrough ==
    ASSUME NEW s, NEW v, NEW t, BelowSame(s, v), BelowSame(v, t)
    PROVE  BelowSame(s, t)
  BY DEF BelowSame

(* The entry is not over: home is where it was. *)
LEMMA HomeKept ==
    ASSUME NEW s, Inv(s), NEW t, Inv(t), BelowSame(s, t), NEW h, HomeOK(s, h),
           t.saved = s.saved, t.lines = s.lines, t.prgm = s.prgm,
           \/ mode_command_entry(s) /\ t.pc = s.pc /\ mode_command_entry(t)
              /\ (t.inc.cmd # "PRP" => s.inc.cmd # "PRP")
           \/ s.alpha /\ t.alpha
    PROVE  HomeOK(t, HomeAfter(s, t, h)) /\ HomeAfter(s, t, h) = h /\ Trace(s, h, t)
<1>1. /\ mode_command_entry(t) => ~t.alpha /\ ~t.num
      /\ t.alpha => ~t.num
  BY DEF Inv, Modes
<1>2. ~Begins(s, t) /\ InEntry(t)
  BY <1>1 DEF Begins, InEntry
<1>3. HomeAfter(s, t, h) = h /\ Below(t) = Below(s)
  BY <1>2, BelowAlike DEF HomeAfter
<1>4. HomeOK(t, h)
  BY <1>1, <1>3 DEF HomeOK
<1> QED
  BY <1>2, <1>3, <1>4 DEF Trace

LEMMA HomeEmpty ==
    ASSUME NEW s, NEW h, ~mode_command_entry(s) /\ ~s.alpha
    PROVE  HomeOK(s, h)
  BY DEF HomeOK

(* An entry begins where the one before has ended. *)
LEMMA HomeNew ==
    ASSUME NEW s, ~mode_command_entry(s), NEW v, NEW t, Inv(t), Apart(v, t), NEW x,
           x.pc = Ended(s).pc, x.lines = Ended(s).lines,
           mode_command_entry(v) => Started(x, v),
           v.alpha => Opens(x, v) /\ ~s.alpha, NEW h
    PROVE  HomeOK(t, HomeAfter(s, t, h))
<1>1. /\ t.pc = v.pc /\ t.lines = v.lines /\ t.saved = v.saved /\ t.prgm = v.prgm
      /\ t.inc = v.inc /\ t.alpha = v.alpha
  BY ApartFacts
<1>2. mode_command_entry(t) = mode_command_entry(v)
  BY <1>1 DEF mode_command_entry
<1>3. CASE ~mode_command_entry(t) /\ ~t.alpha
  BY <1>3, HomeEmpty
<1>4. CASE mode_command_entry(t) \/ t.alpha
  <2> DEFINE g == HomeAfter(s, t, h)
  <2>1. Begins(s, t)
    BY <1>1, <1>2, <1>4 DEF Begins
  <2>2. g = Home(Ended(s), t)
    BY <2>1 DEF HomeAfter
  <2>3. g.pc = x.pc /\ g.lines = x.lines /\ g.below = Below(t)
    BY <2>2 DEF Home
  <2> HIDE DEF g
  <2>4. mode_command_entry(t) /\ t.prgm =>
            t.saved = g.pc /\ t.lines = g.lines
            /\ (t.inc.cmd # "PRP" => t.pc = After(g.pc, g.lines))
    BY <1>1, <1>2, <2>3 DEF Started
  <2>5. t.alpha /\ t.prgm => t.saved = g.pc /\ t.lines = g.lines
    BY <1>1, <2>3 DEF Opens
  <2>6. HomeOK(t, g)
    BY <1>4, <2>3, <2>4, <2>5 DEF HomeOK
  <2> QED
    BY <2>6 DEF g
<1> QED
  BY <1>3, <1>4

LEMMA HomeByKey ==
    ASSUME NEW s, Inv(s), s.pend \in {"none", "linger2"}, NEW h, HomeOK(s, h),
           NEW r \in BOOLEAN, NEW w, w = Listening(s, r), NEW v, KeyResult(w, v),
           NEW t, Inv(t), Apart(v, t)
    PROVE  HomeOK(t, HomeAfter(s, t, h)) /\ Trace(s, h, t)
<1>1. Inv(w) /\ w.pend = "none" /\ w.menu = s.menu /\ Keeps(s, w, {"pend", "refuse"})
  BY ListeningInv
<1>2. /\ w.pc = s.pc /\ w.lines = s.lines /\ w.saved = s.saved /\ w.prgm = s.prgm
      /\ w.inc = s.inc /\ w.alpha = s.alpha /\ w.alen = s.alen /\ w.num = s.num
  BY <1>1 DEF Keeps, Fields
<1>3. mode_command_entry(w) = mode_command_entry(s) /\ BelowSame(s, w)
  BY <1>1, <1>2 DEF mode_command_entry, BelowSame
<1>4. /\ t.pc = v.pc /\ t.lines = v.lines /\ t.saved = v.saved /\ t.prgm = v.prgm
      /\ t.inc = v.inc /\ t.alpha = v.alpha /\ t.num = v.num /\ t.pend = v.pend
      /\ BelowSame(v, t) /\ mode_command_entry(t) = mode_command_entry(v)
  BY ApartFacts DEF mode_command_entry
<1>5. Ended(w).pc = Ended(s).pc /\ Ended(w).lines = Ended(s).lines
  BY EndedAlike
<1>6. CASE mode_command_entry(s) /\ (v = w \/ Lingers(w, v) \/ GoesOn(w, v))
  <2>1. /\ v.saved = w.saved /\ v.lines = w.lines /\ v.prgm = w.prgm /\ v.pc = w.pc
        /\ mode_command_entry(v) /\ (v.inc.cmd # "PRP" => w.inc.cmd # "PRP") /\ BelowSame(w, v)
    <3>1. CASE v = w
      BY <1>3, <1>6, <3>1 DEF BelowSame
    <3>2. CASE Lingers(w, v)
      <4>1. v.menu = w.menu /\ Keeps(w, v, {"pend"})
        BY <1>1, <1>3, <1>6, <3>2, LingersInv
      <4> QED
        BY <1>3, <1>6, <4>1 DEF Keeps, Fields, mode_command_entry, BelowSame
    <3>3. CASE GoesOn(w, v)
      BY <3>3 DEF GoesOn, Entering, Keeps, Fields
    <3> QED
      BY <1>6, <3>1, <3>2, <3>3
  <2>2. BelowSame(s, t)
    BY <1>3, <1>4, <2>1, BelowThrough
  <2> QED
    BY <1>2, <1>4, <1>6, <2>1, <2>2, HomeKept
<1>7. CASE mode_command_entry(s) /\ IsOver(w, v)
  <2>1. ~mode_command_entry(t) /\ ~t.alpha /\ NoTrace(w, v)
    BY <1>4, <1>7 DEF IsOver
  <2>2. ASSUME s.prgm
        PROVE  /\ t.pend \in {"null", "cancelled"} =>
                      t.pc = h.pc /\ t.lines = h.lines /\ Below(t) = h.below
               /\ t.lines # h.lines => t.lines = h.lines + 1 /\ t.pc = After(h.pc, h.lines)
    <3>1. /\ s.saved = h.pc /\ s.lines = h.lines /\ Below(s) = h.below
          /\ s.inc.cmd # "PRP" => s.pc = After(h.pc, h.lines)
      BY <1>7, <2>2 DEF HomeOK
    <3>2. /\ v.pend \in {"null", "cancelled"} =>
                 v.pc = w.saved /\ v.lines = w.lines /\ BelowSame(w, v)
          /\ v.lines # w.lines => v.lines = w.lines + 1 /\ v.pc = w.pc /\ w.inc.cmd # "PRP"
      BY <1>2, <2>1, <2>2 DEF NoTrace
    <3>3. BelowSame(w, v) => Below(t) = Below(s)
      BY <1>3, <1>4, BelowThrough, BelowAlike
    <3> QED
      BY <1>2, <1>4, <3>1, <3>2, <3>3
  <2> QED
    BY <2>1, <2>2, HomeEmpty DEF Trace
<1>8. CASE ~mode_command_entry(s) /\ s.alpha /\ AlphaOn(w, v)
  <2>1. v.alpha /\ v.prgm = w.prgm /\ v.saved = w.saved /\ v.lines = w.lines /\ BelowSame(w, v)
    BY <1>8 DEF AlphaOn
  <2>2. BelowSame(s, t)
    BY <1>3, <1>4, <2>1, BelowThrough
  <2> QED
    BY <1>2, <1>4, <1>8, <2>1, <2>2, HomeKept
<1>9. CASE ~mode_command_entry(s) /\ s.alpha /\ AlphaOver(w, v)
  <2>1. Acted(EndAlpha(w), v) /\ ~v.alpha
    BY <1>9 DEF AlphaOver, Acted
  <2>2. EndAlpha(w) = Ended(w)
    <3>1. ~w.num
      BY <1>1, <1>2, <1>9 DEF Inv, Modes
    <3> QED
      BY <3>1 DEF Ended
  <2>3. mode_command_entry(v) => Started(Ended(w), v)
    BY <2>1, <2>2 DEF Acted
  <2>4. HomeOK(t, HomeAfter(s, t, h))
    BY <1>5, <1>9, <2>1, <2>3, HomeNew
  <2>5. ASSUME s.prgm, s.alen = 0, ~InEntry(t), t.pend \in {"null", "cancelled"}
        PROVE  t.pc = h.pc /\ t.lines = h.lines /\ Below(t) = h.below
    <3>1. s.saved = h.pc /\ s.lines = h.lines /\ Below(s) = h.below
      BY <1>9, <2>5 DEF HomeOK
    <3>2. v.pc = w.saved /\ v.lines = w.lines /\ BelowSame(w, v)
      BY <1>2, <1>4, <1>9, <2>5 DEF AlphaOver, InEntry
    <3>3. Below(t) = Below(s)
      BY <1>3, <1>4, <3>2, BelowThrough, BelowAlike
    <3> QED
      BY <1>2, <1>4, <3>1, <3>2, <3>3
  <2> QED
    BY <1>9, <2>4, <2>5 DEF Trace
<1>10. CASE ~mode_command_entry(s) /\ ~s.alpha
  <2>1. Fresh(Ended(w), v)
    BY <1>2, <1>3, <1>10 DEF KeyResult, Outcome
  <2>2. HomeOK(t, HomeAfter(s, t, h))
    BY <1>5, <1>10, <2>1, HomeNew DEF Fresh
  <2> QED
    BY <1>10, <2>2 DEF Trace
<1>11. \/ mode_command_entry(s) /\ (v = w \/ Lingers(w, v) \/ GoesOn(w, v) \/ IsOver(w, v))
       \/ ~mode_command_entry(s) /\ s.alpha /\ (AlphaOn(w, v) \/ AlphaOver(w, v))
       \/ ~mode_command_entry(s) /\ ~s.alpha
  BY <1>2, <1>3 DEF KeyResult, EntryStep, Outcome
<1> QED
  BY <1>6, <1>7, <1>8, <1>9, <1>10, <1>11

-----------------------------------------------------------------------------
(* A command is carried out: what it does to the menus and modes           *)

LEMMA EffectedSame ==
    ASSUME NEW s, Served(s) PROVE Effected(s, s)
  BY KeepsNothing DEF Effected

LEMMA EffectedTwice ==
    ASSUME NEW s, NEW v, NEW t, Effected(s, v), Effected(v, t) PROVE Effected(s, t)
  BY KeepsTwice DEF Effected

LEMMA EffectedSteers ==
    ASSUME NEW s, Served(s), NEW t, Steers(s, t) PROVE Effected(s, t)
<1>1. Screen(t) /\ Fits(t) /\ Keeps(s, t, MenuFields) /\ t.menu["command"] = "none"
  BY DEF Steers, Served
<1>2. t.lines = s.lines /\ t.pc = s.pc /\ t.alpha = s.alpha
  BY <1>1 DEF Keeps, Fields, MenuFields, AppFields
<1>3. Keeps(s, t, EffFields)
  BY <1>1 DEF Keeps, EffFields
<1> QED
  BY <1>1, <1>2, <1>3 DEF Effected, Served

LEMMA EffectedLoose ==
    ASSUME NEW s, Served(s), NEW t \in Calculators, NEW F, Keeps(s, t, F), F \subseteq Loose
    PROVE  Effected(s, t) /\ t.menu = s.menu /\ t.cb = s.cb
<1>1. Screen(t)
  BY SameScreen DEF Served, Loose
<1>2. /\ t.lines = s.lines /\ t.pc = s.pc /\ t.alpha = s.alpha /\ t.menu = s.menu /\ t.cb = s.cb
      /\ t.edit = s.edit /\ t.baseapp = s.baseapp /\ t.role = s.role
  BY DEF Keeps, Fields, Loose
<1>3. Fits(t)
  BY <1>2 DEF Served, Fits
<1>4. Keeps(s, t, EffFields)
  BY DEF Keeps, EffFields, Loose, MenuFields, AppFields
<1> QED
  BY <1>1, <1>2, <1>3, <1>4 DEF Effected, Served

LEMMA EffectedApp ==
    ASSUME NEW s, Served(s), NEW t, Screen(t), Fits(t), Keeps(s, t, AppFields), Sunk(s, t)
    PROVE  Effected(s, t)
<1>1. t.lines = s.lines /\ t.pc = s.pc /\ t.alpha = s.alpha
  BY DEF Keeps, Fields, AppFields
<1>2. t.menu["command"] = "none"
  BY LevelFacts DEF Served, Sunk
<1>3. Keeps(s, t, EffFields)
  BY DEF Keeps, EffFields, MenuFields
<1> QED
  BY <1>1, <1>2, <1>3 DEF Effected, Served

LEMMA AskedFor ==
    ASSUME NEW s, Served(s), NEW m \in AppMenus, m \notin OfOwn, NEW x \in BOOLEAN,
           x => m = "none", NEW t, t = set_menu_return_err(s, "app", m, x)
    PROVE  /\ Effected(s, t)
           /\ \/ t.err /\ Refused(s, t)
              \/ /\ ~t.err /\ Allowed(s, t, m)
                 /\ \A l \in Levels \ {"app"} : t.menu[l] = "none"
<1>1. Screen(s) /\ Fits(s) /\ Told(s)
  BY FitsTold DEF Served
<1>2. /\ Screen(t) /\ Keeps(s, t, AppFields) /\ Sunk(s, t)
      /\ \/ t.err /\ Refused(s, t)
         \/ /\ ~t.err /\ Allowed(s, t, m)
            /\ \A l \in Levels \ {"app"} : t.menu[l] = "none"
  BY <1>1, SetAppErr
<1>3. Fits(t)
  BY <1>1, <1>2, StillFits
<1> QED
  BY <1>2, <1>3, EffectedApp

LEMMA BaseFits ==
    ASSUME NEW t, t.menu["app"] \in BaseMenus, t.cb = 2, t.baseapp, ~t.edit
    PROVE  Fits(t)
<1>1. t.menu["app"] \notin EditMenus /\ t.menu["app"] # "integ"
  BY DEF BaseMenus, EditMenus
<1> QED
  BY <1>1 DEF Fits

LEMMA BaseShown ==
    ASSUME NEW s, Served(s), NEW m \in BaseMenus, NEW v,
           v = set_menu_return_err(s, "app", m, FALSE), NEW t, t = BaseUp(v)
    PROVE  (v.err => Effected(s, v)) /\ (~v.err => Effected(s, t))
<1>1. m \in AppMenus /\ m \notin EditMenus /\ m # "none" /\ m # "integ" /\ FALSE \in BOOLEAN
  BY DEF AppMenus, BaseMenus, EditMenus
<1>2. Screen(s) /\ Fits(s) /\ Told(s)
  BY FitsTold DEF Served
<1>3. /\ Screen(v) /\ Keeps(s, v, AppFields) /\ Sunk(s, v)
      /\ (v.err /\ Refused(s, v)) \/ (~v.err /\ Allowed(s, v, m))
  BY <1>1, <1>2, SetAppErr
<1>4. ASSUME v.err PROVE Effected(s, v)
  <2>1. Fits(v)
    BY <1>2, <1>3, <1>4 DEF Refused, Fits
  <2> QED
    BY <1>3, <2>1, EffectedApp
<1>5. ASSUME ~v.err PROVE Effected(s, t)
  <2>1. Taken(s, v, m) \/ Stays(s, v, m)
    BY <1>1, <1>3, <1>5 DEF Allowed
  <2>2. v.menu["app"] = m /\ v \in Calculators
    BY <1>3, <2>1 DEF Taken, Stays, Screen
  <2> DEFINE x == [v EXCEPT !.cb = 2]
  <2>3. t = [x EXCEPT !.baseapp = TRUE] /\ 2 \in CbStates /\ TRUE \in BOOLEAN
    BY DEF BaseUp, CbStates
  <2>4. x \in Calculators /\ x.cb = 2 /\ Keeps(v, x, {"cb"})
    BY <2>2, <2>3, PutCallback
  <2> HIDE DEF x
  <2>5. t \in Calculators /\ t.baseapp /\ Keeps(x, t, {"baseapp"})
    BY <2>3, <2>4, PutBaseapp
  <2>6. Keeps(v, t, {"cb", "baseapp"}) /\ t.cb = 2
    BY <2>4, <2>5 DEF Keeps, Fields
  <2>7. Screen(t)
    BY <1>3, <2>5, <2>6, SameScreen
  <2>8. t.menu = v.menu /\ t.edit = v.edit
    BY <2>6 DEF Keeps, Fields
  <2>9. ~t.edit
    BY <1>1, <1>2, <2>1, <2>8 DEF Taken, Stays, OwnMenu, Fits, EditMenus, BaseMenus
  <2>a. t.menu["app"] = m /\ m \in BaseMenus
    BY <2>2, <2>8
  <2>10. Fits(t)
    BY <2>a, <2>5, <2>6, <2>9, BaseFits
  <2>11. Keeps(s, t, AppFields)
    BY <1>3, <2>6 DEF Keeps, AppFields
  <2>12. Sunk(s, t)
    BY <1>3, <2>8 DEF Sunk
  <2> QED
    BY <2>7, <2>10, <2>11, <2>12, EffectedApp
<1> QED
  BY <1>4, <1>5

(* The matrix editor: it is left before another matrix is edited, begun, and *)
(* left when its matrix is gone.                                             *)
LEMMA EditFinished ==
    ASSUME NEW s, Served(s), NEW t, t = finish_edit(s)
    PROVE  Effected(s, t) /\ (~t.err => t.cb # 1)
<1>0. s \in Calculators /\ Fits(s) /\ Screen(s) /\ FALSE \in BOOLEAN
  BY DEF Served, Screen
<1>1. CASE s.edit
  <2>1. t = set_menu_return_err(s, "app", "none", FALSE)
    BY <1>1 DEF finish_edit
  <2>2. "none" \in AppMenus /\ "none" \notin OfOwn /\ "none" \notin EditMenus /\ "none" \notin BaseMenus
    BY DEF AppMenus, OfOwn, EditMenus, BaseMenus
  <2>3. Effected(s, t) /\ (~t.err => Allowed(s, t, "none"))
    BY <1>0, <2>1, <2>2, AskedFor
  <2>4. s.cb = 1
    BY <1>0, <1>1 DEF Fits
  <2>5. Allowed(s, t, "none") => t.cb # 1
    BY <2>2, <2>4 DEF Allowed, Taken, Stays, Back, OwnMenu
  <2> QED
    BY <2>3, <2>5
<1>2. CASE ~s.edit
  <2>1. t = [s EXCEPT !.err = FALSE]
    BY <1>2 DEF finish_edit
  <2>2. t \in Calculators /\ Keeps(s, t, {"err"})
    BY <1>0, <2>1, PutErr
  <2>3. Effected(s, t) /\ t.cb = s.cb
    BY <2>2, EffectedLoose DEF Loose
  <2>4. s.cb # 1
    BY <1>0, <1>2 DEF Fits
  <2> QED
    BY <2>3, <2>4
<1> QED
  BY <1>1, <1>2

LEMMA EditFits ==
    ASSUME NEW t, t.menu["app"] = "edit1", t.cb = 1, t.edit, ~t.baseapp
    PROVE  Fits(t)
<1>1. t.menu["app"] \in EditMenus /\ t.menu["app"] \notin BaseMenus /\ t.menu["app"] # "integ"
  BY DEF BaseMenus, EditMenus
<1> QED
  BY <1>1 DEF Fits

LEMMA EditBegun ==
    ASSUME NEW v, Served(v), v.cb # 1, NEW p \in PrevStates, NEW t, t = Editing(v, p)
    PROVE  Effected(v, t)
<1> DEFINE y == [v EXCEPT !.prev = p]
           x == [y EXCEPT !.edit = TRUE]
           w == set_menu(x, "app", "edit1")
<1>1. /\ v \in Calculators /\ Screen(v) /\ Fits(v) /\ TRUE \in BOOLEAN /\ 1 \in CbStates
      /\ "edit1" \in AppMenus /\ "edit1" \in EditMenus /\ "edit1" \notin BaseMenus /\ "edit1" # "none"
  BY DEF Served, Screen, CbStates, AppMenus, EditMenus, BaseMenus
<1>2. t = [w EXCEPT !.cb = 1]
  BY DEF Editing
<1>3. y \in Calculators /\ Keeps(v, y, {"prev"})
  BY <1>1, PutPrev
<1> HIDE DEF y
<1>4. x \in Calculators /\ x.edit = TRUE /\ Keeps(y, x, {"edit"})
  BY <1>1, <1>3, PutEdit
<1> HIDE DEF x
<1>5. Keeps(v, x, {"prev", "edit"})
  BY <1>3, <1>4 DEF Keeps
<1>6. Screen(x)
  BY <1>1, <1>4, <1>5, SameScreen
<1>7. x.menu = v.menu /\ x.sect = v.sect /\ x.cb = v.cb /\ x.baseapp = v.baseapp
  BY <1>5 DEF Keeps, Fields
<1>8. Told(x)
  BY <1>1, <1>7 DEF Fits, Told
<1>9. /\ Screen(w) /\ Keeps(x, w, AppFields) /\ Sunk(x, w)
      /\ Refused(x, w) \/ Allowed(x, w, "edit1")
  BY <1>1, <1>6, <1>8, SetApp
<1> HIDE DEF w
<1>10. Taken(x, w, "edit1")
  BY <1>1, <1>7, <1>9 DEF Refused, Allowed, Stays, OwnMenu
<1>11. w.menu["app"] = "edit1" /\ ~w.baseapp /\ w.edit /\ w \in Calculators
  BY <1>4, <1>7, <1>9, <1>10 DEF Taken, Screen
<1>12. t \in Calculators /\ t.cb = 1 /\ Keeps(w, t, {"cb"})
  BY <1>1, <1>2, <1>11, PutCallback
<1>13. Screen(t)
  BY <1>9, <1>12, SameScreen
<1>14. t.menu = w.menu /\ t.edit = w.edit /\ t.baseapp = w.baseapp
  BY <1>12 DEF Keeps, Fields
<1>15. Fits(t)
  BY <1>11, <1>12, <1>14, EditFits
<1>16. t.menu["command"] = "none"
  BY <1>7, <1>9, <1>14, LevelFacts DEF Served, Sunk
<1>17. Keeps(v, t, EffFields)
  BY <1>5, <1>9, <1>12 DEF Keeps, EffFields, MenuFields, AppFields
<1>18. t.lines = v.lines /\ t.pc = v.pc /\ t.alpha = v.alpha
  BY <1>5, <1>9, <1>12 DEF Keeps, Fields, AppFields
<1> QED
  BY <1>13, <1>15, <1>16, <1>17, <1>18 DEF Effected, Served

LEMMA EditEffect ==
    ASSUME NEW s, Served(s), NEW t, t = docmd_edit(s)
    PROVE  Effected(s, t)
<1> DEFINE v == finish_edit(s)
           p == IF v.menu["app"] \in {"matrix", "simq"} THEN v.menu["app"] ELSE "none"
<1>1. Effected(s, v) /\ (~v.err => v.cb # 1)
  BY EditFinished
<1>2. t = IF v.err THEN v ELSE Editing(v, p)
  BY DEF docmd_edit, Editing
<1>3. p \in PrevStates
  BY DEF PrevStates
<1> HIDE DEF v, p
<1>4. CASE v.err
  BY <1>1, <1>2, <1>4
<1>5. CASE ~v.err
  <2>1. Served(v) /\ v.cb # 1
    BY <1>1, <1>5 DEF Effected
  <2>2. Effected(v, t)
    BY <1>2, <1>3, <1>5, <2>1, EditBegun
  <2> QED
    BY <1>1, <2>2, EffectedTwice
<1> QED
  BY <1>4, <1>5

LEMMA PlainFits ==
    ASSUME NEW t, t.menu["app"] \notin EditMenus \cup BaseMenus, t.menu["app"] # "integ",
           t.cb = 0, ~t.edit, ~t.baseapp
    PROVE  Fits(t)
  BY DEF Fits

LEMMA EditLost ==
    ASSUME NEW s, Served(s), s.edit, NEW t, t = leave_matrix_editor(s)
    PROVE  Effected(s, t)
<1> DEFINE x == [s EXCEPT !.cb = 0]
           w == set_menu(x, "app", "none")
           y == [w EXCEPT !.edit = FALSE]
<1>1. /\ s \in Calculators /\ Screen(s) /\ Fits(s) /\ FALSE \in BOOLEAN /\ 0 \in CbStates
      /\ "none" \in AppMenus /\ "none" \notin EditMenus /\ "none" \notin BaseMenus
  BY DEF Served, Screen, CbStates, AppMenus, EditMenus, BaseMenus
<1>2. t = [y EXCEPT !.nested = FALSE]
  BY DEF leave_matrix_editor
<1>3. x \in Calculators /\ x.cb = 0 /\ Keeps(s, x, {"cb"})
  BY <1>1, PutCallback
<1> HIDE DEF x
<1>4. Screen(x)
  BY <1>1, <1>3, SameScreen
<1>5. x.menu = s.menu /\ x.sect = s.sect /\ x.baseapp = s.baseapp
  BY <1>3 DEF Keeps, Fields
<1>6. s.cb = 1 /\ s.menu["app"] \in EditMenus
  BY <1>1 DEF Fits
<1>7. ~s.baseapp /\ s.menu["app"] \notin BaseMenus /\ s.menu["app"] # "integ"
  BY <1>1, <1>6 DEF Fits
<1>8. Told(x)
  BY <1>3, <1>5, <1>7 DEF Told
<1>9. /\ Screen(w) /\ Keeps(x, w, AppFields) /\ Sunk(x, w)
      /\ Refused(x, w) \/ Allowed(x, w, "none")
  BY <1>1, <1>4, <1>8, SetApp
<1> HIDE DEF w
<1>10. Taken(x, w, "none")
  BY <1>1, <1>3, <1>9 DEF Refused, Allowed, Stays, Back, OwnMenu
<1>11. w.menu["app"] = "none" /\ ~w.baseapp /\ w.cb = 0 /\ w \in Calculators
  BY <1>9, <1>10 DEF Taken, Screen
<1>12. y \in Calculators /\ ~y.edit /\ Keeps(w, y, {"edit"})
  BY <1>1, <1>11, PutEdit
<1> HIDE DEF y
<1>13. t \in Calculators /\ Keeps(y, t, {"nested"})
  BY <1>1, <1>2, <1>12, PutNested
<1>14. Keeps(w, t, {"edit", "nested"})
  BY <1>12, <1>13 DEF Keeps
<1>15. Screen(t)
  BY <1>9, <1>13, <1>14, SameScreen
<1>16. t.menu = w.menu /\ t.edit = y.edit /\ t.baseapp = w.baseapp /\ t.cb = w.cb
  BY <1>13, <1>14 DEF Keeps, Fields
<1>17. Fits(t)
  BY <1>1, <1>11, <1>12, <1>16, PlainFits
<1>18. Sunk(s, t)
  BY <1>5, <1>9, <1>16 DEF Sunk
<1>19. Keeps(s, t, AppFields)
  BY <1>3, <1>9, <1>14 DEF Keeps, AppFields
<1> QED
  BY <1>15, <1>17, <1>18, <1>19, EffectedApp

(* The menu of the variables of a program, with or without its callback *)
LEMMA VarmenuFits ==
    ASSUME NEW t, t.menu["app"] = "varmenu", t.cb \in {0, 3, 4}, ~t.edit, ~t.baseapp,
           t.cb # 0 => t.role = (IF t.cb = 3 THEN 1 ELSE 2)
    PROVE  Fits(t)
<1>1. t.menu["app"] \notin EditMenus \cup BaseMenus /\ t.menu["app"] # "integ"
  BY DEF EditMenus, BaseMenus
<1> QED
  BY <1>1 DEF Fits

LEMMA VarmenuEffect ==
    ASSUME NEW s, Served(s), NEW t, t = docmd_varmenu(s)
    PROVE  Effected(s, t) /\ (~t.err => t.menu["app"] = "varmenu" /\ t.cb = 0)
<1> DEFINE x == [s EXCEPT !.role = 0]
<1>1. /\ s \in Calculators /\ Screen(s) /\ Fits(s) /\ 0 \in RoleStates /\ FALSE \in BOOLEAN
      /\ "varmenu" \in AppMenus /\ "varmenu" # "none"
      /\ "varmenu" \notin EditMenus /\ "varmenu" \notin BaseMenus
  BY DEF Served, Screen, RoleStates, AppMenus, EditMenus, BaseMenus
<1>2. t = set_menu_return_err(x, "app", "varmenu", FALSE)
  BY DEF docmd_varmenu
<1>3. x \in Calculators /\ Keeps(s, x, {"role"})
  BY <1>1, PutRole
<1> HIDE DEF x
<1>4. Screen(x)
  BY <1>1, <1>3, SameScreen
<1>5. /\ x.menu = s.menu /\ x.sect = s.sect /\ x.cb = s.cb /\ x.baseapp = s.baseapp
      /\ x.edit = s.edit
  BY <1>3 DEF Keeps, Fields
<1>6. Told(x)
  BY <1>1, <1>5 DEF Fits, Told
<1>7. /\ Screen(t) /\ Keeps(x, t, AppFields) /\ Sunk(x, t)
      /\ (t.err /\ Refused(x, t)) \/ (~t.err /\ Allowed(x, t, "varmenu"))
  BY <1>1, <1>2, <1>4, <1>6, SetAppErr
<1>8. ASSUME ~t.err PROVE t.menu["app"] = "varmenu" /\ t.cb = 0 /\ Fits(t)
  <2>1. Taken(x, t, "varmenu")
    BY <1>1, <1>7, <1>8 DEF Allowed, Stays, OwnMenu
  <2>2. t.menu["app"] = "varmenu" /\ t.cb = 0 /\ ~t.edit /\ ~t.baseapp
    BY <1>1, <1>5, <2>1 DEF Taken, Fits
  <2> QED
    BY <2>2, VarmenuFits
<1>9. ASSUME t.err PROVE Fits(t)
  BY <1>1, <1>5, <1>7, <1>9 DEF Refused, Fits
<1>10. Keeps(s, t, AppFields) /\ Sunk(s, t)
  BY <1>3, <1>5, <1>7 DEF Keeps, AppFields, Sunk
<1> QED
  BY <1>7, <1>8, <1>9, <1>10, EffectedApp

LEMMA Varmnu1Effect ==
    ASSUME NEW s, Served(s), NEW b \in BOOLEAN, NEW t, t = docmd_varmnu1(s, b)
    PROVE  Effected(s, t)
<1> DEFINE v == docmd_varmenu(s)
           n == IF b THEN 3 ELSE 0
           x == [v EXCEPT !.vm = TRUE]
<1>1. Effected(s, v) /\ (~v.err => v.menu["app"] = "varmenu" /\ v.cb = 0)
  BY VarmenuEffect
<1>2. t = IF v.err THEN v ELSE [x EXCEPT !.role = n]
  BY DEF docmd_varmnu1
<1>3. v \in Calculators /\ Screen(v) /\ Fits(v) /\ TRUE \in BOOLEAN /\ n \in RoleStates
  BY <1>1 DEF Effected, Served, Screen, RoleStates
<1> HIDE DEF v, n
<1>4. CASE v.err
  BY <1>1, <1>2, <1>4
<1>5. CASE ~v.err
  <2>1. x \in Calculators /\ Keeps(v, x, {"vm"})
    BY <1>3, PutVm
  <2> HIDE DEF x
  <2>2. t \in Calculators /\ Keeps(x, t, {"role"})
    BY <1>2, <1>3, <1>5, <2>1, PutRole
  <2>3. Keeps(v, t, {"vm", "role"})
    BY <2>1, <2>2 DEF Keeps
  <2>4. Screen(t)
    BY <1>3, <2>2, <2>3, SameScreen
  <2>5. /\ t.menu = v.menu /\ t.cb = v.cb /\ t.edit = v.edit /\ t.baseapp = v.baseapp
        /\ t.lines = v.lines /\ t.pc = v.pc /\ t.alpha = v.alpha
    BY <2>3 DEF Keeps, Fields
  <2>6. ~v.edit /\ ~v.baseapp
    BY <1>1, <1>3, <1>5 DEF Fits
  <2>7. Fits(t)
    BY <1>1, <1>5, <2>5, <2>6, VarmenuFits
  <2>8. Keeps(v, t, EffFields)
    BY <2>3 DEF Keeps, EffFields, MenuFields, AppFields
  <2>9. Effected(v, t)
    BY <1>1, <2>4, <2>5, <2>7, <2>8 DEF Effected, Served
  <2> QED
    BY <1>1, <2>9, EffectedTwice
<1> QED
  BY <1>4, <1>5

LEMMA SolvingEffect ==
    ASSUME NEW s, Served(s), s.menu["app"] = "catalog", NEW n \in RoleStates,
           NEW c \in CbStates, (n = 1 /\ c = 3) \/ (n = 2 /\ c = 4), NEW t, t = Solving(s, n, c)
    PROVE  Effected(s, t)
<1> DEFINE x == [s EXCEPT !.role = n]
           w == set_menu(x, "app", "varmenu")
<1>1. /\ s \in Calculators /\ Screen(s) /\ Fits(s)
      /\ "varmenu" \in AppMenus /\ "varmenu" # "none"
      /\ "varmenu" \notin EditMenus /\ "varmenu" \notin BaseMenus
      /\ "catalog" \notin EditMenus /\ "catalog" \notin BaseMenus
  BY DEF Served, Screen, RoleStates, CbStates, AppMenus, EditMenus, BaseMenus
<1>2. t = [w EXCEPT !.cb = c]
  BY DEF Solving
<1>3. x \in Calculators /\ x.role = n /\ Keeps(s, x, {"role"})
  BY <1>1, PutRole
<1> HIDE DEF x
<1>4. Screen(x)
  BY <1>1, <1>3, SameScreen
<1>5. /\ x.menu = s.menu /\ x.sect = s.sect /\ x.cb = s.cb /\ x.baseapp = s.baseapp
      /\ x.edit = s.edit
  BY <1>3 DEF Keeps, Fields
<1>6. ~s.edit /\ s.cb # 1 /\ Told(x)
  BY <1>1, <1>5 DEF Fits, Told
<1>7. /\ Screen(w) /\ Keeps(x, w, AppFields) /\ Sunk(x, w)
      /\ Refused(x, w) \/ Allowed(x, w, "varmenu")
  BY <1>1, <1>4, <1>6, SetApp
<1> HIDE DEF w
<1>8. Taken(x, w, "varmenu")
  BY <1>1, <1>5, <1>6, <1>7 DEF Refused, Allowed, Stays, OwnMenu
<1>9. w.menu["app"] = "varmenu" /\ ~w.edit /\ ~w.baseapp /\ w.role = n /\ w \in Calculators
  BY <1>3, <1>5, <1>6, <1>7, <1>8 DEF Taken, Screen
<1>10. t \in Calculators /\ t.cb = c /\ Keeps(w, t, {"cb"})
  BY <1>2, <1>9, PutCallback
<1>11. Screen(t)
  BY <1>7, <1>10, SameScreen
<1>12. t.menu = w.menu /\ t.edit = w.edit /\ t.baseapp = w.baseapp /\ t.role = w.role
  BY <1>10 DEF Keeps, Fields
<1>13. Fits(t)
  BY <1>9, <1>10, <1>12, VarmenuFits
<1>14. Keeps(s, t, AppFields) /\ Sunk(s, t)
  BY <1>3, <1>5, <1>7, <1>10, <1>12 DEF Keeps, AppFields, Sunk
<1> QED
  BY <1>11, <1>13, <1>14, EffectedApp

LEMMA SolverEffect ==
    ASSUME NEW s, Served(s), s.menu["app"] = "catalog", NEW t, t = docmd_pgmslvi(s)
    PROVE  Effected(s, t)
<1>1. t = Solving(s, 1, 3) /\ 1 \in RoleStates /\ 3 \in CbStates
  BY DEF docmd_pgmslvi, Solving, RoleStates, CbStates
<1> QED
  BY <1>1, SolvingEffect

LEMMA IntegratorEffect ==
    ASSUME NEW s, Served(s), s.menu["app"] = "catalog", NEW t, t = docmd_pgminti(s)
    PROVE  Effected(s, t)
<1> DEFINE v == Solving(s, 2, 4)
<1>a. 2 \in RoleStates /\ 4 \in CbStates
  BY DEF RoleStates, CbStates
<1>1. Effected(s, v) /\ v \in Calculators /\ TRUE \in BOOLEAN
  BY <1>a, SolvingEffect DEF Effected, Served, Screen
<1>2. t = [v EXCEPT !.vm = TRUE]
  BY DEF docmd_pgminti, Solving
<1> HIDE DEF v
<1>3. t \in Calculators /\ Keeps(v, t, {"vm"})
  BY <1>1, <1>2, PutVm
<1>4. Effected(v, t)
  BY <1>1, <1>3, EffectedLoose DEF Effected, Loose
<1> QED
  BY <1>1, <1>4, EffectedTwice

(* The other menus a command brings up *)
LEMMA AppEffects ==
    ASSUME NEW s, Served(s), NEW t, t = docmd_exitall(s) \/ t = docmd_simq(s)
    PROVE  Effected(s, t)
<1>1. "none" \in AppMenus \ OfOwn /\ "simq" \in AppMenus \ OfOwn
  BY DEF AppMenus, OfOwn, EditMenus, BaseMenus
<1>2. CASE t = docmd_exitall(s)
  BY <1>1, <1>2, AskedFor DEF docmd_exitall
<1>3. CASE t = docmd_simq(s)
  BY <1>1, <1>3, AskedFor DEF docmd_simq
<1> QED
  BY <1>2, <1>3

LEMMA PgmmenuEffect ==
    ASSUME NEW s, Served(s), NEW t, t = docmd_pgmmenu(s)
    PROVE  Effected(s, t)
<1> DEFINE v == set_menu_return_err(s, "app", "catalog", FALSE)
<1>1. /\ "catalog" \in AppMenus \ OfOwn /\ "catalog" # "none" /\ "pgm_menu" \in Sections
      /\ "catalog" \notin EditMenus \cup BaseMenus /\ "pgm_menu" \notin ArgumentSections
  BY DEF AppMenus, OfOwn, EditMenus, BaseMenus, Sections, ArgumentSections, ProgramSections
<1>2. /\ Effected(s, v)
      /\ ~v.err => Allowed(s, v, "catalog") /\ \A l \in Levels \ {"app"} : v.menu[l] = "none"
  BY <1>1, AskedFor
<1>3. \/ t = s \/ t = v
      \/ ~v.err /\ t = set_cat_section(v, "pgm_menu")
  BY DEF docmd_pgmmenu
<1> HIDE DEF v
<1>4. CASE ~v.err /\ t = set_cat_section(v, "pgm_menu")
  <2>1. v.menu["app"] = "catalog"
    BY <1>1, <1>2, <1>4 DEF Allowed, Taken, Stays, OwnMenu
  <2>2. get_cat_index(v) = "app"
    BY <1>2, <1>4, FrontLevel
  <2>3. Served(v) /\ Screen(v) /\ Fits(v)
    BY <1>2 DEF Effected, Served
  <2>4. Screen(t) /\ Keeps(v, t, {"sect"})
    BY <1>1, <1>4, <2>1, <2>2, <2>3, SectionSet
  <2>5. /\ t.menu = v.menu /\ t.cb = v.cb /\ t.edit = v.edit /\ t.baseapp = v.baseapp
        /\ t.role = v.role
    BY <2>4 DEF Keeps, Fields
  <2>6. Fits(t) /\ Sunk(v, t)
    BY <2>3, <2>5 DEF Fits, Sunk
  <2>7. Keeps(v, t, AppFields)
    BY <2>4 DEF Keeps, AppFields
  <2>8. Effected(v, t)
    BY <2>3, <2>4, <2>6, <2>7, EffectedApp
  <2> QED
    BY <1>2, <2>8, EffectedTwice
<1> QED
  BY <1>2, <1>3, <1>4, EffectedSame

LEMMA BaseEffect ==
    ASSUME NEW s, Served(s), NEW b \in BOOLEAN, NEW r \in BOOLEAN, NEW t, t = base_helper(s, b, r)
    PROVE  Effected(s, t)
<1> DEFINE v == set_menu_return_err(s, "app", "base1", FALSE)
           w == BaseUp(v)
<1>1. "base1" \in BaseMenus
  BY DEF BaseMenus
<1>2. (v.err => Effected(s, v)) /\ (~v.err => Effected(s, w))
  BY <1>1, BaseShown
<1>3. \/ t = set_base(s, b)
      \/ v.err /\ t = v
      \/ ~v.err /\ t = set_base(w, b)
  BY DEF base_helper, BaseUp
<1> HIDE DEF v, w
<1>4. ASSUME NEW x, Served(x) PROVE Effected(x, set_base(x, b))
  <2>1. Steers(x, set_base(x, b))
    BY <1>4, SteersBase DEF Served
  <2> QED
    BY <1>4, <2>1, EffectedSteers
<1>5. CASE ~v.err /\ t = set_base(w, b)
  <2>1. Effected(w, t)
    BY <1>2, <1>4, <1>5 DEF Effected
  <2> QED
    BY <1>2, <1>5, <2>1, EffectedTwice
<1> QED
  BY <1>2, <1>3, <1>4, <1>5

LEMMA LettersEffect ==
    ASSUME NEW s, Served(s), NEW t, t = docmd_a_thru_f(s)
    PROVE  Effected(s, t)
<1> DEFINE v == set_menu_return_err(s, "app", "baseAF", FALSE)
           w == BaseUp(v)
<1>1. "baseAF" \in BaseMenus
  BY DEF BaseMenus
<1>2. (v.err => Effected(s, v)) /\ (~v.err => Effected(s, w))
  BY <1>1, BaseShown
<1>3. \/ v.err /\ t = v
      \/ ~v.err /\ t = [w EXCEPT !.hex = TRUE]
  BY DEF docmd_a_thru_f, BaseUp
<1> HIDE DEF v, w
<1>4. CASE ~v.err /\ t = [w EXCEPT !.hex = TRUE]
  <2>1. Served(w) /\ w \in Calculators /\ TRUE \in BOOLEAN
    BY <1>2, <1>4 DEF Effected, Served, Screen
  <2>2. t \in Calculators /\ Keeps(w, t, {"hex"})
    BY <1>4, <2>1, PutHex
  <2>3. Effected(w, t)
    BY <2>1, <2>2, EffectedLoose DEF Loose
  <2> QED
    BY <1>2, <1>4, <2>3, EffectedTwice
<1> QED
  BY <1>2, <1>3, <1>4

(* Menus of the other levels *)
LEMMA LevelEffect ==
    ASSUME NEW s, Served(s), NEW l \in Levels \ {"app", "command"}, NEW m \in MenusOf(l),
           NEW t, t = set_menu(s, l, m)
    PROVE  Effected(s, t)
<1>1. Steers(s, t)
  BY SteersAt DEF Served
<1> QED
  BY <1>1, EffectedSteers

LEMMA CustomEffect ==
    ASSUME NEW s, Served(s), NEW b \in BOOLEAN, NEW t, t = custom_flag(s, b) \/ t = docmd_custom(s)
    PROVE  Effected(s, t)
<1>1. /\ "custom1" \in PlainMenus /\ "custom1" \in MenusOf("plain") /\ "none" \in MenusOf("plain")
      /\ "plain" \in Levels \ {"app", "command"}
  BY MenusOfLevels, LevelFacts DEF PlainMenus
<1>2. \/ t = s \/ t = set_menu(s, "plain", "custom1") \/ t = set_menu(s, "plain", "none")
      \/ t = set_plainmenu(s, "custom1")
  BY DEF custom_flag, docmd_custom
<1>3. CASE t = set_plainmenu(s, "custom1")
  <2>1. Steers(s, t)
    BY <1>1, <1>3, SteersPlain DEF Served
  <2> QED
    BY <2>1, EffectedSteers
<1> QED
  BY <1>1, <1>2, <1>3, EffectedSame, LevelEffect

LEMMA MenuEffect ==
    ASSUME NEW s, Served(s), NEW t, t = docmd_menu(s)
    PROVE  Effected(s, t)
<1> DEFINE v == set_menu(s, "plain", "programmable")
<1>1. "programmable" \in MenusOf("plain") /\ "plain" \in Levels \ {"app", "command"} /\ TRUE \in BOOLEAN
  BY MenusOfLevels, LevelFacts DEF PlainMenus
<1>2. Effected(s, v)
  BY <1>1, LevelEffect
<1>3. t = [v EXCEPT !.sticky = TRUE]
  BY DEF docmd_menu
<1> HIDE DEF v
<1>4. Served(v) /\ v \in Calculators
  BY <1>2 DEF Effected, Served, Screen
<1>5. t \in Calculators /\ Keeps(v, t, {"sticky"})
  BY <1>1, <1>3, <1>4, PutSticky
<1>6. Effected(v, t)
  BY <1>4, <1>5, EffectedLoose DEF Loose
<1> QED
  BY <1>2, <1>6, EffectedTwice

LEMMA AlphaEffect ==
    ASSUME NEW s, Served(s), NEW t, t = docmd_aoff(s) \/ t = docmd_aon(s)
    PROVE  Effected(s, t)
<1> DEFINE v == set_menu(s, "alpha", "alpha1")
<1>1. /\ "none" \in MenusOf("alpha") /\ "alpha1" \in MenusOf("alpha") /\ FALSE \in BOOLEAN
      /\ "alpha" \in Levels \ {"app", "command"}
  BY MenusOfLevels, LevelFacts DEF AlphaMenus
<1>2. Effected(s, v)
  BY <1>1, LevelEffect
<1>3. t = set_menu(s, "alpha", "none") \/ t = [v EXCEPT !.alpha = FALSE]
  BY DEF docmd_aoff, docmd_aon
<1> HIDE DEF v
<1>4. CASE t = [v EXCEPT !.alpha = FALSE]
  <2>1. Served(v) /\ v \in Calculators
    BY <1>2 DEF Effected, Served, Screen
  <2>2. t \in Calculators /\ ~t.alpha /\ Keeps(v, t, {"alpha"})
    BY <1>1, <1>4, <2>1, PutAlpha
  <2>3. {"alpha"} \subseteq Plainer
    BY DEF Plainer
  <2>4. Screen(t) /\ Fits(t) /\ t.menu = v.menu
    BY <2>1, <2>2, <2>3, StaysFit DEF Served
  <2>5. t.lines = v.lines /\ t.pc = v.pc
    BY <2>2 DEF Keeps, Fields
  <2>6. Keeps(v, t, EffFields)
    BY <2>2 DEF Keeps, EffFields
  <2>7. Effected(v, t)
    BY <2>1, <2>2, <2>4, <2>5, <2>6 DEF Effected, Served
  <2> QED
    BY <1>2, <2>7, EffectedTwice
<1> QED
  BY <1>1, <1>3, <1>4, LevelEffect

LEMMA ResetEffect ==
    ASSUME NEW s, Served(s), NEW t, t = Reset(s)
    PROVE  Effected(s, t)
<1> DEFINE a == [s EXCEPT !.prgm = FALSE]
           b == [a EXCEPT !.pc = -1]
           c == [b EXCEPT !.lines = 0]
           d == [c EXCEPT !.locked = FALSE]
           k == {"mat"}
           e == [d EXCEPT !.kinds = k]
<1>1. t = [e EXCEPT !.mvars = FALSE]
  BY DEF Reset
<1>2. s \in Calculators /\ FALSE \in BOOLEAN /\ -1 \in Int /\ 0 \in Int /\ k \in KindStates
  BY DEF Served, Screen, KindStates
<1> HIDE DEF k
<1>3. a \in Calculators /\ Keeps(s, a, {"prgm"})
  BY <1>2, PutPrgm
<1> HIDE DEF a
<1>4. b \in Calculators /\ b.pc = -1 /\ Keeps(a, b, {"pc"})
  BY <1>2, <1>3, PutPc
<1> HIDE DEF b
<1>5. c \in Calculators /\ c.lines = 0 /\ Keeps(b, c, {"lines"})
  BY <1>2, <1>4, PutLines
<1> HIDE DEF c
<1>6. d \in Calculators /\ Keeps(c, d, {"locked"})
  BY <1>2, <1>5, PutLocked
<1> HIDE DEF d
<1>7. e \in Calculators /\ Keeps(d, e, {"kinds"})
  BY <1>2, <1>6, PutKinds
<1> HIDE DEF e
<1>8. t \in Calculators /\ Keeps(e, t, {"mvars"})
  BY <1>1, <1>2, <1>7, PutMvars
<1> DEFINE F == {"prgm", "pc", "lines", "locked", "kinds", "mvars"}
<1>9. Keeps(s, t, F)
  BY <1>3, <1>4, <1>5, <1>6, <1>7, <1>8 DEF Keeps
<1>10. t.pc = -1 /\ t.lines = 0
  BY <1>4, <1>5, <1>6, <1>7, <1>8 DEF Keeps, Fields
<1>11. Screen(t)
  BY <1>8, <1>9, SameScreen DEF Served
<1>12. /\ t.menu = s.menu /\ t.alpha = s.alpha /\ t.cb = s.cb /\ t.edit = s.edit
       /\ t.baseapp = s.baseapp /\ t.role = s.role
  BY <1>9 DEF Keeps, Fields
<1>13. Fits(t)
  BY <1>12 DEF Served, Fits
<1>14. Keeps(s, t, EffFields)
  BY <1>9 DEF Keeps, EffFields
<1>15. t.lines \in 0 .. MaxLines /\ t.pc \in -1 .. t.lines
  BY <1>10
<1> QED
  BY <1>11, <1>12, <1>13, <1>14, <1>15 DEF Effected, Served

LEMMA ClallEffect ==
    ASSUME NEW s, Served(s), NEW t, t = docmd_clall(s)
    PROVE  Effected(s, t)
<1> DEFINE x == [s EXCEPT !.refuse = FALSE]
           y == docmd_exitall(x)
           z == clear_all_rtns(y)
<1>1. t = Reset(z)
  BY DEF docmd_clall, Reset
<1>2. s \in Calculators /\ FALSE \in BOOLEAN
  BY DEF Served, Screen
<1>3. x \in Calculators /\ Keeps(s, x, {"refuse"})
  BY <1>2, PutRefuse
<1> HIDE DEF x
<1>4. Effected(s, x)
  BY <1>3, EffectedLoose DEF Loose
<1>5. Effected(x, y)
  BY <1>4, AppEffects DEF Effected
<1> HIDE DEF y
<1>6. Served(y) /\ Screen(y) /\ Fits(y)
  BY <1>5 DEF Effected, Served
<1>7. Steers(y, z)
  BY <1>6, SteersRtns
<1> HIDE DEF z
<1>8. Effected(y, z)
  BY <1>6, <1>7, EffectedSteers
<1>9. Effected(z, t)
  BY <1>1, <1>8, ResetEffect DEF Effected
<1> QED
  BY <1>4, <1>5, <1>8, <1>9, EffectedTwice

LEMMA FlagEffects ==
    ASSUME NEW s, Served(s),
           NEW t, \/ t = [s EXCEPT !.nested = TRUE] \/ t = [s EXCEPT !.local = TRUE]
                  \/ t = [s EXCEPT !.mvars = ~@]
    PROVE  Effected(s, t)
<1> DEFINE b == ~s.mvars
<1>1. s \in Calculators /\ TRUE \in BOOLEAN /\ b \in BOOLEAN
  BY DEF Served, Screen
<1>2. \/ t = [s EXCEPT !.nested = TRUE] \/ t = [s EXCEPT !.local = TRUE]
      \/ t = [s EXCEPT !.mvars = b]
  OBVIOUS
<1> HIDE DEF b
<1>3. CASE t = [s EXCEPT !.nested = TRUE]
  <2>1. t \in Calculators /\ Keeps(s, t, {"nested"})
    BY <1>1, <1>3, PutNested
  <2> QED
    BY <2>1, EffectedLoose DEF Loose
<1>4. CASE t = [s EXCEPT !.local = TRUE]
  <2>1. t \in Calculators /\ Keeps(s, t, {"local"})
    BY <1>1, <1>4, PutLocal
  <2> QED
    BY <2>1, EffectedLoose DEF Loose
<1>5. CASE t = [s EXCEPT !.mvars = b]
  <2>1. t \in Calculators /\ Keeps(s, t, {"mvars"})
    BY <1>1, <1>5, PutMvars
  <2> QED
    BY <2>1, EffectedLoose DEF Loose
<1> QED
  BY <1>2, <1>3, <1>4, <1>5

LEMMA RtnsEffect ==
    ASSUME NEW s, Served(s), NEW t, t = clear_all_rtns(s)
    PROVE  Effected(s, t)
<1>1. Steers(s, t)
  BY SteersRtns DEF Served
<1> QED
  BY <1>1, EffectedSteers

LEMMA Effecting ==
    ASSUME NEW s, Served(s), NEW x \in Effects, NEW t, t = Effect(s, x)
    PROVE  Effected(s, t)
<1>0. TRUE \in BOOLEAN /\ FALSE \in BOOLEAN
  OBVIOUS
<1>1. CASE x = "nothing"
  <2>1. Effect(s, "nothing") = (s)
    BY DEF Effect
  <2> QED
    BY <1>0, <1>1, <2>1, EffectedSame
<1>2. CASE x = "edit"
  <2>1. Effect(s, "edit") = (IF s.kinds = {} THEN finish_edit(s) ELSE docmd_edit(s))
    BY DEF Effect
  <2> QED
    BY <1>0, <1>2, <2>1, EditFinished, EditEffect
<1>3. CASE x = "list"
  <2>1. Effect(s, "list") = (IF s.edit THEN [s EXCEPT !.nested = TRUE] ELSE s)
    BY DEF Effect
  <2> QED
    BY <1>0, <1>3, <2>1, EffectedSame, FlagEffects
<1>4. CASE x = "lost"
  <2>1. Effect(s, "lost") = (IF s.edit THEN leave_matrix_editor(s) ELSE s)
    BY DEF Effect
  <2> QED
    BY <1>0, <1>4, <2>1, EffectedSame, EditLost
<1>5. CASE x = "exitall"
  <2>1. Effect(s, "exitall") = (docmd_exitall(s))
    BY DEF Effect
  <2> QED
    BY <1>0, <1>5, <2>1, AppEffects
<1>6. CASE x = "varmenu"
  <2>1. Effect(s, "varmenu") = (IF s.mvars THEN docmd_varmenu(s) ELSE s)
    BY DEF Effect
  <2> QED
    BY <1>0, <1>6, <2>1, EffectedSame, VarmenuEffect
<1>7. CASE x = "varmnu1"
  <2>1. Effect(s, "varmnu1") = (IF s.mvars THEN docmd_varmnu1(s, FALSE) ELSE s)
    BY DEF Effect
  <2> QED
    BY <1>0, <1>7, <2>1, EffectedSame, Varmnu1Effect
<1>8. CASE x = "varmnu1_run"
  <2>1. Effect(s, "varmnu1_run") = (IF s.mvars THEN docmd_varmnu1(s, TRUE) ELSE s)
    BY DEF Effect
  <2> QED
    BY <1>0, <1>8, <2>1, EffectedSame, Varmnu1Effect
<1>9. CASE x = "pgmmenu"
  <2>1. Effect(s, "pgmmenu") = (docmd_pgmmenu(s))
    BY DEF Effect
  <2> QED
    BY <1>0, <1>9, <2>1, PgmmenuEffect
<1>10. CASE x = "simq"
  <2>1. Effect(s, "simq") = (docmd_simq(s))
    BY DEF Effect
  <2> QED
    BY <1>0, <1>10, <2>1, AppEffects
<1>11. CASE x = "decimal"
  <2>1. Effect(s, "decimal") = (base_helper(s, FALSE, FALSE))
    BY DEF Effect
  <2> QED
    BY <1>0, <1>11, <2>1, BaseEffect
<1>12. CASE x = "hex"
  <2>1. Effect(s, "hex") = (base_helper(s, TRUE, FALSE))
    BY DEF Effect
  <2> QED
    BY <1>0, <1>12, <2>1, BaseEffect
<1>13. CASE x = "base_run"
  <2>1. Effect(s, "base_run") = (base_helper(s, TRUE, TRUE))
    BY DEF Effect
  <2> QED
    BY <1>0, <1>13, <2>1, BaseEffect
<1>14. CASE x = "a_thru_f"
  <2>1. Effect(s, "a_thru_f") = (docmd_a_thru_f(s))
    BY DEF Effect
  <2> QED
    BY <1>0, <1>14, <2>1, LettersEffect
<1>15. CASE x = "custom_on"
  <2>1. Effect(s, "custom_on") = (custom_flag(s, TRUE))
    BY DEF Effect
  <2> QED
    BY <1>0, <1>15, <2>1, CustomEffect
<1>16. CASE x = "custom_off"
  <2>1. Effect(s, "custom_off") = (custom_flag(s, FALSE))
    BY DEF Effect
  <2> QED
    BY <1>0, <1>16, <2>1, CustomEffect
<1>17. CASE x = "aoff"
  <2>1. Effect(s, "aoff") = (docmd_aoff(s))
    BY DEF Effect
  <2> QED
    BY <1>0, <1>17, <2>1, AlphaEffect
<1>18. CASE x = "aon"
  <2>1. Effect(s, "aon") = (docmd_aon(s))
    BY DEF Effect
  <2> QED
    BY <1>0, <1>18, <2>1, AlphaEffect
<1>19. CASE x = "menu"
  <2>1. Effect(s, "menu") = (docmd_menu(s))
    BY DEF Effect
  <2> QED
    BY <1>0, <1>19, <2>1, MenuEffect
<1>20. CASE x = "clear_rtns"
  <2>1. Effect(s, "clear_rtns") = (clear_all_rtns(s))
    BY DEF Effect
  <2> QED
    BY <1>0, <1>20, <2>1, RtnsEffect
<1>21. CASE x = "local"
  <2>1. Effect(s, "local") = ([s EXCEPT !.local = TRUE])
    BY DEF Effect
  <2> QED
    BY <1>0, <1>21, <2>1, FlagEffects
<1>22. CASE x = "mvar"
  <2>1. Effect(s, "mvar") = ([s EXCEPT !.mvars = ~@])
    BY DEF Effect
  <2> QED
    BY <1>0, <1>22, <2>1, FlagEffects
<1> QED
  BY <1>1, <1>2, <1>3, <1>4, <1>5, <1>6, <1>7, <1>8, <1>9, <1>10, <1>11, <1>12, <1>13, <1>14,
     <1>15, <1>16, <1>17, <1>18, <1>19, <1>20, <1>21, <1>22 DEF Effects, OfPrograms

LEMMA Handled ==
    ASSUME NEW s, Served(s), NEW cmd, cmd \in {"PGMSLVi", "PGMINTi"} => s.menu["app"] = "catalog",
           NEW x \in Effects, NEW t, t = handle(s, cmd, x)
    PROVE  Effected(s, t)
<1>1. \/ t = docmd_clall(s) \/ t = s \/ t = docmd_custom(s) \/ t = Effect(s, x)
      \/ (cmd = "PGMSLVi" /\ t = docmd_pgmslvi(s)) \/ (cmd = "PGMINTi" /\ t = docmd_pgminti(s))
  BY DEF handle
<1>2. TRUE \in BOOLEAN
  OBVIOUS
<1> QED
  BY <1>1, <1>2, ClallEffect, EffectedSame, CustomEffect, Effecting, SolverEffect, IntegratorEffect

-----------------------------------------------------------------------------
(* The key goes up                                                         *)

LEMMA IdleServed ==
    ASSUME NEW s, Idle(s)
    PROVE  Served(s) /\ s \in Calculators /\ ~s.num /\ s.saved = -1
<1>1. ~mode_command_entry(s) /\ ~s.alpha /\ ~s.num
  BY DEF Idle, InEntry
<1> QED
  BY <1>1 DEF Idle, Inv, Modes, Counters, Served, Screen

(* The command has been carried out: nothing is under way at all. *)
LEMMA IdleInv ==
    ASSUME NEW s, Idle(s), NEW t, Served(t), Keeps(s, t, EffFields \cup {"pend", "rpc"}),
           t.pend = "none", ~t.rpc, ~Stale(t)
    PROVE  Inv(t) /\ ~InEntry(t)
<1>1. /\ t.saved = s.saved /\ t.inc = s.inc /\ t.num = s.num /\ t.nlen = s.nlen
      /\ t.alen = s.alen /\ t.clall = s.clall
  BY DEF Keeps, Fields, EffFields, MenuFields, AppFields
<1>2. ~mode_command_entry(s) /\ ~s.num /\ s.saved = -1 /\ Inv(s) /\ ~s.clall
  BY IdleServed DEF Idle, InEntry
<1>3. ~mode_command_entry(t) /\ ~t.num /\ ~t.alpha /\ ~t.clall /\ t.saved = -1
  BY <1>1, <1>2 DEF mode_command_entry, Served
<1>4. Screen(t) /\ Fits(t) /\ t.menu["command"] = "none"
  BY DEF Served
<1>5. EntryFits(t)
  <2>1. s.inc.cmd = "none"
    BY <1>2 DEF mode_command_entry
  <2>2. s.menu["command"] = "none"
    BY IdleServed DEF Served
  <2> QED
    BY <1>1, <1>2, <1>4, <2>1, <2>2 DEF Inv, EntryFits, Internal
<1>6. Counters(t)
  BY <1>1, <1>2, <1>3 DEF Inv, Counters, Served
<1>7. Modes(t)
  BY <1>3, <1>4 DEF Modes
<1> QED
  BY <1>3, <1>4, <1>5, <1>6, <1>7 DEF Inv, InEntry

(* The catalog a program is chosen from goes. *)
LEMMA CatalogGoneEffect ==
    ASSUME NEW s, Served(s), NEW t, t = CatalogGone(s)
    PROVE  /\ Served(t) /\ Keeps(s, t, EffFields \cup {"rpc"}) /\ ~t.rpc
           /\ t.lines = s.lines /\ t.pend = s.pend
           /\ ~s.rpc => t = s
<1> DEFINE v == CASE s.menu["transient"] = "catalog" -> set_menu(s, "transient", "none")
                  [] s.menu["transient"] # "catalog" /\ s.menu["plain"] = "catalog" ->
                       set_menu(s, "plain", "none")
                  [] OTHER -> s
<1>1. t = IF s.rpc THEN [v EXCEPT !.rpc = FALSE] ELSE s
  BY DEF CatalogGone
<1>2. CASE ~s.rpc
  BY <1>1, <1>2 DEF Keeps
<1>3. CASE s.rpc
  <2>1. v = s \/ v = set_menu(s, "transient", "none") \/ v = set_menu(s, "plain", "none")
    OBVIOUS
  <2>2. /\ "transient" \in Levels \ {"app", "command"} /\ "plain" \in Levels \ {"app", "command"}
        /\ "none" \in MenusOf("transient") /\ "none" \in MenusOf("plain")
    BY LevelFacts, MenusOfLevels
  <2> HIDE DEF v
  <2>a. Steers(s, v)
    BY <2>1, <2>2, SteersSame, SteersAt DEF Served
  <2>b. v.lines = s.lines /\ v.pend = s.pend
    BY <2>a DEF Steers, Keeps, Fields, MenuFields, AppFields
  <2>3. Effected(s, v)
    BY <2>a, EffectedSteers
  <2>4. Served(v) /\ Screen(v) /\ Fits(v) /\ v \in Calculators /\ FALSE \in BOOLEAN
    BY <2>3 DEF Effected, Served, Screen
  <2>5. t \in Calculators /\ ~t.rpc /\ Keeps(v, t, {"rpc"})
    BY <1>1, <1>3, <2>4, PutRpc
  <2>6. {"rpc"} \subseteq Plainer
    BY DEF Plainer
  <2>7. Screen(t) /\ Fits(t) /\ t.menu = v.menu
    BY <2>4, <2>5, <2>6, StaysFit
  <2>8. t.lines = v.lines /\ t.pc = v.pc /\ t.alpha = v.alpha /\ t.pend = v.pend
    BY <2>5 DEF Keeps, Fields
  <2>9. Keeps(s, t, EffFields \cup {"rpc"})
    BY <2>3, <2>5 DEF Effected, Keeps
  <2> QED
    BY <1>3, <2>4, <2>5, <2>7, <2>8, <2>9, <2>b DEF Served
<1> QED
  BY <1>2, <1>3

(* What is shown when a key has gone up *)
LEMMA Redisplayed ==
    ASSUME NEW s, Served(s), NEW t, t = redisplay(s)
    PROVE  Effected(s, t)
<1>1. Redrawn(s, t)
  BY RedisplayFrame DEF Served
<1>2. Screen(t) /\ Fits(t) /\ Keeps(s, t, AppFields) /\ t.menu["command"] = "none"
  BY <1>1 DEF Redrawn, Served
<1>3. t.lines = s.lines /\ t.pc = s.pc /\ t.alpha = s.alpha
  BY <1>2 DEF Keeps, Fields, AppFields
<1>4. Keeps(s, t, EffFields)
  BY <1>2 DEF Keeps, EffFields, MenuFields
<1> QED
  BY <1>2, <1>3, <1>4 DEF Effected, Served

LEMMA PendGone ==
    ASSUME NEW s, Served(s), NEW x \in Words, NEW t, t = [s EXCEPT !.pend = x]
    PROVE  Served(t) /\ t.pend = x /\ Keeps(s, t, {"pend"})
<1>1. s \in Calculators /\ Screen(s) /\ Fits(s)
  BY DEF Served, Screen
<1>2. t \in Calculators /\ t.pend = x /\ Keeps(s, t, {"pend"})
  BY <1>1, PutPend
<1>3. {"pend"} \subseteq Plainer
  BY DEF Plainer
<1>4. Screen(t) /\ Fits(t) /\ t.menu = s.menu
  BY <1>1, <1>2, <1>3, StaysFit
<1>5. t.lines = s.lines /\ t.pc = s.pc /\ t.alpha = s.alpha
  BY <1>2 DEF Keeps, Fields
<1> QED
  BY <1>2, <1>4, <1>5 DEF Served

(* A program that was run stops somewhere in its lines. *)
LEMMA MovedServed ==
    ASSUME NEW s, Served(s), NEW pc \in -1 .. s.lines, NEW t, t = Moved(s, pc)
    PROVE  Effected(s, t) /\ t.menu = s.menu
<1>1. t = s \/ t = [s EXCEPT !.pc = pc]
  BY DEF Moved
<1>2. CASE t = [s EXCEPT !.pc = pc]
  <2>1. s \in Calculators /\ Screen(s) /\ Fits(s) /\ pc \in Int /\ s.lines \in 0 .. MaxLines
    BY DEF Served, Screen
  <2>2. t \in Calculators /\ t.pc = pc /\ Keeps(s, t, {"pc"})
    BY <1>2, <2>1, PutPc
  <2>3. {"pc"} \subseteq Plainer
    BY DEF Plainer
  <2>4. Screen(t) /\ Fits(t) /\ t.menu = s.menu
    BY <2>1, <2>2, <2>3, StaysFit
  <2>5. t.lines = s.lines /\ t.alpha = s.alpha
    BY <2>2 DEF Keeps, Fields
  <2>6. Keeps(s, t, EffFields)
    BY <2>2 DEF Keeps, EffFields
  <2> QED
    BY <2>2, <2>4, <2>5, <2>6 DEF Effected, Served
<1> QED
  BY <1>1, <1>2, EffectedSame

LEMMA CarriedServed ==
    ASSUME NEW s, Served(s), NEW x \in Effects, NEW pc \in -1 .. s.lines, NEW kinds \in KindStates,
           s.pend \in {"PGMSLVi", "PGMINTi"} => s.menu["app"] = "catalog",
           NEW t, t = Carried(s, x, pc, kinds)
    PROVE  Served(t) /\ t.pend = "none" /\ Keeps(s, t, EffFields \cup {"pend"})
<1> DEFINE b == s.pend \in {"VMSTO", "VMSOLVE", "VMEXEC"}
           a == [s EXCEPT !.vm = b]
           v == Moved(a, pc)
           w == [v EXCEPT !.kinds = kinds]
           y == handle(w, s.pend, x)
           z == [y EXCEPT !.pend = "none"]
           d == [z EXCEPT !.err = FALSE]
<1>1. t = redisplay(d)
  BY DEF Carried
<1>2. s \in Calculators /\ b \in BOOLEAN /\ FALSE \in BOOLEAN /\ "none" \in Words
  BY DEF Served, Screen, Words
<1> HIDE DEF b
<1>3. a \in Calculators /\ Keeps(s, a, {"vm"})
  BY <1>2, PutVm
<1> HIDE DEF a
<1>4. Effected(s, a) /\ a.menu = s.menu
  BY <1>3, EffectedLoose DEF Loose
<1>5. a.lines = s.lines
  BY <1>3 DEF Keeps, Fields
<1>6. Effected(a, v) /\ v.menu = a.menu
  BY <1>4, <1>5, MovedServed DEF Effected
<1> HIDE DEF v
<1>7. Served(v) /\ v \in Calculators
  BY <1>6 DEF Effected, Served, Screen
<1>8. w \in Calculators /\ Keeps(v, w, {"kinds"})
  BY <1>7, PutKinds
<1> HIDE DEF w
<1>9. Effected(v, w) /\ w.menu = v.menu
  BY <1>7, <1>8, EffectedLoose DEF Loose
<1>10. Served(w) /\ w.menu = s.menu
  BY <1>4, <1>6, <1>9 DEF Effected
<1>11. Effected(w, y)
  BY <1>10, Handled
<1> HIDE DEF y
<1>12. Effected(s, y) /\ Served(y)
  BY <1>4, <1>6, <1>9, <1>11, EffectedTwice DEF Effected
<1>13. Served(z) /\ z.pend = "none" /\ Keeps(y, z, {"pend"})
  BY <1>2, <1>12, PendGone
<1> HIDE DEF z
<1>14. z \in Calculators
  BY <1>13 DEF Served, Screen
<1>15. d \in Calculators /\ Keeps(z, d, {"err"})
  BY <1>2, <1>14, PutErr
<1> HIDE DEF d
<1>16. Effected(z, d)
  BY <1>13, <1>15, EffectedLoose DEF Loose
<1>17. Effected(d, t)
  BY <1>1, <1>16, Redisplayed DEF Effected
<1>18. Served(t) /\ Keeps(z, t, EffFields)
  BY <1>16, <1>17, EffectedTwice DEF Effected
<1>19. t.pend = z.pend
  BY <1>18 DEF Keeps, Fields, EffFields, MenuFields, AppFields
<1>20. Keeps(s, t, EffFields \cup {"pend"})
  BY <1>12, <1>13, <1>18 DEF Effected, Keeps
<1> QED
  BY <1>13, <1>18, <1>19, <1>20

(* Nothing has happened but that the key has gone up. *)
LEMMA Calmed ==
    ASSUME NEW s, Inv(s), ~Stale(s), ~s.rpc, s.pend # "none", NEW t \in Calculators, NEW F, Keeps(s, t, F),
           F \subseteq {"pend", "vm", "kinds", "err", "refuse"}, t.pend \in Quiet
    PROVE  /\ Inv(t) /\ ~Stale(t) /\ t.menu = s.menu
           /\ t.pc = s.pc /\ t.lines = s.lines /\ t.saved = s.saved /\ t.prgm = s.prgm
           /\ t.inc = s.inc /\ t.alpha = s.alpha
<1>1. Screen(s) /\ Fits(s) /\ ~s.clall /\ ~s.num
  BY DEF Inv, Modes
<1>2. F \subseteq Plainer
  BY DEF Plainer
<1>3. Screen(t) /\ Fits(t) /\ ~Stale(t) /\ t.menu = s.menu
  BY <1>1, <1>2, StaysFit
<1>4. /\ t.pc = s.pc /\ t.lines = s.lines /\ t.saved = s.saved /\ t.prgm = s.prgm
      /\ t.inc = s.inc /\ t.alpha = s.alpha /\ t.alen = s.alen /\ t.num = s.num
      /\ t.nlen = s.nlen /\ t.clall = s.clall /\ t.rpc = s.rpc
  BY DEF Keeps, Fields
<1>5. EntryFits(t) /\ Counters(t)
  BY <1>3, <1>4 DEF Inv, EntryFits, Counters
<1>6. mode_command_entry(t) = mode_command_entry(s) /\ alpha_active(t) = alpha_active(s)
  BY <1>3, <1>4, SameLetters DEF mode_command_entry
<1>7. t.pend \notin {"PGMSLVi", "PGMINTi", "CLA"}
  BY DEF Quiet
<1>8. Modes(t)
  BY <1>1, <1>3, <1>4, <1>6, <1>7 DEF Inv, Modes
<1> QED
  BY <1>3, <1>4, <1>5, <1>8 DEF Inv

LEMMA RefusingIdle ==
    ASSUME NEW s, Idle(s), NEW r \in BOOLEAN, NEW t, t = [s EXCEPT !.refuse = r]
    PROVE  Served(t) /\ Keeps(s, t, {"refuse"}) /\ t.menu = s.menu
<1>1. Served(s) /\ s \in Calculators
  BY IdleServed
<1>2. t \in Calculators /\ Keeps(s, t, {"refuse"})
  BY <1>1, PutRefuse
<1> QED
  BY <1>1, <1>2, EffectedLoose DEF Loose, Effected

LEMMA HomeStays ==
    ASSUME NEW s, Inv(s), s.pend # "none", NEW h, HomeOK(s, h), NEW t, AsItWas(s, t)
    PROVE  HomeOK(t, h) /\ Trace(s, h, t)
<1>1. ~s.num
  BY DEF Inv, Modes
<1>2. mode_command_entry(t) = mode_command_entry(s) /\ t.alpha = s.alpha
  BY DEF AsItWas, mode_command_entry
<1>3. CASE mode_command_entry(s) \/ s.alpha
  BY <1>2, <1>3, HomeKept DEF AsItWas
<1>4. CASE ~mode_command_entry(s) /\ ~s.alpha
  <2>1. HomeOK(t, h)
    BY <1>2, <1>4, HomeEmpty
  <2>2. ~InEntry(s)
    BY <1>1, <1>4 DEF InEntry
  <2> QED
    BY <2>1, <2>2 DEF Trace
<1> QED
  BY <1>3, <1>4

LEMMA ApartStays ==
    ASSUME NEW s, NEW v, NEW t, AsItWas(s, v), Inv(t), Apart(v, t)
    PROVE  AsItWas(s, t)
<1>1. /\ t.pc = v.pc /\ t.lines = v.lines /\ t.saved = v.saved /\ t.prgm = v.prgm
      /\ t.inc = v.inc /\ t.alpha = v.alpha /\ BelowSame(v, t)
  BY ApartFacts
<1> QED
  BY <1>1, BelowThrough DEF AsItWas

LEMMA CalmedStays ==
    ASSUME NEW s, Inv(s), ~Stale(s), ~s.rpc, s.pend # "none", NEW t \in Calculators, NEW F, Keeps(s, t, F),
           F \subseteq {"pend", "vm", "kinds", "err", "refuse"}, t.pend \in Quiet
    PROVE  AsItWas(s, t) /\ ~Stale(t) /\ t.menu = s.menu
  BY Calmed DEF AsItWas, BelowSame

LEMMA KeyUpLingers ==
    ASSUME NEW s, Inv(s), s.pend = "linger1", NEW r \in BOOLEAN, NEW t, t = Settled(Lingering(s, r))
    PROVE  AsItWas(s, t)
<1> DEFINE y == [s EXCEPT !.refuse = r]
           k == Lingering(s, r)
<1>1. s \in Calculators /\ ~Stale(s) /\ ~s.rpc /\ "linger2" \in Words /\ "linger2" \in Quiet
  BY DEF Inv, Modes, Screen, Words, Quiet
<1>2. k = [y EXCEPT !.pend = "linger2"] /\ t = Settled(k)
  BY DEF Lingering
<1>3. y \in Calculators /\ Keeps(s, y, {"refuse"})
  BY <1>1, PutRefuse
<1> HIDE DEF y, k
<1>4. k \in Calculators /\ k.pend = "linger2" /\ Keeps(y, k, {"pend"})
  BY <1>1, <1>2, <1>3, PutPend
<1> DEFINE F == {"refuse", "pend"}
<1>5. Keeps(s, k, F)
  BY <1>3, <1>4 DEF Keeps
<1>6. AsItWas(s, k)
  BY <1>1, <1>4, <1>5, CalmedStays
<1>7. Inv(t) /\ Apart(k, t)
  BY <1>2, <1>6, SettledInv DEF AsItWas
<1> QED
  BY <1>6, <1>7, ApartStays

LEMMA TimedOut ==
    ASSUME NEW s, Inv(s), s.pend \in {"linger1", "linger2"}, NEW t, t = core_timeout3(s)
    PROVE  AsItWas(s, t)
<1> DEFINE x == IF s.pend = "linger1" THEN "cancelled" ELSE "none"
<1>1. s \in Calculators /\ ~Stale(s) /\ ~s.rpc /\ x \in Words /\ x \in Quiet /\ s.pend # "none"
  BY DEF Inv, Modes, Screen, Words, Quiet
<1>2. t = [s EXCEPT !.pend = x]
  BY DEF core_timeout3
<1> HIDE DEF x
<1>3. t \in Calculators /\ t.pend = x /\ Keeps(s, t, {"pend"})
  BY <1>1, <1>2, PutPend
<1> DEFINE F == {"pend"}
<1>4. Keeps(s, t, F) /\ F \subseteq {"pend", "vm", "kinds", "err", "refuse"}
  BY <1>3
<1> HIDE DEF F
<1>5. AsItWas(s, t)
  BY <1>1, <1>3, <1>4, CalmedStays
<1> QED
  BY <1>5

LEMMA ReleasedEntry ==
    ASSUME NEW s, Inv(s), InEntry(s), s.pend \notin {"none", "linger1", "linger2"},
           NEW r \in BOOLEAN, NEW x, NEW pc, NEW t,
           t = Settled(core_keyup(Releasing(s, r), x, pc, s.kinds))
    PROVE  AsItWas(s, t)
<1> DEFINE y == Releasing(s, r)
           k == core_keyup(y, x, pc, s.kinds)
<1>1. /\ s \in Calculators /\ ~Stale(s) /\ ~s.rpc /\ "none" \in Words /\ "none" \in Quiet
      /\ FALSE \in BOOLEAN /\ s.kinds \in KindStates
      /\ s.pend = "cancelled" \/ (s.pend = "CLA" /\ s.alpha /\ ~mode_command_entry(s))
  BY DEF Inv, Modes, Screen, Words, Quiet, InEntry, Calculators
<1>2. y \in Calculators /\ Keeps(s, y, {"refuse"})
  BY <1>1, PutRefuse DEF Releasing
<1> HIDE DEF y
<1>3. y.pend = s.pend /\ ~y.rpc
  BY <1>1, <1>2 DEF Keeps, Fields
<1>4. CatalogGone(y) = y
  BY <1>3 DEF CatalogGone
<1>5. CASE s.pend = "cancelled"
  <2> DEFINE z == [y EXCEPT !.pend = "none"]
             F == {"refuse", "pend"}
  <2>1. k = redisplay(z)
    BY <1>3, <1>4, <1>5 DEF core_keyup
  <2>2. z \in Calculators /\ z.pend = "none" /\ Keeps(y, z, {"pend"})
    BY <1>1, <1>2, PutPend
  <2> HIDE DEF z, k
  <2>3. Keeps(s, z, F)
    BY <1>2, <2>2 DEF Keeps
  <2>4. AsItWas(s, z) /\ ~Stale(z)
    BY <1>1, <1>5, <2>2, <2>3, CalmedStays
  <2>5. Inv(k) /\ Apart(z, k)
    BY <2>1, <2>4, RedrawnInv DEF AsItWas
  <2>6. AsItWas(s, k)
    BY <2>4, <2>5, ApartStays
  <2>7. t = Settled(k)
    BY DEF k, y
  <2>8. Inv(t) /\ Apart(k, t)
    BY <2>5, <2>7, SettledInv
  <2> QED
    BY <2>6, <2>8, ApartStays
<1>6. CASE s.pend = "CLA"
  <2> DEFINE g == y.pend \in {"VMSTO", "VMSOLVE", "VMEXEC"}
             a == [y EXCEPT !.vm = g]
             b == [a EXCEPT !.kinds = s.kinds]
             c == [b EXCEPT !.pend = "none"]
             z == [c EXCEPT !.err = FALSE]
             F == {"refuse", "vm", "kinds", "pend", "err"}
  <2>1. k = redisplay(z)
    <3>1. k = Carried(y, x, pc, s.kinds)
      BY <1>3, <1>4, <1>6 DEF core_keyup
    <3>2. a.pend = "CLA"
      <4>1. g \in BOOLEAN
        OBVIOUS
      <4> HIDE DEF g
      <4>2. Keeps(y, a, {"vm"})
        BY <1>2, <4>1, PutVm
      <4> QED
        BY <1>3, <1>6, <4>2 DEF Keeps, Fields
    <3>3. Moved(a, pc) = a
      BY <3>2 DEF Moved, Runs
    <3>4. handle(b, "CLA", x) = b
      BY DEF handle
    <3>5. Carried(y, x, pc, s.kinds) = redisplay(z)
      BY <1>3, <1>6, <3>2, <3>3, <3>4 DEF Carried
    <3> QED
      BY <3>1, <3>5
  <2>b. g \in BOOLEAN
    OBVIOUS
  <2> HIDE DEF g
  <2>2. a \in Calculators /\ Keeps(y, a, {"vm"})
    BY <1>2, <2>b, PutVm
  <2> HIDE DEF a
  <2>3. b \in Calculators /\ Keeps(a, b, {"kinds"})
    BY <1>1, <2>2, PutKinds
  <2> HIDE DEF b
  <2>4. c \in Calculators /\ c.pend = "none" /\ Keeps(b, c, {"pend"})
    BY <1>1, <2>3, PutPend
  <2> HIDE DEF c
  <2>5. z \in Calculators /\ Keeps(c, z, {"err"})
    BY <1>1, <2>4, PutErr
  <2> HIDE DEF z, k
  <2>6. z.pend = "none"
    BY <2>4, <2>5 DEF Keeps, Fields
  <2>7. Keeps(s, z, F)
    BY <1>2, <2>2, <2>3, <2>4, <2>5 DEF Keeps
  <2>8. AsItWas(s, z) /\ ~Stale(z)
    BY <1>1, <1>6, <2>5, <2>6, <2>7, CalmedStays
  <2>9. Inv(k) /\ Apart(z, k)
    BY <2>1, <2>8, RedrawnInv DEF AsItWas
  <2>10. t = Settled(k)
    BY DEF k, y
  <2>11. Inv(t) /\ Apart(k, t)
    BY <2>9, <2>10, SettledInv
  <2> QED
    BY <2>8, <2>9, <2>11, ApartStays
<1> QED
  BY <1>1, <1>5, <1>6

(* A command is carried out when the key is released. *)
LEMMA ReleasedIdle ==
    ASSUME NEW s, Idle(s), s.pend \notin {"none", "linger1", "linger2"},
           NEW r \in BOOLEAN, NEW x \in Effects, NEW pc \in -1 .. s.lines, NEW kinds \in KindStates,
           NEW t, t = Settled(core_keyup(Releasing(s, r), x, pc, kinds)), ~Stale(t)
    PROVE  Inv(t) /\ ~InEntry(t)
<1> DEFINE y == Releasing(s, r)
           g == CatalogGone(y)
           k == core_keyup(y, x, pc, kinds)
<1>1. /\ "none" \in Words /\ (s.rpc => s.pend \in {"XEQ", "GTO"})
      /\ s.pend \in {"PGMSLVi", "PGMINTi"} => s.menu["app"] = "catalog"
  BY DEF Idle, Inv, Modes, Words
<1>2. Served(y) /\ Keeps(s, y, {"refuse"}) /\ y.menu = s.menu
  BY RefusingIdle DEF Releasing
<1>3. k = IF y.pend \in {"cancelled", "null"} THEN redisplay([g EXCEPT !.pend = "none"])
          ELSE Carried(g, x, pc, kinds)
  <2>1. y.pend = s.pend
    BY <1>2 DEF Keeps, Fields
  <2> QED
    BY <2>1 DEF core_keyup
<1>4. t = Settled(k)
  OBVIOUS
<1> HIDE DEF k, y
<1>5. /\ Served(g) /\ Keeps(y, g, EffFields \cup {"rpc"}) /\ ~g.rpc
      /\ g.lines = y.lines /\ g.pend = y.pend
      /\ ~y.rpc => g = y
  BY <1>2, CatalogGoneEffect
<1> HIDE DEF g
<1>6. y.pend = s.pend /\ y.lines = s.lines /\ y.rpc = s.rpc
  BY <1>2 DEF Keeps, Fields
<1>7. /\ Served(k) /\ k.pend = "none" /\ Keeps(g, k, EffFields \cup {"pend"})
  <2>1. CASE y.pend \in {"cancelled", "null"}
    <3> DEFINE z == [g EXCEPT !.pend = "none"]
    <3>1. k = redisplay(z)
      BY <1>3, <2>1
    <3>2. Served(z) /\ z.pend = "none" /\ Keeps(g, z, {"pend"})
      BY <1>1, <1>5, PendGone
    <3> HIDE DEF z
    <3>3. Served(k) /\ Keeps(z, k, EffFields)
      BY <3>1, <3>2, Redisplayed DEF Effected
    <3>4. k.pend = z.pend
      BY <3>3 DEF Keeps, Fields, EffFields, MenuFields, AppFields
    <3>5. Keeps(g, k, EffFields \cup {"pend"})
      BY <3>2, <3>3 DEF Keeps
    <3> QED
      BY <3>2, <3>3, <3>4, <3>5
  <2>2. CASE y.pend \notin {"cancelled", "null"}
    <3>1. k = Carried(g, x, pc, kinds)
      BY <1>3, <2>2
    <3>2. g.pend \in {"PGMSLVi", "PGMINTi"} => g.menu["app"] = "catalog"
      BY <1>1, <1>2, <1>5, <1>6
    <3>3. pc \in -1 .. g.lines
      BY <1>5, <1>6
    <3> QED
      BY <1>5, <3>1, <3>2, <3>3, CarriedServed
  <2> QED
    BY <2>1, <2>2
<1>8. Keeps(s, k, EffFields \cup {"pend", "rpc"})
  <2>1. "refuse" \in EffFields
    BY DEF EffFields
  <2> QED
    BY <1>2, <1>5, <1>7, <2>1 DEF Keeps
<1>9. k.rpc = g.rpc
  BY <1>7 DEF Keeps, Fields, EffFields, MenuFields, AppFields
<1>10. Screen(t) /\ Fits(t) /\ Keeps(k, t, Forgets) /\ t.menu = k.menu /\ t.sect = k.sect
  BY <1>4, <1>7, SettledFrame DEF Served
<1>11. ~Stale(k)
  <2>1. t.mvars = k.mvars
    BY <1>10 DEF Keeps, Fields, Forgets
  <2> QED
    BY <1>10, <2>1 DEF Stale
<1>12. Inv(k) /\ ~InEntry(k)
  BY <1>5, <1>7, <1>8, <1>9, <1>11, IdleInv
<1>13. Inv(t) /\ Apart(k, t)
  BY <1>4, <1>12, SettledInv
<1>14. ~InEntry(t)
  BY <1>12, <1>13, ApartFacts DEF InEntry, mode_command_entry
<1> QED
  BY <1>13, <1>14

LEMMA KeyDownKeeps ==
    ASSUME ~Flawed, hand \in Hands, Kept(u, home), KeyDown
    PROVE  Kept(u', home') /\ Trace(u, home, u')
<1>1. PICK r \in BOOLEAN : \E e \in Pressed(Listening(u, r)) :
          /\ u.pend \in {"none", "linger2"}
          /\ u' = Shown(keydown(Listening(u, r), e))
          /\ home' = IF Begins(u, u') THEN Home(Ended(u), u') ELSE home
  BY Zenon DEF KeyDown, Listening
<1> DEFINE w == Listening(u, r)
<1>2. PICK e \in Pressed(w) :
          /\ u.pend \in {"none", "linger2"}
          /\ u' = Shown(keydown(w, e))
          /\ home' = IF Begins(u, u') THEN Home(Ended(u), u') ELSE home
  BY <1>1
<1>3. Inv(u) /\ HomeOK(u, home)
  BY DEF Kept
<1>4. w = Listening(u, r)
  OBVIOUS
<1> HIDE DEF w
<1>5. Inv(w) /\ w.pend = "none"
  BY <1>2, <1>3, <1>4, ListeningInv
<1> DEFINE v == keydown(w, e)
<1>6. /\ Fitting(LeaveNumber(w, e), e)
      /\ mode_command_entry(w) => KeyFits(w, e)
      /\ ~(e.key = "CUSTOM" /\ w.prgm /\ w.alpha)
  BY <1>5, PressedFits
<1>7. KeyResult(w, v)
  BY <1>5, <1>6, KeyResults
<1>8. Inv(v)
  BY <1>5, <1>7, KeyInv
<1>9. u' = Shown(v)
  BY <1>2
<1> HIDE DEF v
<1> DEFINE t == u'
           h == home'
<1>10. Inv(t) /\ Apart(v, t)
  BY <1>8, <1>9, ShownInv
<1>11. h = HomeAfter(u, t, home)
  BY <1>2 DEF HomeAfter
<1> HIDE DEF t, h
<1>12. HomeOK(t, HomeAfter(u, t, home)) /\ Trace(u, home, t)
  BY <1>2, <1>3, <1>4, <1>7, <1>10, HomeByKey
<1> QED
  BY <1>10, <1>11, <1>12 DEF Kept, t, h

(* An entry is not disturbed: of a command being entered and of a string,   *)
(* what the key leaves pending is not a command that is carried out.        *)
LEMMA EntryWaits ==
    ASSUME NEW s, Inv(s), InEntry(s), s.pend # "none"
    PROVE  s.pend \in {"linger1", "linger2", "cancelled", "CLA"}
<1>1. CASE mode_command_entry(s)
  BY <1>1 DEF Inv, Modes, Quiet
<1>2. CASE s.alpha
  BY <1>2 DEF Inv, Modes, Quiet
<1>3. CASE s.num
  BY <1>3 DEF Inv, Modes
<1> QED
  BY <1>1, <1>2, <1>3 DEF InEntry

LEMMA KeyUpOfLinger ==
    ASSUME NEW s, Inv(s), s.pend = "linger1", NEW r \in BOOLEAN, NEW x, NEW pc, NEW kinds
    PROVE  core_keyup(Releasing(s, r), x, pc, kinds) = Lingering(s, r)
<1> DEFINE y == Releasing(s, r)
<1>1. s \in Calculators
  BY DEF Inv, Screen
<1>2. y.pend = "linger1"
  BY <1>1 DEF Releasing, Calculators
<1>3. core_keyup(y, x, pc, kinds) = [y EXCEPT !.pend = "linger2"]
  BY <1>2 DEF core_keyup
<1>4. [y EXCEPT !.pend = "linger2"] = Lingering(s, r)
  BY <1>1 DEF Releasing, Lingering, Calculators
<1> QED
  BY <1>3, <1>4

LEMMA KeyUpKeeps ==
    ASSUME ~Flawed, Kept(u, home), KeyUp
    PROVE  Kept(u', home') /\ Trace(u, home, u') /\ hand' = hand
<1>1. PICK x \in Effects \cap hand.effects, pc \in -1 .. u.lines,
           kinds \in KindSets \cup {u.kinds}, r \in BOOLEAN :
          /\ u.pend \notin {"none", "linger2"}
          /\ u.pend \in Own \cup {"cancelled", "null", "linger1"} => kinds = u.kinds
          /\ u' = Settled(core_keyup(Releasing(u, r), x, pc, kinds))
          /\ ~Stale(u')
          /\ home' = home /\ hand' = hand
  BY Zenon DEF KeyUp, Releasing
<1>2. Inv(u) /\ HomeOK(u, home)
  BY DEF Kept
<1>3. kinds \in KindStates
  <2>1. u.kinds \in KindStates
    BY <1>2 DEF Inv, Screen, Calculators
  <2> QED
    BY <1>1, <2>1, KindsAssumption DEF KindStates
<1> DEFINE t == u'
<1>4. /\ t = Settled(core_keyup(Releasing(u, r), x, pc, kinds))
      /\ ~Stale(t)
  BY <1>1
<1> HIDE DEF t
<1>5. HomeOK(t, home) /\ Inv(t) /\ Trace(u, home, t)
  <2>1. CASE u.pend = "linger1"
    <3>1. core_keyup(Releasing(u, r), x, pc, kinds) = Lingering(u, r)
      BY <1>2, <2>1, KeyUpOfLinger
    <3>2. t = Settled(Lingering(u, r))
      BY <1>4, <3>1
    <3>3. AsItWas(u, t)
      BY <1>2, <2>1, <3>2, KeyUpLingers
    <3> QED
      BY <1>1, <1>2, <3>3, HomeStays DEF AsItWas
  <2>2. CASE u.pend # "linger1" /\ InEntry(u)
    <3>1. u.pend \in {"cancelled", "CLA"}
      BY <1>1, <1>2, <2>2, EntryWaits
    <3>2. kinds = u.kinds
      BY <1>1, <3>1 DEF Own
    <3>3. AsItWas(u, t)
      BY <1>2, <1>4, <2>2, <3>1, <3>2, ReleasedEntry
    <3> QED
      BY <1>1, <1>2, <3>3, HomeStays DEF AsItWas
  <2>3. CASE u.pend # "linger1" /\ ~InEntry(u)
    <3>1. Idle(u)
      BY <1>1, <1>2, <2>3 DEF Idle, Inv, Modes
    <3>2. x \in Effects
      BY <1>1
    <3>3. Inv(t) /\ ~InEntry(t)
      BY <1>1, <1>3, <1>4, <2>3, <3>1, <3>2, ReleasedIdle
    <3>4. HomeOK(t, home)
      BY <3>3, HomeEmpty DEF InEntry
    <3> QED
      BY <2>3, <3>3, <3>4 DEF Trace
  <2> QED
    BY <2>1, <2>2, <2>3
<1> QED
  BY <1>1, <1>5 DEF Kept, t

LEMMA TimeoutKeeps ==
    ASSUME Kept(u, home), Timeout
    PROVE  Kept(u', home') /\ Trace(u, home, u') /\ hand' = hand
<1>1. /\ u.pend \in {"linger1", "linger2"} /\ home' = home /\ hand' = hand
      /\ Inv(u) /\ HomeOK(u, home)
  BY DEF Timeout, Kept
<1> DEFINE t == u'
<1>2. t = core_timeout3(u)
  BY DEF Timeout
<1> HIDE DEF t
<1>3. AsItWas(u, t)
  BY <1>1, <1>2, TimedOut
<1>4. HomeOK(t, home) /\ Trace(u, home, t)
  BY <1>1, <1>3, HomeStays
<1> QED
  BY <1>1, <1>3, <1>4 DEF Kept, AsItWas, t

LEMMA NewInv ==
    ASSUME NEW lines \in 0 .. MaxLines, NEW locked \in BOOLEAN, NEW kinds \in KindStates,
           NEW mvars \in BOOLEAN, NEW s, s = New(lines, locked, kinds, mvars)
    PROVE  Inv(s) /\ ~InEntry(s)
<1>1. /\ "none" \in Words /\ "none" \in PrevStates /\ -1 \in Int /\ 0 \in Int
      /\ 0 \in CbStates /\ 0 \in RoleStates /\ {} \in KindStates /\ lines \in Int
      /\ lines >= 0
  BY DEF Words, PrevStates, CbStates, RoleStates, KindStates
<1>2. NoEntry \in EntryStates /\ NoEntry.cmd = "none" /\ NoEntry.type = "none"
  BY DEF NoEntry, EntryStates, Words, ArgTypes
<1>3. "top" \in Sections /\ \A l \in Levels : "none" \in MenusOf(l) /\ "none" \in AnyMenu
  BY MenusOfLevels DEF Sections
<1> DEFINE mm == [l \in Levels |-> "none"]
           ss == [l \in Levels |-> "top"]
<1>4. /\ s.menu = mm /\ s.sect = ss /\ s.cb = 0 /\ s.baseapp = FALSE /\ s.edit = FALSE
      /\ s.lines = lines /\ s.pc = -1 /\ s.saved = -1 /\ s.alen = 0 /\ s.nlen = 0
      /\ s.num = FALSE /\ s.alpha = FALSE /\ s.clall = FALSE /\ s.rpc = FALSE
      /\ s.inc = NoEntry /\ s.pend = "none"
  BY DEF New, hard_reset
<1>5. mm \in MenuStates /\ ss \in SectStates
  BY <1>3, LevelFacts DEF MenuStates, SectStates
<1>6. \A l \in Levels : mm[l] = "none" /\ ss[l] = "top"
  OBVIOUS
<1> HIDE DEF mm, ss
<1>7. s \in Calculators
  <2>1. s = [menu |-> mm, sect |-> ss,
             sticky |-> FALSE, cb |-> 0, baseapp |-> FALSE, hex |-> FALSE, role |-> 0,
             vm |-> FALSE, prev |-> "none", edit |-> FALSE, nested |-> FALSE,
             refuse |-> FALSE, err |-> FALSE, kinds |-> kinds, mvars |-> mvars,
             local |-> FALSE, prgm |-> FALSE, locked |-> locked, pc |-> -1,
             lines |-> lines, saved |-> -1,
             inc |-> NoEntry, clall |-> FALSE, rpc |-> FALSE, pend |-> "none",
             num |-> FALSE, nlen |-> 0, alpha |-> FALSE, alen |-> 0]
    BY DEF New, hard_reset, mm, ss
  <2> QED
    BY <1>1, <1>2, <1>5, <2>1 DEF Calculators
<1>8. Screen(s)
  BY <1>3, <1>4, <1>6, <1>7 DEF Screen, Sectioned, ProgramSections, ArgumentSections
<1>9. s.menu["app"] = "none" /\ s.menu["command"] = "none" /\ s.sect["app"] = "top"
  BY <1>4, <1>6, LevelFacts
<1>10. Fits(s)
  BY <1>4, <1>9 DEF Fits, EditMenus, BaseMenus
<1>11. EntryFits(s)
  BY <1>2, <1>4, <1>9 DEF EntryFits, Internal
<1>12. Counters(s)
  BY <1>1, <1>4, KeyboardAssumption, NumberAssumption DEF Counters
<1>13. ~mode_command_entry(s) /\ ~InEntry(s)
  BY <1>2, <1>4 DEF InEntry, mode_command_entry
<1>14. ~Stale(s)
  BY <1>9 DEF Stale, ProgramSections
<1>15. Modes(s)
  BY <1>4, <1>9, <1>13, <1>14 DEF Modes
<1> QED
  BY <1>8, <1>10, <1>11, <1>12, <1>13, <1>15 DEF Inv

LEMMA InitKeeps ==
    ASSUME Init
    PROVE  Kept(u, home) /\ hand \in Hands
<1>1. PICK lines \in hand.lines, locked \in hand.locked, kinds \in KindSets,
           mvars \in hand.mvars : u = New(lines, locked, kinds, mvars)
  BY Zenon DEF Init, New
<1>2. hand \in Hands
  BY DEF Init
<1>3. /\ lines \in 0 .. MaxLines /\ locked \in BOOLEAN /\ mvars \in BOOLEAN
      /\ kinds \in KindStates
  BY <1>1, <1>2, HandsAssumption, KindsAssumption DEF KindStates
<1>4. Inv(u) /\ ~InEntry(u)
  BY <1>1, <1>3, NewInv
<1>5. HomeOK(u, home)
  BY <1>4, HomeEmpty DEF InEntry
<1> QED
  BY <1>2, <1>4, <1>5 DEF Kept

-----------------------------------------------------------------------------
(* Every step                                                              *)

LEMMA NextKeeps ==
    ASSUME ~Flawed, hand \in Hands, Kept(u, home), [Next]_vars
    PROVE  Kept(u', home') /\ Trace(u, home, u') /\ hand' \in Hands
<1>1. CASE KeyDown
  <2>1. hand' = hand
    BY <1>1, Zenon DEF KeyDown
  <2> QED
    BY <1>1, <2>1, KeyDownKeeps
<1>2. CASE KeyUp
  BY <1>2, KeyUpKeeps
<1>3. CASE Timeout
  BY <1>3, TimeoutKeeps
<1>4. CASE UNCHANGED vars
  <2>1. u' = u /\ home' = home /\ hand' = hand
    BY <1>4 DEF vars
  <2> QED
    BY <2>1 DEF Trace, Kept
<1> QED
  BY <1>1, <1>2, <1>3, <1>4 DEF Next

-----------------------------------------------------------------------------
(* What follows from the invariant                                         *)

LEMMA KInvTypes == KInv => TypeOK
<1> SUFFICES ASSUME KInv PROVE TypeOK
  OBVIOUS
<1>1. /\ Screen(u) /\ Counters(u) /\ u.cb \in CbStates /\ u.role \in RoleStates
      /\ u.kinds \in KindStates /\ u.sect \in SectStates
  BY DEF KInv, Kept, Inv, Screen, Calculators
<1>2. \A l \in Levels : u.menu[l] \in CASE l = "command"   -> CommandMenus
                                         [] l = "alpha"     -> AlphaMenus \cup {"none"}
                                         [] l = "transient" -> {"none", "catalog"}
                                         [] l = "plain"     -> PlainMenus
                                         [] l = "app"       -> AppMenus
  BY <1>1 DEF Screen, MenusOf
<1>3. \A l \in Levels : u.sect[l] \in Sections
  BY <1>1 DEF SectStates
<1>4. u.cb \in 0 .. 5 /\ u.role \in 0 .. 3 /\ u.kinds \subseteq {"real", "mat"}
  BY <1>1 DEF CbStates, RoleStates, KindStates
<1> QED
  BY <1>1, <1>2, <1>3, <1>4 DEF TypeOK, Counters

LEMMA KInvCallbacks == KInv => CallbackFits
  BY DEF KInv, Kept, Inv, Fits, CallbackFits

LEMMA KInvModes == KInv => EntryModes
<1> SUFFICES ASSUME KInv PROVE EntryModes
  OBVIOUS
<1>1. Modes(u)
  BY DEF KInv, Kept, Inv
<1>2. u.clall => ~InEntry(u)
  BY <1>1 DEF Modes, InEntry
<1> QED
  BY <1>1, <1>2 DEF Modes, EntryModes

LEMMA TraceSays ==
    Trace(u, home, u') =>
        (Ends => /\ Cancelled => /\ u'.pc = home.pc /\ u'.lines = home.lines
                                 /\ Below(u') = home.below
                 /\ mode_command_entry(u) /\ u'.lines # home.lines =>
                        u'.lines = home.lines + 1 /\ u'.pc = After(home.pc, home.lines))
<1> DEFINE t == u'
<1>1. Ends <=> u.prgm /\ InEntry(u) /\ ~InEntry(t) /\ t.pend # "linger1"
  BY Zenon DEF Ends
<1>2. Cancelled <=> /\ t.pend \in {"null", "cancelled"}
                    /\ mode_command_entry(u) \/ (u.alpha /\ u.alen = 0)
  BY DEF Cancelled
<1>3. Trace(u, home, t) =>
        (Ends => /\ Cancelled => /\ t.pc = home.pc /\ t.lines = home.lines
                                 /\ Below(t) = home.below
                 /\ mode_command_entry(u) /\ t.lines # home.lines =>
                        t.lines = home.lines + 1 /\ t.pc = After(home.pc, home.lines))
  <2> HIDE DEF t
  <2> QED
    BY <1>1, <1>2 DEF Trace
<1> QED
  BY <1>3

LEMMA KInvInductive ==
    ASSUME ~Flawed
    PROVE  Spec => []KInv
<1>1. Init => KInv
  BY InitKeeps DEF KInv
<1>2. KInv /\ [Next]_vars => KInv'
  BY NextKeeps DEF KInv
<1> QED
  BY <1>1, <1>2, PTL DEF Spec

-----------------------------------------------------------------------------
(* The theorems.  Flawed stands for the keys with which the calculator      *)
(* leaves its own rules, each described where the guards name it.           *)

(* Every level shows a menu it may show and every counter is within its     *)
(* bounds, however long the program and the strings are, whatever the hand  *)
(* plays and whatever the commands do: the record of core_globals.cc, under *)
(* core_keydown.cc, core_keyup() and core_timeout3().                       *)
THEOREM KeydownTypes ==
    ASSUME ~Flawed
    PROVE  Spec => []TypeOK
  BY KInvInductive, KInvTypes, PTL

(* The menu of an application that has to be told when it is left has its   *)
(* callback and no other menu has (set_menu_return_err and the exit         *)
(* callbacks of core_globals.cc), along every sequence of keys.             *)
THEOREM KeydownCallbackFits ==
    ASSUME ~Flawed
    PROVE  Spec => []CallbackFits
  BY KInvInductive, KInvCallbacks, PTL

(* Keys mean one thing at a time: a command, a number, a string and the     *)
(* confirmation of CLALL are never being entered together, and the menu of  *)
(* the command level is that of the command being entered.                  *)
THEOREM KeydownEntryModes ==
    ASSUME ~Flawed
    PROVE  Spec => []EntryModes
  BY KInvInductive, KInvModes, PTL

(* An entry in program mode that is cancelled leaves the program, the line  *)
(* it stood at and the menus behind as they were when it began; one that    *)
(* ends with a new line shows that line (start_incomplete_command() and     *)
(* finish_command_entry() of core_main.cc, the editing of strings of        *)
(* core_keydown.cc).                                                        *)
THEOREM KeydownEntryLeavesNoTrace ==
    ASSUME ~Flawed
    PROVE  Spec => EntryLeavesNoTrace
<1>1. KInv /\ [Next]_vars =>
        [Ends => /\ Cancelled => /\ u'.pc = home.pc /\ u'.lines = home.lines
                                 /\ Below(u') = home.below
                 /\ mode_command_entry(u) /\ u'.lines # home.lines =>
                        u'.lines = home.lines + 1 /\ u'.pc = After(home.pc, home.lines)]_vars
  BY NextKeeps, TraceSays DEF KInv
<1> QED
  BY <1>1, KInvInductive, PTL DEF Spec, EntryLeavesNoTrace
=============================================================================
