------------------------------- MODULE Locals -------------------------------
(***************************************************************************)
(* What a subroutine owns: its local variables, the indexed matrix and the *)
(* stack mode of its caller, which it must give back. All three live in    *)
(* the table of variables and in two flags of each frame of the return     *)
(* stack (core_globals.cc, core_variables.cc, core_commands1/3/7.cc).      *)
(*                                                                         *)
(* Not here: which program a frame returns to (module CallStack), the      *)
(* contents of the RPN stack that FUNC and L4STK save, the row and column  *)
(* of the indexed element, and allocation failures. Commands may come from *)
(* the program or, between R/S and R/S, from the keyboard, in any order,   *)
(* so whether a program runs is not part of the state.                     *)
(***************************************************************************)
EXTENDS VarTable

CONSTANTS
    Names,          \* names of variables
    MaxLevel,       \* MAX_RTN_LEVEL
    MaxVars,        \* bound: the table has at most this many entries
    Kinds,          \* the kinds of values stored
    Commands        \* the commands used besides STO, LSTO, CLV, XEQ and RTN

ASSUME NamesAssumption == "" \notin Names
ASSUME BoundsAssumption == MaxLevel \in Nat /\ MaxVars \in Nat
ASSUME KindsAssumption == Kinds \subseteq {"matrix", "scalar"}
ASSUME CommandsAssumption ==
    Commands \subseteq {"LCLV", "INDEX", "EDIT", "EDITN", "FUNC", "LSTK"}

VARIABLES
    vars,           \* vars
    ctx,            \* ctx[k+1]: has_matrix and has_func of level k
    matedit,        \* matedit_mode, matedit_name and matedit_level
    editor,         \* the matrix editor's menu is up, with exit callback 1
    bigStack,       \* flags.f.big_stack
    allowBig        \* core_settings.allow_big_stack

lVars == <<vars, ctx, matedit, editor, bigStack, allowBig>>

rtnLevel == Len(ctx) - 1

NoContext == [mat |-> FALSE, func |-> FALSE]

(* Matrices and lists can be indexed, real and complex numbers and strings *)
(* cannot.                                                                 *)
Values == [kind : Kinds]
Matrix == [kind |-> "matrix"]

NoName == ""

(* matedit_mode: 0 = off, 1 = INDEX, 2 = EDIT, 3 = EDITN *)
Off(m) == [m EXCEPT !.mode = 0]

(* The values of the private variables: push_func_state() and              *)
(* push_stack_state() write "STK" (caller: the mode to restore; nested:    *)
(* LNSTK or L4STK was used after FUNC), push_indexed_matrix() "MAT"        *)
StkValues == [kind : {"func"}, caller : BOOLEAN, nested : BOOLEAN]
             \cup [kind : {"lstk"}, caller : BOOLEAN]
MatValues == [kind : {"index"}, name : Names, level : GlobalLevel .. MaxLevel]

Entries ==
    [name : Names, level : GlobalLevel .. MaxLevel, hidden : BOOLEAN,
     hiding : BOOLEAN, private : {FALSE}, val : Values]
    \cup [name : {"STK"}, level : 0 .. MaxLevel, hidden : {FALSE},
          hiding : {FALSE}, private : {TRUE}, val : StkValues]
    \cup [name : {"MAT"}, level : 0 .. MaxLevel, hidden : {FALSE},
          hiding : {FALSE}, private : {TRUE}, val : MatValues]

TypeOK ==
    /\ vars \in Seq(Entries)
    /\ ctx \in Seq([mat : BOOLEAN, func : BOOLEAN])
    /\ rtnLevel \in 0 .. MaxLevel
    /\ matedit \in [mode : 0 .. 3, name : Names \cup {NoName}, level : GlobalLevel .. MaxLevel]
    /\ editor \in BOOLEAN
    /\ bigStack \in BOOLEAN
    /\ allowBig \in BOOLEAN

(* hard_reset(): no variables but REGS, which is like any other here *)
Init ==
    /\ vars = <<>>
    /\ ctx = <<NoContext>>
    /\ matedit = [mode |-> 0, name |-> NoName, level |-> GlobalLevel]
    /\ editor = FALSE
    /\ bigStack = FALSE
    /\ allowBig \in BOOLEAN

-----------------------------------------------------------------------------
(***************************************************************************)
(* The state as one value, for handlers that pop several levels.           *)
(***************************************************************************)
Now == [vars |-> vars, ctx |-> ctx, matedit |-> matedit, editor |-> editor]

Become(S) ==
    /\ vars' = S.vars
    /\ ctx' = S.ctx
    /\ matedit' = S.matedit
    /\ editor' = S.editor

LevelOf(S) == Len(S.ctx) - 1
TopCtx(S) == S.ctx[Len(S.ctx)]

Refers(m, n, lvl) == m.name = n /\ m.level = lvl

(* The first half of pop_rtn_addr(): the caller's indexed matrix is back *)
IndexPopped(S) ==
    LET i == LookupPrivate(S.vars, "MAT", LevelOf(S))
        m == S.vars[i].val
    IN  IF ~TopCtx(S).mat
          THEN S
        ELSE [vars |-> IF i = 0 THEN S.vars ELSE Without(S.vars, {i}),
              ctx |-> [S.ctx EXCEPT ![Len(S.ctx)].mat = FALSE],
              matedit |-> IF i = 0 THEN S.matedit
                          ELSE [mode |-> 1, name |-> m.name, level |-> m.level],
              editor |-> S.editor]

(* fault: the pointer to a removed matrix is kept *)
LocalsRemovedIndexKept(S) ==
    LET leave == S.matedit.mode = 3 /\ S.matedit.level >= LevelOf(S)
    IN  [vars |-> RemoveLocals(S.vars, LevelOf(S)),
         ctx |-> S.ctx,
         matedit |-> IF leave THEN Off(S.matedit) ELSE S.matedit,
         editor |-> S.editor /\ ~leave]

(* remove_locals(): the editor of a local matrix is left, and the indexed  *)
(* matrix is forgotten when it is one of those removed.                    *)
LocalsRemoved(S) ==
    LET gone == FromLevel(S.vars, LevelOf(S))
        leave == S.matedit.mode = 3 /\ S.matedit.level >= LevelOf(S)
        lost == S.matedit.mode \in {1, 3}
                /\ \E i \in gone : Refers(S.matedit, S.vars[i].name, S.vars[i].level)
    IN  [vars |-> RemoveLocals(S.vars, LevelOf(S)),
         ctx |-> S.ctx,
         matedit |-> IF leave \/ lost THEN Off(S.matedit) ELSE S.matedit,
         editor |-> S.editor /\ ~leave]

(* pop_rtn_addr(): level 0 is emptied but stays *)
Popped(S) ==
    LET T == LocalsRemoved(IndexPopped(S))
    IN  [T EXCEPT !.ctx = IF LevelOf(S) = 0 THEN <<NoContext>> ELSE SubSeq(@, 1, LevelOf(S))]

(* get_saved_stack_mode(), when the level has one *)
StkOf(S) == LookupPrivate(S.vars, "STK", LevelOf(S))
HasSavedMode(S) == TopCtx(S).func /\ StkOf(S) # 0
SavedMode(S) == S.vars[StkOf(S)].val.caller

-----------------------------------------------------------------------------
(* fault: push_rtn_addr() does not check for MAX_RTN_LEVEL *)
CallUnbounded ==
    /\ rtnLevel <= MaxLevel
    /\ ctx' = Append(ctx, NoContext)
    /\ UNCHANGED <<vars, matedit, editor, bigStack, allowBig>>

(* push_rtn_addr(): set_prgm() clears the flags of the new frame *)
Call ==
    /\ rtnLevel < MaxLevel
    /\ ctx' = Append(ctx, NoContext)
    /\ UNCHANGED <<vars, matedit, editor, bigStack, allowBig>>

(* fault: pop_func_state() does not ask whether the mode is allowed *)
ReturnUnchecked ==
    /\ bigStack' = IF HasSavedMode(Now) THEN SavedMode(Now) ELSE bigStack
    /\ Become(Popped(Now))
    /\ UNCHANGED allowBig

(***************************************************************************)
(* docmd_rtn(), docmd_rtnyes(), docmd_rtnno() and docmd_rtnerr() in a      *)
(* program: pop_func_state() restores the caller's mode, or refuses        *)
(* (ERR_BIG_STACK_DISABLED) and nothing else happens; then pop_rtn_addr(). *)
(***************************************************************************)
Return ==
    /\ HasSavedMode(Now) => (SavedMode(Now) => allowBig)
    /\ bigStack' = IF HasSavedMode(Now) THEN SavedMode(Now) ELSE bigStack
    /\ Become(Popped(Now))
    /\ UNCHANGED allowBig

(***************************************************************************)
(* unwind_stack_until_solve() and clear_all_rtns(): n levels are popped,   *)
(* and then the mode found last, the lowest level's, is restored by 4STK   *)
(* or NSTK; the latter does nothing when the setting forbids it.           *)
(***************************************************************************)
(* fault: the mode found first is restored, not the one found last *)
PopStepInnermost(R) ==
    [S |-> Popped(R.S),
     saved |-> IF R.saved = {} /\ HasSavedMode(R.S) THEN {SavedMode(R.S)} ELSE R.saved]

PopStep(R) ==
    [S |-> Popped(R.S),
     saved |-> IF HasSavedMode(R.S) THEN {SavedMode(R.S)} ELSE R.saved]

PoppedTimes(S, n) ==
    LET pop[k \in 0 .. n] == IF k = 0 THEN [S |-> S, saved |-> {}] ELSE PopStep(pop[k - 1])
    IN  pop[n]

ModeRestored(saved) ==
    \/ TRUE \in saved /\ (allowBig \/ bigStack)
    \/ saved = {} /\ bigStack

DropLevels(n) ==
    LET R == PoppedTimes(Now, n)
    IN  /\ Become(R.S)
        /\ bigStack' = ModeRestored(R.saved)
        /\ UNCHANGED allowBig

Unwind == \E n \in 1 .. rtnLevel : DropLevels(n)

ClearAllRtns == DropLevels(rtnLevel + 1)

-----------------------------------------------------------------------------
(* the bound on the table *)
Room == Len(vars') <= MaxVars

(* What store_var() does to the indexed matrix when it updates a variable *)
AfterUpdate(n, val, local) ==
    LET i == LookupVar(vars, n)
        updated == i # 0 /\ ~(local /\ vars[i].level < rtnLevel)
    IN  IF /\ updated
           /\ matedit.mode = 1 /\ Refers(matedit, n, vars[i].level)
           /\ val # Matrix
          THEN Off(matedit) ELSE matedit

(* docmd_lsto() *)
Lsto(n, val) ==
    /\ vars' = StoreVar(vars, n, val, TRUE, rtnLevel)
    /\ Room
    /\ matedit' = AfterUpdate(n, val, TRUE)
    /\ UNCHANGED <<ctx, editor, bigStack, allowBig>>

(* docmd_sto() to a name; the matrix under EDITN is locked *)
Sto(n, val) ==
    /\ ~(matedit.mode = 3 /\ matedit.name = n)
    /\ vars' = StoreVar(vars, n, val, FALSE, rtnLevel)
    /\ Room
    /\ matedit' = AfterUpdate(n, val, FALSE)
    /\ UNCHANGED <<ctx, editor, bigStack, allowBig>>

(* purge_var() of what CLV and LCLV found *)
Purged(S, n, local) ==
    LET i == ToPurge(S.vars, n, local, LevelOf(S))
    IN  IF i = 0
          THEN S
        ELSE [S EXCEPT !.vars = PurgeVar(@, i),
                       !.matedit = IF @.mode = 1 /\ Refers(@, n, S.vars[i].level)
                                     THEN Off(@) ELSE @]

Clv(n) ==
    /\ ~(matedit.mode = 3 /\ matedit.name = n)
    /\ ~PurgeRefused(vars, n, FALSE)
    /\ Become(Purged(Now, n, FALSE))
    /\ UNCHANGED <<bigStack, allowBig>>

(* docmd_lclv(); maybe_pop_indexed_matrix() goes by the name alone *)
Lclv(n) ==
    /\ "LCLV" \in Commands
    /\ ~(matedit.mode = 3 /\ matedit.name = n)
    /\ LET S == Purged(Now, n, TRUE)
       IN  Become(IF TopCtx(S).mat /\ S.matedit.name = n
                    /\ LookupPrivate(S.vars, "MAT", rtnLevel) # 0
                    THEN IndexPopped(S) ELSE S)
    /\ UNCHANGED <<bigStack, allowBig>>

-----------------------------------------------------------------------------
(* push_func_state() *)
Func ==
    /\ "FUNC" \in Commands
    /\ LookupPrivate(vars, "STK", rtnLevel) = 0
    /\ vars' = StorePrivate(vars, "STK",
                  [kind |-> "func", caller |-> bigStack, nested |-> FALSE], rtnLevel)
    /\ Room
    /\ ctx' = [ctx EXCEPT ![Len(ctx)].func = TRUE]
    /\ UNCHANGED <<matedit, editor, bigStack, allowBig>>

(* fault: the caller's mode is saved a second time *)
LStkAfterFuncSaving(big) ==
    LET i == LookupPrivate(vars, "STK", rtnLevel)
    IN  /\ "LSTK" \in Commands
        /\ big => allowBig
        /\ i # 0
        /\ vars[i].val.kind = "func" /\ ~vars[i].val.nested
        /\ vars' = [vars EXCEPT ![i].val.nested = TRUE, ![i].val.caller = bigStack]
        /\ bigStack' = big
        /\ UNCHANGED <<ctx, matedit, editor, allowBig>>

(* docmd_lnstk() and docmd_l4stk(), push_stack_state(big) after FUNC *)
LStkAfterFunc(big) ==
    LET i == LookupPrivate(vars, "STK", rtnLevel)
    IN  /\ "LSTK" \in Commands
        /\ big => allowBig
        /\ i # 0
        /\ vars[i].val.kind = "func" /\ ~vars[i].val.nested
        /\ vars' = [vars EXCEPT ![i].val.nested = TRUE]
        /\ bigStack' = big
        /\ UNCHANGED <<ctx, matedit, editor, allowBig>>

(* push_stack_state(big) on its own *)
LStk(big) ==
    /\ "LSTK" \in Commands
    /\ big => allowBig
    /\ LookupPrivate(vars, "STK", rtnLevel) = 0
    /\ vars' = StorePrivate(vars, "STK", [kind |-> "lstk", caller |-> bigStack], rtnLevel)
    /\ Room
    /\ ctx' = [ctx EXCEPT ![Len(ctx)].func = TRUE]
    /\ bigStack' = big
    /\ UNCHANGED <<matedit, editor, allowBig>>

(* docmd_4stk() and docmd_nstk() *)
Stk(big) ==
    /\ "LSTK" \in Commands
    /\ big => allowBig
    /\ bigStack' = big
    /\ UNCHANGED <<vars, ctx, matedit, editor, allowBig>>

(* The preferences dialog, and core_update_allow_big_stack() *)
SetAllowBigStack ==
    /\ "LSTK" \in Commands
    /\ allowBig' = ~allowBig
    /\ bigStack' = (bigStack /\ allowBig')
    /\ UNCHANGED <<vars, ctx, matedit, editor>>

-----------------------------------------------------------------------------
(* fault: the level's flag is not set *)
IndexPushedUnmarked(S) ==
    IF TopCtx(S).mat
      THEN S
    ELSE [vars |-> StorePrivate(S.vars, "MAT",
                      [kind |-> "index", name |-> S.matedit.name, level |-> S.matedit.level],
                      LevelOf(S)),
          ctx |-> S.ctx,
          matedit |-> Off(S.matedit),
          editor |-> S.editor]

(* push_indexed_matrix(), once per level *)
IndexPushed(S) ==
    IF TopCtx(S).mat
      THEN S
    ELSE [vars |-> StorePrivate(S.vars, "MAT",
                      [kind |-> "index", name |-> S.matedit.name, level |-> S.matedit.level],
                      LevelOf(S)),
          ctx |-> [S.ctx EXCEPT ![Len(S.ctx)].mat = TRUE],
          matedit |-> Off(S.matedit),
          editor |-> S.editor]

(* What INDEX and EDITN share: point at the variable n, in the given mode; *)
(* indexing a local saves the pointer to a matrix of a lower level.        *)
PointAt(S, n, mode) ==
    LET i == LookupVar(S.vars, n)
        T == IF S.matedit.mode = 1 /\ S.matedit.level < S.vars[i].level
               THEN IndexPushed(S) ELSE S
    IN  [T EXCEPT !.matedit = [mode |-> mode, name |-> n, level |-> S.vars[i].level],
                  !.editor = @ \/ mode = 3]

HoldsMatrix(t, n) == LookupVar(t, n) # 0 /\ t[LookupVar(t, n)].val = Matrix

(* docmd_index() *)
Index(n) ==
    /\ "INDEX" \in Commands
    /\ matedit.mode \notin {2, 3}
    /\ HoldsMatrix(vars, n)
    /\ Become(PointAt(Now, n, 1))
    /\ Room
    /\ UNCHANGED <<bigStack, allowBig>>

(***************************************************************************)
(* matedit_get(): what it finds, going down the table. A local matrix is   *)
(* given up at the first entry of a lower level, globals included.         *)
(***************************************************************************)
MateditTarget(S) ==
    LET m == S.matedit
        I == {i \in DOMAIN S.vars : ~S.vars[i].private}
        here == LastOf({i \in I : Refers(m, S.vars[i].name, S.vars[i].level)})
        givenUp == LastOf({i \in I : m.level # GlobalLevel /\ S.vars[i].level < m.level})
    IN  IF m.mode = 0 \/ givenUp > here THEN 0 ELSE here

(* matedit_get() in mode 2 finds the matrix that EDIT took out of X *)
MateditFound(S) ==
    \/ S.matedit.mode = 2
    \/ MateditTarget(S) # 0 /\ S.vars[MateditTarget(S)].val = Matrix

(* matedit_get(): leave_matrix_editor() when the variable is no matrix, or *)
(* no entry has its name and level; an early return leaves the editor be.  *)
MateditGot(S) ==
    LET m == S.matedit
        I == {i \in DOMAIN S.vars : ~S.vars[i].private}
        early == MateditTarget(S) = 0 /\ m.level # GlobalLevel
                 /\ \E i \in I : S.vars[i].level < m.level
    IN  IF m.mode = 3 /\ ~MateditFound(S) /\ ~early
          THEN [S EXCEPT !.matedit = Off(@), !.editor = FALSE] ELSE S

(* RCLEL, STOEL, I+, J-, and the redisplay of the matrix editor *)
UseMatrix ==
    /\ Become(MateditGot(Now))
    /\ UNCHANGED <<bigStack, allowBig>>

(***************************************************************************)
(* appmenu_exitcallback_1(): leaving the editor's menu stores X, then ends *)
(* the editing. X may be of the wrong type for the matrix (fits = FALSE):  *)
(* then the menu stays, as it does when the variable is no matrix while    *)
(* the mode is INDEX. A matrix that does not exist is no obstacle.         *)
(***************************************************************************)
LeftEditor(S, fits) ==
    LET refused == \/ MateditFound(S) /\ ~fits
                   \/ S.matedit.mode = 1 /\ MateditTarget(S) # 0 /\ ~MateditFound(S)
    IN  IF refused THEN S ELSE [S EXCEPT !.matedit = Off(@), !.editor = FALSE]

ExitMenu ==
    /\ editor
    /\ \E fits \in BOOLEAN : Become(LeftEditor(Now, fits))
    /\ UNCHANGED <<bigStack, allowBig>>

(* finish_edit() at the start of docmd_edit() and docmd_editn() *)
EditFinished(S) ==
    IF S.matedit.mode \in {2, 3} /\ S.editor THEN LeftEditor(S, TRUE) ELSE S

(* docmd_edit(), with a matrix in X *)
Edit ==
    /\ "EDIT" \in Commands
    /\ Become([EditFinished(Now) EXCEPT !.matedit.mode = 2, !.editor = TRUE])
    /\ UNCHANGED <<bigStack, allowBig>>

(* docmd_editn() *)
Editn(n) ==
    /\ "EDITN" \in Commands
    /\ HoldsMatrix(vars, n)
    /\ Become(PointAt(EditFinished(Now), n, 3))
    /\ Room
    /\ UNCHANGED <<bigStack, allowBig>>

(***************************************************************************)
(* docmd_clall(): leaves all menus, then creates the first program anew,   *)
(* which clears the return stack, then purges every variable. What is      *)
(* indexed stays so. (REGS, created again at once, is left out.)           *)
(***************************************************************************)
ClAll ==
    LET S == IF editor THEN LeftEditor(Now, TRUE) ELSE Now
        R == PoppedTimes(S, rtnLevel + 1)
    IN  /\ Become([R.S EXCEPT !.vars = <<>>])
        /\ bigStack' = ModeRestored(R.saved)
        /\ UNCHANGED allowBig

Next ==
    \/ Call \/ Return \/ Unwind \/ ClearAllRtns
    \/ \E n \in Names, val \in Values : Lsto(n, val) \/ Sto(n, val)
    \/ \E n \in Names : Clv(n) \/ Lclv(n) \/ Index(n) \/ Editn(n)
    \/ \E big \in BOOLEAN : LStk(big) \/ LStkAfterFunc(big) \/ Stk(big)
    \/ Func \/ SetAllowBigStack
    \/ Edit \/ UseMatrix \/ ExitMenu \/ ClAll

Spec == Init /\ [][Next]_lVars

-----------------------------------------------------------------------------
User == {i \in DOMAIN vars : ~vars[i].private}

SameName(i, j) == vars[i].name = vars[j].name

(***************************************************************************)
(* Of the variables of one name, each but the oldest hides the one before  *)
(* it, and each but the newest is hidden: so exactly one can be seen, and  *)
(* taking it away, by RTN or by LCLV, uncovers the right one.              *)
(***************************************************************************)
Shadowing ==
    \A i \in User :
        /\ vars[i].hiding <=> \E j \in User : j < i /\ SameName(i, j)
        /\ vars[i].hidden <=> \E j \in User : j > i /\ SameName(i, j)

(***************************************************************************)
(* lookup_var() finds the variable of the innermost subroutine that has    *)
(* one, and a global one only if there is none.                            *)
(***************************************************************************)
LookupInnermost ==
    \A i \in User :
        /\ LookupVar(vars, vars[i].name) # 0
        /\ vars[LookupVar(vars, vars[i].name)].level >= vars[i].level

(***************************************************************************)
(* Locals are in order of level, none is deeper than the return stack, and *)
(* a level has at most one of a name: remove_locals(), which stops at the  *)
(* first lower level it meets, misses none and takes none too many.        *)
(***************************************************************************)
LevelsSorted ==
    /\ \A i \in DOMAIN vars : vars[i].level <= rtnLevel
    /\ \A i, j \in DOMAIN vars :
          i < j /\ vars[i].level # GlobalLevel /\ vars[j].level # GlobalLevel
             => vars[i].level <= vars[j].level
    /\ \A i, j \in DOMAIN vars :
          i # j /\ SameName(i, j) /\ vars[i].private = vars[j].private
             => vars[i].level # vars[j].level

(***************************************************************************)
(* The flags of a level say whether it holds the private variables STK and *)
(* MAT; what MAT saves is of a lower level, and a local matrix saved there *)
(* still exists, so that the pointer restored by RTN is not dangling.      *)
(***************************************************************************)
Private(n, l) == {i \in DOMAIN vars : vars[i].private /\ vars[i].name = n /\ vars[i].level = l}

Exists(n, l) == \E i \in User : vars[i].name = n /\ vars[i].level = l

SavedState ==
    \A k \in DOMAIN ctx :
        /\ ctx[k].func <=> Private("STK", k - 1) # {}
        /\ ctx[k].mat <=> Private("MAT", k - 1) # {}
        /\ \A i \in Private("MAT", k - 1) :
              LET m == vars[i].val
              IN  m.level < k - 1 /\ (m.level # GlobalLevel => Exists(m.name, m.level))

(***************************************************************************)
(* The indexed or edited matrix, if local, exists: RTN, LCLV and trapped   *)
(* errors never leave the pointer behind.                                  *)
(***************************************************************************)
IndexedLocalExists ==
    matedit.mode \in {1, 3} /\ matedit.level # GlobalLevel
       => Exists(matedit.name, matedit.level)

(***************************************************************************)
(* No return, unwinding or clearing restores a stack mode that the user    *)
(* has switched off in the meantime.                                       *)
(***************************************************************************)
BigStackAllowed == bigStack => allowBig

(***************************************************************************)
(* The table implements scopes: the bindings and the caller's mode of each *)
(* level can be read off it.                                               *)
(***************************************************************************)
NoValue == [kind |-> "none"]

ValueAt(n, l) ==
    IF Exists(n, l)
      THEN LET i == CHOOSE i \in User : vars[i].name = n /\ vars[i].level = l IN vars[i].val
      ELSE NoValue

CallerAt(l) == {vars[i].val.caller : i \in Private("STK", l)}

GlobalBindings == [n \in Names |-> ValueAt(n, GlobalLevel)]

ScopeStack ==
    [k \in DOMAIN ctx |->
        [locals |-> [n \in Names |-> ValueAt(n, k - 1)],
         caller |-> IF ctx[k].func THEN CallerAt(k - 1) ELSE {}]]

Scopes == INSTANCE DynScope WITH
    Vals <- Values,
    Unbound <- NoValue,
    globals <- GlobalBindings,
    scopes <- ScopeStack

ScopesSpec == Scopes!Spec

-----------------------------------------------------------------------------
(***************************************************************************)
(* What does not hold (see the README):                                    *)
(*                                                                         *)
(* As long as the indexed local matrix exists, matedit_get() finds it.     *)
(***************************************************************************)
IndexReachable ==
    matedit.mode \in {1, 3} /\ Exists(matedit.name, matedit.level)
       => MateditTarget(Now) # 0

(***************************************************************************)
(* The menu of the matrix editor is up, and leaving it stores X and ends   *)
(* the indexing, exactly while a matrix is being edited.                   *)
(***************************************************************************)
EditorMode == editor <=> matedit.mode \in {2, 3}

(***************************************************************************)
(* LCLV changes nothing unless the variable is a local of this level.      *)
(***************************************************************************)
LclvLocalOnly ==
    [][\A n \in Names : Lclv(n) /\ ~Exists(n, rtnLevel) => UNCHANGED matedit]_lVars
=============================================================================
