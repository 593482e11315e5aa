# A TLA+ verification of Free42

Free42 is a simulator of the HP-42S programmable calculator. One thread runs
everything: a *shell* per platform delivers key presses, key releases, timeouts
and free processor time to the *core*, and the core interprets calculator
programs, at most for a few milliseconds per call, before it gives the thread
back. What is hard about it is therefore not parallelism but the order of
events: any key, timeout, error, restart or menu may come between two
instructions of a program, and the state that instructions share (the return
stack, the table of variables, the indexed matrix, the menus, the solvers) must
be right for all of these orders.

Line numbers below are those of the files under `src/common`.

## 1. The components

| Component | State | Operations | Correct when |
|---|---|---|---|
| Return stack (`core_globals.cc` 2787-3534) | frames, level, stop level, two active flags | push, pop, clear, unwind, step out/over | flags agree with frames; levels bounded; a step stops where asked |
| SOLVE, INTEG (`core_math1.cc`) | one state record each, shadow values | start, return, finish, trap | never resumed without having been started; resume the program that started them, at its level |
| Variables, locals (`core_variables.cc`, `core_globals.cc`) | flat table with levels and hidden/hiding/private flags | STO, LSTO, CLV, LCLV, removal at RTN | implements nested scopes |
| Stack modes, FUNC (`core_globals.cc` 2880-3286) | big-stack flag, saved state per level | FUNC, LNSTK, L4STK, 4STK, NSTK, RTN | the caller gets its mode back, never a forbidden one |
| Matrix indexing and editor (`core_commands3.cc`, `core_helpers.cc`) | mode, name, level, position, saved pointers | INDEX, EDIT, EDITN, exit callback | the pointer never dangles; the menu is up exactly while editing |
| Key engine (`core_main.cc` 228-735, 4824-4970) | running, pause, getkey, interruptible, key buffer, pending command | keydown, keyup, three timeouts, powercycle, save | keys in order, none acted on twice; a program is never left without a wake-up |
| Program store (`core_globals.cc` 1782-2785) | programs, labels, current program, pc, cached jump targets | insert, delete, CLP, GTO .., import | labels = the LBLs and ENDs of the code; the pc on a line; no stale jump targets |
| State files (`core_main.cc` 78-171, `core_globals.cc` 3817-4160, `gtk/shell_main.cc` 1219-1946) | the states' files, working and set-aside ones, the shell's file | load, save, switch, revert, duplicate, rename, delete, import, quit, crash | no saved state is lost; an interrupted load is not repeated; the state on quitting is the one at the next start |
| Menus and exit callbacks (`core_display.cc`) | five levels with a menu each, section and stickiness of a catalog, the application's exit callback | set_menu, set_plainmenu, set_catalog_menu, five callbacks | the callback fits the application that is up; EXIT leads out of everything |
| Keyboard and command entry (`core_keydown.cc`, `core_main.cc` 4841-5357) | entry modes, incomplete command, saved pc, number and string being entered | handlers of a key going down, by mode; the pending command when it goes up | one mode at a time; a cancelled entry leaves no trace |
| Values and variables (`core_variables.cc`) | arrays with reference counts, pools of free objects | new, free, dup, disentangle | each object has one owner; counts are exact; no write reaches a shared array |
| RPN stack and commands (`core_commands*.cc`, `core_sto_rcl.cc`, `core_helpers.cc`) | stack of four levels or growing, LASTX, stack lift | some 450 commands, ended by one of 21 helpers | a command that fails leaves the stack as it was; nothing leaks when memory is short |
| Linear algebra (`core_linalg1.cc`, `core_linalg2.cc`) | the job in progress, its operands and completions | workers called in slices, completions, interruption | borrowed operands stay alive; the setting changed for a job is put back |
| Numbers (`core_phloat.cc`, `core_math2.cc`, Intel library) | none | arithmetic, formatting | |
| Print spool, skins, tools, shells (`shell_*.cc`, `gtk`, `windows`, `mac`, `iphone`, `android`) | files, windows | | |

They interact by calls and shared globals. The shell calls the key engine; the
engine executes instructions through `handle()`; RTN pops the return stack,
which removes locals, restores what was indexed and the stack mode, and may
hand a value to a solver, which pushes the stack again; editing a program
clears the return stack; an error unwinds it to SOLVE's frame. Callbacks are
the exit callbacks of the application menus and the completion functions of
interruptible commands.

## 2. The plan

In order of importance. Done in this version of the project: 1 to 8; 9 to 11 are open.

1. `CallStack`: return stack, solvers' control, step levels; `CallStackProofs`.
2. `VarTable`, `Locals` with the abstract `DynScope`; `LocalsProofs`.
3. `KeyEngine` with the abstract `KeyQueue`: the core under every order of
   shell events, with liveness; `KeyEngineProofs`; `KeyBuffer`, the ring, with
   `KeyBufferProofs`.
4. `ProgramStore`: program editing, labels, cached jump targets;
   `ProgramStoreProofs`. What it and `VarTable` take from a sequence is in
   `Selection`, with `SelectionTheorems`.
5. `StateFile`: the crash protocol of core_init() and core_save_state(), with
   the shell's switching, duplicating and reverting of states;
   `StateFileProofs`.
6. `RpnMachine`: values with their reference counts (`Heap`), the ends of
   commands (`RpnStack`), STO and RCL with the arithmetic they share
   (`StoRcl`), interruptible matrix jobs (`Linalg`), the matrix editor
   (`Matedit`) and the commands of each source file (`Commands1` to `7`).
7. `Keydown`: menus and their exit callbacks (`Menus`), command entry
   (`CommandEntry`) and the handlers of every key.
8. `KeydownProofs`: what the keyboard keeps to, for any number of keys.
9. `Execution`: CallStack and Locals composed, as pop_rtn_addr() does.
10. The state machines of SOLVE (states 1-8) and INTEG, the shadow values,
   FUNC's data, macros and GETKEYA in the key engine.
11. Pure algorithms as functions checked against definitions: base arithmetic
    with carry, dates, the ring buffer of the print spool.

## 3. Return stack and solvers: `CallStack`

| Model | Code |
|---|---|
| `rtnStack`, `rtnLevel` | `rtn_stack`, `rtn_level`; a frame is its program, -2 (SOLVE) or -3 (INTEG) |
| `solveActive`, `integActive`, `stopLevel` | `rtn_solve_active`, `rtn_integ_active`, `rtn_stop_level` |
| `solve`, `integ` | `state` (zero or not), `active_prgm`, `prev_prgm`, `keep_running`; `host` is history |
| `Xeq`, `Rtn*`, `RtnError`, `Trap` | one instruction of a running program, with the error path of `handle_error()` |
| `RunStepOver`, `RunStepOut`, `KeyXeq`, `ProgMenuXeq`, `Run` | the keys that start a program |
| `TrapInSst` | an instruction executed by SST, whose error is handled after `set_running(false)` |
| `Restart` | `persist_globals()`, `core_init()`: all but the stop level survives |

Whether a solver wants another function value is a choice, so the runs cover
every numerical course it can take. `goal` records the level that Step Over or
Step Out were asked to stop at, and is given up when the program stops.

| Run | Checks |
|---|---|
| `call_stack` | `TypeOK`, `SolverFrames` (flags agree with frames, no solver twice), `ActiveSolverStarted`, with every error path |
| `call_stack_step` | `StepStops`: a step never overshoots, without trapped or ignored errors |
| `call_stack_trap` | `SolverAtHost`: a solver's frame stays where SOLVE was executed, however many levels a trapped error of a running program unwinds |

Bounds: two programs and `MaxRtnLevel` = 3, enough for both solvers, nested in
either order, with a subroutine above, below or between them, and for the stack
to be full when a solver starts, when it calls its function and when the
function calls a subroutine. The errors are parameters: `TrapsIn` says where
SOLVE traps them (in running programs, in single-stepped instructions) and
`ErrorIgnore` whether flag 25 may be set. With either `StepStops` does not hold,
nor `SolverAtHost` with traps in SST (section 11).

**Proved** (`CallStackProofs`, for every set of programs and every maximum
level): `TypeCorrect`, `SolverFramesCorrect`, `ActiveSolverStartedCorrect`
from the inductive invariant `IInv`, which adds to the three that a stack with
its flags is *coherent* (`Coherent`): the lemmas say that pushing, popping,
clearing and unwinding a coherent stack value gives a coherent one, and
`NextIInv` has a step for each action. `SolverAtHostCorrect` then needs
`"sst" \notin TrapsIn`, without which section 11 has a counterexample.

`StepStopsCorrect` is about Step Over and Step Out. Its inductive invariant
`StepInv` says of a program that runs with a goal that the stop level is the
goal and the program is deeper than it (`Aimed`), or that a solver is active
that was started without `keep_running` and will therefore stop the program when
it ends (`StoppingSolver`). Its hypotheses,
`~ErrorIgnore` and `"run" \notin TrapsIn`, are needed: section 11 has the
counterexamples.

## 4. Variables, scopes and stack modes: `VarTable`, `Locals`, `DynScope`

`VarTable` holds the functions of `core_variables.cc` and `remove_locals()` as
operators on a table (a sequence of entries in order of creation). `Locals` has
the state machine; `DynScope` says what it should mean: a stack of scopes, each
with its bindings and the stack mode its caller had.

| Model | Code |
|---|---|
| `vars` | `vars[]` with level, VAR_HIDDEN, VAR_HIDING, VAR_PRIVATE |
| `ctx` | `has_matrix` and `has_func` of each level |
| `matedit`, `editor` | `matedit_mode/name/level`; the editor's menu with exit callback 1 |
| `Call`, `Return`, `Unwind`, `ClearAllRtns` | `push_rtn_addr()`, `pop_func_state()` + `pop_rtn_addr()`, and the two loops that pop many levels |
| `Lsto`, `Sto`, `Clv`, `Lclv` | the commands, with what `store_var()` and `purge_var()` do to the indexed matrix |
| `Func`, `LStk`, `LStkAfterFunc`, `Stk`, `SetAllowBigStack` | stack modes |
| `Index`, `Edit`, `Editn`, `UseMatrix`, `ExitMenu` | the indexed matrix and the editor |

| Run | Checks |
|---|---|
| `locals` | with FUNC, LNSTK, L4STK, INDEX, EDIT and EDITN: `TypeOK`, `Shadowing`, `BigStackAllowed` (no caller gets a mode back that the user has forbidden), `SavedState` (what a level has saved is in its private variables), `IndexedLocalExists`, and `ScopesSpec`: every step of `Locals` is a step of `DynScope` under the mapping of the table to bindings |

Bounds: three levels (the keyboard's and two subroutines), one name besides
the private ones, up to three entries (`MaxVars`): a global hidden by a local
hidden by another. `MCLocalsNames.cfg` has two names, one of them also the name
of a private variable, and four entries, without FUNC and the editor; it checks
`LookupInnermost` and `LevelsSorted` too.

DynScope's `Leave(k)` covers one return, an unwinding and a clearing.

`ScopesSpec` is the property that matters: the flat table, in which one
variable can be hidden by several others and flags are repaired when locals go
away, means the same as nested scopes. `Shadowing`, `LookupInnermost` and
`LevelsSorted` say why: exactly the variables that are hidden have a newer
namesake, a lookup finds the newest, and entries of a level lie above those of
the levels below.

**Proved** (`LocalsProofs`, for all names, every depth of calls and every
size of the table): `TypeCorrect`, `ShadowingCorrect`, `LookupCorrect`,
`LevelsCorrect`, `SavedStateCorrect`, `IndexedCorrect`, `BigStackCorrect`, and
the refinement `ScopesCorrect`. None of these properties is inductive alone. The inductive invariant `Inv` is
`Good`, which joins

- `Table`: levels are sorted and no level has a name twice (`Sorted`), and the
  flags are right (`Shadows`, which is `Shadowing` for any table);
- `Flagged`: the flags of the frames say which private variables there are;
- `MatsPoint` and `Points`: what MAT and the indexed matrix refer to is of a
  lower level, or of this one, and exists;

and `BigStackAllowed`. `Sorted` is what makes `remove_locals()` take exactly
the top level, `Shadows` needs it because an entry that goes must be the newest
of its name, and `Points` needs `MatsPoint` because a pop restores what MAT has.

The lemmas follow the code: what `lookup_var()`, `store_var()`, `purge_var()`
and `remove_locals()` do to a sorted table with right flags. Entries that are
removed from it are described by the order-preserving selection of
`SelectionTheorems`. The two handlers that pop many levels in a loop would need
induction over the number of levels. The proofs use a least counterexample
instead (`LeastElement`): a nonempty set of natural numbers has a least
element, which follows from the well-foundedness of the proper-subset relation
on the subsets of a finite set. The same lemma shows that the recursive
function of `PoppedTimes` exists (`PopsExist`) and that each stage of it is
good (`PoppedTimesOK`).

TLC checked `Inv` on the instance of the run `locals` before it was proved.

The refinement is `ScopesInit` and `ScopesStep`: under the invariant every
action of `Locals` is a step of `DynScope` or, for the indexed matrix and the
editor, leaves the scopes as they are. Every premise is a theorem about the
actions as they stand; nothing is assumed of the table but the invariant.
Every level has at most one entry of a name, so the mapping reads bindings off
the table without a choice. From there:

- `store_var()` and `purge_var()` change what one level says of one name, and
  flags that are repaired change nothing of what a level says;
- FUNC, LNSTK and L4STK save the caller's mode only if the level has not done
  so yet (`SavesMode`); LNSTK and L4STK after FUNC only change the mode
  (`LStkAfterFuncSets`);
- a pop of k levels, by RTN, an unwinding or a clearing, empties exactly the k
  top scopes (`LeavesScopes`). The mode that is left is the one saved by the
  lowest of those levels that has saved any, because each pop overwrites what
  the one before restored (`ModeIs`, for which `PoppedTimesScopes` follows the
  loop pop by pop).

## 5. Keys, type-ahead and timeouts: `KeyEngine`, `KeyBuffer`, `KeyQueue`

`KeyEngine` puts the core's entry points and the GTK shell's event handlers
together: what the shell remembers between events (`shell`) and the modes of the
core (`core`) form one state, and an action is one event with the whole
handler.

| Model | Code |
|---|---|
| `core` | `mode_running`, `mode_getkey`, `mode_pause`, `mode_interruptible` with `mode_stoppable`, `pending_command`, `mode_shift`, `keybuf[]`, `repeating*` |
| `shell` | `reminder_id` (the idle callback), `ckey`, `enqueued`, `timeout_id` with its kind, `timeout3_id` |
| `KeyPress`, `KeyRelease` | `shell_keydown()`, `shell_keyup()` with `core_keydown()`, `core_keyup()` |
| `Reminder` | `reminder()`: `core_keydown(0)` for as long as it returns true |
| `Timeout1`, `Timeout2`, `Repeat`, `Timeout3` | the key timeouts, auto-repeat, and the timeout of PSE |
| `SaveState`, `SwitchState`, `Relaunch` | the states window; quitting and starting again |

What a key or an instruction does is a choice among its effects on this state:
a key may execute a command, start the program, switch off, be swallowed; an
instruction may go on, pause, wait in GETKEY, become interruptible, take a key
from the buffer, stop, or fail with an error that SOLVE traps. The branches of
`core_keydown_2()` are operators of their own (`ShiftPressed`,
`WhileInterruptible`, `WhileRunning`, `ServeQueued`, `ActUpon`), which return
the set of possible results.

| Run | Checks |
|---|---|
| `key_engine` | `ProgramAwake` (a running program or a queued key never waits for a callback that nobody will make), `PauseHasTimer`, `PendingHeld` (a pending command has its key held and nothing runs), `QueueSpec` (keys are acted upon in the order they were pressed: refinement of `KeyQueue`) |
| `key_engine_live` | `PauseEnds`, `InstructionEnds`, `GetkeyFed` |
| `key_buffer` | the ring of slots with head and tail is the queue of `KeyQueue` |

Bounds: three keys (a digit, R/S, EXIT) and Shift, `Cap` = 2 queued keys, which
lets a key be queued behind another, overflow, and be overtaken if the code let
it; 1 in the liveness run. The ring has four slots instead of 16; its proof
covers every number. `UnknownKeys` = FALSE leaves out keys the skin does not
know (section 11).

Fairness. The GTK main loop calls idle callbacks and expired timeouts, so
`Reminder` and `Timeout3` are weakly fair. The user lets go of a key in the
end: weak fairness of `KeyRelease`. An interruptible instruction is done after
finitely many calls (its loop counts); because other events come between the
calls this is `SF(WorkerDone)`, strong fairness of the call that ends it. None
of the user's other actions is assumed to happen.

**Proved** (`KeyBufferProofs`, for every number of slots greater than 1 and
every set of keys): `TypeCorrect`, and `RingIsQueue`, the refinement
`Spec => QueueSpec`. The lemmas say how the contents of the ring (the keys
between tail and head) change when head or tail moves around it; the step
lemma `StepImplements` has one step per action.

**Proved** (`KeyEngineProofs`, for every set of keys and every size of the
buffer): `TypeCorrect`, `PendingIsHeld`, `ProgramIsAwake`, `PauseIsTimed` and
`QueueRefinement`, the refinement `Spec => QueueSpec`. The inductive invariant
`Inv` adds to types and `PendingHeld` that no command waits for a release in a
pause (`PausedIdle`), and that a key timeout is armed only while a key is held
whose release the core will hear of and no idle callback is due (`TimerSound`). An event makes several calls of
the core; the lemmas on the branches of `core_keydown_2()` and on a whole call
summarise what any result of a call satisfies, so that the proof of an event
looks at its calls only. The refinement follows from one more property of the
results (`QueueMoves`): a call takes at most one key from the head and appends
at most one.

`ProgramIsAwake` and `PauseIsTimed` need `UnknownKeys = FALSE`: a key the skin
does not know disarms the pause's timer (section 11). Their inductive invariant
is `Awake`.

## 6. Programs: `ProgramStore`

| Model | Code |
|---|---|
| `prgms` | `prgms[]`: lines with the target cached in a GTO or XEQ, `lclbl_invalid`, `locked` |
| `labels` | `labels[]`: global labels and ENDs |
| `currentPrgm`, `pc` | `current_prgm` + 1, and the number of the line that `pc` points to (0 for -1) |
| `rtns` | the program addresses of `rtn_stack` |
| `Insert`, `InsertEnd`, `DeleteLine`, `Del`, `Clp`, `ClearAll`, `GtoDotDot`, `Lock`, `Import`, `Restart` | the editing commands and keys |
| `GtoLine`, `GtoKey`, `SstKey`, `BstKey` | moving about |
| `Exec*` | one instruction, with `get_next_command()`'s caching of targets |

Editing interleaves with execution one instruction at a time, as it does when
a program is stopped in a subroutine, edited and continued.

| Run | Checks |
|---|---|
| `program_store` | `LabelsExact` (the table kept up to date by each edit is the one a scan would build), `TargetsExact` (a cached target is what a search would find, and no stale one hides behind `lclbl_invalid`), `ReturnsAfterXeq` (a return address is always a line below an XEQ), `LockedKept` (line editing leaves locked programs as they are) |

Bounds: five lines in all programs together, one global label, a number and a
stack label that it is a synonym of, one return address. That is enough for two
jumps that share a label on either side of them and for up to five programs; an
edit touches at most two neighbouring programs. The jumps' search wraps around
the program in both ways. `CutsPastEmpty` = FALSE leaves out the one step with
which `CurrentExists` does not hold (section 11).

**Proved** (`ProgramStoreProofs`, for any number of programs and lines, any
labels): `TypeCorrect`, `LabelsExactCorrect`, `TargetsExactCorrect`,
`ReturnsCorrect` and `LockedKeptCorrect`. The inductive invariant is `Good`
(the shape of programs, the label table, the targets), `Returns` and `Spotted`
(the current line exists). The properties need each other: the table of labels
is updated by shifting the entries behind the edited line, which is right only
if it lists each label once and in order; a program is split or joined at an
END that the table finds; the targets are right because an edit that moves a
label drops them all; a return address survives only edits that leave the XEQ
above it.

The table is said to *list* the labels (`Lists`) if it is a sequence of all of
them in the order of the lines. That two such lists of one program memory are
equal is the key lemma, since the code reaches one by edits and
`rebuild_label_table()` reaches the other by a scan. It is proved with ranks:
position n of a list is the number of labels up to that line
(`SelectionTheorems`: the elements of a sequence that a filter keeps, and where
each of them goes).

The step that `CutsPastEmpty` = FALSE leaves out is left out of the theorems
too, as the hypothesis `~CutsPastEmpty`: with it the current program does not
exist, and nothing that follows means anything.

## 7. State files: `StateFile`

One action per file operation, so that the process can crash between any two.

| Model | Code |
|---|---|
| `disk`, `side` | the files `<name>.f42`; those named `.crash`, `.corrupt`, `.too_new` |
| `tmp` | the `.crash` file that core_init() reads or core_save_state() writes |
| `shellFile` | the file `state`, of which the name of the current state matters |
| `StartLoading`, `RenameAway`, `Read`, `RenameBack` | `activate()`, `core_init()`, `load_state()` |
| `Create`, `Write`, `Remove`, `Rename` | `core_save_state()`, `save_state()` |
| `StatesWindow`, `CopyOpen`, `Copy`, `Cleanup` | `statesCB()` and the `states_menu_*()` functions, `copy_state()`, `switchTo()` |
| `Quit`, `ShellOpen`, `ShellWrite`, `Exit` | `quit()`, `write_shell_state()` |

A file holds a state, nothing but the magic number, a part of a state, or
something foreign on which `load_state()` may fail or crash. `due` is what the
user may count on: the latest complete contents of each name, until later ones
are complete or the user deletes them. `Faults` says what may go wrong besides
crashes: opening a file to write, writing, closing, opening a file to read.

| Run | Checks |
|---|---|
| `state_file` | `SavedKept` (what is due is on the disk, under its name or set aside), `LoadNotRepeated` (no two successive starts crash in loading), `QuitResumes` |
| `state_lost` | violated (section 11) |

Bounds: three names, the least that lets a state other than the current one be
duplicated; two different states in use besides a cleared one, an older and a
newer version; one set-aside file at a time, which the user may remove, so that
crashes follow each other without end. The names other than `Untitled` are
symmetric.

Assumed: two `.crash` files never have the same date and time in their names;
one process runs at a time. Left out: exports, which write elsewhere, and the
files of versions before 2.5, which `load_state2()` refuses.

**Proved** (`StateFileProofs`, for every set of names and all bounds):
`TypeCorrect` and `LoadNotRepeatedCorrect` whatever fails, and
`SavedKeptCorrect` if "close" and "open" are not among the faults. The
inductive invariant says where the working file may exist and what it holds at
each step (`WorkingFile`), that the name worked on is the current one or free
(`Target`), and that the current state's file, if complete, is the one that
memory came from (`Running`), which is why replacing it loses nothing.
`QuitResumesCorrect`, if "open" is not among the faults, needs the converse:
what memory was loaded from or saved to is in the current state's file except
while that is being replaced (`BaseOnDisk`); then what quit() wrote can be
followed from there to the working file of the next start (`QuitKept`).

## 8. The RPN machine: `Heap`, `RpnStack`, `StoRcl`, `Linalg`, `Matedit`, `Commands1` ... `RpnMachine`

A value is its type, and for the types that have one its array. What the
commands do to numbers is left out; what they do to *objects* is kept: every
allocation (which may fail), every free, every copy of a handle, every write
into an array, and the order in which these happen before a command gives up.

| Model | Code |
|---|---|
| `stk`, `lastx`, `vars`, `big`, `sld`, `lift` | `stack[]`, `lastx`, the variables REGS and A, `flags.f.big_stack`, `flags.f.stack_lift_disable`, `mode_disable_stack_lift` |
| `arr`, `live`, `pool` | reference counts, elements and whether a matrix holds strings; the number of objects; the objects a command has freed |
| `nomem` | the number of the allocation that fails in this command, 0 for none |
| `ed` | `matedit_*`: mode, name, the matrix being edited, the depth of nested lists |
| `job`, `later`, `sm` | the worker in progress with what it owns and the operands it borrows (`mul_rr_data` and its like, `linalg_div_left`, `prv_var`), its completion, `flags.f.matrix_singularmatrix` |
| `unary_result()`, `binary_result()`, `recall_result()` ... of `RpnStack` | the ends of commands in `core_helpers.cc` |
| `docmd_...` of `Commands1` to `Commands7` | the commands of `core_commands1.cc` to `7.cc`; commands that differ in the numbers only share an operator (`docmd_arithmetic` is + - * /, `docmd_sto_with` and `docmd_rcl_with` are STO+ and RCL+ with their like, `docmd_arrow` the editor's arrows, `docmd_concat` APPEND and EXTEND) |
| `handle` of `RpnMachine` | `handle()`: the number of arguments, their types, the outcome |
| `worker` of `RpnMachine` | slices of a job, the completion, R/S during the job |

An operator takes the machine and returns it, so that a command reads like its
source: guards with their errors first, then the results, then one of the ends.
`bad` records a write to a shared array, a use of a freed one, or a count gone
wrong; `flaw` that a step was taken which section 11 lists; `KnownFlaws` = FALSE
leaves such steps out, and with TRUE the run ends in one of them.

| Run | Checks |
|---|---|
| `rpn` | `TypeOK`, `Owned` (each object belongs to one place, counts are exact, nothing shared is written to), `Borrowed` (what a job only borrows stays where it was lent until the job is done: both operands of a product, the left one of a division, the value that is printed), `SettingRestored` (DET gives the singular-matrix setting back however it ends), `ErrorKeepsStack` (an error leaves stack and LASTX alone) |

Bounds: two commands, from eleven situations that a few commands lead to from a
reset: four levels or growing, empty, with strings, complex and shared matrices,
a shared list, a list being edited. Two commands are enough because each
property relates what one command leaves to what the next meets, and the
situations supply the sharing. Any allocation of a command may be the one that
fails. A stack grows to four levels (`MaxDepth`).

## 9. Menus and keyboard: `Menus`, `CommandEntry`, `Keydown`

| Model | Code |
|---|---|
| `u.menu`, `u.sect`, `u.sticky` | `mode_commandmenu`, `mode_alphamenu`, `mode_transientmenu`, `mode_plainmenu`, `mode_appmenu`; `catalogmenu_section[]`; `mode_plainmenu_sticky` |
| `u.cb`, `u.baseapp`, `u.hex`, `u.role`, `u.vm`, `u.prev` | `appmenu_exitcallback`, `baseapp`, the base, `varmenu_role`, `mode_varmenu`, `matedit_prev_appmenu` |
| `u.edit`, `u.nested` | a matrix is being edited; an element of a nested list |
| `u.inc`, `u.saved` | `incomplete_*`, `incomplete_saved_pc` |
| `u.num`, `u.alpha`, `u.clall`, `u.prgm`, `u.rpc` | `mode_number_entry`, `mode_alpha_entry`, `mode_clall`, `flags.f.prgm_mode`, `remove_program_catalog` |
| `u.pc`, `u.lines`, `u.locked` | the program: its lines are numbered, its contents are in `ProgramStore` |
| `u.kinds`, `u.mvars`, `u.local` | what the catalogs list, whether a program has menu variables, `flags.f.local_label` |
| `KeyDown` | `keydown()` and its four handlers |
| `KeyUp`, `Timeout` | `core_keyup()`, `core_timeout3()` |

A key is a name and, for the keys under a menu, the item it is under. `Menus`
has the levels and the callbacks, `CommandEntry` the course of an entry from
`start_incomplete_command()` to `finish_command_entry()`, `Keydown` the rest.
What a command does when the key goes up is one of `Effects`, its changes to
menus and modes; a program that runs may do some more (`OfPrograms`) and stop
at any line.

| Run | Checks |
|---|---|
| `keyboard` | `TypeOK`; `CallbackFits`: the exit callback is the one of the application that is up, whatever led there; `EntryModes`: a key means one thing at a time; `Escapes`: ten times EXIT lead out of every menu, entry and mode, if X can be stored; `EntryLeavesNoTrace`: an entry in program mode that is cancelled leaves program, line and menus as they were, one that is completed shows its line |

`Escapes` computes the ten presses in the state it is asked about, so it says
"can always" rather than "will": nobody has to press EXIT.

Bounds: two lines, names and alpha lines of two characters, numbers of two
digits. Five *hands* (`MCHands`) each keep to some of the keys, because all
keys together have too many orders: one wanders through menus, one writes a
program, one chooses arguments from catalogs, one works in the SOLVE and matrix
applications, one writes a program in them. One menu stands for all that differ
in their commands only, one command for those with the same kind of argument.

`Flawed` = FALSE leaves out three kinds of steps, which section 11 describes:
CUSTOM while a string is entered in program mode, a first hex digit that does
not fit the word, and a command that takes the program away from a menu of its
variables, or from a catalog of such programs, while a menu in front hides it.
With the first two, types and modes do not hold; with the third, drawing a menu
of variables may not come to an end, and a catalog shows what is gone.

Proved in `KeydownProofs`, for `Flawed` = FALSE, for programs, names, strings and
numbers of any length and for all hands, those included that play every key:
`TypeOK`, `CallbackFits`, `EntryModes` and `EntryLeavesNoTrace`. None of the four is
inductive. `KInv` of `KeydownInvariant` is; TLC finds no violation of it with the
five hands either. Its parts:

- `Inv` speaks of one state. Beside what the three invariants say it holds that
  a level has a section only if it shows a catalog, and only one that level may
  show (`Screen`); that the argument being entered fits the menu it is chosen
  from (`EntryFits`); that a number being entered has digits and, in program
  mode, a line of its own (`Counters`); that during an entry nothing is pending
  which a key going up would carry out, that the program catalog is only
  removed for XEQ and GTO, that no menu is left of what is gone, and that there
  is no saved line outside an entry (`Modes`).
- `HomeOK` relates it to `home`: while an entry in program mode is under way, the
  saved line, the program and the menus behind are those it began with and,
  except in PRP, the line shown is the one after it.

The proof follows the code. A lemma about each operation says what it returns
and which fields it leaves alone (`Keeps`); these are put together along the
calls, first for menus and their callbacks, then for the entry of a command
(each key leaves an entry that goes on or one that is over), then for the keys,
and for what commands do when the key goes up. `KeyDownKeeps`, `KeyUpKeeps` and
`TimeoutKeeps` are the three steps of `Next`. `Trace` is what the step that ends an
entry leaves, so `EntryLeavesNoTrace` follows from the same lemmas.

Trying to prove them corrected the models where they were too loose to keep
their own promises: storing or deleting a line takes down the menu of variables
of a program that has none any more (`Rewritten`), also while a menu in front
hides it; the question of CLALL keeps the screen as it is; what clears a number
or a string stands for CLX or CLA and not for any command; and a key that ends
a number is looked up in the menu that is in front afterwards.

Not in these modules: GETKEY, which keys `KeyEngine` has; OFF; the key that only
clears a message; typed numbers with a growing stack; pages of catalog items;
inserting an END, with which a program splits (`ProgramStore`); local variables
that go when a program is edited (`Locals`).

## 10. What is proved, checked, and left out

Proved for every value of the constants:

| Module | Properties |
|---|---|
| `CallStackProofs` | `TypeOK`, `SolverFrames`, `ActiveSolverStarted`; `SolverAtHost` without traps in SST; `StepStops` without trapped and ignored errors |
| `LocalsProofs` | `TypeOK`, `Shadowing`, `LookupInnermost`, `LevelsSorted`, `SavedState`, `IndexedLocalExists`, `BigStackAllowed`, `ScopesSpec` |
| `KeyEngineProofs` | `TypeOK`, `PendingHeld`, `QueueSpec`; `ProgramAwake` and `PauseHasTimer` without unknown keys |
| `KeyBufferProofs` | `TypeOK`, `QueueSpec` |
| `ProgramStoreProofs` | `TypeOK`, `LabelsExact`, `TargetsExact`, `ReturnsAfterXeq`, `LockedKept`, without the step of `CutsPastEmpty` |
| `StateFileProofs` | `TypeOK`, `LoadNotRepeated`; `SavedKept` if opening and closing do not fail; `QuitResumes` if opening does not |
| `KeydownProofs` | `TypeOK`, `CallbackFits`, `EntryModes`, `EntryLeavesNoTrace`, without the steps `Flawed` stands for |

The assumptions are those named in the modules: the pseudo-programs of the
solvers are not programs, the limits are natural numbers, a private variable's
name may be that of a user's variable but the empty name is nobody's, the
commands and programs a hand plays with are among those modelled. Each
theorem `Spec => []P` is `Spec => []Inv` for an inductive invariant and
`Inv => P`.

Only model-checked: everything else in the run tables.

- Liveness (`PauseEnds`, `InstructionEnds`, `GetkeyFed`): temporal with
  fairness, which TLAPS does not handle here.
- `RpnMachine`: it normalises the numbers of its arrays with recursive
  operators, which the prover's backends do not accept.
- `Escapes` of `Keydown`: it computes ten presses ahead, and a proof for any
  state would need a measure that every press of EXIT decreases, by induction
  over the presses.

No theorem of the library that takes an operator as a parameter is used, so
there is no induction in the proofs; where one is needed a least counterexample
stands for it (section 4).

In `PROJECT.json` an operator that is a part of another one, named for the
proofs' sake, is mapped with that operator's lines or not at all.

Not modelled: what commands compute (floating point is out of TLC's reach),
positions inside a matrix, SIMQ's variables, layout, printing, skins, file
formats and the windows of the shells; see the components of PROJECT.json, each
with its reason.

## 11. Where code and documents disagree, and what else goes wrong

Each of these properties has a counterexample. Where a configuration is named,
`tlc -config MCxxxYyy.cfg MCxxx` shows it (for KeyEngine, whose constants the
configuration gives alone, `KeyEngine` in place of `MCKeyEngine`); `state_lost` is a run. For the
others, put the property into the configuration named, with the constants given.

| Configuration | Property | What the code does |
|---|---|---|
| `MCStateFileClose` | `SavedKept` | `fclose()` is not tested: a partial state replaces the complete one when the disk is full |
| `MCLocalsReach` | `IndexReachable` | a global created after a local matrix was indexed makes the matrix unreachable for RCLEL |
| `MCKeyEngineTrap` | `TrappedErrorGoesOn` | an error that ends an interruptible instruction and that SOLVE traps stops the program |
| `MCCallStackTrap`, `TrapsIn` = {"sst"} | `SolverAtHost` | an error that SOLVE traps in a single-stepped instruction clears the return addresses |
| `MCKeyEngineRepeat` | `RepeatsHeldKey` | a typed-ahead key that repeats leaves its flag set for the next key |
| `MCKeyEngine`, `UnknownKeys` = TRUE | `PauseHasTimer` | an unknown key ends the timeout of PSE but not the pause |
| `MCKeyEngine` | `EnqueuedReported` | a key queued by the dequeueing branch is not reported to the shell |
| `MCProgramStoreStk` | `TargetNamed` | GTO ST X stops at LBL ST Y: `stk = arg->val.stk` assigns |
| `MCProgramStoreLock` | `LockedByLock` | the second half of a split program can come out locked |
| `MCProgramStore`, `CutsPastEmpty` = TRUE | `CurrentExists` | CLP of the last program while an empty one precedes it: `current_prgm` is beyond the last program |
| `MCKeyEngine` | `CommandAwake` | an interruptible command whose key was typed ahead starts and is never called again |
| `MCKeyEngine` | `ShiftReleasedInPause` | a key's release during PSE is taken for that of Shift |
| `MCCallStackStep`, `ErrorIgnore` = TRUE or `TrapsIn` = {"run"} | `StepStops` | Step Over and Step Out overshoot after an ignored or trapped error |
| `MCLocals`, two names, `Commands` = {"INDEX", "EDITN"} | `EditorMode` | the editor's menu stays up when a subroutine ends that edited its local |
| `MCLocals`, two names, `Commands` = {"INDEX", "LCLV"} | `LclvLocalOnly` | LCLV changes the index although it deletes nothing |

Other things the modelling showed, at the lines of `src/common`.

Return stack and shell: `call_solve_fn()` frees the solver's variable although
the table may have moved when the label is gone (`core_math1.cc` 398); an error
of EDITN leaves the caller's index changed (`core_commands2.cc` 556); a macro of
several keys calls the core in a loop without serving events
(`gtk/shell_main.cc` 2812).

Commands, left out of the runs by `KnownFlaws` = FALSE:

- RCL÷ and its like leak the value they fetched when it is not a number
  (`core_commands1.cc` 331-386), and when the division itself fails, because the
  completion is not called then (`core_linalg1.cc` 189-273).
- CLΣ, Σ+ and Σ- write into REGS without disentangling it (`core_commands1.cc`
  648-672, `core_commands5.cc` 2047-2110); DELR does so with a shared real
  matrix (`core_commands3.cc` 527-532), and a nested list that is edited
  changes in all who share it (a comment at `core_commands4.cc` 1218 says so).
- SIGN of a complex matrix ignores `map_unary()`'s error (`core_commands1.cc`
  1278-1283); the errors of copying a matrix are ignored in `linalg_div()`.
- CLX, CLST, CLALL, ASTO, DROP and DROPN do not test whether `new_real()` had
  memory (`core_commands1.cc` 36-40, `core_commands7.cc` 1327, 1354).
- A back substitution that is out of range never calls its completion
  (`core_linalg2.cc` 539, 666, 673, 813, 820), and a singular complex matrix is
  reported without an error (383-387).
- INSR leaks a zero when a list is not shared, frees an object that it has not
  allocated, and leaks the new array when the cast fails
  (`core_commands4.cc` 96-139); `matedit_move()` uses an uninitialised value
  (1344-1346); FIND takes a list in X for a string (1740).
- DELR on an empty list reads beyond it; UVEC never gets to its branch for
  complex matrices.
- SDEV leaks a number (`core_commands5.cc` 424-425); SL clears the wrap mode and
  the shifts set the carry before memory is allocated (1067).
- SUBSTR tests one of its positions twice (`core_commands7.cc` 1870); POS reads
  below a growing stack of two levels (2081-2088); APPEND and EXTEND have freed
  their list when copying T fails (1765-1811).
- C.LN1+X and C.E^X-1 need no argument according to `core_tables.cc` 510-511.

Keyboard, left out of the run by `Flawed` = FALSE or kept as the code has it:

- GOTO of the editor's menu in program mode: the entry ends without a pending
  command, and `finish_command_entry()` reads `cmd_array[-1]` and stores
  command -1 (`core_keydown.cc` 1273, `core_main.cc` 5216-5222). The model
  stores a line, as the code does.
- CUSTOM while a string is entered in program mode takes the menu down but not
  the mode (`core_keydown.cc` 2135-2138); the saved line can then be past the
  end of the program.
- A hex digit that does not fit the word, if it is the first, leaves a number
  without digits, which BSP shortens to a length of -1 (640-644).
- EXIT from an element of a nested list tolerates that the edited variable is
  gone, in which case storing X has left the editor, and indexes the stack of
  lists that was freed (2812-2833).
- INTEG executes even in program mode (2718-2723).
- `set_plainmenu(MENU_NONE)` with a plain menu up reads the table of the menus
  at -1 (`core_display.cc` 2885-2892); whether the menu then sticks is a choice
  of the model.
- XEQ "CLALL" in program mode, when refused, leaves the program one line further
  (`core_main.cc` 5283-5290). `finish_command_entry()` ignores that a locked
  program refuses the line, and shows the next one. A number begun at the END
  and deleted leaves the line before it.
- What the editor shows can stop being an array, when a command replaces the
  element of a list whose own elements are edited. Storing X then leaves the
  editor by itself, with an error, and its callback is registered again with no
  menu of an application up (`core_helpers.cc` 2060, `core_commands3.cc`
  827-832). `Menus` leaves this out: `CallbackFits` would not hold. The next
  menu of an application clears the callback (`core_display.cc` 1477-1478).
- A...F sets base 16 before the editor may refuse to be left (4858-4864).
- Deleting the last digit of an indirect argument offers variables of all
  kinds where only real ones were offered before (`core_keydown.cc` 1413-1421).
- A command that deletes the program of the menu of variables, CLP from a sticky
  CUSTOM menu say, leaves that menu where it is if another one hides it: only
  storing and deleting a line and `redisplay()` of the front menu call
  `draw_varmenu()`. An argument whose first digit is then deleted
  (`core_keydown.cc` 1398-1443), or STO chosen from a catalog (`core_main.cc`
  5135-5165), offers the variables of a program that is gone: `draw_varmenu()` sets
  `varmenu_length` to 0 and takes down the application menu, not that of the
  command, and `redisplay()` calls itself without end (`core_display.cc`
  2146-2151).
