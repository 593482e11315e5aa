----------------------------- MODULE StateFile ------------------------------
(***************************************************************************)
(* The calculator's states on disk: loading and saving a state file, the  *)
(* window in which states are switched, reverted, created, duplicated,    *)
(* renamed, deleted and imported, and the shell's own file, which names   *)
(* the current state.  The process may crash between any two file         *)
(* operations.                                                             *)
(*                                                                         *)
(* core_init() renames a file before it reads it, so that a file that     *)
(* crashes the program is read only once; core_save_state() writes the    *)
(* new state beside the old one.  Their working file carries date and time *)
(* in its name: it is assumed that no two of them get the same name, so   *)
(* that what is left of them is a set.                                     *)
(***************************************************************************)
EXTENDS Naturals, FiniteSets

CONSTANTS
    Names,      \* names of states: the files <name>.f42
    Untitled,   \* the current state if the shell's file is missing or bad
    MaxWork,    \* bound: different states of the calculator at one time
    MaxSide,    \* bound: set-aside files at one time
    Faults      \* what may go wrong: "create", "write", "close", "open"

ASSUME NamesAssumption == Untitled \in Names
ASSUME BoundsAssumption == MaxWork \in Nat /\ MaxSide \in Nat
ASSUME FaultsAssumption == Faults \subseteq {"create", "write", "close", "open"}

VARIABLES
    disk,         \* the contents of <name>.f42, or None
    side,         \* the files <name>.<time>.crash, .corrupt or .too_new
    tmp,          \* the contents of the working .crash file of tgt, or None
    shellFile,    \* the name in the shell's file, or "none": missing or bad
    pc,           \* where the process is: "off", "idle", "states" (the window
                  \* with the states is open), or before a file operation
    next,         \* where it goes on after loading or saving
    tgt,          \* the name that is loaded, saved or copied to
    src,          \* the contents that are copied
    dest,         \* the state that will be switched to
    coreName,     \* state.coreName
    mem,          \* the state in memory, or None
    reason,       \* in core_init(): 1 if the file turned out to be invalid
    base,         \* history: the contents that mem was loaded from or saved to
    due,          \* history: <<name, contents>> the user may count on
    quitMem,      \* history: mem when the program quit, if all was written
    loadCrashes   \* history: successive starts that crashed in loading

files == <<disk, side, tmp, shellFile>>
process == <<pc, next, tgt, src, dest>>
core == <<coreName, mem, reason>>
history == <<base, due, quitMem, loadCrashes>>
vars == <<files, process, core, history>>

-----------------------------------------------------------------------------
(* Contents of files *)

Cleared == 0
Mems == 0 .. MaxWork
None == <<"none", 0>>
NoMem == MaxWork + 1

\* A complete state file.
StateOf(m) == <<"state", m>>

\* FREE42_MAGIC and nothing else: a new state.
Empty == <<"empty", 0>>

\* A file whose writing was broken off.
Partial == <<"partial", 0>>

\* A file from elsewhere, corrupt or too new: load_state() fails or crashes.
Invalid == <<"invalid", 0>>

Complete == {StateOf(m) : m \in Mems} \cup {Invalid}
Contents == Complete \cup {Empty, Partial}

Aside(n, c) == [name |-> n, contents |-> c]

\* What a process that dies, or a save that gives up, leaves of its working file.
LeftOver(n, c) == IF c = None THEN side ELSE side \cup {Aside(n, c)}

\* Whether there is room for one more file (a bound of the model).
Room == Cardinality(side) < MaxSide

Free(n) == disk[n] = None

\* A function returns, and what it has worked on is forgotten.
Return(p) == /\ pc' = p /\ next' = "idle"
             /\ tgt' = Untitled /\ src' = Empty /\ dest' = Untitled

-----------------------------------------------------------------------------
TypeOK ==
    /\ disk \in [Names -> Contents \cup {None}]
    /\ side \subseteq [name : Names, contents : Contents]
    /\ tmp \in Contents \cup {None}
    /\ shellFile \in Names \cup {"none"}
    /\ pc \in {"off", "idle", "states", "list", "away", "read", "back",
               "create", "write", "remove", "rename", "copyopen", "copy",
               "shellopen", "shellwrite", "cleanup", "exit"}
    /\ next \in {"idle", "start", "list", "cleanup", "exit"}
    /\ tgt \in Names /\ dest \in Names /\ coreName \in Names
    /\ src \in Contents
    /\ mem \in Mems \cup {NoMem}
    /\ reason \in 0 .. 1
    /\ base \in Contents \cup {None}
    /\ due \subseteq Names \X Complete
    /\ quitMem \in Mems \cup {NoMem}
    /\ loadCrashes \in Nat

Init ==
    /\ disk = [n \in Names |-> None]
    /\ side = {}
    /\ tmp = None
    /\ shellFile = "none"
    /\ pc = "off" /\ next = "idle"
    /\ tgt = Untitled /\ dest = Untitled /\ coreName = Untitled
    /\ src = Empty
    /\ mem = NoMem
    /\ reason = 0
    /\ base = None /\ due = {} /\ quitMem = NoMem /\ loadCrashes = 0

-----------------------------------------------------------------------------
(* Starting: the shell reads its file, core_init() loads the state *)

\* Mutant: the name in the shell's file is not used.
StartUntitled ==
    /\ pc = "off"
    /\ shellFile \in Names \/ ~Free(Untitled)
    /\ coreName' = Untitled /\ tgt' = Untitled
    /\ pc' = "away" /\ next' = "start"
    /\ UNCHANGED <<files, src, dest, mem, reason, history>>

\* activate(): the name in the shell's file, or Untitled if that exists.
StartName == IF shellFile \in Names THEN shellFile ELSE Untitled

StartLoading ==
    /\ pc = "off"
    /\ shellFile \in Names \/ ~Free(StartName)
    /\ coreName' = StartName /\ tgt' = StartName
    /\ pc' = "away" /\ next' = "start"
    /\ UNCHANGED <<files, src, dest, mem, reason, history>>

\* activate() with nothing to load.
StartCleared ==
    /\ pc = "off"
    /\ shellFile \notin Names /\ Free(Untitled)
    /\ coreName' = Untitled
    /\ mem' = Cleared
    /\ pc' = "idle"
    /\ base' = None /\ quitMem' = NoMem /\ loadCrashes' = 0
    /\ UNCHANGED <<files, next, tgt, src, dest, reason, due>>

\* Mutant: the file is read under its own name.
ReadInPlace ==
    /\ pc = "away"
    /\ tmp' = disk[tgt]
    /\ pc' = "read"
    /\ UNCHANGED <<disk, side, shellFile, next, tgt, src, dest, core, history>>

\* core_init(): the state file gets the name of a crash file ...
RenameAway ==
    /\ pc = "away"
    /\ tmp' = disk[tgt]
    /\ disk' = [disk EXCEPT ![tgt] = None]
    /\ pc' = "read"
    /\ UNCHANGED <<side, shellFile, next, tgt, src, dest, core, history>>

\* ... is opened and read, unless that crashes ...
Read ==
    /\ pc = "read"
    /\ \/ /\ tmp[1] = "state"
          /\ mem' = tmp[2] /\ base' = tmp /\ reason' = 0
       \/ /\ tmp[1] # "state"
          /\ mem' = Cleared /\ base' = None
          /\ reason' = IF tmp \in {Invalid, Partial} THEN 1 ELSE 0
       \/ /\ "open" \in Faults
          /\ mem' = Cleared /\ base' = None /\ reason' = 0
    /\ pc' = "back"
    /\ IF next = "start" THEN quitMem' = NoMem /\ loadCrashes' = 0
       ELSE UNCHANGED <<quitMem, loadCrashes>>
    /\ UNCHANGED <<files, next, tgt, src, dest, coreName, due>>

\* ... and gets its name back, or one that says what is wrong with it.
RenameBack ==
    /\ pc = "back"
    /\ IF reason = 0
       THEN /\ disk' = [disk EXCEPT ![tgt] = IF tmp = None THEN @ ELSE tmp]
            /\ side' = side
       ELSE /\ Room
            /\ side' = side \cup {Aside(tgt, tmp)}
            /\ disk' = disk
    /\ tmp' = None /\ reason' = 0
    /\ Return("idle")
    /\ UNCHANGED <<shellFile, coreName, mem, history>>

\* The user calculates: the state in memory is one that is not yet in use.
Work ==
    /\ pc = "idle"
    /\ mem' \in {m \in Mems \ {Cleared, mem} :
                    /\ \A n \in Names : disk[n] # StateOf(m)
                    /\ \A f \in side : f.contents # StateOf(m)}
    /\ UNCHANGED <<files, process, coreName, reason, history>>

-----------------------------------------------------------------------------
(* core_save_state() *)

SaveTo(n, after) == pc' = "create" /\ tgt' = n /\ next' = after

\* The crash file is opened; if that fails nothing is saved, and nobody knows.
Create ==
    /\ pc = "create"
    /\ \/ tmp' = Partial /\ pc' = "write"
       \/ "create" \in Faults /\ tmp' = tmp /\ pc' = next
    /\ UNCHANGED <<disk, side, shellFile, next, tgt, src, dest, core, history>>

\* save_state() and fclose(): a failure of the latter is not noticed.
Write ==
    /\ pc = "write"
    /\ \/ tmp' = StateOf(mem) /\ pc' = "remove" /\ side' = side
       \/ "close" \in Faults /\ tmp' = Partial /\ pc' = "remove" /\ side' = side
       \/ /\ "write" \in Faults /\ Room
          /\ side' = LeftOver(tgt, Partial) /\ tmp' = None /\ pc' = next
    /\ UNCHANGED <<disk, shellFile, next, tgt, src, dest, core, history>>

\* The new contents are complete: they take the place of those before.
Superseded == IF tmp \in Complete THEN (due \ {<<tgt, base>>}) \cup {<<tgt, tmp>>}
                                  ELSE due

Remove ==
    /\ pc = "remove"
    /\ disk' = [disk EXCEPT ![tgt] = None]
    /\ due' = Superseded
    /\ pc' = "rename"
    /\ UNCHANGED <<side, tmp, shellFile, next, tgt, src, dest, core,
                   base, quitMem, loadCrashes>>

Rename ==
    /\ pc = "rename"
    /\ disk' = [disk EXCEPT ![tgt] = tmp]
    /\ tmp' = None
    /\ base' = IF tgt = coreName THEN tmp ELSE base
    /\ pc' = next
    /\ UNCHANGED <<side, shellFile, next, tgt, src, dest, core,
                   due, quitMem, loadCrashes>>

-----------------------------------------------------------------------------
(* The window with the states *)

OpenStates ==
    /\ pc = "idle"
    /\ pc' = "list"
    /\ UNCHANGED <<files, next, tgt, src, dest, core, history>>

\* Mutant: no file is made.
NotListed(n) == disk

\* statesCB(), load_state_names: a file is made for the current state.
Listed(n) == IF Free(n) THEN [disk EXCEPT ![n] = Empty] ELSE disk

List ==
    /\ pc = "list"
    /\ disk' = Listed(coreName)
    /\ Return("states")
    /\ UNCHANGED <<side, tmp, shellFile, core, history>>

CloseStates ==
    /\ pc = "states"
    /\ pc' = "idle"
    /\ UNCHANGED <<files, next, tgt, src, dest, core, history>>

New(n) ==
    /\ pc = "states" /\ Free(n)
    /\ disk' = [disk EXCEPT ![n] = Empty]
    /\ pc' = "list"
    /\ UNCHANGED <<side, tmp, shellFile, next, tgt, src, dest, core, history>>

\* The file moves, and what the user counts on with it.
RenameState(n, m) ==
    /\ pc = "states" /\ ~Free(n) /\ Free(m)
    /\ disk' = [disk EXCEPT ![m] = disk[n], ![n] = None]
    /\ coreName' = IF n = coreName THEN m ELSE coreName
    /\ due' = IF <<n, disk[n]>> \in due
              THEN (due \ {<<n, disk[n]>>}) \cup {<<m, disk[n]>>} ELSE due
    /\ pc' = "list"
    /\ UNCHANGED <<side, tmp, shellFile, next, tgt, src, dest, mem, reason,
                   base, quitMem, loadCrashes>>

Delete(n) ==
    /\ pc = "states" /\ n # coreName /\ ~Free(n)
    /\ disk' = [disk EXCEPT ![n] = None]
    /\ due' = due \ {<<n, disk[n]>>}
    /\ pc' = "list"
    /\ UNCHANGED <<side, tmp, shellFile, next, tgt, src, dest, core,
                   base, quitMem, loadCrashes>>

\* The current state is saved under the new name, another one is copied.
DuplicateCurrent(n) ==
    /\ pc = "states" /\ Free(n)
    /\ SaveTo(n, "list")
    /\ UNCHANGED <<files, src, dest, core, history>>

Duplicate(n, m) ==
    /\ pc = "states" /\ n # coreName /\ ~Free(n) /\ Free(m)
    /\ src' = disk[n] /\ tgt' = m
    /\ pc' = "copyopen"
    /\ UNCHANGED <<files, next, dest, core, history>>

Import(n) ==
    /\ pc = "states" /\ Free(n)
    /\ src' = Invalid /\ tgt' = n
    /\ pc' = "copyopen"
    /\ UNCHANGED <<files, next, dest, core, history>>

\* copy_state(): the copy is opened ...
CopyOpen ==
    /\ pc = "copyopen"
    /\ disk' = [disk EXCEPT ![tgt] = Partial]
    /\ pc' = "copy"
    /\ UNCHANGED <<side, tmp, shellFile, next, tgt, src, dest, core, history>>

\* ... and written, or removed when that fails; fclose() is not tested.
Copy ==
    /\ pc = "copy"
    /\ \/ /\ disk' = [disk EXCEPT ![tgt] = src]
          /\ due' = IF src \in Complete THEN due \cup {<<tgt, src>>} ELSE due
          /\ pc' = "list"
       \/ /\ "close" \in Faults
          /\ disk' = disk /\ due' = due /\ pc' = "list"
       \/ /\ "write" \in Faults
          /\ disk' = [disk EXCEPT ![tgt] = None]
          /\ due' = due /\ pc' = "states"
    /\ UNCHANGED <<side, tmp, shellFile, next, tgt, src, dest, core,
                   base, quitMem, loadCrashes>>

\* Mutant: core_cleanup() comes before core_save_state().
SwitchCleaned(n) ==
    /\ pc = "states" /\ n # coreName /\ ~Free(n)
    /\ SaveTo(coreName, "cleanup")
    /\ dest' = n /\ mem' = NoMem
    /\ UNCHANGED <<files, src, coreName, reason, history>>

\* switchTo(): another state, after the current one is saved ...
SwitchTo(n) ==
    /\ pc = "states" /\ n # coreName /\ ~Free(n)
    /\ SaveTo(coreName, "cleanup")
    /\ dest' = n
    /\ UNCHANGED <<files, src, core, history>>

\* ... or the current one, which the user has agreed to lose.
Revert ==
    /\ pc = "states"
    /\ pc' = "cleanup" /\ dest' = coreName
    /\ UNCHANGED <<files, next, tgt, src, core, history>>

\* core_cleanup() forgets the state in memory, core_init() is next.
Cleanup ==
    /\ pc = "cleanup"
    /\ mem' = NoMem /\ base' = None
    /\ coreName' = dest /\ tgt' = dest
    /\ pc' = "away" /\ next' = "idle"
    /\ UNCHANGED <<files, src, dest, reason, due, quitMem, loadCrashes>>

-----------------------------------------------------------------------------
(* quit(), a crash, and the user *)

Quit ==
    /\ pc = "idle"
    /\ pc' = "shellopen"
    /\ UNCHANGED <<files, next, tgt, src, dest, core, history>>

ShellOpen ==
    /\ pc = "shellopen"
    /\ \/ shellFile' = "none" /\ pc' = "shellwrite" /\ UNCHANGED <<next, tgt>>
       \/ "create" \in Faults /\ SaveTo(coreName, "exit") /\ UNCHANGED shellFile
    /\ UNCHANGED <<disk, side, tmp, src, dest, core, history>>

\* write_shell_state(), whose failure is not noticed.
ShellWrite ==
    /\ pc = "shellwrite"
    /\ \/ shellFile' = coreName
       \/ "write" \in Faults /\ UNCHANGED shellFile
    /\ SaveTo(coreName, "exit")
    /\ UNCHANGED <<disk, side, tmp, src, dest, core, history>>

Exit ==
    /\ pc = "exit"
    /\ quitMem' = IF base = StateOf(mem) /\ shellFile = coreName THEN mem ELSE NoMem
    /\ mem' = NoMem /\ base' = None /\ coreName' = Untitled
    /\ Return("off")
    /\ UNCHANGED <<files, reason, due, loadCrashes>>

\* The process dies, because of an invalid file or otherwise.
Crash ==
    /\ pc # "off"
    /\ tmp # None => Room
    /\ side' = LeftOver(tgt, tmp)
    /\ tmp' = None
    /\ mem' = NoMem /\ base' = None /\ quitMem' = NoMem
    /\ coreName' = Untitled /\ reason' = 0
    /\ Return("off")
    /\ loadCrashes' = IF pc = "read" /\ next = "start" /\ tmp = Invalid
                      THEN loadCrashes + 1 ELSE loadCrashes
    /\ UNCHANGED <<disk, shellFile, due>>

\* The user removes a file that was set aside, and can only count on the state
\* of that name if it has the same contents.
TidyUp(f) ==
    /\ side' = side \ {f}
    /\ due' = IF disk[f.name] = f.contents THEN due
              ELSE due \ {<<f.name, f.contents>>}
    /\ UNCHANGED <<disk, tmp, shellFile, process, core, base, quitMem, loadCrashes>>

StatesWindow ==
    \/ List \/ CloseStates \/ Revert
    \/ \E n \in Names : \/ New(n) \/ Delete(n) \/ SwitchTo(n)
                        \/ DuplicateCurrent(n) \/ Import(n)
                        \/ \E m \in Names : RenameState(n, m) \/ Duplicate(n, m)

Next ==
    \/ StartLoading \/ StartCleared \/ RenameAway \/ Read \/ RenameBack
    \/ Work \/ OpenStates \/ StatesWindow \/ CopyOpen \/ Copy \/ Cleanup
    \/ Create \/ Write \/ Remove \/ Rename
    \/ Quit \/ ShellOpen \/ ShellWrite \/ Exit
    \/ Crash
    \/ \E f \in side : TidyUp(f)

Spec == Init /\ [][Next]_vars

-----------------------------------------------------------------------------
(* Properties *)

\* The contents c last saved as state n are in the state's own file, in one
\* that was set aside, or in the working file.
Kept(n, c) ==
    \/ disk[n] = c
    \/ \E f \in side : f.name = n /\ f.contents = c
    \/ tgt = n /\ tmp = c

\* No state that was completely written is lost before a later one of the same
\* name is complete, or the user deletes it: not by a crash in core_init() or
\* core_save_state(), not by a failed write, a file that cannot be loaded, or
\* a state that is created, renamed or imported while the current one has no
\* file.
SavedKept == \A p \in due : Kept(p[1], p[2])

\* A state file that crashes the program in core_init() is not read by the
\* next start, which begins with Memory Clear instead.
LoadNotRepeated == loadCrashes < 2

\* A state that quit() has written is the one that the next start reads.
QuitResumes ==
    [][pc = "read" /\ next = "start" /\ quitMem # NoMem /\ pc' = "back"
        => mem' = quitMem]_vars
=============================================================================
