-------------------------- MODULE StateFileProofs ---------------------------
(***************************************************************************)
(* Proofs about the state files, for every set of names and all bounds:   *)
(* type correctness, that a file which crashes the program is not read by *)
(* the next start, that a start resumes what quit() wrote unless a file    *)
(* cannot be opened, and, unless closing one fails unnoticed too, that no  *)
(* saved state is lost.                                                    *)
(***************************************************************************)
EXTENDS StateFile, TLAPS

(* The kinds of contents are different. *)
LEMMA KindsDiffer ==
    /\ None \notin Contents /\ Empty \notin Complete /\ Partial \notin Complete
    /\ Complete \subseteq Contents /\ Empty \in Contents /\ Partial \in Contents
    /\ Invalid \in Complete /\ Invalid # None
    /\ \A m \in Mems : StateOf(m) \in Complete
    /\ \A c \in Complete : c[1] = "state" => c # Invalid
    /\ \A c \in Contents : c[1] = "state" => c[2] \in Mems
    /\ Cleared \in Mems /\ None[1] # "state"
    /\ \A c \in Contents \cup {None} :
          c[1] # "state" /\ c \notin {Invalid, Partial} => c \in {None, Empty}
BY BoundsAssumption DEF None, Contents, Complete, Empty, Partial, Invalid, StateOf,
    Mems, Cleared

-----------------------------------------------------------------------------
(* Types *)

\* A state is in memory, an invalid file has been read before it is set aside,
\* and saving goes on in one of three places.
InMemory ==
    /\ pc \notin {"off", "away", "read"} => mem \in Mems
    /\ pc = "back" /\ reason = 1 => tmp # None
    /\ pc \in {"create", "write", "remove", "rename"} =>
          next \in {"list", "cleanup", "exit"}

TypeInv == TypeOK /\ InMemory

LEMMA InitTypeInv == Init => TypeInv
BY KindsDiffer, NamesAssumption, BoundsAssumption
   DEF Init, TypeInv, TypeOK, InMemory, NoMem, Mems

LEMMA NextTypeInv == TypeInv /\ [Next]_vars => TypeInv'
<1> SUFFICES ASSUME TypeInv, [Next]_vars PROVE TypeInv'
  OBVIOUS
<1> USE KindsDiffer, NamesAssumption DEF TypeInv, TypeOK, InMemory
<1> USE DEF files, process, core, history, Aside, LeftOver, Return, SaveTo, Free
<1>1. CASE StartLoading
  BY <1>1 DEF StartLoading, StartName
<1>2. CASE StartCleared
  BY <1>2 DEF StartCleared
<1>3. CASE RenameAway
  BY <1>3 DEF RenameAway
<1>4. CASE Read
  BY <1>4 DEF Read
<1>5. CASE RenameBack
  BY <1>5 DEF RenameBack
<1>6. CASE Work
  BY <1>6 DEF Work
<1>7. CASE OpenStates
  BY <1>7 DEF OpenStates
<1>8. CASE StatesWindow
  <2>1. CASE List
    BY <2>1 DEF List, Listed
  <2>2. CASE CloseStates \/ Revert
    BY <2>2 DEF CloseStates, Revert
  <2>3. ASSUME NEW n \in Names, New(n) \/ Delete(n) PROVE TypeInv'
    BY <2>3 DEF New, Delete
  <2>4. ASSUME NEW n \in Names, SwitchTo(n) \/ DuplicateCurrent(n) \/ Import(n)
        PROVE TypeInv'
    BY <2>4 DEF SwitchTo, DuplicateCurrent, Import
  <2>5. ASSUME NEW n \in Names, NEW m \in Names, RenameState(n, m) PROVE TypeInv'
    BY <2>5 DEF RenameState
  <2>6. ASSUME NEW n \in Names, NEW m \in Names, Duplicate(n, m) PROVE TypeInv'
    BY <2>6 DEF Duplicate
  <2> QED
    BY <1>8, <2>1, <2>2, <2>3, <2>4, <2>5, <2>6 DEF StatesWindow
<1>9. CASE CopyOpen
  BY <1>9 DEF CopyOpen
<1>10. CASE Copy
  <2>1. disk' \in [Names -> Contents \cup {None}]
    BY <1>10 DEF Copy
  <2>2. due' \subseteq Names \X Complete
    BY <1>10 DEF Copy
  <2> QED
    BY <1>10, <2>1, <2>2 DEF Copy
<1>11. CASE Cleanup
  BY <1>11 DEF Cleanup
<1>12. CASE Create
  BY <1>12 DEF Create
<1>13. CASE Write
  <2>1. /\ tmp' \in Contents \cup {None}
        /\ pc' \in {"remove", next}
        /\ side' \subseteq [name : Names, contents : Contents]
    BY <1>13 DEF Write
  <2> QED
    BY <1>13, <2>1 DEF Write
<1>14. CASE Remove
  BY <1>14 DEF Remove, Superseded
<1>15. CASE Rename
  BY <1>15 DEF Rename
<1>16. CASE Quit \/ ShellOpen \/ ShellWrite
  BY <1>16 DEF Quit, ShellOpen, ShellWrite
<1>17. CASE Exit
  BY <1>17 DEF Exit
<1>18. CASE Crash
  BY <1>18 DEF Crash
<1>19. ASSUME NEW f \in side, TidyUp(f) PROVE TypeInv'
  BY <1>19 DEF TidyUp
<1>20. CASE UNCHANGED vars
  BY <1>20 DEF vars
<1> QED
  BY <1>1, <1>2, <1>3, <1>4, <1>5, <1>6, <1>7, <1>8, <1>9, <1>10, <1>11, <1>12,
     <1>13, <1>14, <1>15, <1>16, <1>17, <1>18, <1>19, <1>20 DEF Next
(* A theorem of the specification: types *)
THEOREM TypeCorrect == Spec => []TypeOK
<1>1. Init => TypeInv
  BY InitTypeInv
<1>2. TypeInv /\ [Next]_vars => TypeInv'
  BY NextTypeInv
<1>3. TypeInv => TypeOK
  BY DEF TypeInv
<1> QED
  BY <1>1, <1>2, <1>3, PTL DEF Spec

-----------------------------------------------------------------------------
(* Nothing that was saved is lost *)

\* The working file: what it holds and whose it is.
WorkingFile ==
    /\ tmp # None => pc \in {"read", "back", "write", "remove", "rename"}
    /\ pc = "write" => tmp = Partial
    /\ pc \in {"remove", "rename"} => tmp \in Complete
    /\ pc = "back" => /\ reason = 0 => tmp \in {None, Empty, base}
                      /\ reason = 1 => tmp # None

\* The name that is being worked on.
Target ==
    /\ pc \in {"away", "read", "back"} => tgt = coreName
    /\ pc \in {"read", "back", "rename", "copyopen"} => disk[tgt] = None
    /\ pc \in {"create", "write", "remove"} => tgt = coreName \/ disk[tgt] = None
    /\ pc = "copy" => disk[tgt] = Partial
    /\ pc \in {"copyopen", "copy"} => tgt # coreName
    /\ pc \in {"states", "copyopen", "copy"} => disk[coreName] # None

\* While the calculator runs, its file holds what memory was loaded from or saved to.
Running ==
    pc \notin {"off", "away", "read", "back"} =>
        (disk[coreName] \in Complete => disk[coreName] = base)

SafeInv == WorkingFile /\ Target /\ Running /\ SavedKept

LEMMA InitSafeInv == Init => SafeInv
BY KindsDiffer DEF Init, SafeInv, WorkingFile, Target, Running, SavedKept

LEMMA NextSafeInv ==
    ASSUME "close" \notin Faults, "open" \notin Faults,
           TypeInv, SafeInv, [Next]_vars
    PROVE  SafeInv'
<1> USE KindsDiffer, NamesAssumption
    DEF TypeInv, TypeOK, InMemory, SafeInv, WorkingFile, Target, Running,
        files, process, core, history, Return, SaveTo, Free
<1>1. CASE StartLoading
  <2>1. WorkingFile' /\ Target' /\ Running'
    BY <1>1 DEF StartLoading
  <2>2. SavedKept'
    BY <1>1 DEF StartLoading, SavedKept, Kept
  <2> QED
    BY <2>1, <2>2
<1>2. CASE StartCleared
  <2>1. WorkingFile' /\ Target' /\ Running'
    BY <1>2 DEF StartCleared
  <2>2. SavedKept'
    BY <1>2 DEF StartCleared, SavedKept, Kept
  <2> QED
    BY <2>1, <2>2
<1>3. CASE RenameAway
  <2>1. WorkingFile' /\ Target' /\ Running'
    BY <1>3 DEF RenameAway
  <2>2. SavedKept'
    BY <1>3 DEF RenameAway, SavedKept, Kept
  <2> QED
    BY <2>1, <2>2
<1>4. CASE Read
  <2>1. WorkingFile' /\ Target' /\ Running'
    BY <1>4 DEF Read
  <2>2. SavedKept'
    BY <1>4 DEF Read, SavedKept, Kept
  <2> QED
    BY <2>1, <2>2
<1>5. CASE RenameBack
  <2>1. WorkingFile' /\ Target' /\ Running'
    BY <1>5 DEF RenameBack, Aside
  <2>2. SavedKept'
    <3> SUFFICES ASSUME NEW p \in due PROVE Kept(p[1], p[2])'
      BY <1>5 DEF RenameBack, SavedKept
    <3>1. /\ Kept(p[1], p[2])
          /\ p[1] \in Names /\ p[2] \in Complete
      BY DEF SavedKept
    <3>2. CASE disk[p[1]] = p[2]
      BY <1>5, <3>1, <3>2 DEF RenameBack, Kept
    <3>3. CASE \E f \in side : f.name = p[1] /\ f.contents = p[2]
      BY <1>5, <3>3 DEF RenameBack, Kept
    <3>4. CASE tgt = p[1] /\ tmp = p[2] /\ reason = 0
      BY <1>5, <3>1, <3>4 DEF RenameBack, Kept
    <3>5. CASE tgt = p[1] /\ tmp = p[2] /\ reason # 0
      <4>1. /\ Aside(tgt, tmp) \in side'
            /\ Aside(tgt, tmp).name = p[1] /\ Aside(tgt, tmp).contents = p[2]
        BY <1>5, <3>5 DEF RenameBack, Aside
      <4> QED
        BY <4>1 DEF Kept
    <3> QED
      BY <3>1, <3>2, <3>3, <3>4, <3>5 DEF Kept
  <2> QED
    BY <2>1, <2>2
<1>6. CASE Work
  <2>1. WorkingFile' /\ Target' /\ Running'
    BY <1>6 DEF Work
  <2>2. SavedKept'
    BY <1>6 DEF Work, SavedKept, Kept
  <2> QED
    BY <2>1, <2>2
<1>7. CASE OpenStates
  <2>1. WorkingFile' /\ Target' /\ Running'
    BY <1>7 DEF OpenStates
  <2>2. SavedKept'
    BY <1>7 DEF OpenStates, SavedKept, Kept
  <2> QED
    BY <2>1, <2>2
<1>8. CASE StatesWindow
  <2>1. CASE List
    <3>1. WorkingFile' /\ Target' /\ Running'
      BY <2>1 DEF List, Listed
    <3>2. SavedKept'
      BY <2>1 DEF List, Listed, SavedKept, Kept
    <3> QED
      BY <3>1, <3>2
  <2>2. CASE CloseStates \/ Revert
    <3>1. WorkingFile' /\ Target' /\ Running'
      BY <2>2 DEF CloseStates, Revert
    <3>2. SavedKept'
      BY <2>2 DEF CloseStates, Revert, SavedKept, Kept
    <3> QED
      BY <3>1, <3>2
  <2>3. ASSUME NEW n \in Names, New(n) \/ Delete(n) PROVE SafeInv'
    <3>1. WorkingFile' /\ Target' /\ Running'
      BY <2>3 DEF New, Delete
    <3>2. SavedKept'
      BY <2>3 DEF New, Delete, SavedKept, Kept
    <3> QED
      BY <3>1, <3>2
  <2>4. ASSUME NEW n \in Names, SwitchTo(n) \/ DuplicateCurrent(n) \/ Import(n)
        PROVE SafeInv'
    <3>1. WorkingFile' /\ Target' /\ Running'
      BY <2>4 DEF SwitchTo, DuplicateCurrent, Import
    <3>2. SavedKept'
      BY <2>4 DEF SwitchTo, DuplicateCurrent, Import, SavedKept, Kept
    <3> QED
      BY <3>1, <3>2
  <2>5. ASSUME NEW n \in Names, NEW m \in Names, RenameState(n, m) PROVE SafeInv'
    <3>1. WorkingFile' /\ Target' /\ Running'
      BY <2>5 DEF RenameState
    <3>2. SavedKept'
      BY <2>5 DEF RenameState, SavedKept, Kept
    <3> QED
      BY <3>1, <3>2
  <2>6. ASSUME NEW n \in Names, NEW m \in Names, Duplicate(n, m) PROVE SafeInv'
    <3>1. WorkingFile' /\ Target' /\ Running'
      BY <2>6 DEF Duplicate
    <3>2. SavedKept'
      BY <2>6 DEF Duplicate, SavedKept, Kept
    <3> QED
      BY <3>1, <3>2
  <2> QED
    BY <1>8, <2>1, <2>2, <2>3, <2>4, <2>5, <2>6 DEF StatesWindow
<1>9. CASE CopyOpen
  <2>1. WorkingFile' /\ Target' /\ Running'
    BY <1>9 DEF CopyOpen
  <2>2. SavedKept'
    BY <1>9 DEF CopyOpen, SavedKept, Kept
  <2> QED
    BY <2>1, <2>2
<1>10. CASE Copy
  <2>1. WorkingFile' /\ Target' /\ Running'
    <3>1. disk' = [disk EXCEPT ![tgt] = src] \/ disk' = [disk EXCEPT ![tgt] = None]
      BY <1>10 DEF Copy
    <3>2. disk'[coreName] = disk[coreName] /\ tgt # coreName
      BY <1>10, <3>1 DEF Copy
    <3>3. disk[coreName] # None
      BY <1>10 DEF Copy
    <3> QED
      BY <1>10, <3>2, <3>3 DEF Copy
  <2>2. SavedKept'
    BY <1>10 DEF Copy, SavedKept, Kept
  <2> QED
    BY <2>1, <2>2
<1>11. CASE Cleanup
  <2>1. WorkingFile' /\ Target' /\ Running'
    BY <1>11 DEF Cleanup
  <2>2. SavedKept'
    BY <1>11 DEF Cleanup, SavedKept, Kept
  <2> QED
    BY <2>1, <2>2
<1>12. CASE Create
  <2>1. WorkingFile' /\ Target' /\ Running'
    BY <1>12 DEF Create
  <2>2. SavedKept'
    BY <1>12 DEF Create, SavedKept, Kept
  <2> QED
    BY <2>1, <2>2
<1>13. CASE Write
  <2>1. WorkingFile' /\ Target' /\ Running'
    BY <1>13 DEF Write, LeftOver
  <2>2. SavedKept'
    BY <1>13 DEF Write, LeftOver, SavedKept, Kept
  <2> QED
    BY <2>1, <2>2
<1>14. CASE Remove
  <2>1. WorkingFile' /\ Target' /\ Running'
    BY <1>14 DEF Remove, Superseded
  <2>2. SavedKept'
    BY <1>14 DEF Remove, Superseded, SavedKept, Kept
  <2> QED
    BY <2>1, <2>2
<1>15. CASE Rename
  <2>1. WorkingFile' /\ Target' /\ Running'
    BY <1>15 DEF Rename
  <2>2. SavedKept'
    BY <1>15 DEF Rename, SavedKept, Kept
  <2> QED
    BY <2>1, <2>2
<1>16. CASE Quit \/ ShellOpen \/ ShellWrite
  <2>1. WorkingFile' /\ Target' /\ Running'
    BY <1>16 DEF Quit, ShellOpen, ShellWrite
  <2>2. SavedKept'
    BY <1>16 DEF Quit, ShellOpen, ShellWrite, SavedKept, Kept
  <2> QED
    BY <2>1, <2>2
<1>17. CASE Exit
  <2>1. WorkingFile' /\ Target' /\ Running'
    BY <1>17 DEF Exit
  <2>2. SavedKept'
    BY <1>17 DEF Exit, SavedKept, Kept
  <2> QED
    BY <2>1, <2>2
<1>18. CASE Crash
  <2>1. WorkingFile' /\ Target' /\ Running'
    BY <1>18 DEF Crash, LeftOver, Aside
  <2>2. SavedKept'
    <3> SUFFICES ASSUME NEW p \in due PROVE Kept(p[1], p[2])'
      BY <1>18 DEF Crash, SavedKept
    <3>1. /\ Kept(p[1], p[2])
          /\ p[1] \in Names /\ p[2] \in Complete
      BY DEF SavedKept
    <3>2. CASE disk[p[1]] = p[2]
      BY <1>18, <3>2 DEF Crash, Kept
    <3>3. CASE \E f \in side : f.name = p[1] /\ f.contents = p[2]
      BY <1>18, <3>3 DEF Crash, LeftOver, Kept
    <3>4. CASE tgt = p[1] /\ tmp = p[2]
      <4>1. /\ Aside(tgt, tmp) \in side'
            /\ Aside(tgt, tmp).name = p[1] /\ Aside(tgt, tmp).contents = p[2]
        BY <1>18, <3>1, <3>4 DEF Crash, LeftOver, Aside
      <4> QED
        BY <4>1 DEF Kept
    <3> QED
      BY <3>1, <3>2, <3>3, <3>4 DEF Kept
  <2> QED
    BY <2>1, <2>2
<1>19. ASSUME NEW f \in side, TidyUp(f) PROVE SafeInv'
  <2>1. WorkingFile' /\ Target' /\ Running'
    BY <1>19 DEF TidyUp
  <2>2. SavedKept'
    BY <1>19 DEF TidyUp, SavedKept, Kept
  <2> QED
    BY <2>1, <2>2
<1>20. CASE UNCHANGED vars
  BY <1>20 DEF vars, SavedKept, Kept
<1> QED
  BY <1>1, <1>2, <1>3, <1>4, <1>5, <1>6, <1>7, <1>8, <1>9, <1>10, <1>11, <1>12,
     <1>13, <1>14, <1>15, <1>16, <1>17, <1>18, <1>19, <1>20 DEF Next

(* No saved state is lost, if a file that is there can be opened and fclose() *)
(* does not fail: MCStateFileClose.cfg shows that the latter is necessary.    *)
THEOREM SavedKeptCorrect ==
    ASSUME "close" \notin Faults, "open" \notin Faults
    PROVE  Spec => []SavedKept
<1>1. Init => TypeInv /\ SafeInv
  BY InitTypeInv, InitSafeInv
<1>2. TypeInv /\ SafeInv /\ [Next]_vars => TypeInv' /\ SafeInv'
  BY NextTypeInv, NextSafeInv
<1>3. SafeInv => SavedKept
  BY DEF SafeInv
<1> QED
  BY <1>1, <1>2, <1>3, PTL DEF Spec

-----------------------------------------------------------------------------
(* A file that crashes the program is read once *)

\* After a start has crashed in loading, the next one finds no file, from the
\* shell's choice of a name to the attempt to open it.
NoFileNow ==
    \/ pc = "off" /\ disk[StartName] = None
    \/ pc = "away" /\ next = "start" /\ disk[tgt] = None
    \/ pc = "read" /\ next = "start" /\ tmp = None

StartInv ==
    /\ loadCrashes < 2
    /\ loadCrashes = 1 => NoFileNow
    /\ pc \in {"away", "read"} /\ next = "start" => tgt = StartName
    /\ pc = "read" => disk[tgt] = None
    /\ tmp # None => pc \in {"read", "back", "write", "remove", "rename"}

LEMMA NextStartInv ==
    ASSUME TypeInv, StartInv, [Next]_vars
    PROVE  StartInv'
<1> USE KindsDiffer, NamesAssumption
    DEF TypeInv, TypeOK, InMemory, StartInv, NoFileNow, StartName,
        files, process, core, history, Return, SaveTo, Free
<1>1. CASE StartLoading
  BY <1>1 DEF StartLoading
<1>2. CASE StartCleared
  BY <1>2 DEF StartCleared
<1>3. CASE RenameAway
  BY <1>3 DEF RenameAway
<1>4. CASE Read
  BY <1>4 DEF Read
<1>5. CASE RenameBack
  BY <1>5 DEF RenameBack
<1>6. CASE Work
  BY <1>6 DEF Work
<1>7. CASE OpenStates
  BY <1>7 DEF OpenStates
<1>8. CASE StatesWindow
  BY <1>8 DEF StatesWindow, List, CloseStates, Revert, New, Delete, SwitchTo,
     DuplicateCurrent, Import, RenameState, Duplicate
<1>9. CASE CopyOpen
  BY <1>9 DEF CopyOpen
<1>10. CASE Copy
  BY <1>10 DEF Copy
<1>11. CASE Cleanup
  BY <1>11 DEF Cleanup
<1>12. CASE Create
  BY <1>12 DEF Create
<1>13. CASE Write
  BY <1>13 DEF Write
<1>14. CASE Remove
  BY <1>14 DEF Remove
<1>15. CASE Rename
  BY <1>15 DEF Rename
<1>16. CASE Quit \/ ShellOpen \/ ShellWrite
  BY <1>16 DEF Quit, ShellOpen, ShellWrite
<1>17. CASE Exit
  BY <1>17 DEF Exit
<1>18. CASE Crash
  BY <1>18 DEF Crash
<1>19. ASSUME NEW f \in side, TidyUp(f) PROVE StartInv'
  BY <1>19 DEF TidyUp
<1>20. CASE UNCHANGED vars
  BY <1>20 DEF vars
<1> QED
  BY <1>1, <1>2, <1>3, <1>4, <1>5, <1>6, <1>7, <1>8, <1>9, <1>10, <1>11, <1>12,
     <1>13, <1>14, <1>15, <1>16, <1>17, <1>18, <1>19, <1>20 DEF Next

(* Whatever fails, no two successive starts crash in loading. *)
THEOREM LoadNotRepeatedCorrect == Spec => []LoadNotRepeated
<1>1. Init => TypeInv /\ StartInv
  BY InitTypeInv DEF Init, StartInv
<1>2. TypeInv /\ StartInv /\ [Next]_vars => TypeInv' /\ StartInv'
  BY NextTypeInv, NextStartInv
<1>3. StartInv => LoadNotRepeated
  BY DEF StartInv, LoadNotRepeated
<1> QED
  BY <1>1, <1>2, <1>3, PTL DEF Spec

-----------------------------------------------------------------------------
(* Quitting and starting again *)

\* Between quit() and the next core_init(), the state that was written is where
\* core_init() will read it: in the file the shell's file names, then in the
\* working file.
QuitKept ==
    quitMem # NoMem =>
        \/ pc = "off" /\ disk[StartName] = StateOf(quitMem)
        \/ pc = "away" /\ next = "start" /\ disk[tgt] = StateOf(quitMem)
        \/ pc = "read" /\ next = "start" /\ tmp = StateOf(quitMem)

\* What memory was loaded from or saved to is in the current state's own file,
\* but for the moments in which that is replaced.
BaseOnDisk ==
    /\ pc = "back" => base = None \/ (tmp = base /\ reason = 0)
    /\ pc \notin {"off", "away", "read", "back"} /\ base # None =>
          disk[coreName] = base \/ (pc = "rename" /\ tgt = coreName)

QuitInv == Target /\ BaseOnDisk /\ QuitKept

LEMMA NextQuitInv ==
    ASSUME "open" \notin Faults, TypeInv, QuitInv, [Next]_vars
    PROVE  QuitInv'
<1> USE KindsDiffer, NamesAssumption
    DEF TypeInv, TypeOK, InMemory, QuitInv, Target, BaseOnDisk, QuitKept, StartName,
        files, process, core, history, Return, SaveTo, Free
<1>1. CASE StartLoading
  BY <1>1 DEF StartLoading
<1>2. CASE StartCleared
  BY <1>2 DEF StartCleared
<1>3. CASE RenameAway
  BY <1>3 DEF RenameAway
<1>4. CASE Read
  BY <1>4 DEF Read
<1>5. CASE RenameBack
  BY <1>5 DEF RenameBack
<1>6. CASE Work
  BY <1>6 DEF Work
<1>7. CASE OpenStates
  BY <1>7 DEF OpenStates
<1>8. CASE StatesWindow
  <2>1. CASE List
    BY <2>1 DEF List, Listed
  <2>2. CASE CloseStates \/ Revert
    BY <2>2 DEF CloseStates, Revert
  <2>3. ASSUME NEW n \in Names, New(n) \/ Delete(n) PROVE QuitInv'
    BY <2>3 DEF New, Delete
  <2>4. ASSUME NEW n \in Names, SwitchTo(n) \/ DuplicateCurrent(n) \/ Import(n)
        PROVE QuitInv'
    BY <2>4 DEF SwitchTo, DuplicateCurrent, Import
  <2>5. ASSUME NEW n \in Names, NEW m \in Names, RenameState(n, m) PROVE QuitInv'
    BY <2>5 DEF RenameState
  <2>6. ASSUME NEW n \in Names, NEW m \in Names, Duplicate(n, m) PROVE QuitInv'
    BY <2>6 DEF Duplicate
  <2> QED
    BY <1>8, <2>1, <2>2, <2>3, <2>4, <2>5, <2>6 DEF StatesWindow
<1>9. CASE CopyOpen
  BY <1>9 DEF CopyOpen
<1>10. CASE Copy
  <2>1. disk' \in {disk, [disk EXCEPT ![tgt] = src], [disk EXCEPT ![tgt] = None]}
    BY <1>10 DEF Copy
  <2>2. disk'[coreName] = disk[coreName] /\ tgt # coreName /\ disk[coreName] # None
    BY <1>10, <2>1 DEF Copy
  <2> QED
    BY <1>10, <2>2 DEF Copy
<1>11. CASE Cleanup
  BY <1>11 DEF Cleanup
<1>12. CASE Create
  BY <1>12 DEF Create
<1>13. CASE Write
  BY <1>13 DEF Write
<1>14. CASE Remove
  BY <1>14 DEF Remove
<1>15. CASE Rename
  BY <1>15 DEF Rename
<1>16. CASE Quit \/ ShellOpen \/ ShellWrite
  BY <1>16 DEF Quit, ShellOpen, ShellWrite
<1>17. CASE Exit
  BY <1>17 DEF Exit
<1>18. CASE Crash
  BY <1>18 DEF Crash
<1>19. ASSUME NEW f \in side, TidyUp(f) PROVE QuitInv'
  BY <1>19 DEF TidyUp
<1>20. CASE UNCHANGED vars
  BY <1>20 DEF vars
<1> QED
  BY <1>1, <1>2, <1>3, <1>4, <1>5, <1>6, <1>7, <1>8, <1>9, <1>10, <1>11, <1>12,
     <1>13, <1>14, <1>15, <1>16, <1>17, <1>18, <1>19, <1>20 DEF Next

(* The state that quit() has written, with its name in the shell's file, is   *)
(* the one that the next start reads, unless the file cannot be opened then.  *)
THEOREM QuitResumesCorrect ==
    ASSUME "open" \notin Faults
    PROVE  Spec => QuitResumes
<1>1. Init => TypeInv /\ QuitInv
  BY InitTypeInv, KindsDiffer DEF Init, QuitInv, Target, BaseOnDisk, QuitKept
<1>2. TypeInv /\ QuitInv /\ [Next]_vars => TypeInv' /\ QuitInv'
  BY NextTypeInv, NextQuitInv
<1>3. TypeInv /\ QuitInv /\ [Next]_vars
        => [pc = "read" /\ next = "start" /\ quitMem # NoMem /\ pc' = "back"
              => mem' = quitMem]_vars
  <2> SUFFICES ASSUME TypeInv, QuitInv, Next, pc = "read", next = "start",
                      quitMem # NoMem, pc' = "back"
               PROVE  mem' = quitMem
    OBVIOUS
  <2>1. tmp = StateOf(quitMem)
    BY DEF QuitInv, QuitKept
  <2>2. Read
    BY DEF Next, StartLoading, StartCleared, RenameAway, RenameBack, Work, OpenStates,
       StatesWindow, List, CloseStates, Revert, New, Delete, SwitchTo, SaveTo,
       DuplicateCurrent, Import, RenameState, Duplicate, CopyOpen, Copy, Cleanup,
       Create, Write, Remove, Rename, Quit, ShellOpen, ShellWrite, Exit, Crash, Return,
       TidyUp, process
  <2>3. tmp[1] = "state" /\ tmp[2] = quitMem
    BY <2>1 DEF StateOf
  <2> QED
    BY <2>2, <2>3 DEF Read
<1> QED
  BY <1>1, <1>2, <1>3, PTL DEF Spec, QuitResumes
=============================================================================
