----------------------------- MODULE CallStack -----------------------------
(***************************************************************************)
(* The return stack of the calculator (core_globals.cc), the two solvers   *)
(* that borrow it (SOLVE and INTEG, core_math1.cc) and the single-stepping *)
(* commands that set a level to stop at.                                   *)
(*                                                                         *)
(* A frame of the return stack is the program to return to, or one of the  *)
(* two pseudo-programs -2 and -3: returning to such a frame hands the      *)
(* function value to SOLVE or INTEG, which either calls the function again *)
(* or finishes and resumes the program that started it.                    *)
(*                                                                         *)
(* Not here: the pc inside a program (module ProgramStore), local          *)
(* variables and the stack mode (module Locals; module Execution puts the  *)
(* two together) and the numerical part of the solvers: whether the solver *)
(* wants one more function value is a choice.                              *)
(***************************************************************************)
EXTENDS Integers, Sequences

CONSTANTS
    Prgms,          \* program indices, the values current_prgm takes
    MaxRtnLevel,    \* MAX_RTN_LEVEL, 1024 in the code
    ErrorIgnore,    \* TRUE: programs may run with flag 25 set
    TrapsIn         \* where SOLVE may have to trap an error: "run", "sst"

ASSUME PrgmsAssumption == Prgms \subseteq Nat /\ Prgms # {}
ASSUME MaxRtnLevelAssumption == MaxRtnLevel \in Nat \ {0}
ASSUME SwitchAssumption == ErrorIgnore \in BOOLEAN /\ TrapsIn \subseteq {"run", "sst"}

SolveRtn == -2          \* push_rtn_addr(-2, 0)
IntegRtn == -3          \* push_rtn_addr(-3, 0)
NoLevel  == -1

Targets == Prgms \cup {SolveRtn, IntegRtn}

VARIABLES
    rtnStack,       \* rtn_stack[0 .. rtn_level-1], the prgm of each entry
    currentPrgm,    \* current_prgm
    running,        \* mode_running
    solveActive,    \* rtn_solve_active
    integActive,    \* rtn_integ_active
    solve,          \* the part of solve_state that decides where to resume
    integ,          \* the same of integ_state
    stopLevel,      \* rtn_stop_level
    nextIsCall,     \* the program is about to run the call SST-> stepped on
    goal            \* history: the level the user asked to stop at, or -1

csVars == <<rtnStack, currentPrgm, running, solveActive, integActive,
            solve, integ, stopLevel, nextIsCall, goal>>

rtnLevel == Len(rtnStack)

Solvers == {SolveRtn, IntegRtn}

(***************************************************************************)
(* state = 0 means the solver is not in use; host is history: the level at *)
(* which the solver was started.                                           *)
(***************************************************************************)
SolverRec == [state : {0, 1}, fn : Prgms, prev : Prgms, keep : BOOLEAN,
              host : 0 .. MaxRtnLevel]

TypeOK ==
    /\ rtnStack \in Seq(Targets)
    /\ rtnLevel <= MaxRtnLevel
    /\ currentPrgm \in Prgms
    /\ running \in BOOLEAN
    /\ solveActive \in BOOLEAN
    /\ integActive \in BOOLEAN
    /\ solve \in SolverRec
    /\ integ \in SolverRec
    /\ stopLevel \in NoLevel .. MaxRtnLevel
    /\ nextIsCall \in BOOLEAN
    /\ goal \in NoLevel .. MaxRtnLevel

(***************************************************************************)
(* hard_reset(): an empty stack, nothing running.                          *)
(***************************************************************************)
Init ==
    /\ rtnStack = <<>>
    /\ currentPrgm \in Prgms
    /\ running = FALSE
    /\ solveActive = FALSE
    /\ integActive = FALSE
    /\ solve = [state |-> 0, fn |-> currentPrgm, prev |-> currentPrgm,
                keep |-> FALSE, host |-> 0]
    /\ integ = solve
    /\ stopLevel = NoLevel
    /\ nextIsCall = FALSE
    /\ goal = NoLevel

-----------------------------------------------------------------------------
(***************************************************************************)
(* The return stack with what a push or a pop changes besides it, as one   *)
(* value: handlers push and pop several times before they are done.        *)
(***************************************************************************)
Now == [stk |-> rtnStack, sol |-> solveActive, int |-> integActive, lvl |-> stopLevel]

Become(S) ==
    /\ rtnStack' = S.stk
    /\ solveActive' = S.sol
    /\ integActive' = S.int
    /\ stopLevel' = S.lvl

Frames(stk) == {stk[i] : i \in DOMAIN stk}

(* push_rtn_addr() below MAX_RTN_LEVEL *)
Pushed(S, prgm) ==
    [stk |-> Append(S.stk, prgm),
     sol |-> S.sol \/ prgm = SolveRtn,
     int |-> S.int \/ prgm = IntegRtn,
     lvl |-> S.lvl]

Top(S) == S.stk[Len(S.stk)]

(* fault: the flag of a solver's frame outlives the frame *)
PoppedFlagKept(S) ==
    [stk |-> SubSeq(S.stk, 1, Len(S.stk) - 1),
     sol |-> S.sol,
     int |-> S.int,
     lvl |-> IF S.lvl >= Len(S.stk) - 1 THEN NoLevel ELSE S.lvl]

(* pop_rtn_addr() with rtn_level > 0 *)
Popped(S) ==
    [stk |-> SubSeq(S.stk, 1, Len(S.stk) - 1),
     sol |-> S.sol /\ Top(S) # SolveRtn,
     int |-> S.int /\ Top(S) # IntegRtn,
     lvl |-> IF S.lvl >= Len(S.stk) - 1 THEN NoLevel ELSE S.lvl]

(* pop_rtn_addr() at level 0: only the stop level changes *)
AtLevel(S, lvl) == [stk |-> S.stk, sol |-> S.sol, int |-> S.int, lvl |-> lvl]

(* fault: stops one level too late *)
StopBelowPop(S) == S.lvl > Len(S.stk) - 1

(* its output parameter stop *)
StopAtPop(S) == S.lvl >= Len(S.stk) - 1

(* clear_all_rtns(): pops until, and once more at, level 0 *)
Cleared(S) ==
    [stk |-> <<>>,
     sol |-> S.sol /\ SolveRtn \notin Frames(S.stk),
     int |-> S.int /\ IntegRtn \notin Frames(S.stk),
     lvl |-> NoLevel]

(***************************************************************************)
(* unwind_stack_until_solve(): pops up to and including the topmost SOLVE  *)
(* frame k. Each pop overwrites stop, so only the pop of frame k itself,   *)
(* down to level k-1, can report it, and only if no earlier pop (the last  *)
(* of them down to level k) has taken the stop level.                      *)
(***************************************************************************)
IsTopSolve(stk, k) ==
    /\ k \in DOMAIN stk
    /\ stk[k] = SolveRtn
    /\ \A j \in DOMAIN stk : j > k => stk[j] # SolveRtn

(* fault: the frame of the SOLVE that was looked for is not popped *)
UnwoundToFrame(S, k) ==
    [stk |-> SubSeq(S.stk, 1, k),
     sol |-> TRUE,
     int |-> S.int /\ \A j \in DOMAIN S.stk : j > k => S.stk[j] # IntegRtn,
     lvl |-> IF S.lvl >= k THEN NoLevel ELSE S.lvl]

Unwound(S, k) ==
    [stk |-> SubSeq(S.stk, 1, k - 1),
     sol |-> FALSE,
     int |-> S.int /\ \A j \in DOMAIN S.stk : j > k => S.stk[j] # IntegRtn,
     lvl |-> IF S.lvl >= k - 1 THEN NoLevel ELSE S.lvl]

StopAtUnwind(S, k) == S.lvl >= k - 1 /\ (k = Len(S.stk) \/ S.lvl < k)

-----------------------------------------------------------------------------
(***************************************************************************)
(* A step that stops the program, or leaves it stopped, abandons or        *)
(* completes a single-step request.                                        *)
(***************************************************************************)
KeepGoal == goal' = IF running' THEN goal ELSE NoLevel

(* The program executes an instruction that is not the call under SST-> *)
Instruction == running /\ ~nextIsCall /\ UNCHANGED nextIsCall

(* The program executes an XEQ, SOLVE or INTEG *)
CallInstruction == running /\ nextIsCall' = FALSE

(* handle_error(): an error stops the program, unless flag 25 is set *)
Failed == running' \in (IF ErrorIgnore THEN BOOLEAN ELSE {FALSE})

solverVars == <<solve, integ>>
stackVars  == <<rtnStack, solveActive, integActive, stopLevel>>

(* fault: push_rtn_addr() does not check for MAX_RTN_LEVEL *)
XeqUnbounded(p) ==
    /\ CallInstruction
    /\ Become(Pushed(Now, currentPrgm))
    /\ currentPrgm' = p
    /\ UNCHANGED <<running, solve, integ>>
    /\ KeepGoal

(* docmd_xeq() while running, with the label found *)
Xeq(p) ==
    /\ CallInstruction
    /\ rtnLevel < MaxRtnLevel
    /\ Become(Pushed(Now, currentPrgm))
    /\ currentPrgm' = p
    /\ UNCHANGED <<running, solve, integ>>
    /\ KeepGoal

(* docmd_xeq(): the label is not found, so the address just pushed is popped *)
XeqMissing ==
    /\ CallInstruction
    /\ rtnLevel < MaxRtnLevel
    /\ Become(Popped(Pushed(Now, currentPrgm)))
    /\ Failed
    /\ UNCHANGED <<currentPrgm, solve, integ>>
    /\ KeepGoal

(* Any other error: ERR_RTN_STACK_FULL of an XEQ, ERR_SOLVE_SOLVE, ... *)
Fail ==
    /\ CallInstruction
    /\ Failed
    /\ UNCHANGED <<currentPrgm, stackVars, solverVars>>
    /\ KeepGoal

(* docmd_gto() while running, to a label of program p *)
Gto(p) ==
    /\ Instruction
    /\ currentPrgm' = p
    /\ UNCHANGED <<running, stackVars, solverVars>>
    /\ KeepGoal

(* docmd_stop() and the other handlers that return ERR_STOP *)
StopInstruction ==
    /\ Instruction
    /\ running' = FALSE
    /\ UNCHANGED <<currentPrgm, stackVars, solverVars>>
    /\ KeepGoal

(***************************************************************************)
(* return_to_solve(failure, stop) when the stack has become S. The solver  *)
(* is done (finish_solve: back to the program that started it), or calls   *)
(* the function again (call_solve_fn). docmd_gto() in call_solve_fn clears *)
(* the return stack when no program is running.                            *)
(***************************************************************************)
ReturnToSolve(S, stop) ==
    LET keep == solve.keep /\ ~stop
    IN  /\ UNCHANGED integ
        /\ \/ /\ Become(S)
              /\ solve' = [solve EXCEPT !.keep = keep, !.state = 0]
              /\ currentPrgm' = solve.prev
              /\ running' = (running /\ keep)
           \/ /\ Become(Pushed(IF running THEN S ELSE Cleared(S), SolveRtn))
              /\ solve' = [solve EXCEPT !.keep = keep, !.state = 1]
              /\ currentPrgm' = solve.fn
              /\ UNCHANGED running

(* return_to_integ(stop); it is only reached while a program runs *)
ReturnToInteg(S, stop) ==
    LET keep == integ.keep /\ ~stop
    IN  /\ UNCHANGED solve
        /\ \/ /\ Become(S)
              /\ integ' = [integ EXCEPT !.keep = keep, !.state = 0]
              /\ currentPrgm' = integ.prev
              /\ running' = keep
           \/ /\ Become(Pushed(S, IntegRtn))
              /\ integ' = [integ EXCEPT !.keep = keep]
              /\ currentPrgm' = integ.fn
              /\ UNCHANGED running

(* The solver does not like the function value (ERR_TOO_FEW_ARGUMENTS, ...) *)
BadFunctionValue ==
    /\ Become(Popped(Now))
    /\ IF Top(Now) = SolveRtn
         THEN /\ solve' = [solve EXCEPT !.keep = @ /\ ~StopAtPop(Now)]
              /\ UNCHANGED integ
         ELSE /\ integ' = [integ EXCEPT !.keep = @ /\ ~StopAtPop(Now)]
              /\ UNCHANGED solve
    /\ Failed
    /\ UNCHANGED currentPrgm

(* rtn() at level 0: the program ends *)
RtnAtTop ==
    /\ Instruction
    /\ rtnLevel = 0
    /\ Become(AtLevel(Now, NoLevel))
    /\ running' = FALSE
    /\ UNCHANGED <<currentPrgm, solverVars>>
    /\ KeepGoal

(* rtn() to a calling program *)
RtnToPrgm ==
    /\ Instruction
    /\ rtnLevel > 0
    /\ Top(Now) \in Prgms
    /\ Become(Popped(Now))
    /\ currentPrgm' = Top(Now)
    /\ running' = ~StopAtPop(Now)
    /\ UNCHANGED solverVars
    /\ KeepGoal

(* fault: the solver is resumed before its frame is popped *)
RtnToSolveUnpopped ==
    /\ Instruction
    /\ rtnLevel > 0
    /\ Top(Now) = SolveRtn
    /\ ReturnToSolve(Now, StopAtPop(Now))
    /\ KeepGoal

(* rtn() to SOLVE or INTEG *)
RtnToSolve ==
    /\ Instruction
    /\ rtnLevel > 0
    /\ Top(Now) = SolveRtn
    /\ ReturnToSolve(Popped(Now), StopAtPop(Now)) \/ BadFunctionValue
    /\ KeepGoal

RtnToInteg ==
    /\ Instruction
    /\ rtnLevel > 0
    /\ Top(Now) = IntegRtn
    /\ ReturnToInteg(Popped(Now), StopAtPop(Now)) \/ BadFunctionValue
    /\ KeepGoal

Rtn == RtnAtTop \/ RtnToPrgm \/ RtnToSolve \/ RtnToInteg

(* rtn_with_error(): an error that SOLVE does not trap, raised by RTNERR *)
RtnError ==
    /\ Instruction
    /\ running' = FALSE
    /\ UNCHANGED solverVars
    /\ \/ /\ rtnLevel = 0
          /\ Become(Cleared(Now))
          /\ UNCHANGED currentPrgm
       \/ /\ rtnLevel > 0
          /\ Become(Popped(Now))
          /\ currentPrgm' = IF Top(Now) \in Prgms THEN Top(Now) ELSE currentPrgm
    /\ KeepGoal

(***************************************************************************)
(* handle_error() and rtn_with_error(): an error that an active SOLVE      *)
(* traps (Out of Range, Divide by 0, Invalid Data, Stat Math Error).       *)
(***************************************************************************)
Trap ==
    /\ "run" \in TrapsIn
    /\ running /\ nextIsCall' = FALSE
    /\ solveActive
    /\ \E k \in DOMAIN rtnStack :
          /\ IsTopSolve(rtnStack, k)
          /\ ReturnToSolve(Unwound(Now, k), StopAtUnwind(Now, k))
    /\ KeepGoal

(***************************************************************************)
(* The same when the failing instruction is executed by SST: core_keyup()  *)
(* has called set_running(false) before handle_error().                    *)
(***************************************************************************)
TrapInSst ==
    /\ "sst" \in TrapsIn
    /\ ~running /\ UNCHANGED nextIsCall
    /\ solveActive
    /\ \E k \in DOMAIN rtnStack :
          /\ IsTopSolve(rtnStack, k)
          /\ ReturnToSolve(Unwound(Now, k), StopAtUnwind(Now, k))
    /\ KeepGoal

-----------------------------------------------------------------------------
(***************************************************************************)
(* docmd_solve(), start_solve() and the first call_solve_fn(), from a      *)
(* program or from the keyboard, which clears the return stack first. The  *)
(* request to stop after stepping over SOLVE is consumed here.             *)
(***************************************************************************)
Caller == IF running THEN Now ELSE Cleared(Now)

StopHere(S) == S.lvl >= Len(S.stk)      \* should_i_stop_at_this_level()

Entered(S) == AtLevel(S, IF StopHere(S) THEN NoLevel ELSE S.lvl)

(* fault: the solver's state is not set *)
StartedIdle(S, fn) ==
    [state |-> 0, fn |-> fn, prev |-> currentPrgm,
     keep |-> running /\ ~StopHere(S), host |-> Len(S.stk)]

Started(S, fn) ==
    [state |-> 1, fn |-> fn, prev |-> currentPrgm,
     keep |-> running /\ ~StopHere(S), host |-> Len(S.stk)]

(* a handler that returns ERR_RUN makes handle_error() start the program *)
FromProgramOrKeyboard ==
    /\ running \/ ~nextIsCall
    /\ nextIsCall' = FALSE

StartSolve(fn) ==
    LET S == Caller
    IN  /\ FromProgramOrKeyboard
        /\ ~S.sol
        /\ Len(S.stk) < MaxRtnLevel
        /\ Become(Pushed(Entered(S), SolveRtn))
        /\ solve' = Started(S, fn)
        /\ currentPrgm' = fn
        /\ running' = TRUE
        /\ UNCHANGED integ
        /\ KeepGoal

StartInteg(fn) ==
    LET S == Caller
    IN  /\ FromProgramOrKeyboard
        /\ ~S.int
        /\ Len(S.stk) < MaxRtnLevel
        /\ Become(Pushed(Entered(S), IntegRtn))
        /\ integ' = Started(S, fn)
        /\ currentPrgm' = fn
        /\ running' = TRUE
        /\ UNCHANGED solve
        /\ KeepGoal

(* The function's label does not exist, or the return stack is full *)
StartFails(fn) ==
    LET S == Caller
    IN  /\ FromProgramOrKeyboard
        /\ Become(Entered(S))
        /\ \/ /\ ~S.sol
              /\ solve' = Started(S, fn)
              /\ UNCHANGED integ
           \/ /\ ~S.int
              /\ integ' = Started(S, fn)
              /\ UNCHANGED solve
        /\ IF running THEN Failed ELSE UNCHANGED running
        /\ UNCHANGED currentPrgm
        /\ KeepGoal

-----------------------------------------------------------------------------
(***************************************************************************)
(* The keyboard while no program runs.                                     *)
(***************************************************************************)
Stopped == ~running /\ UNCHANGED nextIsCall

(* GTO, GTO ., RTN, and every command that edits a program *)
ClearAllRtns ==
    /\ Stopped
    /\ Become(Cleared(Now))
    /\ currentPrgm' \in Prgms
    /\ UNCHANGED <<running, solverVars, goal>>

(* docmd_xeq() from the keyboard *)
KeyXeq(p) ==
    /\ Stopped
    /\ Become(Cleared(Now))
    /\ currentPrgm' = p
    /\ running' = TRUE
    /\ UNCHANGED <<solverVars, goal>>

(* A key of the programmable menu: keeps the stack and calls *)
ProgMenuXeq(p) ==
    /\ Stopped
    /\ rtnLevel < MaxRtnLevel
    /\ Become(Pushed(Now, currentPrgm))
    /\ currentPrgm' = p
    /\ running' = TRUE
    /\ UNCHANGED <<solverVars, goal>>

(* A key of the programmable menu: keeps the stack and jumps *)
ProgMenuGto(p) ==
    /\ Stopped
    /\ currentPrgm' = p
    /\ running' = TRUE
    /\ UNCHANGED <<stackVars, solverVars, goal>>

(* R/S *)
Run ==
    /\ Stopped
    /\ running' = TRUE
    /\ UNCHANGED <<currentPrgm, stackVars, solverVars, goal>>

(* SST-up, step_out() *)
RunStepOut ==
    /\ Stopped
    /\ running' = TRUE
    /\ stopLevel' = IF rtnLevel > 0 THEN rtnLevel - 1 ELSE stopLevel
    /\ goal' = IF rtnLevel > 0 THEN rtnLevel - 1 ELSE NoLevel
    /\ UNCHANGED <<currentPrgm, rtnStack, solveActive, integActive, solverVars>>

(* SST-> on an XEQ, SOLVE or INTEG, step_over() *)
RunStepOver ==
    /\ ~running
    /\ running' = TRUE
    /\ nextIsCall' = TRUE
    /\ stopLevel' = rtnLevel
    /\ goal' = rtnLevel
    /\ UNCHANGED <<currentPrgm, rtnStack, solveActive, integActive, solverVars>>

(* R/S or EXIT while a program runs *)
Stop ==
    /\ running
    /\ running' = FALSE
    /\ nextIsCall' = FALSE
    /\ goal' = NoLevel
    /\ UNCHANGED <<currentPrgm, stackVars, solverVars>>

(***************************************************************************)
(* core_save_state() stops the program; persist_globals() writes           *)
(* everything but rtn_stop_level, which a new process starts at -1.        *)
(***************************************************************************)
Restart ==
    /\ running' = FALSE
    /\ nextIsCall' = FALSE
    /\ goal' = NoLevel
    /\ stopLevel' = NoLevel
    /\ UNCHANGED <<currentPrgm, rtnStack, solveActive, integActive, solverVars>>

Next ==
    \/ \E p \in Prgms : Xeq(p) \/ StartSolve(p) \/ StartInteg(p) \/ StartFails(p)
                        \/ Gto(p) \/ KeyXeq(p) \/ ProgMenuXeq(p) \/ ProgMenuGto(p)
    \/ XeqMissing \/ Fail \/ StopInstruction
    \/ RtnAtTop \/ RtnToPrgm \/ RtnToSolve \/ RtnToInteg \/ RtnError
    \/ Trap \/ TrapInSst
    \/ ClearAllRtns \/ Run \/ RunStepOut \/ RunStepOver \/ Stop \/ Restart

Spec == Init /\ [][Next]_csVars

-----------------------------------------------------------------------------
(***************************************************************************)
(* A solver is marked active exactly while its frame is on the stack, and  *)
(* there is never a second one: otherwise return_to_solve() would run      *)
(* without its frame, or unwind_stack_until_solve(), which pops until it   *)
(* meets the frame, would never end.                                       *)
(***************************************************************************)
SolverFrames ==
    /\ solveActive <=> SolveRtn \in Frames(rtnStack)
    /\ integActive <=> IntegRtn \in Frames(rtnStack)
    /\ \A i, j \in DOMAIN rtnStack :
          rtnStack[i] = rtnStack[j] /\ rtnStack[i] \in Solvers => i = j

(***************************************************************************)
(* While a solver is active, its state is not 0: returning to its frame is *)
(* never the Internal Error that return_to_solve() and return_to_integ()   *)
(* report for a solver that was not started.                               *)
(***************************************************************************)
ActiveSolverStarted ==
    /\ solveActive => solve.state # 0
    /\ integActive => integ.state # 0

(***************************************************************************)
(* A solver's frame stays at the level where SOLVE or INTEG was executed,  *)
(* however deep its function calls and however errors unwind the stack: so *)
(* the program that resumes after it finds its own return addresses.       *)
(***************************************************************************)
SolverAtHost ==
    /\ \A i \in DOMAIN rtnStack : rtnStack[i] = SolveRtn => i = solve.host + 1
    /\ \A i \in DOMAIN rtnStack : rtnStack[i] = IntegRtn => i = integ.host + 1

(***************************************************************************)
(* Single-stepping never overshoots: while a program runs on behalf of     *)
(* SST-> or SST-up, it is in a subroutine below the level to stop at, or   *)
(* in the function of a solver that stops when it is done.                 *)
(***************************************************************************)
StepStops ==
    running /\ goal # NoLevel /\ ~nextIsCall =>
        \/ rtnLevel > goal
        \/ solveActive /\ ~solve.keep
        \/ integActive /\ ~integ.keep
=============================================================================
