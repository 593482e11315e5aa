-------------------------- MODULE CallStackProofs --------------------------
(***************************************************************************)
(* Proofs about the return stack, for every set of programs and every      *)
(* maximum level. The invariant is stated once for a value of the stack    *)
(* (Coherent(S)), because handlers push and pop several times in one step; *)
(* there is one lemma per primitive and one step per action.               *)
(***************************************************************************)
EXTENDS CallStack, SequenceTheorems, TLAPS

(* What holds of a return stack, its two flags and the stop level *)
CoherentParts(stk, sol, int, lvl) ==
    /\ stk \in Seq(Targets)
    /\ Len(stk) <= MaxRtnLevel
    /\ sol \in BOOLEAN
    /\ int \in BOOLEAN
    /\ lvl \in NoLevel .. MaxRtnLevel
    /\ sol <=> \E i \in DOMAIN stk : stk[i] = SolveRtn
    /\ int <=> \E i \in DOMAIN stk : stk[i] = IntegRtn
    /\ \A i, j \in DOMAIN stk :
          stk[i] = stk[j] /\ stk[i] \in Solvers => i = j

Coherent(S) == CoherentParts(S.stk, S.sol, S.int, S.lvl)

(* The inductive invariant *)
IInv ==
    /\ Coherent(Now)
    /\ currentPrgm \in Prgms
    /\ running \in BOOLEAN
    /\ solve \in SolverRec
    /\ integ \in SolverRec
    /\ nextIsCall \in BOOLEAN
    /\ goal \in NoLevel .. MaxRtnLevel
    /\ ActiveSolverStarted

(* No program has the number of a solver's frame. *)
LEMMA SolversAreNotPrgms ==
    /\ SolveRtn \notin Prgms
    /\ IntegRtn \notin Prgms
    /\ SolveRtn # IntegRtn
BY PrgmsAssumption DEF SolveRtn, IntegRtn

(* push_rtn_addr() keeps the stack coherent unless it would push the frame *)
(* of a solver that is active already.                                     *)
LEMMA PushedCoherent ==
    ASSUME NEW S, Coherent(S), NEW prgm \in Targets,
           Len(S.stk) < MaxRtnLevel,
           prgm = SolveRtn => ~S.sol,
           prgm = IntegRtn => ~S.int
    PROVE  Coherent(Pushed(S, prgm))
<1> USE MaxRtnLevelAssumption
<1> DEFINE stk == S.stk
           new == Append(stk, prgm)
<1>1. stk \in Seq(Targets) /\ Len(stk) \in Nat /\ DOMAIN stk = 1 .. Len(stk)
  BY DEF Coherent, CoherentParts
<1>2. /\ new \in Seq(Targets)
      /\ Len(new) = Len(stk) + 1
      /\ \A i \in 1 .. Len(stk) : new[i] = stk[i]
      /\ new[Len(stk) + 1] = prgm
      /\ DOMAIN new = 1 .. (Len(stk) + 1)
  BY <1>1, AppendProperties
<1> HIDE DEF new
<1>3. (S.sol \/ prgm = SolveRtn) <=> \E i \in DOMAIN new : new[i] = SolveRtn
  BY <1>1, <1>2 DEF Coherent, CoherentParts
<1>4. (S.int \/ prgm = IntegRtn) <=> \E i \in DOMAIN new : new[i] = IntegRtn
  BY <1>1, <1>2 DEF Coherent, CoherentParts
<1>5. ASSUME NEW i \in DOMAIN new, NEW j \in DOMAIN new,
             new[i] = new[j], new[i] \in Solvers
      PROVE  i = j
  <2>1. CASE i <= Len(stk) /\ j <= Len(stk)
    BY <2>1, <1>1, <1>2, <1>5 DEF Coherent, CoherentParts
  <2>2. ASSUME NEW k \in 1 .. Len(stk), stk[k] = prgm, prgm \in Solvers
        PROVE  FALSE
    <3>1. CASE prgm = SolveRtn
      BY <3>1, <2>2, <1>1 DEF Coherent, CoherentParts
    <3>2. CASE prgm = IntegRtn
      BY <3>2, <2>2, <1>1 DEF Coherent, CoherentParts
    <3>3. QED
      BY <3>1, <3>2, <2>2 DEF Solvers
  <2>3. CASE i <= Len(stk) /\ j = Len(stk) + 1
    BY <2>2, <2>3, <1>1, <1>2, <1>5
  <2>4. CASE i = Len(stk) + 1 /\ j <= Len(stk)
    BY <2>2, <2>4, <1>1, <1>2, <1>5
  <2>5. CASE i = Len(stk) + 1 /\ j = Len(stk) + 1
    BY <2>5
  <2>6. QED
    BY <2>1, <2>3, <2>4, <2>5, <1>1, <1>2
<1>6. Len(new) <= MaxRtnLevel
  BY <1>1, <1>2
<1>7. S.lvl \in NoLevel .. MaxRtnLevel
  BY DEF Coherent, CoherentParts
<1>8. CoherentParts(new, S.sol \/ prgm = SolveRtn, S.int \/ prgm = IntegRtn, S.lvl)
  BY <1>2, <1>3, <1>4, <1>5, <1>6, <1>7, Zenon DEF CoherentParts
<1>9. QED
  BY <1>8 DEF Coherent, Pushed, new

(* clear_all_rtns(), and any step that changes only the stop level *)
LEMMA ClearedCoherent ==
    ASSUME NEW S, Coherent(S)
    PROVE  Coherent(Cleared(S))
<1>1. /\ S.sol <=> SolveRtn \in Frames(S.stk)
      /\ S.int <=> IntegRtn \in Frames(S.stk)
  BY DEF Coherent, CoherentParts, Frames
<1>2. CoherentParts(<<>>, FALSE, FALSE, NoLevel)
  BY MaxRtnLevelAssumption DEF CoherentParts, NoLevel
<1>3. /\ (S.sol /\ SolveRtn \notin Frames(S.stk)) = FALSE
      /\ (S.int /\ IntegRtn \notin Frames(S.stk)) = FALSE
  BY <1>1
<1>4. QED
  BY <1>2, <1>3 DEF Coherent, Cleared

(* Changing the stop level leaves frames and flags in agreement.           *)
LEMMA AtLevelCoherent ==
    ASSUME NEW S, Coherent(S), NEW lvl \in NoLevel .. MaxRtnLevel
    PROVE  Coherent(AtLevel(S, lvl))
BY DEF Coherent, CoherentParts, AtLevel

(* Cutting the stack at level n, with the flags of the solvers whose frame *)
(* is cut off cleared, keeps it coherent: what every way of popping does.  *)
LEMMA CutCoherent ==
    ASSUME NEW S, Coherent(S), NEW n \in 0 .. Len(S.stk),
           NEW sol \in BOOLEAN, NEW int \in BOOLEAN,
           NEW lvl \in NoLevel .. MaxRtnLevel,
           sol <=> \E i \in 1 .. n : S.stk[i] = SolveRtn,
           int <=> \E i \in 1 .. n : S.stk[i] = IntegRtn
    PROVE  CoherentParts(SubSeq(S.stk, 1, n), sol, int, lvl)
<1> DEFINE stk == S.stk
           cut == SubSeq(stk, 1, n)
<1>1. /\ stk \in Seq(Targets) /\ Len(stk) \in Nat /\ DOMAIN stk = 1 .. Len(stk)
      /\ Len(stk) <= MaxRtnLevel
  BY DEF Coherent, CoherentParts
<1>2. n \in Nat /\ n <= Len(stk)
  BY <1>1
<1>3. \A i \in 1 .. n : stk[i] \in Targets
  BY <1>1, <1>2
<1>4. /\ cut \in Seq(Targets)
      /\ Len(cut) = n
      /\ DOMAIN cut = 1 .. n
      /\ \A i \in 1 .. n : cut[i] = stk[i]
  BY <1>1, <1>2, <1>3
<1> HIDE DEF cut
<1>5. /\ sol <=> \E i \in DOMAIN cut : cut[i] = SolveRtn
      /\ int <=> \E i \in DOMAIN cut : cut[i] = IntegRtn
  BY <1>4
<1>6. \A i, j \in DOMAIN cut :
         cut[i] = cut[j] /\ cut[i] \in Solvers => i = j
  BY <1>1, <1>2, <1>4 DEF Coherent, CoherentParts
<1>7. Len(cut) <= MaxRtnLevel
  BY <1>1, <1>2, <1>4, MaxRtnLevelAssumption
<1>8. CoherentParts(cut, sol, int, lvl)
  BY <1>4, <1>5, <1>6, <1>7 DEF CoherentParts
<1>9. QED
  BY <1>8 DEF cut

(* pop_rtn_addr(): the flag of the frame popped is cleared, and no other   *)
(* frame was the solver's.                                                 *)
LEMMA PoppedCoherent ==
    ASSUME NEW S, Coherent(S), Len(S.stk) > 0
    PROVE  /\ Coherent(Popped(S))
           /\ Top(S) \in Targets
           /\ Len(Popped(S).stk) = Len(S.stk) - 1
           /\ Popped(S).sol => S.sol /\ Top(S) # SolveRtn
           /\ Popped(S).int => S.int /\ Top(S) # IntegRtn
<1> DEFINE n == Len(S.stk) - 1
           sol == S.sol /\ Top(S) # SolveRtn
           int == S.int /\ Top(S) # IntegRtn
           lvl == IF S.lvl >= n THEN NoLevel ELSE S.lvl
<1>1. /\ S.stk \in Seq(Targets) /\ DOMAIN S.stk = 1 .. Len(S.stk)
      /\ Len(S.stk) \in Nat /\ Len(S.stk) <= MaxRtnLevel
      /\ S.lvl \in NoLevel .. MaxRtnLevel
      /\ S.sol <=> \E i \in 1 .. Len(S.stk) : S.stk[i] = SolveRtn
      /\ S.int <=> \E i \in 1 .. Len(S.stk) : S.stk[i] = IntegRtn
      /\ \A i, j \in 1 .. Len(S.stk) :
            S.stk[i] = S.stk[j] /\ S.stk[i] \in Solvers => i = j
  BY DEF Coherent, CoherentParts
<1>2. n \in 0 .. Len(S.stk) /\ Len(S.stk) = n + 1
  BY <1>1
<1>3. sol <=> \E i \in 1 .. n : S.stk[i] = SolveRtn
  BY <1>1, <1>2 DEF Top, Solvers
<1>4. int <=> \E i \in 1 .. n : S.stk[i] = IntegRtn
  BY <1>1, <1>2 DEF Top, Solvers
<1>5. lvl \in NoLevel .. MaxRtnLevel
  BY <1>1, MaxRtnLevelAssumption DEF NoLevel
<1>6. sol \in BOOLEAN /\ int \in BOOLEAN
  OBVIOUS
<1> HIDE DEF sol, int, lvl, n
<1>7. CoherentParts(SubSeq(S.stk, 1, n), sol, int, lvl)
  BY <1>2, <1>3, <1>4, <1>5, <1>6, CutCoherent
<1>8. Len(SubSeq(S.stk, 1, n)) = n
  BY <1>1, <1>2
<1>9. Top(S) \in Targets
  BY <1>1, <1>2 DEF Top, n
<1>10. Popped(S) = [stk |-> SubSeq(S.stk, 1, n), sol |-> sol, int |-> int, lvl |-> lvl]
  BY DEF Popped, sol, int, lvl, n
<1>11. Coherent(Popped(S))
  BY <1>7, <1>10 DEF Coherent
<1>12. /\ Popped(S).stk = SubSeq(S.stk, 1, n)
       /\ Popped(S).sol = sol
       /\ Popped(S).int = int
  BY Zenon DEF Popped, sol, int, n
<1>13. Len(Popped(S).stk) = Len(S.stk) - 1
  BY <1>8, <1>12 DEF n
<1>14. /\ sol => S.sol /\ Top(S) # SolveRtn
       /\ int => S.int /\ Top(S) # IntegRtn
  BY DEF sol, int
<1>15. QED
  BY <1>9, <1>11, <1>12, <1>13, <1>14

(* unwind_stack_until_solve() pops SOLVE's frame and everything above it:  *)
(* what is left holds no frame of SOLVE, and INTEG's only if it was below. *)
LEMMA UnwoundCoherent ==
    ASSUME NEW S, Coherent(S), NEW k, IsTopSolve(S.stk, k)
    PROVE  /\ Coherent(Unwound(S, k))
           /\ ~Unwound(S, k).sol
           /\ Unwound(S, k).int => S.int
           /\ Len(Unwound(S, k).stk) < MaxRtnLevel
<1> DEFINE n == k - 1
           int == S.int /\ \A j \in DOMAIN S.stk : j > k => S.stk[j] # IntegRtn
           lvl == IF S.lvl >= n THEN NoLevel ELSE S.lvl
<1>1. /\ S.stk \in Seq(Targets) /\ DOMAIN S.stk = 1 .. Len(S.stk)
      /\ Len(S.stk) \in Nat /\ Len(S.stk) <= MaxRtnLevel
      /\ S.lvl \in NoLevel .. MaxRtnLevel
      /\ S.int <=> \E i \in 1 .. Len(S.stk) : S.stk[i] = IntegRtn
      /\ \A i, j \in 1 .. Len(S.stk) :
            S.stk[i] = S.stk[j] /\ S.stk[i] \in Solvers => i = j
  BY DEF Coherent, CoherentParts
<1>2. k \in 1 .. Len(S.stk) /\ S.stk[k] = SolveRtn
  BY <1>1 DEF IsTopSolve
<1>3. n \in 0 .. Len(S.stk) /\ k = n + 1
  BY <1>1, <1>2
<1>4. FALSE <=> \E i \in 1 .. n : S.stk[i] = SolveRtn
  BY <1>1, <1>2, <1>3 DEF Solvers
<1>5. int <=> \E i \in 1 .. n : S.stk[i] = IntegRtn
  BY <1>1, <1>2, <1>3 DEF Solvers, SolveRtn, IntegRtn
<1>6. lvl \in NoLevel .. MaxRtnLevel
  BY <1>1, MaxRtnLevelAssumption DEF NoLevel
<1>7. int \in BOOLEAN
  OBVIOUS
<1> HIDE DEF int, lvl, n
<1>8. CoherentParts(SubSeq(S.stk, 1, n), FALSE, int, lvl)
  BY <1>3, <1>4, <1>5, <1>6, <1>7, CutCoherent
<1>9. Len(SubSeq(S.stk, 1, n)) < MaxRtnLevel
  BY <1>1, <1>2, <1>3, MaxRtnLevelAssumption
<1>10. Unwound(S, k) = [stk |-> SubSeq(S.stk, 1, n), sol |-> FALSE, int |-> int, lvl |-> lvl]
  BY DEF Unwound, int, lvl, n
<1>11. /\ Unwound(S, k).stk = SubSeq(S.stk, 1, n)
       /\ Unwound(S, k).sol = FALSE
       /\ Unwound(S, k).int = int
       /\ Unwound(S, k).lvl = lvl
  BY Zenon DEF Unwound, int, lvl, n
<1>12. Coherent(Unwound(S, k))
  BY <1>8, <1>11 DEF Coherent
<1>13. int => S.int
  BY DEF int
<1>14. QED
  BY <1>9, <1>11, <1>12, <1>13

-----------------------------------------------------------------------------
(* The new state of the stack is the value a handler computed. *)
LEMMA BecomeCoherent ==
    ASSUME NEW S, Coherent(S), Become(S)
    PROVE  Coherent(Now)'
BY DEF Coherent, Become, Now

(* The stack as one value, and its parts.                                  *)
LEMMA NowParts ==
    /\ Now.stk = rtnStack
    /\ Now.sol = solveActive
    /\ Now.int = integActive
    /\ Now.lvl = stopLevel
BY DEF Now

(* push_rtn_addr() makes the solver of the frame it pushes active.         *)
LEMMA BecomePushed ==
    ASSUME NEW S, NEW prgm, Become(Pushed(S, prgm))
    PROVE  /\ rtnStack' = Append(S.stk, prgm)
           /\ solveActive' => S.sol \/ prgm = SolveRtn
           /\ integActive' => S.int \/ prgm = IntegRtn
BY Zenon DEF Become, Pushed

(* hard_reset() establishes the invariant.                                 *)
LEMMA InitIInv == Init => IInv
<1> SUFFICES ASSUME Init PROVE IInv
  OBVIOUS
<1>1. CoherentParts(<<>>, FALSE, FALSE, NoLevel)
  BY MaxRtnLevelAssumption DEF CoherentParts, NoLevel
<1>2. Coherent(Now)
  BY <1>1 DEF Init, Coherent, Now
<1>3. /\ currentPrgm \in Prgms
      /\ running \in BOOLEAN
      /\ nextIsCall \in BOOLEAN
  BY DEF Init
<1>4. goal \in NoLevel .. MaxRtnLevel /\ 0 \in 0 .. MaxRtnLevel
  BY MaxRtnLevelAssumption DEF Init, NoLevel
<1>5. solve \in SolverRec /\ integ \in SolverRec
  BY <1>4 DEF Init, SolverRec
<1>6. ActiveSolverStarted
  BY DEF Init, ActiveSolverStarted
<1>7. QED
  BY <1>2, <1>3, <1>4, <1>5, <1>6 DEF IInv

-----------------------------------------------------------------------------
(* Most steps leave the solvers' own state alone and activate neither. *)
LEMMA QuietStep ==
    ASSUME IInv, Coherent(Now)',
           solveActive' => solveActive, integActive' => integActive,
           UNCHANGED solverVars,
           currentPrgm' \in Prgms, running' \in BOOLEAN, nextIsCall' \in BOOLEAN,
           goal' \in NoLevel .. MaxRtnLevel
    PROVE  IInv'
BY DEF IInv, ActiveSolverStarted, solverVars

(* A handler that does not touch the stack keeps frames and flags.         *)
LEMMA StackUnchanged ==
    ASSUME IInv, UNCHANGED stackVars
    PROVE  Coherent(Now)' /\ solveActive' = solveActive /\ integActive' = integActive
BY DEF IInv, stackVars, Coherent, Now

(* The history of the level to stop at keeps its type.                     *)
LEMMA KeepGoalType ==
    ASSUME IInv, KeepGoal
    PROVE  goal' \in NoLevel .. MaxRtnLevel
BY MaxRtnLevelAssumption DEF IInv, KeepGoal, NoLevel

(* return_to_solve() on a stack without a SOLVE frame: SOLVE is done, or  *)
(* its one frame is pushed again.                                          *)
LEMMA ReturnToSolveStep ==
    ASSUME IInv, NEW S, Coherent(S), ~S.sol, S.int => integActive,
           Len(S.stk) < MaxRtnLevel, NEW stop, ReturnToSolve(S, stop)
    PROVE  /\ Coherent(Now)'
           /\ currentPrgm' \in Prgms
           /\ running' \in BOOLEAN
           /\ solve' \in SolverRec
           /\ integ' \in SolverRec
           /\ ActiveSolverStarted'
<1> DEFINE keep == solve.keep /\ ~stop
           T == IF running THEN S ELSE Cleared(S)
<1>1. integ' = integ /\ integ \in SolverRec
  BY DEF ReturnToSolve, IInv
<1>2. solve \in SolverRec /\ keep \in BOOLEAN
  BY DEF IInv
<1>3. CASE /\ Become(S)
           /\ solve' = [solve EXCEPT !.keep = keep, !.state = 0]
           /\ currentPrgm' = solve.prev
           /\ running' = (running /\ keep)
  <2>1. Coherent(Now)'
    BY <1>3, BecomeCoherent
  <2>2. ~solveActive' /\ (integActive' => integActive)
    BY <1>3 DEF Become
  <2>3. solve' \in SolverRec
    BY <1>2, <1>3 DEF SolverRec
  <2>4. ActiveSolverStarted'
    BY <2>2, <1>1 DEF ActiveSolverStarted, IInv
  <2>5. currentPrgm' \in Prgms /\ running' \in BOOLEAN
    BY <1>2, <1>3 DEF SolverRec
  <2>6. QED
    BY <2>1, <2>3, <2>4, <2>5, <1>1
<1>4. CASE /\ Become(Pushed(T, SolveRtn))
           /\ solve' = [solve EXCEPT !.keep = keep, !.state = 1]
           /\ currentPrgm' = solve.fn
           /\ UNCHANGED running
  <2>1. /\ Coherent(T)
        /\ Len(T.stk) < MaxRtnLevel
        /\ ~T.sol
        /\ T.int => integActive
    <3>1. CASE running
      BY <3>1
    <3>2. CASE ~running
      <4>1. Coherent(Cleared(S))
        BY ClearedCoherent
      <4>2. /\ Len(Cleared(S).stk) = 0
            /\ ~Cleared(S).sol
            /\ Cleared(S).int => S.int
        BY DEF Cleared
      <4>3. QED
        BY <3>2, <4>1, <4>2, MaxRtnLevelAssumption
    <3>3. QED
      BY <3>1, <3>2
  <2> HIDE DEF T
  <2>2. Coherent(Pushed(T, SolveRtn))
    BY <2>1, PushedCoherent DEF Targets, SolveRtn, IntegRtn
  <2>3. Coherent(Now)'
    BY <2>2, <1>4, BecomeCoherent
  <2>4. integActive' => integActive
    BY <2>1, <1>4, BecomePushed, SolversAreNotPrgms, Zenon
  <2>5. solve' \in SolverRec /\ solve'.state = 1
    BY <1>2, <1>4 DEF SolverRec
  <2>6. ActiveSolverStarted'
    BY <2>4, <2>5, <1>1 DEF ActiveSolverStarted, IInv
  <2>7. currentPrgm' \in Prgms /\ running' \in BOOLEAN
    BY <1>2, <1>4 DEF SolverRec, IInv
  <2>8. QED
    BY <2>3, <2>5, <2>6, <2>7, <1>1
<1>5. QED
  BY <1>3, <1>4 DEF ReturnToSolve

(* The same for return_to_integ().                                         *)
LEMMA ReturnToIntegStep ==
    ASSUME IInv, integActive, NEW S, Coherent(S), ~S.int, S.sol => solveActive,
           Len(S.stk) < MaxRtnLevel, NEW stop, ReturnToInteg(S, stop)
    PROVE  /\ Coherent(Now)'
           /\ currentPrgm' \in Prgms
           /\ running' \in BOOLEAN
           /\ solve' \in SolverRec
           /\ integ' \in SolverRec
           /\ ActiveSolverStarted'
<1> DEFINE keep == integ.keep /\ ~stop
<1>1. solve' = solve /\ solve \in SolverRec
  BY DEF ReturnToInteg, IInv
<1>2. integ \in SolverRec /\ keep \in BOOLEAN
  BY DEF IInv
<1>3. CASE /\ Become(S)
           /\ integ' = [integ EXCEPT !.keep = keep, !.state = 0]
           /\ currentPrgm' = integ.prev
           /\ running' = keep
  <2>1. Coherent(Now)'
    BY <1>3, BecomeCoherent
  <2>2. ~integActive' /\ (solveActive' => solveActive)
    BY <1>3 DEF Become
  <2>3. integ' \in SolverRec
    BY <1>2, <1>3 DEF SolverRec
  <2>4. ActiveSolverStarted'
    BY <2>2, <1>1 DEF ActiveSolverStarted, IInv
  <2>5. currentPrgm' \in Prgms /\ running' \in BOOLEAN
    BY <1>2, <1>3 DEF SolverRec
  <2>6. QED
    BY <2>1, <2>3, <2>4, <2>5, <1>1
<1>4. CASE /\ Become(Pushed(S, IntegRtn))
           /\ integ' = [integ EXCEPT !.keep = keep]
           /\ currentPrgm' = integ.fn
           /\ UNCHANGED running
  <2>1. Coherent(Pushed(S, IntegRtn))
    BY PushedCoherent DEF Targets, SolveRtn, IntegRtn
  <2>2. Coherent(Now)'
    BY <2>1, <1>4, BecomeCoherent
  <2>3. solveActive' => solveActive
    BY <1>4, BecomePushed, SolversAreNotPrgms, Zenon
  <2>4. integ' \in SolverRec /\ integ'.state = integ.state
    BY <1>2, <1>4 DEF SolverRec
  <2>5. ActiveSolverStarted'
    BY <2>3, <2>4, <1>1 DEF ActiveSolverStarted, IInv
  <2>6. currentPrgm' \in Prgms /\ running' \in BOOLEAN
    BY <1>2, <1>4 DEF SolverRec, IInv
  <2>7. QED
    BY <2>2, <2>4, <2>5, <2>6, <1>1
<1>5. QED
  BY <1>3, <1>4 DEF ReturnToInteg

(* A function value the solver cannot use: its frame is gone, so it is     *)
(* not active any more, whatever its state says.                           *)
LEMMA BadFunctionValueStep ==
    ASSUME IInv, rtnLevel > 0, BadFunctionValue
    PROVE  /\ Coherent(Now)'
           /\ currentPrgm' \in Prgms
           /\ running' \in BOOLEAN
           /\ solve' \in SolverRec
           /\ integ' \in SolverRec
           /\ ActiveSolverStarted'
<1>1. /\ Coherent(Popped(Now))
      /\ Popped(Now).sol => solveActive
      /\ Popped(Now).int => integActive
  BY NowParts, PoppedCoherent DEF IInv, rtnLevel
<1>2. Become(Popped(Now))
  BY DEF BadFunctionValue
<1>3. Coherent(Now)'
  BY <1>1, <1>2, BecomeCoherent
<1>4. (solveActive' => solveActive) /\ (integActive' => integActive)
  BY <1>1, <1>2 DEF Become
<1>5. /\ solve' \in SolverRec /\ solve'.state = solve.state
      /\ integ' \in SolverRec /\ integ'.state = integ.state
  <2>1. solve \in SolverRec /\ integ \in SolverRec
    BY DEF IInv
  <2>2. CASE Top(Now) = SolveRtn
    BY <2>1, <2>2 DEF BadFunctionValue, SolverRec
  <2>3. CASE Top(Now) # SolveRtn
    BY <2>1, <2>3 DEF BadFunctionValue, SolverRec
  <2>4. QED
    BY <2>2, <2>3
<1>6. ActiveSolverStarted'
  BY <1>4, <1>5 DEF IInv, ActiveSolverStarted
<1>7. running' \in BOOLEAN /\ currentPrgm' \in Prgms
  BY DEF BadFunctionValue, Failed, IInv
<1>8. QED
  BY <1>3, <1>5, <1>6, <1>7

(* The stack a solver is started on, from a program or from the keyboard   *)
LEMMA CallerCoherent ==
    ASSUME IInv
    PROVE  /\ Coherent(Caller)
           /\ Caller.sol => solveActive
           /\ Caller.int => integActive
           /\ Caller.stk = IF running THEN rtnStack ELSE <<>>
<1>1. Coherent(Now)
  BY DEF IInv
<1>2. CASE running
  BY <1>1, <1>2, NowParts DEF Caller
<1>3. CASE ~running
  <2>1. Coherent(Cleared(Now))
    BY <1>1, ClearedCoherent
  <2>2. /\ Cleared(Now).sol => Now.sol
        /\ Cleared(Now).int => Now.int
        /\ Cleared(Now).stk = <<>>
    BY DEF Cleared
  <2>3. QED
    BY <1>3, <2>1, <2>2, NowParts DEF Caller
<1>4. QED
  BY <1>2, <1>3

(* start_solve() and start_integ() take the request to stop.               *)
LEMMA EnteredCoherent ==
    ASSUME NEW S, Coherent(S)
    PROVE  /\ Coherent(Entered(S))
           /\ Entered(S).stk = S.stk
           /\ Entered(S).sol = S.sol
           /\ Entered(S).int = S.int
<1> DEFINE lvl == IF StopHere(S) THEN NoLevel ELSE S.lvl
<1>1. lvl \in NoLevel .. MaxRtnLevel
  BY MaxRtnLevelAssumption DEF Coherent, CoherentParts, NoLevel
<1>2. Coherent(AtLevel(S, lvl))
  BY <1>1, AtLevelCoherent
<1>3. QED
  BY <1>2 DEF Entered, AtLevel

(* A solver that was just started is in state 1.                           *)
LEMMA StartedType ==
    ASSUME IInv, NEW S, Coherent(S), NEW fn \in Prgms
    PROVE  Started(S, fn) \in SolverRec /\ Started(S, fn).state = 1
<1>1. Len(S.stk) \in 0 .. MaxRtnLevel
  BY MaxRtnLevelAssumption DEF Coherent, CoherentParts
<1>2. (running /\ ~StopHere(S)) \in BOOLEAN
  OBVIOUS
<1>3. currentPrgm \in Prgms
  BY DEF IInv
<1>4. QED
  BY <1>1, <1>2, <1>3 DEF Started, SolverRec

-----------------------------------------------------------------------------
(* Every step of the program, of the solvers, of the keyboard, and a       *)
(* restart preserve the invariant.                                         *)
LEMMA NextIInv == IInv /\ [Next]_csVars => IInv'
<1> SUFFICES ASSUME IInv, [Next]_csVars PROVE IInv'
  OBVIOUS
<1> USE NowParts
<1>a. /\ Coherent(Now)
      /\ Len(rtnStack) \in Nat /\ Len(rtnStack) <= MaxRtnLevel
      /\ DOMAIN rtnStack = 1 .. Len(rtnStack)
      /\ currentPrgm \in Prgms /\ running \in BOOLEAN /\ nextIsCall \in BOOLEAN
      /\ stopLevel \in NoLevel .. MaxRtnLevel
      /\ goal \in NoLevel .. MaxRtnLevel
      /\ NoLevel \in NoLevel .. MaxRtnLevel
  BY MaxRtnLevelAssumption DEF IInv, Coherent, CoherentParts, NoLevel
<1>b. ASSUME NEW p \in Prgms PROVE p \in Targets /\ p # SolveRtn /\ p # IntegRtn
  BY SolversAreNotPrgms DEF Targets
<1>1. ASSUME NEW p \in Prgms, Xeq(p) PROVE IInv'
  <2>1. Coherent(Pushed(Now, currentPrgm))
    BY <1>1, <1>a, <1>b, PushedCoherent DEF Xeq, rtnLevel
  <2>2. Become(Pushed(Now, currentPrgm))
    BY <1>1 DEF Xeq
  <2>3. Coherent(Now)'
    BY <2>1, <2>2, BecomeCoherent
  <2>4. (solveActive' => solveActive) /\ (integActive' => integActive)
    BY <2>2, <1>a, <1>b, BecomePushed, Zenon
  <2>5. QED
    BY <1>1, <1>a, <2>3, <2>4, QuietStep, KeepGoalType DEF Xeq, CallInstruction, solverVars
<1>2. CASE XeqMissing
  <2> DEFINE S == Pushed(Now, currentPrgm)
  <2>1. Coherent(S)
    BY <1>2, <1>a, <1>b, PushedCoherent DEF XeqMissing, rtnLevel
  <2>2. Len(S.stk) > 0
    BY <1>a, AppendProperties DEF Pushed, Coherent, CoherentParts
  <2>3. Become(Popped(S))
    BY <1>2 DEF XeqMissing
  <2>4. (S.sol => solveActive) /\ (S.int => integActive)
    BY <1>a, <1>b, Zenon DEF Pushed
  <2> HIDE DEF S
  <2>5. /\ Coherent(Popped(S))
        /\ Popped(S).sol => S.sol
        /\ Popped(S).int => S.int
    BY <2>1, <2>2, PoppedCoherent
  <2>6. Coherent(Now)'
    BY <2>3, <2>5, BecomeCoherent
  <2>7. (solveActive' => solveActive) /\ (integActive' => integActive)
    BY <2>3, <2>4, <2>5 DEF Become
  <2>8. running' \in BOOLEAN
    BY <1>2 DEF XeqMissing, Failed
  <2>9. QED
    BY <1>2, <1>a, <2>6, <2>7, <2>8, QuietStep, KeepGoalType DEF XeqMissing, CallInstruction, solverVars
<1>3. CASE Fail
  <2>1. running' \in BOOLEAN
    BY <1>3 DEF Fail, Failed
  <2>2. QED
    BY <1>3, <1>a, <2>1, StackUnchanged, QuietStep, KeepGoalType DEF Fail, CallInstruction
<1>4. CASE StopInstruction
  BY <1>4, <1>a, StackUnchanged, QuietStep, KeepGoalType DEF StopInstruction, Instruction
<1>5. CASE RtnAtTop
  <2>1. Coherent(AtLevel(Now, NoLevel))
    BY <1>a, AtLevelCoherent
  <2>2. Coherent(Now)'
    BY <1>5, <2>1, BecomeCoherent DEF RtnAtTop
  <2>3. (solveActive' => solveActive) /\ (integActive' => integActive)
    BY <1>5 DEF RtnAtTop, Become, AtLevel
  <2>4. QED
    BY <1>5, <1>a, <2>2, <2>3, QuietStep, KeepGoalType DEF RtnAtTop, Instruction
<1>c. ASSUME rtnLevel > 0
      PROVE  /\ Coherent(Popped(Now))
             /\ Len(Popped(Now).stk) < MaxRtnLevel
             /\ Popped(Now).sol => solveActive /\ Top(Now) # SolveRtn
             /\ Popped(Now).int => integActive /\ Top(Now) # IntegRtn
             /\ Top(Now) \in Targets
  <2>1. Len(Now.stk) > 0
    BY <1>c DEF rtnLevel
  <2>2. QED
    BY <1>a, <2>1, PoppedCoherent, MaxRtnLevelAssumption
<1>6. CASE RtnToPrgm
  <2>1. Coherent(Now)'
    BY <1>6, <1>c, BecomeCoherent DEF RtnToPrgm
  <2>2. (solveActive' => solveActive) /\ (integActive' => integActive)
    BY <1>6, <1>c DEF RtnToPrgm, Become
  <2>3. running' \in BOOLEAN /\ currentPrgm' \in Prgms
    BY <1>6 DEF RtnToPrgm
  <2>4. QED
    BY <1>6, <1>a, <2>1, <2>2, <2>3, QuietStep, KeepGoalType DEF RtnToPrgm, Instruction
<1>7. CASE RtnToSolve
  <2>1. CASE ReturnToSolve(Popped(Now), StopAtPop(Now))
    <3>1. /\ Coherent(Popped(Now))
          /\ ~Popped(Now).sol
          /\ Popped(Now).int => integActive
          /\ Len(Popped(Now).stk) < MaxRtnLevel
      BY <1>7, <1>c DEF RtnToSolve
    <3>2. QED
      BY <1>7, <1>a, <2>1, <3>1, ReturnToSolveStep, KeepGoalType DEF RtnToSolve, Instruction, IInv
  <2>2. CASE BadFunctionValue
    BY <1>7, <1>a, <2>2, BadFunctionValueStep, KeepGoalType DEF RtnToSolve, Instruction, IInv
  <2>3. QED
    BY <1>7, <2>1, <2>2 DEF RtnToSolve
<1>8. CASE RtnToInteg
  <2>1. CASE ReturnToInteg(Popped(Now), StopAtPop(Now))
    <3>1. /\ Coherent(Popped(Now))
          /\ ~Popped(Now).int
          /\ Popped(Now).sol => solveActive
          /\ Len(Popped(Now).stk) < MaxRtnLevel
      BY <1>8, <1>c DEF RtnToInteg
    <3>2. integActive
      BY <1>8, <1>a DEF RtnToInteg, Top, rtnLevel, Coherent, CoherentParts
    <3>3. QED
      BY <1>8, <1>a, <2>1, <3>1, <3>2, ReturnToIntegStep, KeepGoalType DEF RtnToInteg, Instruction, IInv
  <2>2. CASE BadFunctionValue
    BY <1>8, <1>a, <2>2, BadFunctionValueStep, KeepGoalType DEF RtnToInteg, Instruction, IInv
  <2>3. QED
    BY <1>8, <2>1, <2>2 DEF RtnToInteg
<1>9. CASE RtnError
  <2>1. CASE rtnLevel = 0 /\ Become(Cleared(Now)) /\ UNCHANGED currentPrgm
    <3>1. Coherent(Now)'
      BY <1>a, <2>1, ClearedCoherent, BecomeCoherent
    <3>2. (solveActive' => solveActive) /\ (integActive' => integActive)
      BY <2>1 DEF Become, Cleared
    <3>3. QED
      BY <1>9, <1>a, <2>1, <3>1, <3>2, QuietStep, KeepGoalType DEF RtnError, Instruction
  <2>2. CASE /\ rtnLevel > 0
             /\ Become(Popped(Now))
             /\ currentPrgm' = IF Top(Now) \in Prgms THEN Top(Now) ELSE currentPrgm
    <3>1. Coherent(Now)'
      BY <1>c, <2>2, BecomeCoherent
    <3>2. (solveActive' => solveActive) /\ (integActive' => integActive)
      BY <1>c, <2>2 DEF Become
    <3>3. currentPrgm' \in Prgms
      BY <1>a, <2>2
    <3>4. QED
      BY <1>9, <1>a, <3>1, <3>2, <3>3, QuietStep, KeepGoalType DEF RtnError, Instruction
  <2>3. QED
    BY <1>9, <2>1, <2>2 DEF RtnError
<1>10. CASE Trap
  <2>1. PICK k \in DOMAIN rtnStack :
           IsTopSolve(rtnStack, k) /\ ReturnToSolve(Unwound(Now, k), StopAtUnwind(Now, k))
    BY <1>10 DEF Trap
  <2>2. /\ Coherent(Unwound(Now, k))
        /\ ~Unwound(Now, k).sol
        /\ Unwound(Now, k).int => integActive
        /\ Len(Unwound(Now, k).stk) < MaxRtnLevel
    BY <1>a, <2>1, UnwoundCoherent
  <2>3. nextIsCall' \in BOOLEAN
    BY <1>10, <1>a DEF Trap
  <2>4. QED
    BY <1>10, <2>1, <2>2, <2>3, ReturnToSolveStep, KeepGoalType DEF Trap, IInv
<1>11. CASE TrapInSst
  <2>1. PICK k \in DOMAIN rtnStack :
           IsTopSolve(rtnStack, k) /\ ReturnToSolve(Unwound(Now, k), StopAtUnwind(Now, k))
    BY <1>11 DEF TrapInSst
  <2>2. /\ Coherent(Unwound(Now, k))
        /\ ~Unwound(Now, k).sol
        /\ Unwound(Now, k).int => integActive
        /\ Len(Unwound(Now, k).stk) < MaxRtnLevel
    BY <1>a, <2>1, UnwoundCoherent
  <2>3. nextIsCall' \in BOOLEAN
    BY <1>11, <1>a DEF TrapInSst
  <2>4. QED
    BY <1>11, <2>1, <2>2, <2>3, ReturnToSolveStep, KeepGoalType DEF TrapInSst, IInv
<1>12. ASSUME NEW p \in Prgms, StartSolve(p) PROVE IInv'
  <2> DEFINE S == Entered(Caller)
  <2>1. /\ Coherent(S)
        /\ S.stk = Caller.stk /\ S.sol = Caller.sol /\ S.int = Caller.int
    BY CallerCoherent, EnteredCoherent
  <2> HIDE DEF S
  <2>2. Coherent(Pushed(S, SolveRtn))
    BY <1>12, <2>1, PushedCoherent, SolversAreNotPrgms DEF StartSolve, Targets
  <2>3. Become(Pushed(S, SolveRtn))
    BY <1>12 DEF StartSolve, S
  <2>4. Coherent(Now)'
    BY <2>2, <2>3, BecomeCoherent
  <2>5. integActive' => integActive
    BY <2>1, <2>3, CallerCoherent, BecomePushed, SolversAreNotPrgms, Zenon
  <2>6. solve' = Started(Caller, p) /\ integ' = integ
    BY <1>12 DEF StartSolve
  <2>7. solve' \in SolverRec /\ solve'.state = 1
    BY <2>6, CallerCoherent, StartedType
  <2>8. ActiveSolverStarted'
    BY <2>5, <2>6, <2>7 DEF ActiveSolverStarted, IInv
  <2>9. QED
    BY <1>12, <2>4, <2>6, <2>7, <2>8, KeepGoalType DEF StartSolve, FromProgramOrKeyboard, IInv
<1>13. ASSUME NEW p \in Prgms, StartInteg(p) PROVE IInv'
  <2> DEFINE S == Entered(Caller)
  <2>1. /\ Coherent(S)
        /\ S.stk = Caller.stk /\ S.sol = Caller.sol /\ S.int = Caller.int
    BY CallerCoherent, EnteredCoherent
  <2> HIDE DEF S
  <2>2. Coherent(Pushed(S, IntegRtn))
    BY <1>13, <2>1, PushedCoherent, SolversAreNotPrgms DEF StartInteg, Targets
  <2>3. Become(Pushed(S, IntegRtn))
    BY <1>13 DEF StartInteg, S
  <2>4. Coherent(Now)'
    BY <2>2, <2>3, BecomeCoherent
  <2>5. solveActive' => solveActive
    BY <2>1, <2>3, CallerCoherent, BecomePushed, SolversAreNotPrgms, Zenon
  <2>6. integ' = Started(Caller, p) /\ solve' = solve
    BY <1>13 DEF StartInteg
  <2>7. integ' \in SolverRec /\ integ'.state = 1
    BY <2>6, CallerCoherent, StartedType
  <2>8. ActiveSolverStarted'
    BY <2>5, <2>6, <2>7 DEF ActiveSolverStarted, IInv
  <2>9. QED
    BY <1>13, <2>4, <2>6, <2>7, <2>8, KeepGoalType DEF StartInteg, FromProgramOrKeyboard, IInv
<1>14. ASSUME NEW p \in Prgms, StartFails(p) PROVE IInv'
  <2>1. Coherent(Entered(Caller)) /\ Become(Entered(Caller))
    BY <1>14, CallerCoherent, EnteredCoherent DEF StartFails
  <2>2. Coherent(Now)'
    BY <2>1, BecomeCoherent
  <2>3. /\ solveActive' => solveActive /\ Caller.sol
        /\ integActive' => integActive /\ Caller.int
    BY <2>1, CallerCoherent, EnteredCoherent DEF Become
  <2>4. Started(Caller, p) \in SolverRec /\ Started(Caller, p).state = 1
    BY CallerCoherent, StartedType
  <2>5. /\ solve' \in SolverRec
        /\ integ' \in SolverRec
        /\ ActiveSolverStarted'
    BY <1>14, <2>3, <2>4 DEF StartFails, ActiveSolverStarted, IInv
  <2>6. running' \in BOOLEAN
    BY <1>14, <1>a DEF StartFails, Failed
  <2>7. QED
    BY <1>14, <2>2, <2>5, <2>6, KeepGoalType DEF StartFails, FromProgramOrKeyboard, IInv
<1>15. CASE ClearAllRtns
  <2>1. Coherent(Now)'
    BY <1>15, <1>a, ClearedCoherent, BecomeCoherent DEF ClearAllRtns
  <2>2. (solveActive' => solveActive) /\ (integActive' => integActive)
    BY <1>15 DEF ClearAllRtns, Become, Cleared
  <2>3. QED
    BY <1>15, <1>a, <2>1, <2>2, QuietStep DEF ClearAllRtns, Stopped
<1>16. ASSUME NEW p \in Prgms, KeyXeq(p) PROVE IInv'
  <2>1. Coherent(Now)'
    BY <1>16, <1>a, ClearedCoherent, BecomeCoherent DEF KeyXeq
  <2>2. (solveActive' => solveActive) /\ (integActive' => integActive)
    BY <1>16 DEF KeyXeq, Become, Cleared
  <2>3. QED
    BY <1>16, <1>a, <2>1, <2>2, QuietStep DEF KeyXeq, Stopped
<1>17. ASSUME NEW p \in Prgms, ProgMenuXeq(p) PROVE IInv'
  <2>1. Coherent(Pushed(Now, currentPrgm))
    BY <1>17, <1>a, <1>b, PushedCoherent DEF ProgMenuXeq, rtnLevel
  <2>2. Become(Pushed(Now, currentPrgm))
    BY <1>17 DEF ProgMenuXeq
  <2>3. Coherent(Now)'
    BY <2>1, <2>2, BecomeCoherent
  <2>4. (solveActive' => solveActive) /\ (integActive' => integActive)
    BY <2>2, <1>a, <1>b, BecomePushed, Zenon
  <2>5. QED
    BY <1>17, <1>a, <2>3, <2>4, QuietStep DEF ProgMenuXeq, Stopped
<1>18. CASE Run
  BY <1>18, <1>a, StackUnchanged, QuietStep DEF Run, Stopped
<1>19. CASE RunStepOut
  <2>1. goal' \in NoLevel .. MaxRtnLevel /\ stopLevel' \in NoLevel .. MaxRtnLevel
    BY <1>19, <1>a, MaxRtnLevelAssumption DEF RunStepOut, rtnLevel, NoLevel
  <2>2. Coherent(Now)'
    BY <1>19, <1>a, <2>1 DEF RunStepOut, Coherent, CoherentParts, Now
  <2>3. QED
    BY <1>19, <1>a, <2>1, <2>2, QuietStep DEF RunStepOut, Stopped
<1>20. CASE RunStepOver
  <2>1. goal' \in NoLevel .. MaxRtnLevel /\ stopLevel' \in NoLevel .. MaxRtnLevel
    BY <1>20, <1>a, MaxRtnLevelAssumption DEF RunStepOver, rtnLevel, NoLevel
  <2>2. Coherent(Now)'
    BY <1>20, <1>a, <2>1 DEF RunStepOver, Coherent, CoherentParts, Now
  <2>3. QED
    BY <1>20, <1>a, <2>1, <2>2, QuietStep DEF RunStepOver
<1>21. CASE Stop
  BY <1>21, <1>a, StackUnchanged, QuietStep DEF Stop
<1>22. CASE Restart
  <2>1. Coherent(Now)'
    BY <1>22, <1>a DEF Restart, Coherent, CoherentParts, Now
  <2>2. QED
    BY <1>22, <1>a, <2>1, QuietStep DEF Restart
<1>23. CASE UNCHANGED csVars
  BY <1>23, <1>a, StackUnchanged, QuietStep DEF csVars, stackVars, solverVars
<1>24. ASSUME NEW p \in Prgms, Gto(p) PROVE IInv'
  BY <1>24, <1>a, StackUnchanged, QuietStep, KeepGoalType DEF Gto, Instruction
<1>25. ASSUME NEW p \in Prgms, ProgMenuGto(p) PROVE IInv'
  BY <1>25, <1>a, StackUnchanged, QuietStep DEF ProgMenuGto, Stopped
<1>26. QED
  BY <1>1, <1>2, <1>3, <1>4, <1>5, <1>6, <1>7, <1>8, <1>9, <1>10, <1>11, <1>12,
     <1>13, <1>14, <1>15, <1>16, <1>17, <1>18, <1>19, <1>20, <1>21, <1>22, <1>23,
     <1>24, <1>25
     DEF Next

-----------------------------------------------------------------------------
(* The strengthened invariant holds in every state of the calculator.      *)
THEOREM Invariance == Spec => []IInv
<1>1. Init => IInv
  BY InitIInv
<1>2. IInv /\ [Next]_csVars => IInv'
  BY NextIInv
<1>3. QED
  BY <1>1, <1>2, PTL DEF Spec

(* The return stack never exceeds its maximum level and holds programs and *)
(* solver frames only; the solvers' records keep their types.              *)
THEOREM TypeCorrect == Spec => []TypeOK
<1>1. IInv => TypeOK
  BY NowParts DEF IInv, TypeOK, Coherent, CoherentParts, rtnLevel
<1>2. QED
  BY <1>1, Invariance, PTL

(* The active flags agree with the frames on the stack, in every state.    *)
THEOREM SolverFramesCorrect == Spec => []SolverFrames
<1>1. IInv => SolverFrames
  BY NowParts DEF IInv, SolverFrames, Coherent, CoherentParts, Frames
<1>2. QED
  BY <1>1, Invariance, PTL

(* A return to an active solver never finds it in state 0.                 *)
THEOREM ActiveSolverStartedCorrect == Spec => []ActiveSolverStarted
<1>1. IInv => ActiveSolverStarted
  BY DEF IInv
<1>2. QED
  BY <1>1, Invariance, PTL

-----------------------------------------------------------------------------
(***************************************************************************)
(* The second invariant: a solver's frame is at its host's level. It needs *)
(* the first (the stack a solver is started on holds no frame of it), and  *)
(* that no error is trapped while single-stepping.                         *)
(***************************************************************************)
AtHost(stk, s, i) ==
    /\ \A k \in DOMAIN stk : stk[k] = SolveRtn => k = s + 1
    /\ \A k \in DOMAIN stk : stk[k] = IntegRtn => k = i + 1

(* SolverAtHost as a fact about any stack and two levels.                  *)
LEMMA SolverAtHostIsAtHost == SolverAtHost <=> AtHost(rtnStack, solve.host, integ.host)
BY DEF SolverAtHost, AtHost

(* Popping frames leaves those that stay where they are.                   *)
LEMMA CutAtHost ==
    ASSUME NEW stk \in Seq(Targets), NEW s, NEW i, AtHost(stk, s, i), NEW n \in 0 .. Len(stk)
    PROVE  AtHost(SubSeq(stk, 1, n), s, i) /\ Len(SubSeq(stk, 1, n)) = n
<1> DEFINE cut == SubSeq(stk, 1, n)
<1>1. \A k \in 1 .. n : stk[k] \in Targets
  OBVIOUS
<1>2. /\ Len(cut) = n
      /\ DOMAIN cut = 1 .. n
      /\ \A k \in 1 .. n : cut[k] = stk[k]
  BY <1>1
<1> HIDE DEF cut
<1>3. AtHost(cut, s, i)
  BY <1>2 DEF AtHost
<1>4. QED
  BY <1>2, <1>3 DEF cut

(* Pushing a solver's frame at its level, or a program's anywhere.         *)
LEMMA PushAtHost ==
    ASSUME NEW stk \in Seq(Targets), NEW s \in Nat, NEW i \in Nat, AtHost(stk, s, i),
           NEW p \in Targets,
           p = SolveRtn => s = Len(stk),
           p = IntegRtn => i = Len(stk)
    PROVE  AtHost(Append(stk, p), s, i)
<1> DEFINE new == Append(stk, p)
<1>1. /\ Len(new) = Len(stk) + 1
      /\ \A k \in 1 .. Len(stk) : new[k] = stk[k]
      /\ new[Len(stk) + 1] = p
      /\ DOMAIN new = 1 .. (Len(stk) + 1)
  BY AppendProperties
<1> HIDE DEF new
<1>2. ASSUME NEW k \in DOMAIN new PROVE k \in 1 .. Len(stk) \/ k = Len(stk) + 1
  BY <1>1, <1>2
<1>3. AtHost(new, s, i)
  BY <1>1, <1>2 DEF AtHost
<1>4. QED
  BY <1>3 DEF new

(* What the proof of a step takes from the invariants *)
LEMMA HostFacts ==
    ASSUME IInv, SolverAtHost
    PROVE  /\ rtnStack \in Seq(Targets)
           /\ AtHost(rtnStack, solve.host, integ.host)
           /\ solve.host \in Nat /\ integ.host \in Nat
           /\ currentPrgm \in Targets \ Solvers
           /\ AtHost(<<>>, solve.host, integ.host)
<1>1. rtnStack \in Seq(Targets)
  BY NowParts DEF IInv, Coherent, CoherentParts
<1>2. solve.host \in Nat /\ integ.host \in Nat
  BY MaxRtnLevelAssumption DEF IInv, SolverRec
<1>3. currentPrgm \in Targets \ Solvers
  BY SolversAreNotPrgms DEF IInv, Targets, Solvers
<1>4. AtHost(<<>>, solve.host, integ.host)
  BY DEF AtHost
<1>5. QED
  BY <1>1, <1>2, <1>3, <1>4, SolverAtHostIsAtHost

(* Going back to a solver whose frame was the last one kept but one pushes *)
(* its frame where it was.                                                 *)
LEMMA ReturnToSolveAtHost ==
    ASSUME IInv, SolverAtHost, running,
           NEW n \in 0 .. Len(rtnStack), n = solve.host,
           NEW S, S.stk = SubSeq(rtnStack, 1, n), NEW stop, ReturnToSolve(S, stop)
    PROVE  SolverAtHost'
<1>1. AtHost(S.stk, solve.host, integ.host) /\ Len(S.stk) = solve.host
  BY HostFacts, CutAtHost
<1>2. S.stk \in Seq(Targets)
  BY HostFacts
<1>3. AtHost(Append(S.stk, SolveRtn), solve.host, integ.host)
  BY <1>1, <1>2, HostFacts, PushAtHost, SolversAreNotPrgms DEF Targets
<1>4. solve'.host = solve.host /\ integ'.host = integ.host
  BY DEF ReturnToSolve, IInv, SolverRec
<1>5. Become(S) \/ Become(Pushed(S, SolveRtn))
  BY DEF ReturnToSolve
<1>6. rtnStack' = S.stk \/ rtnStack' = Append(S.stk, SolveRtn)
  BY <1>5, BecomePushed DEF Become
<1>7. QED
  BY <1>1, <1>3, <1>4, <1>6, SolverAtHostIsAtHost DEF SolverAtHost, AtHost

(* The same for return_to_integ().                                         *)
LEMMA ReturnToIntegAtHost ==
    ASSUME IInv, SolverAtHost,
           NEW n \in 0 .. Len(rtnStack), n = integ.host,
           NEW S, S.stk = SubSeq(rtnStack, 1, n), NEW stop, ReturnToInteg(S, stop)
    PROVE  SolverAtHost'
<1>1. AtHost(S.stk, solve.host, integ.host) /\ Len(S.stk) = integ.host
  BY HostFacts, CutAtHost
<1>2. S.stk \in Seq(Targets)
  BY HostFacts
<1>3. AtHost(Append(S.stk, IntegRtn), solve.host, integ.host)
  BY <1>1, <1>2, HostFacts, PushAtHost, SolversAreNotPrgms DEF Targets
<1>4. solve'.host = solve.host /\ integ'.host = integ.host
  BY DEF ReturnToInteg, IInv, SolverRec
<1>5. Become(S) \/ Become(Pushed(S, IntegRtn))
  BY DEF ReturnToInteg
<1>6. rtnStack' = S.stk \/ rtnStack' = Append(S.stk, IntegRtn)
  BY <1>5, BecomePushed DEF Become
<1>7. QED
  BY <1>1, <1>3, <1>4, <1>6 DEF SolverAtHost, AtHost

(* Every step keeps the solvers' frames at their levels, if SST never       *)
(* executes an instruction whose error SOLVE traps.                        *)
LEMMA NextSolverAtHost ==
    ASSUME "sst" \notin TrapsIn, IInv, SolverAtHost, [Next]_csVars
    PROVE  SolverAtHost'
<1> USE NowParts, HostFacts
<1>a. /\ Len(rtnStack) \in Nat
      /\ DOMAIN rtnStack = 1 .. Len(rtnStack)
      /\ AtHost(<<>>, solve.host, integ.host)
  OBVIOUS
<1>b. ASSUME UNCHANGED solverVars,
             \/ rtnStack' = rtnStack
             \/ rtnStack' = <<>>
             \/ rtnStack' = Append(rtnStack, currentPrgm)
             \/ \E n \in 0 .. Len(rtnStack) : rtnStack' = SubSeq(rtnStack, 1, n)
      PROVE  SolverAtHost'
  <2>1. AtHost(Append(rtnStack, currentPrgm), solve.host, integ.host)
    BY PushAtHost DEF Solvers
  <2>2. \A n \in 0 .. Len(rtnStack) :
           AtHost(SubSeq(rtnStack, 1, n), solve.host, integ.host)
    BY CutAtHost
  <2>3. AtHost(rtnStack', solve.host, integ.host)
    BY <1>b, <2>1, <2>2
  <2>4. QED
    BY <1>b, <2>3 DEF SolverAtHost, AtHost, solverVars
<1>c. ASSUME rtnLevel > 0
      PROVE  /\ Len(rtnStack) - 1 \in 0 .. Len(rtnStack)
             /\ Popped(Now).stk = SubSeq(rtnStack, 1, Len(rtnStack) - 1)
             /\ Len(rtnStack) \in DOMAIN rtnStack
             /\ Top(Now) = rtnStack[Len(rtnStack)]
  BY <1>a, <1>c DEF rtnLevel, Popped, Top
<1>d. ASSUME rtnLevel > 0, BadFunctionValue PROVE SolverAtHost'
  <2>1. rtnStack' = SubSeq(rtnStack, 1, Len(rtnStack) - 1)
    BY <1>c, <1>d DEF BadFunctionValue, Become
  <2>2. AtHost(rtnStack', solve.host, integ.host)
    BY <1>c, <1>d, <2>1, CutAtHost
  <2>3. solve'.host = solve.host /\ integ'.host = integ.host
    <3>1. CASE Top(Now) = SolveRtn
      BY <1>d, <3>1 DEF BadFunctionValue, IInv, SolverRec
    <3>2. CASE Top(Now) # SolveRtn
      BY <1>d, <3>2 DEF BadFunctionValue, IInv, SolverRec
    <3>3. QED
      BY <3>1, <3>2
  <2>4. QED
    BY <2>2, <2>3 DEF SolverAtHost, AtHost
<1>1. ASSUME NEW p \in Prgms, Xeq(p) PROVE SolverAtHost'
  BY <1>1, <1>b, BecomePushed DEF Xeq, solverVars
<1>2. CASE XeqMissing
  <2>1. rtnStack' = SubSeq(Append(rtnStack, currentPrgm), 1, Len(Append(rtnStack, currentPrgm)) - 1)
    BY <1>2 DEF XeqMissing, Become, Popped, Pushed
  <2>2. rtnStack' = rtnStack
    BY <2>1
  <2>3. QED
    BY <1>2, <1>b, <2>2 DEF XeqMissing, solverVars
<1>3. CASE Fail \/ StopInstruction
  BY <1>3, <1>b DEF Fail, StopInstruction, stackVars
<1>4. CASE RtnAtTop
  BY <1>4, <1>b DEF RtnAtTop, Become, AtLevel
<1>5. CASE RtnToPrgm
  BY <1>5, <1>b, <1>c DEF RtnToPrgm, Become
<1>6. CASE RtnToSolve
  <2>1. rtnLevel > 0 /\ running
    BY <1>6 DEF RtnToSolve, Instruction
  <2>2. Len(rtnStack) - 1 = solve.host
    BY <1>6, <1>c, <2>1 DEF RtnToSolve, SolverAtHost
  <2>3. CASE ReturnToSolve(Popped(Now), StopAtPop(Now))
    BY <1>c, <2>1, <2>2, <2>3, ReturnToSolveAtHost
  <2>4. QED
    BY <1>6, <1>d, <2>1, <2>3 DEF RtnToSolve
<1>7. CASE RtnToInteg
  <2>1. rtnLevel > 0
    BY <1>7 DEF RtnToInteg
  <2>2. Len(rtnStack) - 1 = integ.host
    BY <1>7, <1>c, <2>1 DEF RtnToInteg, SolverAtHost
  <2>3. CASE ReturnToInteg(Popped(Now), StopAtPop(Now))
    BY <1>c, <2>1, <2>2, <2>3, ReturnToIntegAtHost
  <2>4. QED
    BY <1>7, <1>d, <2>1, <2>3 DEF RtnToInteg
<1>8. CASE RtnError
  BY <1>8, <1>b, <1>c DEF RtnError, Become, Cleared
<1>9. CASE Trap
  <2>1. PICK k \in DOMAIN rtnStack :
           IsTopSolve(rtnStack, k) /\ ReturnToSolve(Unwound(Now, k), StopAtUnwind(Now, k))
    BY <1>9 DEF Trap
  <2>2. k - 1 \in 0 .. Len(rtnStack) /\ k - 1 = solve.host
    BY <1>a, <2>1 DEF IsTopSolve, SolverAtHost
  <2>3. Unwound(Now, k).stk = SubSeq(rtnStack, 1, k - 1) /\ running
    BY <1>9 DEF Unwound, Trap
  <2>4. QED
    BY <2>1, <2>2, <2>3, ReturnToSolveAtHost
<1>10. CASE TrapInSst
  BY <1>10 DEF TrapInSst
<1>e. /\ Entered(Caller).stk = Caller.stk
      /\ Caller.stk = rtnStack \/ Caller.stk = <<>>
      /\ Caller.stk \in Seq(Targets)
      /\ Len(Caller.stk) \in Nat
      /\ AtHost(Caller.stk, solve.host, integ.host)
  <2>1. Entered(Caller).stk = Caller.stk
    BY DEF Entered, AtLevel
  <2>2. Caller.stk = IF running THEN rtnStack ELSE <<>>
    BY CallerCoherent
  <2>3. CASE running
    BY <1>a, <2>1, <2>2, <2>3
  <2>4. CASE ~running
    <3>1. Caller.stk = <<>> /\ <<>> \in Seq(Targets) /\ Len(<<>>) = 0
      BY <2>2, <2>4
    <3>2. QED
      BY <1>a, <2>1, <3>1
  <2>5. QED
    BY <2>3, <2>4
<1>f. ASSUME ~Caller.sol, NEW h \in Nat PROVE AtHost(Caller.stk, h, integ.host)
  <2>1. \A i \in DOMAIN Caller.stk : Caller.stk[i] # SolveRtn
    BY <1>f, CallerCoherent DEF Coherent, CoherentParts
  <2>2. QED
    BY <1>e, <2>1 DEF AtHost
<1>g. ASSUME ~Caller.int, NEW h \in Nat PROVE AtHost(Caller.stk, solve.host, h)
  <2>1. \A i \in DOMAIN Caller.stk : Caller.stk[i] # IntegRtn
    BY <1>g, CallerCoherent DEF Coherent, CoherentParts
  <2>2. QED
    BY <1>e, <2>1 DEF AtHost
<1>h. \A p : Started(Caller, p).host = Len(Caller.stk)
  BY DEF Started
<1>11. ASSUME NEW p \in Prgms, StartSolve(p) PROVE SolverAtHost'
  <2>1. rtnStack' = Append(Caller.stk, SolveRtn)
    BY <1>11, <1>e, BecomePushed DEF StartSolve
  <2>2. solve'.host = Len(Caller.stk) /\ integ' = integ
    BY <1>11, <1>h DEF StartSolve
  <2>3. AtHost(Caller.stk, Len(Caller.stk), integ.host)
    BY <1>11, <1>e, <1>f DEF StartSolve
  <2>4. AtHost(Append(Caller.stk, SolveRtn), Len(Caller.stk), integ.host)
    BY <1>e, <2>3, PushAtHost, SolversAreNotPrgms DEF Targets
  <2>5. QED
    BY <2>1, <2>2, <2>4 DEF SolverAtHost, AtHost
<1>12. ASSUME NEW p \in Prgms, StartInteg(p) PROVE SolverAtHost'
  <2>1. rtnStack' = Append(Caller.stk, IntegRtn)
    BY <1>12, <1>e, BecomePushed DEF StartInteg
  <2>2. integ'.host = Len(Caller.stk) /\ solve' = solve
    BY <1>12, <1>h DEF StartInteg
  <2>3. AtHost(Caller.stk, solve.host, Len(Caller.stk))
    BY <1>12, <1>e, <1>g DEF StartInteg
  <2>4. AtHost(Append(Caller.stk, IntegRtn), solve.host, Len(Caller.stk))
    BY <1>e, <2>3, PushAtHost, SolversAreNotPrgms DEF Targets
  <2>5. QED
    BY <2>1, <2>2, <2>4 DEF SolverAtHost, AtHost
<1>13. ASSUME NEW p \in Prgms, StartFails(p) PROVE SolverAtHost'
  <2>1. rtnStack' = Caller.stk
    BY <1>13, <1>e DEF StartFails, Become
  <2>2. CASE ~Caller.sol /\ solve' = Started(Caller, p) /\ UNCHANGED integ
    BY <1>e, <1>f, <1>h, <2>1, <2>2 DEF SolverAtHost, AtHost
  <2>3. CASE ~Caller.int /\ integ' = Started(Caller, p) /\ UNCHANGED solve
    BY <1>e, <1>g, <1>h, <2>1, <2>3 DEF SolverAtHost, AtHost
  <2>4. QED
    BY <1>13, <2>2, <2>3 DEF StartFails
<1>14. CASE ClearAllRtns
  BY <1>14, <1>b DEF ClearAllRtns, Become, Cleared
<1>15. ASSUME NEW p \in Prgms, KeyXeq(p) PROVE SolverAtHost'
  BY <1>15, <1>b DEF KeyXeq, Become, Cleared
<1>16. ASSUME NEW p \in Prgms, ProgMenuXeq(p) PROVE SolverAtHost'
  BY <1>16, <1>b, BecomePushed DEF ProgMenuXeq
<1>17. CASE Run \/ RunStepOut \/ RunStepOver \/ Stop \/ Restart \/ UNCHANGED csVars
  BY <1>17, <1>b DEF Run, RunStepOut, RunStepOver, Stop, Restart, csVars, stackVars, solverVars
<1>18. ASSUME NEW p \in Prgms, Gto(p) \/ ProgMenuGto(p) PROVE SolverAtHost'
  BY <1>18, <1>b DEF Gto, ProgMenuGto, stackVars
<1>19. QED
  BY <1>1, <1>2, <1>3, <1>4, <1>5, <1>6, <1>7, <1>8, <1>9, <1>10, <1>11, <1>12,
     <1>13, <1>14, <1>15, <1>16, <1>17, <1>18 DEF Next

(* A solver's frame stays at the level where SOLVE or INTEG was executed,  *)
(* as long as no instruction executed by SST raises an error it traps.     *)
THEOREM SolverAtHostCorrect ==
    ASSUME "sst" \notin TrapsIn
    PROVE  Spec => []SolverAtHost
<1> DEFINE HInv == IInv /\ SolverAtHost
<1>1. Init => HInv
  BY InitIInv DEF Init, SolverAtHost
<1>2. HInv /\ [Next]_csVars => HInv'
  BY NextIInv, NextSolverAtHost
<1>3. HInv => SolverAtHost
  OBVIOUS
<1>4. QED
  BY <1>1, <1>2, <1>3, PTL DEF Spec

-----------------------------------------------------------------------------
(***************************************************************************)
(* The third invariant: what a request to stop becomes. SST-> and SST-up   *)
(* set the stop level; it is kept until a return takes it, or until the    *)
(* solver that SST-> steps over takes it for its own return. It needs that *)
(* an error stops the program and that none is trapped while it runs.      *)
(***************************************************************************)
Aimed == stopLevel = goal /\ rtnLevel > goal

StoppingSolver == (solveActive /\ ~solve.keep) \/ (integActive /\ ~integ.keep)

StepInv ==
    /\ ~running => goal = NoLevel /\ ~nextIsCall
    /\ nextIsCall => stopLevel = goal /\ rtnLevel = goal
    /\ running /\ goal # NoLevel /\ ~nextIsCall => Aimed \/ StoppingSolver

(* What the proof of a step takes from the first invariant                 *)
LEMMA StepFacts ==
    ASSUME IInv
    PROVE  /\ rtnStack \in Seq(Targets) /\ rtnLevel \in Nat
           /\ goal \in Int /\ stopLevel \in Int
           /\ solve \in SolverRec /\ integ \in SolverRec
           /\ running \in BOOLEAN
           /\ solveActive \in BOOLEAN /\ integActive \in BOOLEAN
           /\ solve.keep \in BOOLEAN /\ integ.keep \in BOOLEAN
<1>1. /\ rtnStack \in Seq(Targets) /\ stopLevel \in NoLevel .. MaxRtnLevel
      /\ solveActive \in BOOLEAN /\ integActive \in BOOLEAN
  BY NowParts DEF IInv, Coherent, CoherentParts
<1>2. solve.keep \in BOOLEAN /\ integ.keep \in BOOLEAN
  BY DEF IInv, SolverRec
<1> QED
  BY <1>1, <1>2, MaxRtnLevelAssumption DEF IInv, rtnLevel, NoLevel

(* A step that stops the program takes back the request.                   *)
LEMMA StoppedStep ==
    ASSUME KeepGoal, ~running', ~nextIsCall'
    PROVE  StepInv'
BY DEF KeepGoal, StepInv

(* The parts of a stack that has become a value                            *)
LEMMA BecomeParts ==
    ASSUME NEW S, Become(S)
    PROVE  /\ rtnStack' = S.stk /\ rtnLevel' = Len(S.stk)
           /\ solveActive' = S.sol /\ integActive' = S.int /\ stopLevel' = S.lvl
BY DEF Become, rtnLevel

LEMMA PushedParts ==
    ASSUME NEW S, S.stk \in Seq(Targets), NEW p \in Targets, Become(Pushed(S, p))
    PROVE  /\ rtnLevel' = Len(S.stk) + 1
           /\ solveActive' <=> (S.sol \/ p = SolveRtn)
           /\ integActive' <=> (S.int \/ p = IntegRtn)
           /\ stopLevel' = S.lvl
<1> DEFINE T == Pushed(S, p)
<1>1. /\ T.stk = Append(S.stk, p) /\ T.lvl = S.lvl
      /\ T.sol = (S.sol \/ p = SolveRtn) /\ T.int = (S.int \/ p = IntegRtn)
  BY DEF Pushed
<1>2. Len(Append(S.stk, p)) = Len(S.stk) + 1
  BY AppendProperties
<1> HIDE DEF T
<1>3. Become(T)
  BY DEF T
<1> QED
  BY <1>1, <1>2, <1>3, BecomeParts

(* A return on the way to the level to stop at either stops there or is    *)
(* still on the way.                                                       *)
LEMMA PoppedAimed ==
    ASSUME IInv, rtnLevel > 0
    PROVE  /\ Popped(Now).stk \in Seq(Targets)
           /\ Len(Popped(Now).stk) = rtnLevel - 1
           /\ Popped(Now).sol <=> (solveActive /\ Top(Now) # SolveRtn)
           /\ Popped(Now).int <=> (integActive /\ Top(Now) # IntegRtn)
           /\ StopAtPop(Now) <=> (stopLevel >= rtnLevel - 1)
           /\ ~StopAtPop(Now) => Popped(Now).lvl = stopLevel
<1>1. rtnStack \in Seq(Targets) /\ rtnLevel = Len(rtnStack) /\ rtnLevel \in Nat
  BY StepFacts DEF rtnLevel
<1>2. /\ SubSeq(rtnStack, 1, rtnLevel - 1) \in Seq(Targets)
      /\ Len(SubSeq(rtnStack, 1, rtnLevel - 1)) = rtnLevel - 1
  BY <1>1
<1>3. /\ Popped(Now).stk = SubSeq(rtnStack, 1, rtnLevel - 1)
      /\ Popped(Now).sol = (solveActive /\ Top(Now) # SolveRtn)
      /\ Popped(Now).int = (integActive /\ Top(Now) # IntegRtn)
      /\ Popped(Now).lvl = (IF stopLevel >= rtnLevel - 1 THEN NoLevel ELSE stopLevel)
      /\ StopAtPop(Now) = (stopLevel >= rtnLevel - 1)
  BY NowParts DEF Popped, StopAtPop, rtnLevel
<1> QED
  BY <1>2, <1>3

(* A step of a program that calls or returns, while a request is open      *)
LEMMA ReturnToSolveStops ==
    ASSUME ~ErrorIgnore, IInv, StepInv, RtnToSolve
    PROVE  StepInv'
<1>1. /\ running /\ ~nextIsCall /\ ~nextIsCall' /\ rtnLevel > 0 /\ Top(Now) = SolveRtn
      /\ KeepGoal
  BY DEF RtnToSolve, Instruction
<1> DEFINE S == Popped(Now)
           stop == StopAtPop(Now)
           keep == solve.keep /\ ~stop
<1>2. /\ S.stk \in Seq(Targets) /\ Len(S.stk) = rtnLevel - 1
      /\ ~S.sol /\ (S.int <=> integActive)
      /\ stop <=> (stopLevel >= rtnLevel - 1)
      /\ ~stop => S.lvl = stopLevel
  BY <1>1, PoppedAimed, SolversAreNotPrgms, StepFacts
     DEF IInv, Coherent, CoherentParts, Now
<1> HIDE DEF S, stop
<1>3. goal # NoLevel => \/ ~keep
                        \/ stopLevel = goal /\ rtnLevel - 1 > goal
                        \/ integActive /\ ~integ.keep
  <2>1. CASE stop
    BY <2>1
  <2>2. CASE ~stop /\ goal # NoLevel /\ Aimed
    BY <1>2, <2>2, StepFacts DEF Aimed
  <2>3. CASE ~stop /\ goal # NoLevel /\ StoppingSolver
    BY <2>3 DEF StoppingSolver
  <2> QED
    BY <1>1, <2>1, <2>2, <2>3 DEF StepInv
<1>4. CASE Become(S) /\ solve' = [solve EXCEPT !.keep = keep, !.state = 0]
           /\ running' = (running /\ keep) /\ integ' = integ
  <2>1. CASE ~running'
    BY <1>1, <2>1, StoppedStep
  <2>2. CASE running'
    <3>1. goal' = goal /\ keep
      BY <1>1, <1>4, <2>2 DEF KeepGoal
    <3>2. rtnLevel' = rtnLevel - 1 /\ stopLevel' = stopLevel /\ (integActive' <=> integActive)
      BY <1>2, <1>4, <3>1, BecomeParts
    <3> QED
      BY <1>1, <1>3, <1>4, <2>2, <3>1, <3>2 DEF StepInv, Aimed, StoppingSolver
  <2> QED
    BY <2>1, <2>2
<1>5. CASE Become(Pushed(S, SolveRtn)) /\ solve' = [solve EXCEPT !.keep = keep, !.state = 1]
           /\ running' = running /\ integ' = integ
  <2>1. goal' = goal /\ solve'.keep = keep
    BY <1>1, <1>5, StepFacts DEF KeepGoal, SolverRec
  <2>2. /\ rtnLevel' = rtnLevel /\ solveActive' /\ (integActive' <=> integActive)
        /\ stopLevel' = S.lvl
    <3>1. SolveRtn \in Targets
      BY DEF Targets
    <3>2. Len(S.stk) + 1 = rtnLevel
      BY <1>2, StepFacts
    <3> QED
      BY <1>2, <1>5, <3>1, <3>2, PushedParts, SolversAreNotPrgms
  <2>3. CASE goal # NoLevel /\ ~keep
    BY <1>1, <1>5, <2>1, <2>2, <2>3 DEF StepInv, StoppingSolver
  <2>4. CASE goal # NoLevel /\ integActive /\ ~integ.keep
    BY <1>1, <1>5, <2>1, <2>2, <2>4 DEF StepInv, StoppingSolver
  <2>5. CASE goal # NoLevel /\ keep /\ stopLevel = goal /\ rtnLevel - 1 > goal
    <3>1. rtnLevel > goal
      BY <2>5, StepFacts
    <3> QED
      BY <1>1, <1>2, <1>5, <2>1, <2>2, <2>5, <3>1 DEF StepInv, Aimed
  <2> QED
    BY <1>1, <1>3, <1>5, <2>1, <2>3, <2>4, <2>5 DEF StepInv
<1>6. CASE BadFunctionValue
  <2>1. ~running'
    BY <1>6 DEF BadFunctionValue, Failed
  <2> QED
    BY <1>1, <2>1, StoppedStep
<1>7. ReturnToSolve(S, stop) \/ BadFunctionValue
  BY DEF RtnToSolve, S, stop
<1> QED
  BY <1>4, <1>5, <1>6, <1>7, StepFacts, <1>1 DEF ReturnToSolve

LEMMA ReturnToIntegStops ==
    ASSUME ~ErrorIgnore, IInv, StepInv, RtnToInteg
    PROVE  StepInv'
<1>1. /\ running /\ ~nextIsCall /\ ~nextIsCall' /\ rtnLevel > 0 /\ Top(Now) = IntegRtn
      /\ KeepGoal
  BY DEF RtnToInteg, Instruction
<1> DEFINE S == Popped(Now)
           stop == StopAtPop(Now)
           keep == integ.keep /\ ~stop
<1>2. /\ S.stk \in Seq(Targets) /\ Len(S.stk) = rtnLevel - 1
      /\ ~S.int /\ (S.sol <=> solveActive)
      /\ stop <=> (stopLevel >= rtnLevel - 1)
      /\ ~stop => S.lvl = stopLevel
  BY <1>1, PoppedAimed, SolversAreNotPrgms, StepFacts
     DEF IInv, Coherent, CoherentParts, Now
<1> HIDE DEF S, stop
<1>3. goal # NoLevel => \/ ~keep
                        \/ stopLevel = goal /\ rtnLevel - 1 > goal
                        \/ solveActive /\ ~solve.keep
  <2>1. CASE stop
    BY <2>1
  <2>2. CASE ~stop /\ goal # NoLevel /\ Aimed
    BY <1>2, <2>2, StepFacts DEF Aimed
  <2>3. CASE ~stop /\ goal # NoLevel /\ StoppingSolver
    BY <2>3 DEF StoppingSolver
  <2> QED
    BY <1>1, <2>1, <2>2, <2>3 DEF StepInv
<1>4. CASE Become(S) /\ running' = keep /\ solve' = solve
  <2>1. CASE ~running'
    BY <1>1, <2>1, StoppedStep
  <2>2. CASE running'
    <3>1. goal' = goal /\ keep
      BY <1>1, <1>4, <2>2 DEF KeepGoal
    <3>2. rtnLevel' = rtnLevel - 1 /\ stopLevel' = stopLevel /\ (solveActive' <=> solveActive)
      BY <1>2, <1>4, <3>1, BecomeParts
    <3> QED
      BY <1>1, <1>3, <1>4, <2>2, <3>1, <3>2 DEF StepInv, Aimed, StoppingSolver
  <2> QED
    BY <2>1, <2>2
<1>5. CASE Become(Pushed(S, IntegRtn)) /\ integ' = [integ EXCEPT !.keep = keep]
           /\ running' = running /\ solve' = solve
  <2>1. goal' = goal /\ integ'.keep = keep
    BY <1>1, <1>5, StepFacts DEF KeepGoal, SolverRec
  <2>2. /\ rtnLevel' = rtnLevel /\ integActive' /\ (solveActive' <=> solveActive)
        /\ stopLevel' = S.lvl
    <3>1. IntegRtn \in Targets
      BY DEF Targets
    <3>2. Len(S.stk) + 1 = rtnLevel
      BY <1>2, StepFacts
    <3> QED
      BY <1>2, <1>5, <3>1, <3>2, PushedParts, SolversAreNotPrgms
  <2>3. CASE goal # NoLevel /\ ~keep
    BY <1>1, <1>5, <2>1, <2>2, <2>3 DEF StepInv, StoppingSolver
  <2>4. CASE goal # NoLevel /\ solveActive /\ ~solve.keep
    BY <1>1, <1>5, <2>1, <2>2, <2>4 DEF StepInv, StoppingSolver
  <2>5. CASE goal # NoLevel /\ keep /\ stopLevel = goal /\ rtnLevel - 1 > goal
    <3>1. rtnLevel > goal
      BY <2>5, StepFacts
    <3> QED
      BY <1>1, <1>2, <1>5, <2>1, <2>2, <2>5, <3>1 DEF StepInv, Aimed
  <2> QED
    BY <1>1, <1>3, <1>5, <2>1, <2>3, <2>4, <2>5 DEF StepInv
<1>6. CASE BadFunctionValue
  <2>1. ~running'
    BY <1>6 DEF BadFunctionValue, Failed
  <2> QED
    BY <1>1, <2>1, StoppedStep
<1>7. ReturnToInteg(S, stop) \/ BadFunctionValue
  BY DEF RtnToInteg, S, stop
<1> QED
  BY <1>4, <1>5, <1>6, <1>7 DEF ReturnToInteg

(* A call that a request to step over is waiting for puts the program on   *)
(* its way, and a deeper one leaves it there.                              *)
LEMMA CallStops ==
    ASSUME IInv, StepInv, NEW p \in Prgms, Xeq(p)
    PROVE  StepInv'
<1>1. /\ running /\ running' /\ ~nextIsCall' /\ goal' = goal
      /\ Become(Pushed(Now, currentPrgm)) /\ solve' = solve /\ integ' = integ
  BY DEF Xeq, CallInstruction, KeepGoal
<1>2. /\ rtnLevel' = rtnLevel + 1 /\ stopLevel' = stopLevel
      /\ (solveActive' <=> solveActive) /\ (integActive' <=> integActive)
  <2>1. currentPrgm \in Targets /\ currentPrgm # SolveRtn /\ currentPrgm # IntegRtn
    BY SolversAreNotPrgms DEF IInv, Targets
  <2>2. solveActive \in BOOLEAN /\ integActive \in BOOLEAN
    BY NowParts DEF IInv, Coherent, CoherentParts
  <2> QED
    BY <1>1, <2>1, <2>2, PushedParts, NowParts, StepFacts DEF rtnLevel
<1> QED
  BY <1>1, <1>2, StepFacts DEF StepInv, Aimed, StoppingSolver

(* A solver takes the request to stop, if it is for the level it is        *)
(* started at, and else runs on the way.                                   *)
LEMMA SolveStops ==
    ASSUME IInv, StepInv, NEW p \in Prgms, StartSolve(p)
    PROVE  StepInv'
<1>1. /\ running' /\ ~nextIsCall' /\ goal' = goal /\ integ' = integ
      /\ Become(Pushed(Entered(Caller), SolveRtn))
      /\ solve' = Started(Caller, p) /\ ~Caller.sol
  BY DEF StartSolve, FromProgramOrKeyboard, KeepGoal
<1>2. Coherent(Caller) /\ Entered(Caller).stk = Caller.stk
      /\ Entered(Caller).sol = Caller.sol /\ Entered(Caller).int = Caller.int
  BY CallerCoherent, EnteredCoherent
<1>3. /\ rtnLevel' = Len(Caller.stk) + 1 /\ solveActive'
      /\ (integActive' <=> Caller.int) /\ stopLevel' = Entered(Caller).lvl
  <2>1. Caller.int \in BOOLEAN /\ Caller.stk \in Seq(Targets) /\ SolveRtn \in Targets
    BY <1>2 DEF Coherent, CoherentParts, Targets
  <2> QED
    BY <1>1, <1>2, <2>1, PushedParts, SolversAreNotPrgms
<1>4. CASE ~running
  BY <1>1, <1>4 DEF StepInv
<1>5. CASE running
  <2>1. /\ Caller.stk = rtnStack /\ Caller.lvl = stopLevel /\ Caller.int = integActive
    BY <1>5, NowParts DEF Caller
  <2>2. solve'.keep = ~StopHere(Caller) /\ (StopHere(Caller) <=> stopLevel >= rtnLevel)
    BY <1>1, <1>5, <2>1 DEF Started, StopHere, rtnLevel
  <2>3. ~StopHere(Caller) => Entered(Caller).lvl = stopLevel
    BY <2>1 DEF Entered, AtLevel
  <2>4. ~solveActive
    BY <1>1, <1>5, NowParts DEF Caller
  <2>5. rtnLevel' = rtnLevel + 1
    BY <1>3, <2>1 DEF rtnLevel
  <2>6. CASE goal # NoLevel /\ StopHere(Caller)
    BY <1>1, <1>3, <2>2, <2>6 DEF StepInv, StoppingSolver
  <2>7. CASE goal # NoLevel /\ ~StopHere(Caller) /\ nextIsCall
    BY <2>2, <2>7, StepFacts DEF StepInv
  <2>8. CASE goal # NoLevel /\ ~StopHere(Caller) /\ ~nextIsCall /\ Aimed
    <3>1. goal < rtnLevel' /\ stopLevel' = goal
      BY <1>3, <2>3, <2>5, <2>8, StepFacts DEF Aimed
    <3> QED
      BY <1>1, <3>1 DEF StepInv, Aimed
  <2>9. CASE goal # NoLevel /\ ~nextIsCall /\ StoppingSolver
    BY <1>1, <1>3, <2>1, <2>4, <2>9 DEF StepInv, StoppingSolver
  <2> QED
    BY <1>1, <1>5, <2>6, <2>7, <2>8, <2>9 DEF StepInv
<1> QED
  BY <1>4, <1>5, StepFacts

LEMMA IntegStops ==
    ASSUME IInv, StepInv, NEW p \in Prgms, StartInteg(p)
    PROVE  StepInv'
<1>1. /\ running' /\ ~nextIsCall' /\ goal' = goal /\ solve' = solve
      /\ Become(Pushed(Entered(Caller), IntegRtn))
      /\ integ' = Started(Caller, p) /\ ~Caller.int
  BY DEF StartInteg, FromProgramOrKeyboard, KeepGoal
<1>2. Coherent(Caller) /\ Entered(Caller).stk = Caller.stk
      /\ Entered(Caller).sol = Caller.sol /\ Entered(Caller).int = Caller.int
  BY CallerCoherent, EnteredCoherent
<1>3. /\ rtnLevel' = Len(Caller.stk) + 1 /\ integActive'
      /\ (solveActive' <=> Caller.sol) /\ stopLevel' = Entered(Caller).lvl
  <2>1. Caller.sol \in BOOLEAN /\ Caller.stk \in Seq(Targets) /\ IntegRtn \in Targets
    BY <1>2 DEF Coherent, CoherentParts, Targets
  <2> QED
    BY <1>1, <1>2, <2>1, PushedParts, SolversAreNotPrgms
<1>4. CASE ~running
  BY <1>1, <1>4 DEF StepInv
<1>5. CASE running
  <2>1. /\ Caller.stk = rtnStack /\ Caller.lvl = stopLevel /\ Caller.sol = solveActive
    BY <1>5, NowParts DEF Caller
  <2>2. integ'.keep = ~StopHere(Caller) /\ (StopHere(Caller) <=> stopLevel >= rtnLevel)
    BY <1>1, <1>5, <2>1 DEF Started, StopHere, rtnLevel
  <2>3. ~StopHere(Caller) => Entered(Caller).lvl = stopLevel
    BY <2>1 DEF Entered, AtLevel
  <2>4. ~integActive
    BY <1>1, <1>5, NowParts DEF Caller
  <2>5. rtnLevel' = rtnLevel + 1
    BY <1>3, <2>1 DEF rtnLevel
  <2>6. CASE goal # NoLevel /\ StopHere(Caller)
    BY <1>1, <1>3, <2>2, <2>6 DEF StepInv, StoppingSolver
  <2>7. CASE goal # NoLevel /\ ~StopHere(Caller) /\ nextIsCall
    BY <2>2, <2>7, StepFacts DEF StepInv
  <2>8. CASE goal # NoLevel /\ ~StopHere(Caller) /\ ~nextIsCall /\ Aimed
    <3>1. goal < rtnLevel' /\ stopLevel' = goal
      BY <1>3, <2>3, <2>5, <2>8, StepFacts DEF Aimed
    <3> QED
      BY <1>1, <3>1 DEF StepInv, Aimed
  <2>9. CASE goal # NoLevel /\ ~nextIsCall /\ StoppingSolver
    BY <1>1, <1>3, <2>1, <2>4, <2>9 DEF StepInv, StoppingSolver
  <2> QED
    BY <1>1, <1>5, <2>6, <2>7, <2>8, <2>9 DEF StepInv
<1> QED
  BY <1>4, <1>5, StepFacts

(* Every step keeps an open request on its way, if errors stop the program. *)
LEMMA NextStepInv ==
    ASSUME ~ErrorIgnore, "run" \notin TrapsIn, IInv, StepInv, [Next]_csVars
    PROVE  StepInv'
<1>1. ASSUME NEW p \in Prgms, StartFails(p)
      PROVE  StepInv'
  <2>1. ~nextIsCall' /\ ~running' /\ KeepGoal
    BY <1>1, StepFacts DEF StartFails, FromProgramOrKeyboard, Failed
  <2> QED
    BY <2>1, StoppedStep
<1>2. CASE XeqMissing \/ Fail
  <2>1. ~nextIsCall' /\ KeepGoal /\ Failed
    BY <1>2 DEF XeqMissing, Fail, CallInstruction
  <2>2. ~running'
    BY <2>1 DEF Failed
  <2> QED
    BY <2>1, <2>2, StoppedStep
<1>12. CASE StopInstruction \/ RtnAtTop \/ RtnError
  <2>1. ~nextIsCall' /\ ~running' /\ KeepGoal
    BY <1>12 DEF StopInstruction, RtnAtTop, RtnError, Instruction
  <2> QED
    BY <2>1, StoppedStep
<1>3. CASE RtnToPrgm
  <2>1. /\ running /\ ~nextIsCall /\ ~nextIsCall' /\ rtnLevel > 0 /\ Top(Now) \in Prgms
        /\ Become(Popped(Now)) /\ running' = ~StopAtPop(Now) /\ KeepGoal
        /\ solve' = solve /\ integ' = integ
    BY <1>3 DEF RtnToPrgm, Instruction, solverVars
  <2>2. CASE ~running'
    BY <2>1, <2>2, StoppedStep
  <2>3. CASE running'
    <3>1. /\ goal' = goal /\ rtnLevel' = rtnLevel - 1 /\ stopLevel' = stopLevel
          /\ stopLevel < rtnLevel - 1
          /\ (solveActive' <=> solveActive) /\ (integActive' <=> integActive)
      <4>1. Top(Now) # SolveRtn /\ Top(Now) # IntegRtn
        BY <2>1, SolversAreNotPrgms
      <4>2. ~StopAtPop(Now) /\ goal' = goal
        BY <2>1, <2>3 DEF KeepGoal
      <4> QED
        BY <2>1, <4>1, <4>2, PoppedAimed, BecomeParts, StepFacts
    <3>2. CASE goal # NoLevel /\ Aimed
      BY <2>1, <2>3, <3>1, <3>2, StepFacts DEF StepInv, Aimed
    <3>3. CASE goal # NoLevel /\ StoppingSolver
      BY <2>1, <2>3, <3>1, <3>3 DEF StepInv, StoppingSolver
    <3> QED
      BY <2>1, <2>3, <3>1, <3>2, <3>3 DEF StepInv
  <2> QED
    BY <2>2, <2>3
<1>4. CASE TrapInSst
  <2>1. ~running /\ nextIsCall' = nextIsCall /\ KeepGoal
    BY <1>4 DEF TrapInSst
  <2>2. ~nextIsCall'
    BY <2>1 DEF StepInv
  <2>3. ~running'
    <3>1. PICK k \in DOMAIN rtnStack :
              ReturnToSolve(Unwound(Now, k), StopAtUnwind(Now, k))
      BY <1>4 DEF TrapInSst
    <3> QED
      BY <2>1, <3>1 DEF ReturnToSolve
  <2> QED
    BY <2>1, <2>2, <2>3, StoppedStep
<1>5. CASE RunStepOut
  <2>1. /\ ~running /\ ~nextIsCall'
        /\ stopLevel' = (IF rtnLevel > 0 THEN rtnLevel - 1 ELSE stopLevel)
        /\ goal' = (IF rtnLevel > 0 THEN rtnLevel - 1 ELSE NoLevel)
        /\ rtnLevel' = rtnLevel /\ running'
    BY <1>5 DEF RunStepOut, Stopped, rtnLevel, StepInv
  <2> QED
    BY <2>1, StepFacts DEF StepInv, Aimed
<1>6. CASE RunStepOver
  BY <1>6 DEF RunStepOver, rtnLevel, StepInv
<1>7. CASE ClearAllRtns \/ (\E p \in Prgms : KeyXeq(p) \/ ProgMenuXeq(p) \/ ProgMenuGto(p)) \/ Run
  BY <1>7 DEF ClearAllRtns, KeyXeq, ProgMenuXeq, ProgMenuGto, Run, Stopped, StepInv
<1>8. CASE Stop \/ Restart
  BY <1>8 DEF Stop, Restart, StepInv
<1>9. ASSUME NEW p \in Prgms, Gto(p)
      PROVE  StepInv'
  BY <1>9 DEF Gto, Instruction, stackVars, solverVars, KeepGoal, StepInv, Aimed,
              StoppingSolver, rtnLevel
<1>10. CASE UNCHANGED csVars
  BY <1>10 DEF csVars, StepInv, Aimed, StoppingSolver, rtnLevel
<1>11. ~Trap
  BY DEF Trap
<1> QED
  BY <1>1, <1>2, <1>3, <1>4, <1>5, <1>6, <1>7, <1>8, <1>9, <1>10, <1>11, <1>12,
     CallStops, SolveStops, IntegStops, ReturnToSolveStops, ReturnToIntegStops
     DEF Next

(* SST-> and SST-up never overshoot, if errors stop the program and SOLVE   *)
(* does not trap one while it runs; they may in a stepped instruction.      *)
THEOREM StepStopsCorrect ==
    ASSUME ~ErrorIgnore, "run" \notin TrapsIn
    PROVE  Spec => []StepStops
<1>1. Init => StepInv
  BY DEF Init, StepInv
<1>2. IInv /\ StepInv /\ [Next]_csVars => StepInv'
  BY NextStepInv
<1>3. StepInv => StepStops
  BY DEF StepInv, StepStops, Aimed, StoppingSolver
<1> QED
  BY <1>1, <1>2, <1>3, Invariance, PTL DEF Spec

=============================================================================
