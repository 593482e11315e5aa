------------------------------ MODULE DynScope ------------------------------
(***************************************************************************)
(* What local variables and local stack modes promise, without the table   *)
(* of variables, its flags, and the frames of the return stack: a stack of *)
(* scopes, each with its own bindings, over one set of global bindings.    *)
(* A scope that changes the stack mode locally remembers its caller's.     *)
(***************************************************************************)
EXTENDS Integers, Sequences

CONSTANTS
    Names,
    Vals,       \* what a name can be bound to
    Unbound,    \* not one of Vals
    MaxLevel    \* a natural number: how deep calls may nest

VARIABLES
    globals,    \* the global bindings
    scopes,     \* the subroutines being executed; the first is the keyboard's
    bigStack,   \* the stack mode: TRUE = NSTK, FALSE = 4STK
    allowBig    \* the user lets programs use NSTK

dVars == <<globals, scopes, bigStack, allowBig>>

NoBindings == [n \in Names |-> Unbound]

EmptyScope == [locals |-> NoBindings, caller |-> {}]

Top == Len(scopes)

(* The innermost scope that binds n; 0 means that only globals may *)
Innermost(n) ==
    LET binding == {k \in DOMAIN scopes : scopes[k].locals[n] # Unbound}
    IN  IF binding = {} THEN 0 ELSE CHOOSE k \in binding : \A j \in binding : j <= k

Init ==
    /\ globals = NoBindings
    /\ scopes = <<EmptyScope>>
    /\ bigStack = FALSE
    /\ allowBig \in BOOLEAN

(* XEQ *)
Enter ==
    /\ Top <= MaxLevel
    /\ scopes' = Append(scopes, EmptyScope)
    /\ UNCHANGED <<globals, bigStack, allowBig>>

(***************************************************************************)
(* RTN, an error that SOLVE traps, or clearing the return stack: the k     *)
(* innermost scopes end. The mode is what it was before the first of them  *)
(* changed it, unless the user has forbidden that mode since.              *)
(***************************************************************************)
Changed(k) == {j \in (Top - k + 1) .. Top : scopes[j].caller # {}}

ModeAfter(k) ==
    IF Changed(k) = {}
      THEN bigStack
    ELSE LET first == CHOOSE j \in Changed(k) : \A i \in Changed(k) : j <= i
         IN  TRUE \in scopes[first].caller /\ allowBig

Leave(k) ==
    /\ k \in 1 .. Top
    /\ scopes' = IF k = Top THEN <<EmptyScope>> ELSE SubSeq(scopes, 1, Top - k)
    /\ bigStack' = ModeAfter(k)
    /\ UNCHANGED <<globals, allowBig>>

(* LSTO *)
BindLocal(n, v) ==
    /\ scopes' = [scopes EXCEPT ![Top].locals[n] = v]
    /\ UNCHANGED <<globals, bigStack, allowBig>>

(* STO: the innermost binding, a global one if there is none *)
Assign(n, v) ==
    /\ IF Innermost(n) = 0
         THEN globals' = [globals EXCEPT ![n] = v] /\ UNCHANGED scopes
         ELSE scopes' = [scopes EXCEPT ![Innermost(n)].locals[n] = v] /\ UNCHANGED globals
    /\ UNCHANGED <<bigStack, allowBig>>

(* CLV: a global that no local hides *)
UnbindGlobal(n) ==
    /\ Innermost(n) = 0
    /\ globals' = [globals EXCEPT ![n] = Unbound]
    /\ UNCHANGED <<scopes, bigStack, allowBig>>

(* LCLV: a local of this scope *)
UnbindLocal(n) ==
    /\ scopes' = [scopes EXCEPT ![Top].locals[n] = Unbound]
    /\ UNCHANGED <<globals, bigStack, allowBig>>

(* FUNC, LNSTK, L4STK: the first of them saves the caller's mode *)
ChangeMode(big) ==
    /\ big => allowBig
    /\ scopes[Top].caller = {}
    /\ scopes' = [scopes EXCEPT ![Top].caller = {bigStack}]
    /\ bigStack' = big
    /\ UNCHANGED <<globals, allowBig>>

(* 4STK and NSTK; LNSTK and L4STK after FUNC *)
SetMode(big) ==
    /\ big => allowBig
    /\ bigStack' = big
    /\ UNCHANGED <<globals, scopes, allowBig>>

SetAllowBigStack ==
    /\ allowBig' = ~allowBig
    /\ bigStack' = (bigStack /\ allowBig')
    /\ UNCHANGED <<globals, scopes>>

(* CLALL *)
ForgetAll ==
    /\ globals' = NoBindings
    /\ scopes' = <<EmptyScope>>
    /\ bigStack' = ModeAfter(Top)
    /\ UNCHANGED allowBig

Next ==
    \/ Enter \/ SetAllowBigStack \/ ForgetAll
    \/ \E k \in 1 .. Top : Leave(k)
    \/ \E n \in Names, v \in Vals : BindLocal(n, v) \/ Assign(n, v)
    \/ \E n \in Names : UnbindGlobal(n) \/ UnbindLocal(n)
    \/ \E big \in BOOLEAN : ChangeMode(big) \/ SetMode(big)

Spec == Init /\ [][Next]_dVars
=============================================================================
