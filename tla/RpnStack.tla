------------------------------ MODULE RpnStack ------------------------------
(***************************************************************************)
(* The stack and the ways a command delivers its results: core_helpers.cc. *)
(* m.stk is stack[0..sp], its last element is X.  With m.big the stack     *)
(* grows and shrinks, otherwise it has four levels and T is duplicated.    *)
(***************************************************************************)
EXTENDS Heap

Sp(m) == Len(m.stk)
X(m) == m.stk[Sp(m)]
Y(m) == m.stk[Sp(m) - 1]
Z(m) == m.stk[Sp(m) - 2]
SetX(m, v) == [m EXCEPT !.stk[Sp(m)] = v]
SetY(m, v) == [m EXCEPT !.stk[Sp(m) - 1] = v]
(* A level by its distance from X; -1 is LASTX.                            *)
NoLevel(m, k) == k >= Sp(m)
Level(m, k) == IF k = -1 THEN m.lastx ELSE m.stk[Sp(m) - k]
SetLevel(m, k, v) == IF k = -1 THEN [m EXCEPT !.lastx = v] ELSE [m EXCEPT !.stk[Sp(m) - k] = v]
Push(m, v) == [m EXCEPT !.stk = Append(@, v)]
Below(m, k) == SubSeq(m.stk, 1, Sp(m) - k)

(* ensure_stack_capacity() before the stack grows.  Its capacity is not    *)
(* modelled: a realloc that is not needed is one that succeeds.            *)
Crowded(m) == m.big /\ Exhausted(m)
Grown(m) == IF m.big THEN Charged(m) ELSE m
shrink_stack(m) == Charged(m)

(* A mutant: a value that finds no room on the stack is not freed.         *)
recall_result_leaks(m, v) ==
  CASE m.sld /\ Sp(m) = 0 -> Push(m, v)
    [] m.sld /\ Sp(m) > 0 -> SetX(free_vartype(m, X(m)), v)
    [] ~m.sld /\ Crowded(m) -> NoMemory(Charged(m))
    [] ~m.sld /\ m.big /\ ~Crowded(m) -> Push(Grown(m), v)
    [] OTHER -> [free_vartype(m, m.stk[1]) EXCEPT !.stk = Append(Tail(@), v)]

recall_result_silently(m, v) ==
  CASE m.sld /\ Sp(m) = 0 -> Push(m, v)
    [] m.sld /\ Sp(m) > 0 -> SetX(free_vartype(m, X(m)), v)
    [] ~m.sld /\ Crowded(m) -> NoMemory(free_vartype(Charged(m), v))
    [] ~m.sld /\ m.big /\ ~Crowded(m) -> Push(Grown(m), v)
    [] OTHER -> [free_vartype(m, m.stk[1]) EXCEPT !.stk = Append(Tail(@), v)]

recall_result(m, v) == recall_result_silently(m, v)

recall_two_results(m, x, y) ==
  IF m.big
  THEN IF Crowded(m) THEN NoMemory(FreeAll(Charged(m), <<x, y>>))
       ELSE IF m.sld /\ Sp(m) > 0
       THEN [free_vartype(Grown(m), X(m)) EXCEPT !.stk = Below(m, 1) \o <<y, x>>]
       ELSE [Grown(m) EXCEPT !.stk = @ \o <<y, x>>]
  ELSE IF m.sld
       THEN [FreeAll(m, <<m.stk[1], m.stk[4]>>) EXCEPT !.stk = <<m.stk[2], m.stk[3], y, x>>]
       ELSE [FreeAll(m, <<m.stk[1], m.stk[2]>>) EXCEPT !.stk = <<m.stk[3], m.stk[4], y, x>>]

(* X becomes LASTX.                                                        *)
Consumed(m) == [free_vartype(m, m.lastx) EXCEPT !.lastx = X(m)]

unary_result(m, x) == SetX(Consumed(m), x)

unary_two_results(m, x, y) ==
  IF m.big
  THEN IF Crowded(m) THEN NoMemory(FreeAll(Charged(m), <<x, y>>))
       ELSE [Consumed(Grown(m)) EXCEPT !.stk = Below(m, 1) \o <<y, x>>]
  ELSE [Consumed(free_vartype(m, m.stk[1])) EXCEPT !.stk = <<m.stk[2], m.stk[3], y, x>>]

unary_no_result(m) ==
  IF m.big THEN [Consumed(m) EXCEPT !.stk = Below(m, 1)]
  ELSE OrNoMemory(dup_vartype(m, m.stk[1]),
         LAMBDA n, t : [Consumed(n) EXCEPT !.stk = <<m.stk[1], t, m.stk[2], m.stk[3]>>])

binary_result(m, x) ==
  IF m.big THEN [free_vartype(Consumed(m), Y(m)) EXCEPT !.stk = Append(Below(m, 2), x)]
  ELSE LET t == dup_vartype(m, m.stk[1])
       IN IF t.v = Null THEN NoMemory(free_vartype(t.m, x))
          ELSE [free_vartype(Consumed(t.m), Y(m)) EXCEPT !.stk = <<m.stk[1], t.v, m.stk[2], x>>]

(* On a stack with less than two levels those that are missing are NULL.   *)
binary_two_results(m, x, y) ==
  LET n == [m EXCEPT !.stk = @ \o [i \in 1 .. (IF Sp(m) < 2 THEN 2 - Sp(m) ELSE 0) |-> Null]]
  IN [free_vartype(IF X(n) = Null THEN n ELSE Consumed(n), Y(n)) EXCEPT !.stk = Below(n, 2) \o <<y, x>>]

(* A mutant: T is duplicated once for the three levels that are used up.   *)
ternary_result_once(m, x) ==
  IF m.big
  THEN [FreeAll(Consumed(m), <<Y(m), Z(m)>>) EXCEPT !.stk = Append(Below(m, 3), x)]
  ELSE LET d == DupAll(m, <<m.stk[1]>>)
       IN IF ~d.ok THEN NoMemory(free_vartype(d.m, x))
          ELSE [FreeAll(Consumed(d.m), <<Y(m), Z(m)>>) EXCEPT !.stk = <<m.stk[1]>> \o d.vs \o <<x>>]

ternary_result(m, x) ==
  IF m.big
  THEN [FreeAll(Consumed(m), <<Y(m), Z(m)>>) EXCEPT !.stk = Append(Below(m, 3), x)]
  ELSE LET d == DupAll(m, <<m.stk[1], m.stk[1]>>)
       IN IF ~d.ok THEN NoMemory(free_vartype(d.m, x))
          ELSE [FreeAll(Consumed(d.m), <<Y(m), Z(m)>>) EXCEPT !.stk = <<m.stk[1]>> \o d.vs \o <<x>>]

(***************************************************************************)
(* What the numbers decide.  m.o is "fine", or says which check of this    *)
(* command fails: one of a size or an index, or one of a number (a domain, *)
(* a zero divisor, a result out of range).  For the commands of linear     *)
(* algebra it also tells matrices of one or two rows from larger ones.     *)
(* m.flaw records that one of the places listed in the README was reached  *)
(* where the program departs from its own rules of ownership.              *)
(***************************************************************************)
BadSize(m) == m.o = "size"
BadNumber(m) == m.o \in {"math", "smallmath"}
Small(m) == m.o \in {"small", "smallmath", "tiny"}
NumericError(m) == IF BadNumber(m) THEN "math" ELSE "none"
Flawed(m) == [m EXCEPT !.flaw = TRUE]

(* The error of the first check that fails, of <<condition, error>> pairs. *)
FirstOf(checks) ==
  LET bad == {i \in DOMAIN checks : checks[i][1]}
  IN IF bad = {} THEN "none" ELSE checks[Min(bad)][2]

(* What commands return on a value of the wrong type.                      *)
WrongType(v) == IF v.t = "str" THEN "alpha" ELSE "type"
==============================================================================
