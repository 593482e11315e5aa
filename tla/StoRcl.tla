------------------------------- MODULE StoRcl -------------------------------
(***************************************************************************)
(* Store, recall and element-wise arithmetic: core_sto_rcl.cc, with the    *)
(* arguments of a command from core_helpers.cc.                            *)
(*                                                                         *)
(* An argument is a register (num), a stack level (stk, its distance l     *)
(* from X), a variable (str, its name n), or one of the three indirectly.  *)
(***************************************************************************)
EXTENDS Linalg

Num == [NoArg EXCEPT !.k = "num"]
Stk(l) == [NoArg EXCEPT !.k = "stk", !.l = l]
Str(n) == [NoArg EXCEPT !.k = "str", !.n = n]
Ind(arg) == [arg EXCEPT !.k = CASE @ = "num" -> "indnum" [] @ = "stk" -> "indstk" [] @ = "str" -> "indstr"]
Indirect(arg) == arg.k \in {"indnum", "indstk", "indstr"}

(* An error, or what the argument stands for: a number is a register, a    *)
(* string a name, here that of the variable A.                             *)
resolve_ind_arg(m, arg) ==
  LET regs == m.vars["REGS"]
      v == IF arg.k = "indstk" THEN (IF NoLevel(m, arg.l) THEN Null ELSE Level(m, arg.l)) ELSE m.vars[arg.n]
      No(e) == [e |-> e, arg |-> arg]
      Is(new) == IF BadSize(m) THEN No("restricted") ELSE [e |-> "none", arg |-> new]
  IN CASE arg.k = "indnum" /\ (regs = Null \/ BadSize(m)) -> No("size")
       [] arg.k = "indnum" /\ regs # Null /\ ~BadSize(m) ->
            IF regs.t # "rmat" THEN No("type") ELSE Is(IF contains_strings(m, regs) THEN Str("A") ELSE Num)
       [] arg.k # "indnum" /\ v = Null -> No("nonexistent")
       [] OTHER -> CASE v.t = "real" -> [e |-> "none", arg |-> Num]
                     [] v.t = "str" -> Is(Str("A"))
                     [] OTHER -> No("type")

(* arg_to_num(): for commands that take a number.                          *)
arg_to_num_error(m, arg) ==
  IF ~Indirect(arg) THEN "none"
  ELSE LET r == resolve_ind_arg(m, arg) IN IF r.e = "none" /\ r.arg.k # "num" THEN "type" ELSE r.e

(* The direct argument that arg stands for, and what Go makes of it.       *)
Direct(m, arg) == IF Indirect(arg) THEN resolve_ind_arg(m, arg) ELSE [e |-> "none", arg |-> arg]
Resolved(m, arg, Go(_)) ==
  LET d == Direct(m, arg) IN IF d.e # "none" THEN Fail(m, d.e) ELSE Go(d.arg)

assert_numeric(v) == IF v.t \in {"real", "cpx"} \cup Matrices THEN "none" ELSE WrongType(v)

(***************************************************************************)
(* Element-wise functions.  The result is allocated before strings in the  *)
(* operands are looked for and before the elements are computed, and freed *)
(* when one of those fails; a number is allocated after it is computed.    *)
(***************************************************************************)
Mapped(m, t, e) ==
  LET new == NewOf(m, t)
      checks == IF t \in Matrices THEN << <<new.v = Null, "memory">>, <<e # "none", e>> >>
                ELSE << <<e # "none", e>>, <<new.v = Null, "memory">> >>
      error == FirstOf(checks)
      n == IF t \in Matrices \/ e = "none" THEN new.m ELSE m
  IN IF error = "none" THEN Due(n, error, new.v)
     ELSE Due(IF t \in Matrices THEN free_vartype(n, new.v) ELSE n, error, Null)

Strings(m, v) == v.t = "rmat" /\ contains_strings(m, v)

map_unary(m, src) ==
  Mapped(m, src.t, FirstOf(<< <<Strings(m, src), "alpha">>, <<NumericError(m) # "none", NumericError(m)>> >>))

ResultType(v, w) ==
  LET cx == {v.t, w.t} \cap {"cpx", "cmat"} # {}
  IN IF {v.t, w.t} \cap Matrices # {} THEN MatrixOf(cx) ELSE NumberOf(cx)

StringsOrNumbers(m, v, w) ==
  FirstOf(<< <<Strings(m, v) \/ Strings(m, w), "alpha">>, <<NumericError(m) # "none", NumericError(m)>> >>)

map_number(m, v, w) == Mapped(m, ResultType(v, w), StringsOrNumbers(m, v, w))
map_matrix(m, v, w) ==
  IF w.t \in Matrices /\ BadSize(m) THEN Due(m, "dimension", Null)
  ELSE Mapped(m, ResultType(v, w), StringsOrNumbers(m, v, w))

map_binary(m, v, w) == IF v.t \in Matrices THEN map_matrix(m, v, w) ELSE map_number(m, v, w)

Then(m, c, v, dst) == [m EXCEPT !.later = [k |-> c, v |-> v, dst |-> dst]]
BothMatrices(v, w) == v.t \in Matrices /\ w.t \in Matrices

(* generic_div(px, py, completion) is py / px.                             *)
generic_div(m, px, py) == IF BothMatrices(px, py) THEN linalg_div(m, py, px) ELSE map_binary(m, px, py)
generic_mul(m, px, py) == IF BothMatrices(px, py) THEN linalg_mul(m, py, px) ELSE map_binary(m, px, py)
generic_sub(m, px, py) == map_binary(m, px, py)
generic_add(m, px, py) == map_binary(m, px, py)

(* One of the four on its operands, and what the command that asked for it *)
(* makes of it; or the end of a command that has none.                     *)
Operands(m, px, py) == [m |-> m, go |-> TRUE, px |-> px, py |-> py]
Without(m) == [m |-> m, go |-> FALSE]
Arithmetic(r, op) ==
  IF ~r.go THEN r.m
  ELSE Complete(CASE op = "/" -> generic_div(r.m, r.px, r.py)
                  [] op = "*" -> generic_mul(r.m, r.px, r.py)
                  [] op = "-" -> generic_sub(r.m, r.px, r.py)
                  [] op = "+" -> generic_add(r.m, r.px, r.py))

(***************************************************************************)
(* Recall: the state, and the error or a value of the caller's own.        *)
(***************************************************************************)
generic_rcl(m, arg) ==
  LET No(e) == [m |-> m, e |-> e, v |-> Null]
      Got(r) == [m |-> r.m, e |-> IF r.v = Null THEN "memory" ELSE "none", v |-> r.v]
      regs == m.vars["REGS"]
      Register(v) == Got(NewPlain(m, IF v.t = "cmat" THEN "cpx" ELSE IF Strings(m, v) THEN "str" ELSE "real"))
      Value(a) ==
        CASE a.k = "num" -> IF regs = Null \/ BadSize(m) THEN No("size") ELSE Register(regs)
          [] a.k = "stk" -> IF NoLevel(m, a.l) THEN No("depth") ELSE Got(dup_vartype(m, Level(m, a.l)))
          [] a.k = "str" -> IF m.vars[a.n] = Null THEN No("nonexistent") ELSE Got(dup_vartype(m, m.vars[a.n]))
      d == Direct(m, arg)
  IN IF d.e # "none" THEN No(d.e) ELSE Value(d.arg)

(***************************************************************************)
(* Store.                                                                  *)
(***************************************************************************)
apply_sto_operation(m, op, oldval, dst) ==
  LET e == assert_numeric(oldval)
      room == NewAll(m, <<"raw">>)
  IN IF e # "none" THEN Without(Fail(m, e))
     ELSE IF ~room.ok THEN Without(NoMemory(room.m))
     ELSE Operands(Then(room.m, "sto", Null, dst), X(m), oldval)

(* An element of REGS, of an array of its own; a string needs room.        *)
RegisterError(m, regs, op) ==
  FirstOf(<< <<regs = Null \/ BadSize(m), "size">>,
             <<regs.t = "rmat" /\ X(m).t \notin {"real", "str"}, "type">>,
             <<regs.t = "cmat" /\ X(m).t \notin {"real", "cpx"}, WrongType(X(m))>> >>)

TextInRegister(text, own) == IF text.ok THEN SetStrings(text.m, own, TRUE) ELSE NoMemory(text.m)
WriteRegister(m, own, op) ==
  CASE X(m).t = "str" -> TextInRegister(NewAll(m, <<"raw">>), own)
    [] X(m).t # "str" /\ op = "=" -> SetStrings(m, own, FALSE)
    [] OTHER -> IF Strings(m, own) THEN Fail(m, "alpha")
                ELSE IF BadNumber(m) THEN Fail(m, "math") ELSE Written(m, own)
OwnRegister(own, op) ==
  IF own.v = Null THEN NoMemory(own.m) ELSE WriteRegister([own.m EXCEPT !.vars["REGS"] = own.v], own.v, op)
RegisterChecked(m, op, e) == IF e # "none" THEN Fail(m, e) ELSE OwnRegister(disentangle(m, m.vars["REGS"]), op)
StoreRegister(m, op) == RegisterChecked(m, op, RegisterError(m, m.vars["REGS"], op))

(* A mutant: the zero is put in its place before there is room for it.     *)
StoreLevelEarly(m, l) ==
  LET off == IF l > Sp(m) - 1 THEN l - (Sp(m) - 1) ELSE 0
  IN OrNoMemory(dup_vartype(m, X(m)), LAMBDA d, v :
       LET zero == new_real(d)
           room == NewAll(zero.m, <<"raw">>)
           s == IF off = 0 THEN d ELSE [room.m EXCEPT !.stk = <<zero.v>> \o @]
       IN IF off > 1 \/ zero.v = Null THEN NoMemory(free_vartype(d, v))
          ELSE IF off = 1 /\ ~room.ok THEN NoMemory(free_vartype(s, v))
          ELSE SetLevel(free_vartype(s, Level(s, l)), l, v))

(* A level that does not exist yet: the stack is shifted up and filled     *)
(* with zeros, or shifted back when there is no memory for one of them.    *)
StoreLevel(m, l) ==
  LET off == IF l > Sp(m) - 1 THEN l - (Sp(m) - 1) ELSE 0
  IN OrNoMemory(dup_vartype(m, X(m)), LAMBDA d, v :
       LET zeros == NewAll(d, (IF off > 0 THEN <<"raw">> ELSE << >>) \o [i \in 1 .. off |-> "real"])
           s == IF off = 0 THEN d ELSE [zeros.m EXCEPT !.stk = Tail(zeros.vs) \o @]
       IN IF ~zeros.ok THEN NoMemory(free_vartype(zeros.m, v))
          ELSE SetLevel(free_vartype(s, Level(s, l)), l, v))

FreedUnlessStored(m, v) == IF m.err # "none" THEN free_vartype(m, v) ELSE m
StoreCopyIn(d, n) == IF d.v = Null THEN NoMemory(d.m) ELSE FreedUnlessStored(store_var(d.m, n, d.v), d.v)
StoreVariable(m, n) ==
  IF (n = "REGS" /\ X(m).t \notin Matrices) \/ (m.ed.mode = 3 /\ m.ed.name = n) THEN Fail(m, "restricted")
  ELSE StoreCopyIn(dup_vartype(m, X(m)), n)

(* STO with op "=", STO/ and its like with the others.                     *)
Stored(m, a) ==
  CASE a.k = "num" -> StoreRegister(m, "=")
    [] a.k = "stk" -> IF a.l = 0 THEN m ELSE StoreLevel(m, a.l)
    [] a.k = "str" -> StoreVariable(m, a.n)

Combined(m, a, op) ==
  LET old == IF a.k = "stk" THEN Level(m, a.l) ELSE m.vars[a.n]
      locked == op = "*" /\ X(m).t \in Matrices /\ m.ed.mode = 3 /\ m.ed.name = a.n
  IN CASE X(m).t = "str" -> Without(Fail(m, "alpha"))
       [] X(m).t # "str" /\ a.k = "num" -> Without(StoreRegister(m, op))
       [] X(m).t # "str" /\ a.k = "stk" /\ NoLevel(m, a.l) -> Without(Fail(m, "depth"))
       [] OTHER -> IF a.k = "str" /\ old = Null THEN Without(Fail(m, "nonexistent"))
                   ELSE IF a.k = "str" /\ locked THEN Without(Fail(m, "restricted"))
                   ELSE apply_sto_operation(m, op, old, a)

generic_sto(m, arg) == LET d == Direct(m, arg) IN IF d.e # "none" THEN Fail(m, d.e) ELSE Stored(m, d.arg)
generic_sto_with(m, arg, op) ==
  LET d == Direct(m, arg) IN IF d.e # "none" THEN Without(Fail(m, d.e)) ELSE Combined(m, d.arg, op)
==============================================================================
