----------------------------- MODULE Commands3 -----------------------------
(***************************************************************************)
(* core_commands3.cc and core_commands4.cc: hyperbolics, vectors and       *)
(* matrices, and the editing commands that module Matedit does not hold.   *)
(***************************************************************************)
EXTENDS Commands1

(* A function that leaves its domain for the complex numbers: whether this *)
(* number does is the choice "small".                                      *)
RealOrComplex(m) ==
  IF X(m).t = "real" /\ m.o = "small" THEN OrNoMemory(new_complex(m), unary_result) ELSE Unary(m)

NewReal(m, Result(_, _)) ==
  LET r == new_real(m)
  IN IF BadNumber(m) THEN Fail(m, "math") ELSE IF r.v = Null THEN NoMemory(r.m) ELSE Result(r.m, r.v)

docmd_acosh(m) == RealOrComplex(m)
docmd_aleng(m) == OrNoMemory(new_real(m), recall_result)
docmd_arot(m) == m
docmd_asinh(m) == Unary(m)
docmd_atanh(m) == RealOrComplex(m)
docmd_atox(m) == OrNoMemory(new_real(m), recall_result)
docmd_cosh(m) == Unary(m)
docmd_hmsadd(m) == NewReal(m, binary_result)
docmd_hmssub(m) == NewReal(m, binary_result)

(* CROSS and DOT, of complex numbers or of matrices read as vectors.       *)
VectorError(m) ==
  FirstOf(<< <<BadSize(m), "dimension">>, <<Strings(m, X(m)) \/ Strings(m, Y(m)), "alpha">>,
             <<BadNumber(m), "math">> >>)

docmd_cross(m) ==
  CASE "str" \in {X(m).t, Y(m).t} -> Fail(m, "alpha")
    [] X(m).t = "cpx" /\ Y(m).t = "cpx" -> NewReal(m, binary_result)
    [] X(m).t = "rmat" /\ Y(m).t = "rmat" ->
         IF VectorError(m) # "none" THEN Fail(m, VectorError(m)) ELSE OrNoMemory(new_realmatrix(m), binary_result)
    [] OTHER -> Fail(m, "type")

docmd_dot(m) ==
  CASE "str" \in {X(m).t, Y(m).t} -> Fail(m, "alpha")
    [] BothMatrices(X(m), Y(m)) ->
         IF VectorError(m) # "none" THEN Fail(m, VectorError(m))
         ELSE OrNoMemory(NewOf(m, NumberOf(IsComplex(X(m)) \/ IsComplex(Y(m)))), binary_result)
    [] X(m).t = "cpx" /\ Y(m).t = "cpx" -> NewReal(m, binary_result)
    [] OTHER -> Fail(m, "type")

docmd_det(m) == Complete(linalg_det(Then(m, "unary", Null, NoArg), X(m)))
docmd_invrt(m) == Complete(linalg_inv(Then(m, "unary", Null, NoArg), X(m)))

(* e^x - 1 of a real is real, of a complex number complex.                 *)
docmd_e_pow_x_1(m) == Unary(m)
docmd_ln_1_x(m) == Unary(m)

(* Their rows of the table ask for no argument, and so for no type.        *)
Unasked(m, Function(_)) ==
  IF Sp(m) = 0 THEN Flawed(Fail(m, "internal"))
  ELSE IF X(m).t \in {"str", "list"} THEN Fail(m, "internal") ELSE Function(m)
docmd_c_e_pow_x_1(m) == Unasked(m, Unary)
docmd_c_ln_1_x(m) == Unasked(m, RealOrComplex)
docmd_sinh(m) == Unary(m)
docmd_tanh(m) == Unary(m)

(* FNRM and RNRM: a norm, in range or not.                                 *)
Norm(m) == IF Strings(m, X(m)) THEN Fail(m, "alpha") ELSE NewReal(m, unary_result)
docmd_fnrm(m) == Norm(m)
docmd_rnrm(m) == Norm(m)

docmd_rsum(m) ==
  IF X(m).t \notin Matrices THEN Fail(m, WrongType(X(m)))
  ELSE Deliver(map_unary(m, X(m)), unary_result)

docmd_trans(m) ==
  LET new == NewArray(m, X(m).t, m.arr[X(m).a].str, << >>)
      texts == Blocks(new.m, IF Strings(m, X(m)) THEN 1 ELSE 0)
  IN CASE new.v = Null -> NoMemory(new.m)
       [] new.v # Null /\ ~texts.ok -> NoMemory(free_vartype(texts.m, new.v))
       [] OTHER -> unary_result(texts.m, new.v)

docmd_uvec(m) ==
  IF X(m).t = "cpx" THEN IF BadNumber(m) THEN Fail(m, "math") ELSE OrNoMemory(new_complex(m), unary_result)
  ELSE IF Strings(m, X(m)) THEN Fail(m, "alpha")
  ELSE IF BadNumber(m) THEN Fail(m, "math") ELSE OrNoMemory(new_realmatrix(m), unary_result)

docmd_posa(m) == IF X(m).t \in ArrayTypes \cup {"cpx"} THEN Fail(m, "invalid") ELSE OrNoMemory(new_real(m), unary_result)
docmd_percent_ch(m) == NewReal(m, unary_result)

(* X<>: recall, store, and only then replace X.                            *)
Swapped(m, v) == IF m.err # "none" THEN free_vartype(m, v) ELSE SetX(free_vartype(m, X(m)), v)
docmd_x_swap(m, arg) == Deliver(generic_rcl(m, arg), LAMBDA n, v : Swapped(generic_sto(n, arg), v))

docmd_arrow(m, dir) == matedit_move(m, dir)   \* docmd_left() and its like
docmd_max(m) == max_min_helper(m)
docmd_min(m) == max_min_helper(m)
============================================================================
