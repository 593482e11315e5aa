----------------------------- MODULE Commands6 -----------------------------
(***************************************************************************)
(* core_commands6.cc: transcendental functions, and the flags as numbers.  *)
(* A real function outside of its domain gives an error or a complex       *)
(* number, as the flag real_result_only says; that is the choice "small".  *)
(***************************************************************************)
EXTENDS Commands5

docmd_sin(m) == Unary(m)
docmd_cos(m) == Unary(m)
docmd_tan(m) == Unary(m)
docmd_asin(m) == RealOrComplex(m)
docmd_acos(m) == RealOrComplex(m)
docmd_atan(m) == Unary(m)
docmd_log(m) == RealOrComplex(m)
docmd_10_pow_x(m) == Unary(m)
docmd_ln(m) == RealOrComplex(m)
docmd_e_pow_x(m) == Unary(m)
docmd_sqrt(m) == RealOrComplex(m)
docmd_square(m) == Unary(m)
docmd_inv(m) == Unary(m)

(* A negative number to a power that is no integer is complex.             *)
docmd_y_pow_x(m) ==
  LET types == {X(m).t, Y(m).t}
      real == types = {"real"} /\ m.o # "small"
  IN CASE "str" \in types -> Fail(m, "alpha")
       [] "str" \notin types /\ ~ types \subseteq {"real", "cpx"} -> Fail(m, "type")
       [] OTHER -> IF BadNumber(m) THEN Fail(m, "math")
                   ELSE OrNoMemory(IF real THEN new_real(m) ELSE new_complex(m), binary_result)

(* ANUM: without a number in the Alpha register, nothing.                  *)
docmd_anum(m) == IF m.o = "same" THEN m ELSE OrNoMemory(new_real(m), recall_result)

docmd_x_swap_f(m) == IF BadNumber(m) THEN Fail(m, "math") ELSE m
docmd_rclflag(m) == OrNoMemory(new_complex(m), recall_result)

(* STOFLAG: flag 30 is the stack lift, which the command then disables.    *)
docmd_stoflag(m) ==
  LET OfFlags(v) == IF v.t = "str" THEN "alpha" ELSE IF v.t = "cpx" THEN "none" ELSE "invalid"
      e == IF X(m).t = "real" THEN OfFlags(Y(m)) ELSE OfFlags(X(m))
  IN IF e # "none" THEN Fail(m, e) ELSE IF BadNumber(m) THEN Fail(m, "math")
     ELSE IF m.o = "one" THEN NoStackLift(m) ELSE m
============================================================================
