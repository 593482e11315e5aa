----------------------------- MODULE Commands5 -----------------------------
(***************************************************************************)
(* core_commands5.cc: statistics, and integers of a given word size.  What *)
(* the integer commands compute is the subject of module BaseArith; here   *)
(* they are commands that take numbers and deliver results.                *)
(***************************************************************************)
EXTENDS Commands2

(***************************************************************************)
(* Statistics read the summation registers, elements of REGS.              *)
(***************************************************************************)
get_summation_error(m) ==
  LET regs == m.vars["REGS"]
  IN CASE regs = Null -> "size"
       [] regs # Null /\ regs.t # "rmat" -> "type"
       [] OTHER -> IF BadSize(m) THEN "size" ELSE IF Strings(m, regs) THEN "alpha" ELSE "none"

StatisticsError(m) == IF get_summation_error(m) # "none" THEN get_summation_error(m) ELSE NumericError(m)

(* A model needs logarithms of the data, which may not have been taken.    *)
get_model_summation_error(m) ==
  IF get_summation_error(m) # "none" THEN get_summation_error(m) ELSE IF m.o = "small" THEN "model" ELSE "none"
corr_helper_error(m) == IF get_model_summation_error(m) # "none" THEN get_model_summation_error(m) ELSE NumericError(m)
slope_yint_helper_error(m) == NumericError(m)
ModelError(m) ==
  IF get_model_summation_error(m) # "none" THEN get_model_summation_error(m) ELSE slope_yint_helper_error(m)

Recalled1(m, e) == IF e # "none" THEN Fail(m, e) ELSE OrNoMemory(new_real(m), recall_result)

docmd_best(m) == IF get_summation_error(m) # "none" THEN Fail(m, get_summation_error(m)) ELSE m
docmd_corr(m) == Recalled1(m, corr_helper_error(m))
docmd_slope(m) == Recalled1(m, ModelError(m))
docmd_wmean(m) == Recalled1(m, StatisticsError(m))
docmd_yint(m) == Recalled1(m, ModelError(m))

Forecast(m) ==
  IF ModelError(m) # "none" THEN Fail(m, ModelError(m))
  ELSE IF X(m).t \in {"real", "rmat"} THEN Unary(m) ELSE Fail(m, WrongType(X(m)))
docmd_fcstx(m) == Forecast(m)
docmd_fcsty(m) == Forecast(m)

(* MEAN, SDEV and SUM overwrite X and Y of a stack of four levels.         *)
TwoMeans(m, x, y) ==
  IF m.big THEN recall_two_results(m, x, y) ELSE binary_two_results(m, x, y)
docmd_mean(m) ==
  IF StatisticsError(m) # "none" THEN Fail(m, StatisticsError(m))
  ELSE OrNone(NewAll(m, <<"real", "real">>), LAMBDA n, vs : TwoMeans(n, vs[1], vs[2]))
docmd_sum(m) ==
  IF get_summation_error(m) # "none" THEN Fail(m, get_summation_error(m))
  ELSE OrNone(NewAll(m, <<"real", "real">>), LAMBDA n, vs : TwoMeans(n, vs[1], vs[2]))

(* When it is the deviation of y that does not exist, that of x is lost.   *)
docmd_sdev(m) ==
  CASE get_summation_error(m) # "none" -> Fail(m, get_summation_error(m))
    [] get_summation_error(m) = "none" /\ m.o = "math" -> Fail(m, "math")
    [] get_summation_error(m) = "none" /\ m.o = "smallmath" ->
         OrNoMemory(new_real(m), LAMBDA n, sx : Fail(Flawed(n), "math"))
    [] OTHER -> OrNone(NewAll(m, <<"real", "real">>), LAMBDA n, vs : TwoMeans(n, vs[1], vs[2]))

(* INTEG and SOLVE check their argument; module CallStack goes on.         *)
docmd_integ(m, arg) == Resolved(m, arg, LAMBDA a : IF a.k = "str" THEN m ELSE Fail(m, "type"))

docmd_solve(m, arg) ==
  Resolved(m, arg, LAMBDA a :
    LET v == m.vars[a.n]
    IN CASE a.k # "str" -> Fail(m, "type")
         [] a.k = "str" /\ v # Null /\ v.t # "real" -> Fail(m, WrongType(v))
         [] OTHER -> IF X(m).t = "real" THEN m ELSE Fail(m, WrongType(X(m))))

(* Sigma+ and Sigma- add to elements of REGS, which is not disentangled.   *)
sigma_helper_2(m) ==
  LET regs == m.vars["REGS"] IN IF m.arr[regs.a].rc # 1 THEN Flawed(m) ELSE Written(m, regs)

sigma_helper_1(m) ==
  LET e == IF X(m).t = "rmat"
           THEN FirstOf(<< <<BadNumber(m), "dimension">>, <<Strings(m, X(m)), "alpha">> >>)
           ELSE IF Sp(m) > 1 /\ Y(m).t # "real" THEN WrongType(Y(m)) ELSE "none"
  IN CASE get_summation_error(m) # "none" -> Fail(m, get_summation_error(m))
       [] get_summation_error(m) = "none" /\ e # "none" -> Fail(m, e)
       [] OTHER -> OrNoMemory(new_real(m), LAMBDA n, x : NoStackLift(unary_result(sigma_helper_2(n), x)))

docmd_sigmaadd(m) == sigma_helper_1(m)
docmd_sigmasub(m) == sigma_helper_1(m)

(***************************************************************************)
(* Integers: a number that is not an integer of the word size is refused.  *)
(***************************************************************************)
docmd_and(m) == NewReal(m, binary_result)
docmd_or(m) == NewReal(m, binary_result)
docmd_xor(m) == NewReal(m, binary_result)
docmd_not(m) == NewReal(m, unary_result)
docmd_bit_t(m) == IF BadNumber(m) THEN Fail(m, "math") ELSE Answer(m)
docmd_rotxy(m) == NewReal(m, binary_result)
docmd_baseadd(m) == NewReal(m, binary_result)
docmd_basesub(m) == NewReal(m, binary_result)
docmd_basemul(m) == NewReal(m, binary_result)
docmd_basediv(m) == NewReal(m, binary_result)
docmd_basechs(m) == IF BadNumber(m) THEN Fail(m, "math") ELSE m

sl(m) == NewReal(m, unary_result)
sr(m) == NewReal(m, unary_result)
sln(m) == NewReal(m, binary_result)
srn(m) == NewReal(m, binary_result)
rl(m) == NewReal(m, unary_result)
rr(m) == NewReal(m, unary_result)
rn(m) == NewReal(m, binary_result)
docmd_num_b(m) == NewReal(m, unary_result)
make_mask(m) == NewReal(m, unary_result)

(* LJ and RJ: both results are asked for before either is looked at.       *)
Justified(m) ==
  LET x == new_real(m)
      y == new_real(x.m)
  IN IF BadNumber(m) THEN Fail(m, "math")
     ELSE IF x.v = Null \/ y.v = Null THEN NoMemory(FreeAll(y.m, <<x.v, y.v>>))
     ELSE unary_two_results(y.m, x.v, y.v)
docmd_lj(m) == Justified(m)
docmd_rj(m) == Justified(m)

(* SB, CB and B?: the bit X of Y; B? answers only if X could be dropped.   *)
bit(m, test) ==
  IF BadNumber(m) THEN Fail(m, "math") ELSE IF test THEN unary_no_result(m) ELSE NewReal(m, binary_result)

(* N->BS and so on: bits that fit the word are a number, others a text.    *)
bits2result(m) == OrNoMemory(IF m.o = "small" THEN new_string(m) ELSE new_real(m), unary_result)
docmd_n_to_bits(m) == bits2result(m)
docmd_bits_to_n(m) == NewReal(m, unary_result)

docmd_wsize(m) == IF BadNumber(m) THEN Fail(m, "math") ELSE m
docmd_wsize_t(m) == OrNoMemory(new_real(m), recall_result)
docmd_to_dec(m) == NewReal(m, unary_result)
docmd_to_oct(m) == NewReal(m, unary_result)
============================================================================
