------------------------------- MODULE Linalg -------------------------------
(***************************************************************************)
(* Matrix division, product, inverse and determinant: core_linalg1.cc and  *)
(* core_linalg2.cc.                                                        *)
(*                                                                         *)
(* The long ones run as an interruptible job, m.job: the worker core_main  *)
(* calls again and again (at) for an operation (k), the matrices the job   *)
(* owns (a: the copy that is decomposed, or the inverse that small_div()   *)
(* multiplies by; b: the result) and the operands that it only reads, call *)
(* after call: both of a product (l, r), the left one of a division (l).   *)
(* When it ends it calls the completion routine of the command that        *)
(* started it, m.later, which may own a value itself (v).                  *)
(***************************************************************************)
EXTENDS RpnStack

CONSTANTS SingularMatrix,   \* core_settings.matrix_singularmatrix, as the user set it
          MatrixOutOfRange, \* core_settings.matrix_outofrange
          RangeErrorIgnore  \* flags.f.range_error_ignore

ASSUME SettingsAssumption == {SingularMatrix, MatrixOutOfRange, RangeErrorIgnore} \subseteq BOOLEAN

OutOfRange == MatrixOutOfRange /\ ~RangeErrorIgnore

NoJob == [k |-> "none", at |-> "none", a |-> Null, b |-> Null, l |-> Null, r |-> Null]
NoArg == [k |-> "none", l |-> 0, n |-> "none"]
NoCompletion == [k |-> "none", v |-> Null, dst |-> NoArg]
Ended(m) == [m EXCEPT !.job = NoJob]
Job(m, k, at, a, b, l, r) == [m EXCEPT !.job = [k |-> k, at |-> at, a |-> a, b |-> b, l |-> l, r |-> r]]

(***************************************************************************)
(* The completion routines: docmd_div_completion() and its like (binary),  *)
(* those of INVRT and DET (unary), of RCL/ and RCLx, which own temp_v      *)
(* (rcl), and of STO/ and STOx (sto).                                      *)
(***************************************************************************)
generic_sto_completion(m, dst, e, v) ==
  CASE e # "none" -> Fail(m, e)
    [] e = "none" /\ dst.k = "stk" -> SetLevel(free_vartype(m, Level(m, dst.l)), dst.l, v)
    [] OTHER -> [free_vartype(m, m.vars[dst.n]) EXCEPT !.vars[dst.n] = v]

docmd_div_completion(m, e, v) == IF e # "none" THEN Fail(m, e) ELSE binary_result(m, v)

docmd_rcl_div_completion(m, temp_v, e, v) ==
  LET n == free_vartype(m, temp_v) IN IF e # "none" THEN Fail(n, e) ELSE unary_result(n, v)

invrt_completion(m, e, v) == IF e # "none" THEN Fail(m, e) ELSE unary_result(m, v)

(* Completion is due with error e or value v, or it is not: the job goes   *)
(* on, or has ended without it.                                            *)
Due(m, e, v) == [m |-> m, due |-> TRUE, e |-> e, v |-> v]
NotDue(m) == [m |-> m, due |-> FALSE, e |-> "none", v |-> Null]

Complete(r) ==
  LET c == r.m.later
      n == [r.m EXCEPT !.later = NoCompletion]
  IN CASE ~r.due -> r.m
       [] r.due /\ c.k = "binary" -> docmd_div_completion(n, r.e, r.v)
       [] r.due /\ c.k = "unary"  -> invrt_completion(n, r.e, r.v)
       [] r.due /\ c.k = "rcl"    -> docmd_rcl_div_completion(n, c.v, r.e, r.v)
       [] r.due /\ c.k = "sto"    -> generic_sto_completion(n, c.dst, r.e, r.v)

(* The job ends without its completion routine: what that owns is lost.    *)
Forgotten(m, e) ==
  LET n == Fail([m EXCEPT !.later = NoCompletion], e)
  IN IF m.later.v = Null THEN n ELSE Flawed(n)

IsComplex(v) == v.t = "cmat"
MatrixOf(cx) == IF cx THEN "cmat" ELSE "rmat"
NumberOf(cx) == IF cx THEN "cpx" ELSE "real"

(***************************************************************************)
(* Product, a function and a worker for each combination of real and       *)
(* complex operands, which its data points to.  extra is freed with the    *)
(* job: small_div_completion_2().                                          *)
(***************************************************************************)
Multiply(m, worker, left, right, t, strings, extra) ==
  LET e == FirstOf(<< <<BadSize(m), "dimension">>, <<strings, "alpha">> >>)
      new == NewAll(m, <<"raw", t>>)
  IN IF e # "none" THEN Due(free_vartype(m, extra), e, Null)
     ELSE IF ~new.ok THEN Due(free_vartype(new.m, extra), "memory", Null)
     ELSE NotDue(Job(new.m, "mul", worker, extra, new.vs[2], left, right))

matrix_mul_rr(m, left, right, extra) ==
  Multiply(m, "mul_rr", left, right, "rmat", contains_strings(m, left) \/ contains_strings(m, right), extra)
matrix_mul_rc(m, left, right, extra) == Multiply(m, "mul_rc", left, right, "cmat", contains_strings(m, left), extra)
matrix_mul_cr(m, left, right, extra) == Multiply(m, "mul_cr", left, right, "cmat", contains_strings(m, right), extra)
matrix_mul_cc(m, left, right, extra) == Multiply(m, "mul_cc", left, right, "cmat", FALSE, extra)

Multiplied(m, outcome) ==
  LET n == free_vartype(Ended(m), m.job.a)
  IN CASE outcome = "interrupted" -> Due(free_vartype(n, m.job.b), "interrupted", Null)
       [] outcome = "overflow" /\ OutOfRange -> Due(free_vartype(n, m.job.b), "math", Null)
       [] OTHER -> Due(n, "none", m.job.b)

matrix_mul_rr_worker(m, outcome) == Multiplied(m, outcome)
matrix_mul_rc_worker(m, outcome) == Multiplied(m, outcome)
matrix_mul_cr_worker(m, outcome) == Multiplied(m, outcome)
matrix_mul_cc_worker(m, outcome) == Multiplied(m, outcome)

Product(m, left, right, extra) ==
  CASE left.t = "rmat" /\ right.t = "rmat" -> matrix_mul_rr(m, left, right, extra)
    [] left.t = "rmat" /\ right.t = "cmat" -> matrix_mul_rc(m, left, right, extra)
    [] left.t = "cmat" /\ right.t = "rmat" -> matrix_mul_cr(m, left, right, extra)
    [] left.t = "cmat" /\ right.t = "cmat" -> matrix_mul_cc(m, left, right, extra)

linalg_mul(m, left, right) == Product(m, left, right, Null)

(***************************************************************************)
(* Inverse of a matrix of one or two rows, without a job: the state, and   *)
(* the error or the value.  Of two rows: the determinant divided by the    *)
(* matrix, element by element.                                             *)
(***************************************************************************)
InverseError(m, ma, new) ==
  FirstOf(<< <<BadNumber(m) /\ SingularMatrix, "singular">>, <<~new.ok, "memory">>,
             <<m.o # "tiny" /\ contains_strings(m, ma), "alpha">>, <<BadNumber(m), "math">> >>)

InverseOf(m, new, e) ==
  CASE e = "singular" -> Due(m, e, Null)
    [] e \in {"memory", "alpha", "math"} -> Due(FreeAll(new.m, new.vs), e, Null)
    [] OTHER -> Due(FreeAll(new.m, Tail(new.vs)), e, Head(new.vs))

small_inv_of(m, ma, new) == InverseOf(m, new, InverseError(m, ma, new))
small_inv_r(m, ma) == small_inv_of(m, ma, NewAll(m, IF m.o = "tiny" THEN <<"rmat">> ELSE <<"rmat", "real">>))
small_inv_c(m, ma) == small_inv_of(m, ma, NewAll(m, IF m.o = "tiny" THEN <<"cmat">> ELSE <<"cmat", "cpx">>))
small_inv(m, ma) == IF IsComplex(ma) THEN small_inv_c(m, ma) ELSE small_inv_r(m, ma)

DividedBy(r, left) == IF r.e # "none" THEN r ELSE Product(r.m, r.v, left, r.v)

(* small_div() does not look for strings: a 1x1 divisor that holds one is  *)
(* taken for a number.                                                     *)
small_div(m, left, right) ==
  DividedBy(small_inv(IF m.o = "tiny" /\ contains_strings(m, right) THEN Flawed(m) ELSE m, right), left)

(***************************************************************************)
(* Decomposition and back-substitution.                                    *)
(***************************************************************************)
BackSubstituted(m, e) ==
  LET n == free_vartype(Ended(m), m.job.a)
  IN IF e = "none" THEN Due(n, e, m.job.b) ELSE Due(free_vartype(n, m.job.b), e, Null)

div_completion2(m, e) == BackSubstituted(m, e)
inv_completion2(m, e) == BackSubstituted(m, e)
completion2(m, e) == IF m.job.k = "div" THEN div_completion2(m, e) ELSE inv_completion2(m, e)

BackSubstitute(m, worker) ==
  IF Exhausted(m) THEN completion2(Charged(m), "memory") ELSE NotDue([Charged(m) EXCEPT !.job.at = worker])

lu_backsubst_rr(m) == BackSubstitute(m, "bs_rr")
lu_backsubst_rc(m) == BackSubstitute(m, "bs_rc")
lu_backsubst_cc(m) == BackSubstitute(m, "bs_cc")

(* An overflow returns from the middle of the loop: neither is the job     *)
(* completed nor are its matrices freed.                                   *)
Substituted(m, outcome) ==
  CASE outcome = "interrupted" -> completion2(m, "interrupted")
    [] outcome = "overflow" /\ OutOfRange -> NotDue(Flawed(Forgotten(Ended(m), "math")))
    [] OTHER -> completion2(m, "none")

lu_backsubst_rr_worker(m, outcome) == Substituted(m, outcome)
lu_backsubst_rc_worker(m, outcome) == Substituted(m, outcome)
lu_backsubst_cc_worker(m, outcome) == Substituted(m, outcome)

(* Division copies the left operand into the result, whatever               *)
(* matrix_copy() says; on an error its caller's completion is not called.  *)
Divided(m, e, Substitute(_)) ==
  IF e # "none" THEN NotDue(Forgotten(FreeAll(Ended(m), <<m.job.a, m.job.b>>), e))
  ELSE Substitute(IF CopyError(m, m.job.b, m.job.l, TRUE) # "none" THEN Flawed(m) ELSE m)

div_rr_completion1(m, e) == Divided(m, e, lu_backsubst_rr)
div_rc_completion1(m, e) == Divided(m, e, lu_backsubst_cc)
div_cr_completion1(m, e) == Divided(m, e, lu_backsubst_rc)
div_cc_completion1(m, e) == Divided(m, e, lu_backsubst_cc)

Inverted(m, e, Substitute(_)) ==
  IF e # "none" THEN Due(FreeAll(Ended(m), <<m.job.b, m.job.a>>), e, Null) ELSE Substitute(m)

inv_r_completion1(m, e) == Inverted(m, e, lu_backsubst_rr)
inv_c_completion1(m, e) == Inverted(m, e, lu_backsubst_cc)

NewNumber(r) == Due(r.m, IF r.v = Null THEN "memory" ELSE "none", r.v)
Determinant(m, e, overflow, number) ==
  CASE e \notin {"none", "singular"} -> Due(m, e, Null)
    [] e = "none" /\ overflow -> Due(m, "math", Null)
    [] OTHER -> NewNumber(NewPlain(m, number))

(* A mutant: the setting is only restored when there is a determinant.     *)
det_completion_keeps(m, e, overflow, number) ==
  Determinant(free_vartype(IF e = "interrupted" THEN Ended(m) ELSE [Ended(m) EXCEPT !.sm = m.job.l.a = 1], m.job.a), e, overflow, number)

det_completion(m, e, overflow, number) ==
  Determinant(free_vartype([Ended(m) EXCEPT !.sm = m.job.l.a = 1], m.job.a), e, overflow, number)

det_r_completion(m, e, overflow) == det_completion(m, e, overflow, "real")
det_c_completion(m, e, overflow) == det_completion(m, e, overflow, "cpx")

(* What the job was decomposed for.                                        *)
LuDone(m, e, overflow) ==
  LET cx == IsComplex(m.job.a)
  IN CASE m.job.k = "inv" -> IF cx THEN inv_c_completion1(m, e) ELSE inv_r_completion1(m, e)
       [] m.job.k = "det" -> IF cx THEN det_c_completion(m, e, overflow) ELSE det_r_completion(m, e, overflow)
       [] m.job.k = "div" /\ cx -> IF IsComplex(m.job.l) THEN div_cc_completion1(m, e) ELSE div_rc_completion1(m, e)
       [] OTHER -> IF IsComplex(m.job.l) THEN div_cr_completion1(m, e) ELSE div_rr_completion1(m, e)

(* The data of the job and the scale factors.                              *)
Decompose(m, worker) ==
  IF m.nomem \in {1, 2} THEN LuDone([m EXCEPT !.nomem = 0], "memory", FALSE)
  ELSE NotDue([Charged(Charged(m)) EXCEPT !.job.at = worker])

lu_decomp_r(m) == Decompose(m, "lu_r")
lu_decomp_c(m) == Decompose(m, "lu_c")
lu_decomp(m) == IF IsComplex(m.job.a) THEN lu_decomp_c(m) ELSE lu_decomp_r(m)

Overflow(outcome) == outcome = "overflow" /\ ~RangeErrorIgnore

lu_decomp_r_worker(m, outcome) ==
  LuDone(m, CASE outcome = "interrupted" -> "interrupted"
              [] outcome = "singular" /\ m.sm -> "singular"
              [] OTHER -> "none", Overflow(outcome))

(* A singular complex matrix is reported as decomposed, with determinant   *)
(* zero: the permutation that back-substitution then uses is incomplete.   *)
lu_decomp_c_worker(m, outcome) ==
  LuDone(IF outcome = "singular" /\ m.sm /\ m.job.k # "det" THEN Flawed(m) ELSE m,
         IF outcome = "interrupted" THEN "interrupted" ELSE "none", Overflow(outcome))

LargeDiv(new, left, right) ==
  IF ~new.ok THEN Due(new.m, "memory", Null)
  ELSE lu_decomp(Job(IF contains_strings(new.m, right) THEN Flawed(new.m) ELSE new.m, "div", "lu_r", new.vs[2], new.vs[3], left, Null))

linalg_div(m, left, right) ==
  IF BadSize(m) THEN Due(m, "dimension", Null)
  ELSE IF Small(m) THEN small_div(m, left, right)
  ELSE LargeDiv(NewAll(m, <<"raw", MatrixOf(IsComplex(right)), MatrixOf(IsComplex(left) \/ IsComplex(right))>>), left, right)

(* What inverse and determinant refuse before they allocate anything.      *)
SquareError(m, src) == FirstOf(<< <<BadSize(m), "dimension">>, <<contains_strings(m, src), "alpha">> >>)

LargeInv(new) ==
  IF ~new.ok THEN Due(new.m, "memory", Null)
  ELSE lu_decomp(Job(new.m, "inv", "lu_r", new.vs[1], new.vs[2], Null, Null))

linalg_inv(m, src) ==
  LET e == SquareError(m, src)
  IN IF e # "none" THEN Due(m, e, Null)
     ELSE IF Small(m) THEN small_inv(m, src) ELSE LargeInv(NewAll(m, <<src.t, src.t, "raw">>))

small_det_of(m, number) ==
  IF BadNumber(m) THEN Due(m, "math", Null) ELSE NewNumber(NewPlain(m, number))
small_det_r(m) == small_det_of(m, "real")
small_det_c(m) == small_det_of(m, "cpx")

(* The singular matrix setting is on while a determinant is computed; the  *)
(* job remembers the user's in the place of the left operand.              *)
Decomposed(v, perm) ==
  IF ~perm.ok THEN Due(free_vartype(perm.m, v), "memory", Null)
  ELSE lu_decomp([Job(perm.m, "det", "lu_r", v, Null, [Null EXCEPT !.a = IF perm.m.sm THEN 1 ELSE 0], Null) EXCEPT !.sm = TRUE])

OwnDet(own, v) ==
  IF own.v = Null THEN Due(free_vartype(own.m, v), "memory", Null) ELSE Decomposed(own.v, NewAll(own.m, <<"raw">>))

LargeDet(ma) == OwnDet(IF ma.v = Null THEN ma ELSE disentangle(ma.m, ma.v), ma.v)

linalg_det(m, src) ==
  LET e == SquareError(m, src)
  IN IF e # "none" THEN Due(m, e, Null)
     ELSE IF ~Small(m) THEN LargeDet(dup_vartype(m, src))
     ELSE IF IsComplex(src) THEN small_det_c(m) ELSE small_det_r(m)

(* A call of mode_interruptible: one that goes on changes nothing here.    *)
Worker(m, outcome) ==
  CASE m.job.at = "mul_rr" -> matrix_mul_rr_worker(m, outcome)
    [] m.job.at = "mul_rc" -> matrix_mul_rc_worker(m, outcome)
    [] m.job.at = "mul_cr" -> matrix_mul_cr_worker(m, outcome)
    [] m.job.at = "mul_cc" -> matrix_mul_cc_worker(m, outcome)
    [] m.job.at = "lu_r"  -> lu_decomp_r_worker(m, outcome)
    [] m.job.at = "lu_c"  -> lu_decomp_c_worker(m, outcome)
    [] m.job.at = "bs_rr" -> lu_backsubst_rr_worker(m, outcome)
    [] m.job.at = "bs_rc" -> lu_backsubst_rc_worker(m, outcome)
    [] m.job.at = "bs_cc" -> lu_backsubst_cc_worker(m, outcome)
=============================================================================
