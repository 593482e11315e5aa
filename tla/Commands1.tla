----------------------------- MODULE Commands1 -----------------------------
(***************************************************************************)
(* core_commands1.cc: stack, arithmetic, store and recall, clearing.  Each *)
(* operator is the handler of one command, applied to the state after the  *)
(* checks of handle().                                                     *)
(***************************************************************************)
EXTENDS Matedit

Unary(m) == Deliver(map_unary(m, X(m)), unary_result)
RealUnary(m) == Deliver(Mapped(m, "real", NumericError(m)), unary_result)
RealBinary(m) == Deliver(Mapped(m, "real", NumericError(m)), binary_result)
NoStackLift(m) == [m EXCEPT !.lift = TRUE]

(* Zero without asking whether there was memory for it.                    *)
Zero(m, Put(_, _)) ==
  LET r == new_real(m) IN Put(IF r.v = Null THEN Flawed(r.m) ELSE r.m, r.v)

docmd_clx(m) == NoStackLift(Zero(free_vartype(m, X(m)), SetX))

Duplicated(m, sld) == IF m.err # "none" THEN [m EXCEPT !.sld = sld] ELSE m
Duplicate(d, sld) ==
  IF d.v = Null THEN NoMemory(d.m) ELSE Duplicated(recall_result_silently([d.m EXCEPT !.sld = FALSE], d.v), sld)
Entered(m) == IF m.err # "none" THEN m ELSE NoStackLift(m)
docmd_enter(m) == Entered(Duplicate(CopyX(m), m.sld))

docmd_swap(m) == SetY(SetX(m, Y(m)), X(m))

docmd_rdn(m) == IF Sp(m) > 1 THEN [m EXCEPT !.stk = <<X(m)>> \o Below(m, 1)] ELSE m

WriteX(own) == IF own.v = Null THEN NoMemory(own.m) ELSE Written(SetX(own.m, own.v), own.v)
docmd_chs(m) ==
  CASE X(m).t \in {"real", "cpx"} -> m
    [] Strings(m, X(m)) -> Fail(m, "alpha")
    [] OTHER -> WriteX(disentangle(m, X(m)))

docmd_lastx(m) == OrNoMemory(dup_vartype(m, m.lastx), recall_result)

(* Two numbers or matrices become one, or one becomes two.                 *)
Compose(m, t) ==
  LET e == FirstOf(<< <<Y(m).t # X(m).t, WrongType(Y(m))>>,
                      <<t = "cmat" /\ BadSize(m), "dimension">>,
                      <<t = "cmat" /\ (Strings(m, X(m)) \/ Strings(m, Y(m))), "alpha">> >>)
  IN IF e # "none" THEN Fail(m, e) ELSE OrNoMemory(NewOf(m, t), binary_result)

Separate(m, t) ==
  OrNone(NewAll(m, <<t, t>>), LAMBDA n, vs :
    IF BadNumber(m) THEN Fail(FreeAll(n, vs), "math") ELSE unary_two_results(n, vs[1], vs[2]))

docmd_complex(m) ==
  CASE X(m).t = "real" -> Compose(m, "cpx")
    [] X(m).t = "rmat" -> Compose(m, "cmat")
    [] X(m).t = "cpx"  -> Separate(m, "real")
    [] X(m).t = "cmat" -> Separate(m, "rmat")
    [] OTHER -> Fail(m, WrongType(X(m)))

docmd_sto(m, arg) == generic_sto(m, arg)

docmd_rcl(m, arg) == Deliver(generic_rcl(m, arg), recall_result)

(* Arithmetic: the operands, or a command that is done without: / on the   *)
(* stack, STO/ (generic_sto()) and RCL/, which refuses a value that is no  *)
(* number and does not free it.                                            *)
OnStack(m) == Operands(Then(m, "binary", Null, NoArg), X(m), Y(m))
RecalledNumber(r) ==
  CASE r.e # "none" -> Without(Fail(r.m, r.e))
    [] r.e = "none" /\ assert_numeric(r.v) # "none" -> Without(Fail(Flawed(r.m), assert_numeric(r.v)))
    [] OTHER -> Operands(Then(r.m, "rcl", r.v, NoArg), r.v, X(r.m))
docmd_arithmetic(m, op) == OnStack(m)                        \* docmd_div() and its like
docmd_sto_with(m, arg, op) == generic_sto_with(m, arg, op)   \* docmd_sto_div() and its like
(* A mutant: temp_v is freed here, as RCL- and RCL+ free their value, and  *)
(* not when the product is done.                                           *)
docmd_rcl_with_freed(m, arg, op) ==
  LET r == RecalledNumber(generic_rcl(m, arg))
  IN IF r.go THEN [r EXCEPT !.m = free_vartype([@ EXCEPT !.later.v = Null], r.px)] ELSE r
docmd_rcl_with(m, arg, op) == RecalledNumber(generic_rcl(m, arg))

(* ASTO and ARCL borrow X for the text, and STO and RCL for the work.  On  *)
(* an empty stack ASTO makes a level for the text and takes it away again. *)
GiveBack(m, r, s) ==
  free_vartype(CASE Sp(m) > 0 -> SetX(r, X(m))
                 [] Sp(m) = 0 /\ Sp(r) = 1 -> [r EXCEPT !.stk = << >>]
                 [] OTHER -> Zero(r, SetX), s)

AstoResolved(m, s, d) ==
  IF d.e # "none" THEN Fail(free_vartype(m, s), d.e)
  ELSE GiveBack(m, docmd_sto(IF Sp(m) = 0 THEN Push(m, s) ELSE SetX(m, s), d.arg), s)
AstoText(r, arg) ==
  CASE r.v = Null -> NoMemory(r.m)
    [] r.v # Null /\ arg = Stk(0) -> IF Sp(r.m) = 0 THEN Push(r.m, r.v) ELSE SetX(free_vartype(r.m, X(r.m)), r.v)
    [] OTHER -> AstoResolved(r.m, r.v, IF arg = Ind(Stk(0)) THEN resolve_ind_arg(r.m, arg) ELSE [e |-> "none", arg |-> arg])
docmd_xasto(m, arg) == AstoText(new_string(m), arg)

docmd_asto(m, arg) == docmd_xasto(m, arg)

ArclDone(m, saved, sld) ==
  CASE m.err # "none" -> free_vartype([m EXCEPT !.sld = sld], saved)
    [] OTHER -> free_vartype([IF saved = Null THEN [m EXCEPT !.stk = << >>] ELSE SetX(m, saved) EXCEPT !.sld = sld], X(m))
ArclSaved(saved, arg) ==
  IF saved.v = Null /\ Sp(saved.m) > 0 THEN NoMemory(saved.m)
  ELSE ArclDone(docmd_rcl([saved.m EXCEPT !.sld = @ \/ saved.v # Null], arg), saved.v, saved.m.sld)
docmd_arcl(m, arg) == ArclSaved(IF Sp(m) = 0 THEN With(m, Null) ELSE CopyX(m), arg)

(* CLSigma and CLRG clear elements; CLSigma does not disentangle first.    *)
docmd_clsigma(m) ==
  LET regs == m.vars["REGS"]
      e == FirstOf(<< <<regs = Null, "size">>, <<regs.t # "rmat", "type">>, <<BadSize(m), "size">> >>)
  IN IF e # "none" THEN Fail(m, e) ELSE SetStrings(IF m.arr[regs.a].rc # 1 THEN Flawed(m) ELSE m, regs, FALSE)

ClearOwn(own) ==
  IF own.v = Null THEN NoMemory(own.m) ELSE SetStrings([own.m EXCEPT !.vars["REGS"] = own.v], own.v, FALSE)
docmd_clrg(m) ==
  IF m.vars["REGS"] = Null THEN Fail(m, "nonexistent") ELSE ClearOwn(disentangle(m, m.vars["REGS"]))

Clear(m, d) ==
  CASE d.e # "none" -> Fail(m, d.e)
    [] d.e = "none" /\ d.arg.k # "str" -> Fail(m, "type")
    [] d.e = "none" /\ d.arg.k = "str" /\ m.ed.mode = 3 /\ m.ed.name = d.arg.n -> Fail(m, "restricted")
    [] OTHER -> purge_var(m, d.arg.n)
clv_helper(m, arg) == Clear(m, Direct(m, arg))

docmd_clv(m, arg) == clv_helper(m, arg)

FourZeros(zeros) ==
  IF zeros.ok THEN [zeros.m EXCEPT !.stk = zeros.vs] ELSE Flawed([zeros.m EXCEPT !.stk = <<Null, Null, Null, Null>>])
ClearedStack(m) ==
  IF m.big THEN shrink_stack([m EXCEPT !.stk = << >>]) ELSE FourZeros(NewAll(m, <<"real", "real", "real", "real">>))
docmd_clst(m) == ClearedStack(clean_vartype_pools(FreeAll(m, m.stk)))

(* CLALL: stack, LASTX, matrix editor, variables; REGS anew.               *)
LastxCleared(m) == Zero(free_vartype(m, m.lastx), LAMBDA n, v : [n EXCEPT !.lastx = v])
EditedCleared(m) ==
  CASE Sp(m) = 0 -> m
    [] Sp(m) > 0 /\ m.big -> [free_vartype(m, X(m)) EXCEPT !.stk = << >>]
    [] OTHER -> Zero(free_vartype(m, X(m)), SetX)
Forgiven(m) == IF m.err # "none" THEN Flawed([m EXCEPT !.err = "none"]) ELSE m
StoreRegs(r) == IF r.v = Null THEN Flawed(r.m) ELSE Forgiven(store_var(r.m, "REGS", r.v))
RegsCreated(m) == StoreRegs(new_realmatrix(m))

docmd_clall(m) == RegsCreated(purge_all_vars(EditedCleared(finish_edit(LastxCleared(docmd_clst(m))))))

docmd_percent(m) == Deliver(Mapped(m, "real", NumericError(m)), unary_result)
docmd_pi(m) == OrNoMemory(new_real(m), recall_result)
docmd_to_deg(m) == Unary(m)
docmd_to_rad(m) == Unary(m)
docmd_to_hr(m) == Unary(m)
docmd_to_hms(m) == Unary(m)
docmd_ip(m) == Unary(m)
docmd_fp(m) == Unary(m)
docmd_rnd(m) == Unary(m)
docmd_mod(m) == RealBinary(m)

(* A pair of reals, or a complex number, converted.                        *)
Convert(m, e) ==
  CASE X(m).t = "real" /\ Y(m).t # "real" -> Fail(m, WrongType(Y(m)))
    [] X(m).t \in {"real", "cpx"} /\ (X(m).t = "real" => Y(m).t = "real") /\ e # "none" -> Fail(m, e)
    [] X(m).t = "real" /\ Y(m).t = "real" /\ e = "none" ->
         OrNone(NewAll(m, <<"real", "real">>), LAMBDA n, vs : binary_two_results(n, vs[1], vs[2]))
    [] X(m).t = "cpx" /\ e = "none" -> OrNoMemory(new_complex(m), unary_result)
    [] OTHER -> Fail(m, WrongType(X(m)))

docmd_to_rec(m) == Convert(m, "none")
docmd_to_pol(m) == Convert(m, NumericError(m))

docmd_abs(m) ==
  LET e == IF Strings(m, X(m)) THEN "alpha" ELSE IF X(m).t = "cpx" THEN NumericError(m) ELSE "none"
  IN IF e # "none" THEN Fail(m, e)
     ELSE OrNoMemory(NewOf(m, IF X(m).t = "rmat" THEN "rmat" ELSE "real"), unary_result)

(* Of a complex argument, whether there was memory is not asked.           *)
Unchecked(c) == unary_result(IF c.v = Null THEN Flawed(c.m) ELSE c.m, c.v)
docmd_sign(m) ==
  IF X(m).t \in {"cpx", "cmat"} THEN Unchecked(map_unary([m EXCEPT !.o = "fine"], X(m)))
  ELSE OrNoMemory(NewOf(m, IF X(m).t = "rmat" THEN "rmat" ELSE "real"), unary_result)
==============================================================================
