----------------------------- MODULE Commands2 -----------------------------
(***************************************************************************)
(* core_commands2.cc: the commands that read or change the stack or the    *)
(* variables.  Flags, menus, keys and the program pointer are left out;    *)
(* so are texts that are displayed or printed, but not the room that       *)
(* printing them takes, nor the values that a printing job reads.          *)
(***************************************************************************)
EXTENDS Commands3

Stop(m) == Fail(m, "stop")
(* A test answers yes or no and changes nothing.                           *)
Answer(m) == m

docmd_comb(m) == NewReal(m, binary_result)
docmd_perm(m) == NewReal(m, binary_result)
docmd_fact(m) == Unary(m)
docmd_gamma(m) == Unary(m)
docmd_ran(m) == OrNoMemory(new_real(m), recall_result)
docmd_seed(m) == m
docmd_number(m) == IF BadNumber(m) THEN Fail(m, "math") ELSE OrNoMemory(new_real(m), recall_result_silently)

(* Printer off is the choice "same", no printer "size".                    *)
NoPrinter(m) == IF BadSize(m) THEN Fail(m, "printing") ELSE m
MayPrint(m) == m.o \notin {"size", "same"}
(* A string is printed from a copy; without room for it, something else is.*)
Printed(m, v) == IF v.t = "str" THEN Charged(m) ELSE m

docmd_input(m, arg) ==
  Resolved(m, arg, LAMBDA a :
    LET r == generic_rcl(m, a)
        v == IF r.e = "nonexistent" THEN OrNoMemory(new_real(m), With) ELSE With(r.m, r.v)
        Ask(n, x) == LET s == recall_result(Printed(n, x), x) IN IF s.err # "none" THEN s ELSE Stop(s)
    IN IF r.e \notin {"none", "nonexistent"} THEN Fail(r.m, r.e)
       ELSE IF r.e = "none" THEN Ask(r.m, r.v) ELSE OrNoMemory(new_real(m), Ask))

(* VIEW: without a printer the program stops.                              *)
view_helper(m, arg, print) ==
  Resolved(m, arg, LAMBDA a :
    Deliver(generic_rcl(m, a), LAMBDA n, v :
      LET s == free_vartype(IF print /\ MayPrint(m) THEN Printed(n, v) ELSE n, v)
      IN IF print /\ BadSize(m) THEN Stop(s) ELSE s))

docmd_view(m, arg) == view_helper(m, arg, TRUE)

docmd_vmsto(m, arg) ==
  LET Show(s) == IF s.err # "none" THEN s ELSE view_helper(s, arg, FALSE) IN Show(docmd_sto(m, arg))

(* ISG and DSE change a number in its place.                               *)
generic_loop(m, arg) ==
  Resolved(m, arg, LAMBDA a :
    LET regs == m.vars["REGS"]
        v == IF a.k = "str" THEN m.vars[a.n] ELSE Level(m, a.l)
        Change(n, own) == Written([n EXCEPT !.vars["REGS"] = own], own)
    IN IF a.k = "num"
       THEN CASE regs = Null \/ BadSize(m) -> Fail(m, "size")
              [] regs # Null /\ ~BadSize(m) /\ Strings(m, regs) -> Fail(m, "alpha")
              [] regs.t = "cmat" /\ ~BadSize(m) -> Fail(m, "type")
              [] OTHER -> OrNoMemory(disentangle(m, regs), Change)
       ELSE CASE a.k = "stk" /\ NoLevel(m, a.l) -> Fail(m, "depth")
              [] a.k = "str" /\ v = Null -> Fail(m, "nonexistent")
              [] OTHER -> IF RealError(v) = "none" THEN Answer(m) ELSE Fail(m, RealError(v)))

docmd_isg(m, arg) == generic_loop(m, arg)
docmd_dse(m, arg) == generic_loop(m, arg)

docmd_aip(m) == m
docmd_xtoa(m) == IF X(m).t = "real" /\ BadNumber(m) THEN Fail(m, "math") ELSE m

(* AGRAPH and PIXEL draw a point, the points of a pair or of a matrix.     *)
Drawn(m) ==
  CASE X(m).t = "real" -> IF Y(m).t = "real" THEN m ELSE Fail(m, WrongType(Y(m)))
    [] X(m).t \in {"cpx", "cmat"} -> m
    [] OTHER -> Fail(m, WrongType(X(m)))
docmd_agraph(m) == Drawn(m)
docmd_pixel(m) == Drawn(m)

docmd_tone(m, arg) ==
  IF arg.k = "stk" THEN Fail(m, "invalid")
  ELSE IF arg_to_num_error(m, arg) # "none" THEN Fail(m, arg_to_num_error(m, arg))
  ELSE IF BadNumber(m) THEN Fail(m, "invalid") ELSE m

docmd_x_eq_0(m) == Answer(m)
docmd_x_eq_y(m) == Answer(m)
docmd_real_t(m) == Answer(m)

(***************************************************************************)
(* Printing jobs read a value where it is, one element per call.           *)
(***************************************************************************)
PrintJob(m, v) == Job(m, "print", "print", Null, Null, v, Null)
HasElements(m, v) == v.t \in Matrices \/ (v.t = "list" /\ Elements(m, v) # << >>)

prv_worker(m, outcome) == IF outcome = "interrupted" THEN Stop(Ended(m)) ELSE Ended(m)
prusr_worker(m, outcome) == prv_worker(m, outcome)

docmd_prsigma(m) ==
  LET regs == m.vars["REGS"]
  IN CASE regs = Null -> Fail(m, "nonexistent")
       [] regs # Null /\ regs.t # "rmat" -> Fail(m, "type")
       [] OTHER -> IF BadSize(m) THEN Fail(m, "size")
                   ELSE IF MayPrint(m) /\ Strings(m, regs) THEN Charged(m) ELSE m

docmd_prv(m, arg) ==
  Resolved(m, arg, LAMBDA a :
    LET v == m.vars[a.n]
        text == Blocks(m, 1)
    IN CASE a.k # "str" -> Fail(m, "type")
         [] a.k = "str" /\ v = Null -> Fail(m, "nonexistent")
         [] OTHER -> IF ~MayPrint(m) THEN NoPrinter(m)
                     ELSE IF HasElements(m, v) THEN PrintJob(m, v)
                     ELSE IF v.t = "str" /\ ~text.ok THEN NoMemory(text.m) ELSE m)

docmd_prreg(m) ==
  LET regs == m.vars["REGS"]
  IN IF regs = Null THEN Fail(m, "nonexistent")
     ELSE IF ~MayPrint(m) THEN NoPrinter(m) ELSE PrintJob(m, regs)

docmd_prstk(m) == IF MayPrint(m) THEN FoldLeft(Printed, m, m.stk) ELSE NoPrinter(m)

docmd_prx(m) ==
  LET text == Blocks(m, 1)
  IN CASE ~MayPrint(m) -> NoPrinter(m)
       [] MayPrint(m) /\ HasElements(m, X(m)) -> PrintJob(m, X(m))
       [] OTHER -> IF X(m).t = "str" /\ ~text.ok THEN NoMemory(text.m) ELSE m

docmd_prusr(m) == IF MayPrint(m) THEN PrintJob(m, Null) ELSE NoPrinter(m)
docmd_xview(m) == IF BadSize(m) THEN Stop(m) ELSE m

docmd_newmat(m) == IF BadSize(m) THEN Fail(m, "dimension") ELSE OrNoMemory(new_realmatrix(m), binary_result)
docmd_rup(m) == IF Sp(m) > 1 THEN [m EXCEPT !.stk = Tail(@) \o <<m.stk[1]>>] ELSE m
docmd_dim_t(m) == OrNone(NewAll(m, <<"real", "real">>), LAMBDA n, vs : unary_two_results(n, vs[2], vs[1]))

docmd_sigma_reg(m, arg) ==
  Resolved(m, arg, LAMBDA a :
    CASE a.k = "str" -> Fail(m, "alpha") [] a.k = "stk" -> Fail(m, "invalid") [] OTHER -> m)
docmd_sigma_reg_t(m) == OrNoMemory(new_real(m), recall_result)
docmd_delay(m) == IF BadNumber(m) THEN Fail(m, "invalid") ELSE m
============================================================================
