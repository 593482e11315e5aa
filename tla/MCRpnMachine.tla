---------------------------- MODULE MCRpnMachine ----------------------------
(***************************************************************************)
(* Where the checks of RpnMachine start: a calculator that was just reset, *)
(* and what a few commands make of it.                                     *)
(***************************************************************************)
EXTENDS RpnMachine

(* hard_reset(): zeros, and a matrix REGS.                                 *)
Fresh ==
  [stk |-> <<Plain("real"), Plain("real"), Plain("real"), Plain("real")>>, lastx |-> Plain("real"),
   vars |-> ("REGS" :> [t |-> "rmat", a |-> 1]) @@ ("A" :> Null),
   arr |-> <<[rc |-> 1, str |-> FALSE, el |-> << >>]>>, live |-> 6,
   big |-> FALSE, sld |-> FALSE, lift |-> FALSE, nomem |-> 0, pool |-> {}, o |-> "fine",
   ed |-> [mode |-> 0, name |-> "none", x |-> Null, sub |-> 0, i |-> 1],
   job |-> NoJob, later |-> NoCompletion, sm |-> SingularMatrix,
   err |-> "none", bad |-> FALSE, flaw |-> FALSE, cut |-> FALSE]

Big == [Fresh EXCEPT !.big = TRUE]
Empty == Finish(docmd_clst(Big))
Recalled(s, t) == LET r == NewOf(s, t) IN Finish(recall_result(r.m, r.v))
(* A list of the elements vs, whose handles it takes over.                 *)
ListOf(s, vs) == LET r == NewArray(s, "list", FALSE, vs) IN Finish(recall_result(r.m, r.v))

Mixed(s) == Recalled(Recalled(s, "str"), "cpx")
StoredA(s) == Finish(docmd_sto(s, Str("A")))
SharedMatrix(s) == Finish(docmd_enter(StoredA(Recalled(s, "rmat"))))
TextMatrix(s) == Finish(docmd_stoel(Recalled(Finish(docmd_index(StoredA(Recalled(s, "rmat")), Str("A"))), "str")))
Complexes(s) == StoredA(Recalled(Recalled(s, "rmat"), "cmat"))
SharedList(s) ==
  LET d == dup_vartype(Recalled(s, "rmat"), Plain("real"))
      e == dup_vartype(d.m, X(d.m))
  IN StoredA(ListOf(e.m, <<e.v, d.v>>))
EditedList(s) == Finish(docmd_editn(SharedList(s), Str("A")))

MCSituations ==
  {Fresh, Empty, Mixed(Fresh), Mixed(Empty), SharedMatrix(Fresh), SharedMatrix(Empty),
   TextMatrix(Empty), Complexes(Fresh), Complexes(Empty), SharedList(Empty), EditedList(Empty)}

MCArgs == {Num, Stk(0), Stk(1), Stk(-1), Str("A"), Str("REGS"), Ind(Str("A")), Ind(Stk(0)), Ind(Num)}
==============================================================================
