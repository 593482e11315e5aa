----------------------------- MODULE Commands7 -----------------------------
(***************************************************************************)
(* core_commands7.cc: dates, elements by index, the stack that grows, and  *)
(* strings and lists.                                                      *)
(***************************************************************************)
EXTENDS Commands6

Fetched(m) == OrNoMemory(new_real(m), recall_result)

docmd_adate(m) == IF BadNumber(m) THEN Fail(m, "math") ELSE m
docmd_atime(m) == IF BadNumber(m) THEN Fail(m, "math") ELSE m
docmd_date(m) == Fetched(m)
docmd_date_plus(m) == NewReal(m, binary_result)
docmd_ddays(m) == NewReal(m, binary_result)
docmd_dow(m) == NewReal(m, unary_result)
docmd_time(m) == Fetched(m)
docmd_fma(m) == NewReal(m, ternary_result)
docmd_errmsg(m) == OrNoMemory(new_string(m), recall_result)
docmd_errno(m) == OrNoMemory(IF m.o = "small" THEN new_string(m) ELSE new_real(m), recall_result)
docmd_ident(m) == Fetched(m)
docmd_rcomplx(m) == docmd_complex(m)
docmd_pcomplx(m) == docmd_complex(m)
docmd_type_t(m) == OrNoMemory(new_real(m), unary_result)

(***************************************************************************)
(* An element of a matrix or list by its index, wherever that is.          *)
(***************************************************************************)
get_mat_or_list(m, arg, types) ==
  LET No(e) == [e |-> e, v |-> Null]
      Found(v) == [e |-> IF v.t \in types THEN "none" ELSE "type", v |-> v]
  IN CASE arg.k = "stk" -> IF NoLevel(m, arg.l) THEN No("depth") ELSE Found(Level(m, arg.l))
       [] arg.k = "str" -> IF m.vars[arg.n] = Null THEN No("nonexistent") ELSE Found(m.vars[arg.n])
       [] OTHER -> No("internal")

(* The handle at arg becomes v.                                            *)
Put(m, arg, v) == IF arg.k = "stk" THEN SetLevel(m, arg.l, v) ELSE [m EXCEPT !.vars[arg.n] = v]

(* The direct argument with the handle it leads to.                        *)
IndexedBy(m, d, types) ==
  IF d.e # "none" THEN [e |-> d.e, arg |-> d.arg, v |-> Null]
  ELSE LET r == get_mat_or_list(m, d.arg, types) IN [e |-> r.e, arg |-> d.arg, v |-> r.v]
InRange(m, f) == IF f.e = "none" /\ BadSize(m) THEN [f EXCEPT !.e = "dimension"] ELSE f
Indexed(m, arg, types) == InRange(m, IndexedBy(m, Direct(m, arg), types))

Getmi(m, f) ==
  IF f.e # "none" THEN Fail(m, f.e)
  ELSE OrNoMemory(NewPlain(m, IF f.v.t = "cmat" THEN "cpx" ELSE IF Strings(m, f.v) THEN "str" ELSE "real"), recall_result)
docmd_getmi(m, arg) == Getmi(m, Indexed(m, arg, Matrices))

Putmi(m, v) ==
  CASE X(m).t \notin {"real", IF v.t = "rmat" THEN "str" ELSE "cpx"} -> Fail(m, IF v.t = "cmat" THEN WrongType(X(m)) ELSE "type")
    [] X(m).t = "str" /\ v.t = "rmat" -> TextInRegister(NewAll(m, <<"raw">>), v)
    [] OTHER -> SetStrings(m, v, FALSE)
PutmiOwn(own, arg) == IF own.v = Null THEN NoMemory(own.m) ELSE Putmi(Put(own.m, arg, own.v), own.v)
PutmiFound(m, f) == IF f.e # "none" THEN Fail(m, f.e) ELSE PutmiOwn(disentangle(m, f.v), f.arg)
docmd_putmi(m, arg) ==
  LET wrong == {l \in {Z(m), Y(m)} : l.t # "real"}
  IN IF wrong # {} THEN Fail(m, WrongType(IF Z(m) \in wrong THEN Z(m) ELSE Y(m)))
     ELSE PutmiFound(m, Indexed(m, arg, Matrices))

Getli(m, f) ==
  CASE f.e # "none" -> Fail(m, f.e)
    [] f.e = "none" /\ Elements(m, f.v) = << >> -> Fail(m, "dimension")
    [] OTHER -> OrNoMemory(dup_vartype(m, Elements(m, f.v)[1]), recall_result)
docmd_getli(m, arg) == Getli(m, Indexed(m, arg, {"list"}))

(* PUTLI past the end makes room, with zeros up to the new element; here   *)
(* the choice "grow" leaves a gap of one.                                  *)
Replace(m, v, el, new) == SetElements(free_vartype(m, el[1]), v, <<new>> \o Tail(el))
Extend(all, v, new) ==
  IF ~all.ok THEN NoMemory(free_vartype(Charged(all.m), new))
  ELSE SetElements(all.m, v, Elements(all.m, v) \o Tail(all.vs) \o <<new>>)
Putli(m, v, new) ==
  IF m.o = "fine" /\ Elements(m, v) # << >> THEN Replace(m, v, Elements(m, v), new)
  ELSE Extend(NewAll(m, IF m.o = "grow" THEN <<"raw", "real">> ELSE <<"raw">>), v, new)
PutliOwn(own, arg, new) ==
  IF own.v = Null THEN NoMemory(free_vartype(own.m, new)) ELSE Putli(Put(own.m, arg, own.v), own.v, new)
PutliCopy(copy, f) == IF copy.v = Null THEN NoMemory(copy.m) ELSE PutliOwn(disentangle(copy.m, f.v), f.arg, copy.v)
PutliFound(m, f) == IF f.e # "none" THEN Fail(m, f.e) ELSE PutliCopy(CopyX(m), f)
docmd_putli(m, arg) ==
  IF Y(m).t # "real" THEN Fail(m, WrongType(Y(m))) ELSE PutliFound(m, Indexed(m, arg, {"list"}))

(***************************************************************************)
(* The stack that grows.                                                   *)
(***************************************************************************)
docmd_4stk(m) ==
  LET zeros == NewAll(m, [i \in 1 .. 4 - Sp(m) |-> "real"])
      n == IF Sp(m) < 4 THEN [zeros.m EXCEPT !.stk = zeros.vs \o @]
           ELSE [FreeAll(m, Below(m, 4)) EXCEPT !.stk = SubSeq(@, Sp(m) - 3, Sp(m))]
  IN CASE ~m.big -> m
       [] m.big /\ Sp(m) < 4 /\ ~zeros.ok -> NoMemory(zeros.m)
       [] OTHER -> shrink_stack([n EXCEPT !.big = FALSE])

docmd_nstk(m) == IF BadSize(m) THEN Fail(m, "disabled") ELSE [m EXCEPT !.big = TRUE]
docmd_depth(m) == Fetched(m)

(* Zeros that are not asked whether there was memory for them.             *)
Zeros(m, k) ==
  FoldLeft(LAMBDA s, i : LET r == new_real(s) IN [IF r.v = Null THEN Flawed(r.m) ELSE r.m EXCEPT !.stk = <<r.v>> \o @],
           m, [i \in 1 .. k |-> i])

Dropped(m, k) ==
  LET n == [FreeAll(m, SubSeq(m.stk, Sp(m) - k + 1, Sp(m))) EXCEPT !.stk = Below(m, k)]
  IN IF m.big THEN n ELSE Zeros(n, k)

docmd_drop(m) == IF Sp(m) = 0 THEN m ELSE Dropped(m, 1)

docmd_dup(m) == Duplicate(CopyX(m), m.sld)

(* Commands with a number of levels k.                                     *)
WithLevels(m, k, Go(_)) == IF k > Sp(m) THEN Fail(m, "depth") ELSE Go(m)

docmd_dropn(m, k) == WithLevels(m, k, LAMBDA s : Dropped(s, k))

docmd_dupn(m, k) ==
  CASE k > (IF m.big THEN Sp(m) ELSE 2) -> Fail(m, "depth")
    [] k <= Sp(m) /\ m.big ->
         IF Crowded(m) THEN NoMemory(Charged(m))
         ELSE OrNone(DupAll(Grown(m), SubSeq(m.stk, Sp(m) - k + 1, Sp(m))), LAMBDA n, vs : [n EXCEPT !.stk = @ \o vs])
    [] k = 0 /\ ~m.big -> m
    [] k = 1 /\ ~m.big -> docmd_dup(m)
    [] OTHER -> OrNone(DupAll(m, <<X(m), Y(m)>>), LAMBDA n, vs :
                  [FreeAll(n, <<m.stk[2], m.stk[1]>>) EXCEPT !.stk = <<vs[2], vs[1]>> \o SubSeq(@, 3, 4)])

docmd_pick(m, k) ==
  IF k = 0 THEN Fail(m, "nonexistent")
  ELSE WithLevels(m, k, LAMBDA s : OrNoMemory(dup_vartype(s, Level(s, k - 1)), recall_result))

(* UNPICK takes X off the stack and puts it into a level of the rest.      *)
docmd_unpick(m, k) ==
  LET Into(s) == [free_vartype(s, Level(s, k - 1)) EXCEPT !.stk[Sp(s) - k + 1] = X(m)]
  IN CASE k = 0 -> Fail(m, "nonexistent")
       [] k > (IF m.big THEN Sp(m) - 1 ELSE Sp(m)) -> Fail(m, "depth")
       [] OTHER -> IF m.big THEN Into([m EXCEPT !.stk = Below(m, 1)])
                   ELSE OrNoMemory(dup_vartype(m, m.stk[1]), LAMBDA n, t : Into([n EXCEPT !.stk = <<t>> \o Below(m, 1)]))

docmd_rdnn(m, k) ==
  WithLevels(m, k, LAMBDA s :
    IF k > 1 THEN [s EXCEPT !.stk = Below(s, k) \o <<X(s)>> \o SubSeq(s.stk, Sp(s) - k + 1, Sp(s) - 1)] ELSE s)
docmd_rupn(m, k) ==
  WithLevels(m, k, LAMBDA s :
    IF k > 1 THEN [s EXCEPT !.stk = Below(s, k) \o SubSeq(s.stk, Sp(s) - k + 2, Sp(s)) \o <<s.stk[Sp(s) - k + 1]>>] ELSE s)

(* X=? NN and 0=? NN: the value that is compared is the test's own.        *)
temp_vartype(m, arg, require_real) ==
  Deliver(generic_rcl(m, arg), LAMBDA n, v :
    LET s == free_vartype(n, v) IN IF require_real /\ v.t # "real" THEN Fail(s, WrongType(v)) ELSE Answer(s))

docmd_x_eq_nn(m, arg) == temp_vartype(m, arg, FALSE)
docmd_x_lt_nn(m, arg) == temp_vartype(m, arg, TRUE)
docmd_0_eq_nn(m, arg) == temp_vartype(m, arg, FALSE)
docmd_0_lt_nn(m, arg) == temp_vartype(m, arg, TRUE)

(***************************************************************************)
(* Strings and lists.                                                      *)
(***************************************************************************)
(* The handle v of a list goes, its elements have been taken over.         *)
Hollow(m, v) == [m EXCEPT !.live = @ - 1, !.arr[v.a].rc = 0, !.arr[v.a].el = << >>]

(* A list in Y becomes the result in its place.  binary_result() has freed *)
(* it when there was no memory for T, and nevertheless it stays in Y.      *)
JoinedOnce(m, list, v, added, hollow) ==
  IF m.err # "none" THEN free_vartype(Flawed(SetY(m, list)), v)
  ELSE IF hollow THEN Hollow(SetElements(m, list, Elements(m, list) \o added), v)
  ELSE SetElements(m, list, Elements(m, list) \o added)
Joined(m, list, v, added, hollow) == JoinedOnce(binary_result(SetY(m, Null), list), list, v, added, hollow)

AddIn(room, own, v, added, both) ==
  IF ~room.ok THEN NoMemory(free_vartype(room.m, v)) ELSE Joined(room.m, own, v, added, both)
Add(m, own, v, added, both) == AddIn(NewAll(m, IF added = << >> THEN << >> ELSE <<"raw">>), own, v, added, both)

(* v is the copy of X, whose elements are taken over if it is a list.      *)
AddTo(source, own, v, both) ==
  IF source.v = Null THEN NoMemory(free_vartype(source.m, v))
  ELSE Add(source.m, own, source.v, IF both THEN Elements(source.m, source.v) ELSE <<source.v>>, both)
AppendToOwn(own, v, both) ==
  IF own.v = Null THEN NoMemory(free_vartype(own.m, v))
  ELSE AddTo(IF both THEN disentangle(SetY(own.m, own.v), v) ELSE With(SetY(own.m, own.v), v), own.v, v, both)
AppendTo(copy, extend) ==
  IF copy.v = Null THEN NoMemory(copy.m)
  ELSE AppendToOwn(disentangle(copy.m, Y(copy.m)), copy.v, extend /\ copy.v.t = "list")

concat(m, extend) ==
  CASE Y(m).t = "str" ->
         OrNoMemory(new_string(IF X(m).t = "str" THEN m ELSE [docmd_arcl(m, Stk(0)) EXCEPT !.err = "none"]), binary_result)
    [] Y(m).t = "list" -> AppendTo(CopyX(m), extend)
    [] OTHER -> Fail(m, "type")

docmd_concat(m, extend) == concat(m, extend)   \* docmd_append() and docmd_extend()

(* A list of copies of vs.                                                 *)
ListOfCopies(m, vs, Result(_, _)) ==
  OrNoMemory(new_list(m, 0), LAMBDA n, list :
    LET d == DupAll(n, vs)
    IN IF ~d.ok THEN NoMemory(free_vartype(d.m, list)) ELSE Result(SetElements(d.m, list, d.vs), list))

(* The whole, by the choice "same"; otherwise all but the first.           *)
docmd_substr(m) ==
  LET short == Y(m).t \in {"str", "list"}
      v == IF short THEN Y(m) ELSE Z(m)
      bounds == IF short THEN {X(m)} ELSE {X(m), Y(m)}
      Result(n, x) == IF short THEN binary_result(n, x) ELSE ternary_result(n, x)
  IN CASE Sp(m) < 2 \/ (~short /\ Sp(m) < 3) -> Fail(m, "few")
       [] Sp(m) >= 2 /\ (short \/ Sp(m) >= 3) /\ (v.t \notin {"str", "list"} \/ \E b \in bounds : b.t # "real") ->
            Fail(m, "type")
       [] OTHER -> IF BadSize(m) THEN Fail(m, "invalid")
                   ELSE IF m.o = "same" \/ (v.t = "list" /\ Elements(m, v) = << >>) THEN OrNoMemory(dup_vartype(m, v), Result)
                   ELSE IF v.t = "str" THEN OrNoMemory(new_string(m), Result)
                   ELSE ListOfCopies(m, Tail(Elements(m, v)), Result)

docmd_length(m) == OrNoMemory(new_real(m), unary_result)

(* There is room already for what is recalled.                             *)
RecalledInRoom(m, v) == [recall_result([m EXCEPT !.nomem = 0], v) EXCEPT !.nomem = m.nomem]

HeadOfRegister(m) ==
  LET regs == m.vars["REGS"]
      e == CASE regs = Null -> "size"
             [] regs # Null /\ regs.t # "rmat" -> "type"
             [] OTHER -> IF BadSize(m) THEN "size" ELSE IF ~Strings(m, regs) THEN "type" ELSE "none"
      Take(n, own) ==
        OrNoMemory(new_string([n EXCEPT !.vars["REGS"] = own]), LAMBDA s, v :
          LET rest == NewAll(s, <<"raw">>)
          IN IF rest.ok THEN RecalledInRoom(Written(rest.m, own), v) ELSE NoMemory(free_vartype(rest.m, v)))
  IN IF e # "none" THEN Fail(m, e) ELSE IF m.o = "zero" THEN Answer(m) ELSE OrNoMemory(disentangle(m, regs), Take)

HeadOf(m, arg, v) ==
  LET Take(n, own) ==
        LET el == Elements(n, own) IN RecalledInRoom(SetElements(Put(n, arg, own), own, Tail(el)), el[1])
  IN CASE v.t = "str" -> IF m.o = "zero" THEN Answer(m) ELSE OrNoMemory(new_string(m), RecalledInRoom)
       [] v.t = "list" -> IF Elements(m, v) = << >> THEN Answer(m) ELSE OrNoMemory(disentangle(m, v), Take)
       [] OTHER -> Fail(m, "type")

docmd_head(m, arg) ==
  Resolved(m, arg, LAMBDA a :
    LET n == Grown(m)
        r == get_mat_or_list(n, a, Types)
    IN IF Crowded(m) THEN NoMemory(Charged(m))
       ELSE IF a.k = "num" THEN HeadOfRegister(n)
       ELSE IF r.e # "none" THEN Fail(n, r.e) ELSE HeadOf(n, a, r.v))

docmd_rev(m) ==
  IF X(m).t = "str" THEN OrNoMemory(new_string(m), unary_result)
  ELSE ListOfCopies(m, Reverse(Elements(m, X(m))), unary_result)

(* With a start position in Y the text or list is in Z; the table only     *)
(* asks for two levels.                                                    *)
docmd_pos(m) ==
  LET ternary == Y(m).t = "real"
      v == IF ternary THEN Z(m) ELSE Y(m)
      Result(n, x) == IF ternary THEN ternary_result(n, x) ELSE binary_result(n, x)
  IN CASE ternary /\ Sp(m) < 3 -> Flawed(Fail(m, "type"))
       [] (ternary => Sp(m) >= 3) /\ (v.t \notin {"str", "list"} \/ (v.t = "str" /\ X(m).t \notin {"str", "real"})) ->
            Fail(m, "type")
       [] OTHER -> NewReal(m, Result)

docmd_s_to_n(m) == NewReal(m, unary_result)
number_to_string(m) == OrNoMemory(IF X(m).t = "str" THEN dup_vartype(m, X(m)) ELSE new_string(m), unary_result)
docmd_n_to_s(m) == number_to_string(m)
docmd_nn_to_s(m) == number_to_string(m)
docmd_c_to_n(m) == OrNoMemory(new_real(m), unary_result)
docmd_n_to_c(m) == IF BadNumber(m) THEN Fail(m, "math") ELSE OrNoMemory(new_string(m), unary_result)
docmd_newlist(m) == OrNoMemory(new_list(m, 0), recall_result)

(* ->LIST takes k levels below X into a list, LIST-> puts them back; X,    *)
(* the number or the list, becomes LASTX.                                  *)
docmd_to_list(m, k) ==
  LET taken == SubSeq(m.stk, Sp(m) - k, Sp(m) - 1)
      below == SubSeq(m.stk, 1, Sp(m) - k - 1)
      Collect(n, list) ==
        LET zeros == IF m.big THEN NewAll(n, << >>) ELSE NewAll(n, [i \in 1 .. k |-> "real"])
        IN IF ~zeros.ok THEN NoMemory(free_vartype(zeros.m, list))
           ELSE [Consumed(SetElements(zeros.m, list, taken)) EXCEPT !.stk = zeros.vs \o below \o <<list>>]
  IN IF k > Sp(m) - 1 THEN Fail(m, "depth") ELSE OrNoMemory(new_list(m, 0), Collect)

docmd_from_list(m) ==
  LET k == Len(Elements(m, X(m)))
      list == dup_vartype(m, X(m))
      size == new_real(list.m)
      own == disentangle(size.m, list.v)
      el == Elements(own.m, own.v)
      Free(n, v) == NoMemory(FreeAll(n, <<v, size.v>>))
  IN CASE ~m.big /\ k > 3 -> Fail(m, "depth")
       [] (m.big \/ k <= 3) /\ (list.v = Null \/ size.v = Null) -> Free(size.m, list.v)
       [] (m.big \/ k <= 3) /\ list.v # Null /\ size.v # Null /\ own.v = Null -> Free(own.m, list.v)
       [] OTHER ->
            IF Crowded(own.m) THEN Free(Charged(own.m), own.v)
            ELSE LET n == Hollow(Consumed(Grown(own.m)), own.v)
                 IN IF m.big THEN [n EXCEPT !.stk = Below(m, 1) \o el \o <<size.v>>]
                    ELSE [FreeAll(n, SubSeq(m.stk, 1, k)) EXCEPT !.stk = SubSeq(m.stk, k + 1, 3) \o el \o <<size.v>>]
============================================================================
