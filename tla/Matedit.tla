------------------------------- MODULE Matedit -------------------------------
(***************************************************************************)
(* The matrix that is indexed or edited: matedit_get() and the dimensions  *)
(* of core_helpers.cc, the editing commands of core_commands3.cc and       *)
(* core_commands4.cc.                                                      *)
(*                                                                         *)
(* m.ed.mode is matedit_mode: 1 INDEX, 2 EDIT (of ed.x, taken from X), 3   *)
(* EDITN; ed.name the variable of modes 1 and 3; ed.sub the element of the *)
(* list that was descended into, 0 for none (the top of matedit_stack);    *)
(* ed.i the element of the list at hand.  Positions in a matrix, GROW and  *)
(* whether X differs from the element are choices: m.o is "same" when X    *)
(* was not changed, "grow" when the cursor leaves a matrix that grows,     *)
(* "one" when it has one element, "last" for the last element of a list.   *)
(***************************************************************************)
EXTENDS StoRcl

Beyond(m) == [m EXCEPT !.cut = TRUE]   \* further than the bounds of the model

EditedTop(m) == IF m.ed.mode = 2 THEN m.ed.x ELSE IF m.ed.mode = 0 THEN Null ELSE m.vars[m.ed.name]
Edited(m) == IF m.ed.sub = 0 THEN EditedTop(m) ELSE Elements(m, EditedTop(m))[m.ed.sub]
Interactive(m) == m.ed.mode \in {2, 3}

(* The edited handle has changed.  An element of a list that other handles *)
(* share changes for all of them: only the element was disentangled.       *)
SetEdited(m, v) ==
  LET top == EditedTop(m)
  IN CASE m.ed.sub = 0 /\ m.ed.mode = 2 -> [m EXCEPT !.ed.x = v]
       [] m.ed.sub = 0 /\ m.ed.mode # 2 -> [m EXCEPT !.vars[m.ed.name] = v]
       [] OTHER -> [Written(IF m.arr[top.a].rc = 1 THEN m ELSE Flawed(m), top)
                      EXCEPT !.arr[top.a].el[m.ed.sub] = v]

(* The user leaves by way of the exit callback, everyone else by this.     *)
leave_matrix_editor(m) == [m EXCEPT !.ed.mode = 0, !.ed.sub = 0]

(* The state, and an error or the handle.                                  *)
EditedError(m, top) ==
  IF m.ed.mode = 0 \/ top = Null THEN "nonexistent"
  ELSE IF m.ed.sub > 0 /\ top.t # "list" THEN "type"
  ELSE IF m.ed.sub > 0 /\ m.ed.sub > Len(Elements(m, top)) THEN "invalid"
  ELSE IF Edited(m).t \in ArrayTypes THEN "none"
  ELSE IF m.ed.sub = 0 THEN "type" ELSE "invalid"

Got(m, e) ==
  IF e = "none" THEN [m |-> m, e |-> e, v |-> Edited(m)]
  ELSE [m |-> IF Interactive(m) THEN leave_matrix_editor(m) ELSE m, e |-> e, v |-> Null]

matedit_get(m) == Got(m, EditedError(m, EditedTop(m)))

(* An error ends the command, anything else is for it to go on with.       *)
Deliver(r, Go(_, _)) == IF r.e # "none" THEN Fail(r.m, r.e) ELSE Go(r.m, r.v)

(***************************************************************************)
(* Dimensions.  d says whether the array gets smaller, grows, or neither;  *)
(* a list loses its last element or gets a zero.                           *)
(***************************************************************************)
Blocks(m, k) == NewAll(m, [i \in 1 .. k |-> "raw"])
BlocksOf(v) == IF v.t = "rmat" THEN 3 ELSE 2

(* A new array instead of a shared one, with el for elements.              *)
Replaced(m, v, el) ==
  With([m EXCEPT !.arr = Append([@ EXCEPT ![v.a].rc = @ - 1],
                                [rc |-> 1, str |-> m.arr[v.a].str, el |-> el])],
       [v EXCEPT !.a = Len(m.arr) + 1])

Is(m, v) == [m |-> m, e |-> "none", v |-> v]
NoRoom(m, v) == [m |-> m, e |-> "memory", v |-> v]
IsNew(r) == Is(r.m, r.v)
ReplacedBy(m, v, el) == IsNew(Replaced(m, v, el))
IfRoom(room, v) == IF room.ok THEN Is(room.m, v) ELSE NoRoom(room.m, v)
CopyIfRoom(room, v) == IF room.ok THEN ReplacedBy(room.m, v, << >>) ELSE NoRoom(room.m, v)

RealResized(m, v, d) ==
  IF m.arr[v.a].rc # 1 THEN CopyIfRoom(Blocks(m, 3), v)
  ELSE IF d = "less" THEN Is(m, v) ELSE IfRoom(Blocks(m, 2), v)

ComplexResized(m, v, d) == IF m.arr[v.a].rc # 1 THEN CopyIfRoom(Blocks(m, 2), v) ELSE IfRoom(Blocks(m, 1), v)

(* Unshared: the last element goes, or there is room for one more zero.    *)
Shortened(m, v, el) == IF el = << >> THEN m ELSE free_vartype([m EXCEPT !.arr[v.a].el = Front(el)], Last(el))
Lengthened(all, v) ==
  IF all.ok THEN Is(SetElements(all.m, v, Append(Elements(all.m, v), all.vs[2])), v) ELSE NoRoom(all.m, v)

OwnListResized(m, v, d) ==
  IF d = "less" THEN Is(Shortened(m, v, Elements(m, v)), v) ELSE Lengthened(NewAll(m, <<"raw", "real">>), v)

CopiedAndZero(zero, v, vs) ==
  IF zero.v = Null THEN NoRoom(FreeAll(zero.m, vs), v) ELSE ReplacedBy(zero.m, v, Append(vs, zero.v))

Copied(copy, v, d) ==
  CASE ~copy.ok -> NoRoom(copy.m, v)
    [] copy.ok /\ d = "less" -> ReplacedBy(copy.m, v, copy.vs)
    [] OTHER -> CopiedAndZero(new_real(copy.m), v, copy.vs)

Remaining(el, d) == IF d = "less" /\ el # << >> THEN Front(el) ELSE el
SharedWithRoom(room, v, d) ==
  IF room.ok THEN Copied(DupAll(room.m, Remaining(Elements(room.m, v), d)), v, d) ELSE NoRoom(room.m, v)
SharedListResized(m, v, d) == SharedWithRoom(Blocks(m, 2), v, d)

ListResized(m, v, d) == IF m.arr[v.a].rc = 1 THEN OwnListResized(m, v, d) ELSE SharedListResized(m, v, d)

dimension_array_ref(m, v, d) ==
  CASE d = "same" -> Is(m, v)
    [] d # "same" /\ v.t = "rmat" -> RealResized(m, v, d)
    [] d # "same" /\ v.t = "cmat" -> ComplexResized(m, v, d)
    [] OTHER -> ListResized(m, v, d)

Created(new, n) == IF new.v = Null THEN NoMemory(new.m) ELSE FreedUnlessStored(store_var(new.m, n, new.v), new.v)
Redimensioned(r, n) == IF r.e # "none" THEN Fail(r.m, r.e) ELSE [r.m EXCEPT !.vars[n] = r.v]

(* DIM and SIZE: a variable becomes a matrix of that size; 0 deletes it.   *)
dimension_array(m, n, d) ==
  LET v == m.vars[n]
  IN CASE m.ed.mode = 3 /\ m.ed.name = n -> Fail(m, "restricted")
       [] v.t \notin ArrayTypes /\ d = "zero" -> m
       [] v.t \notin ArrayTypes /\ d # "zero" -> Created(new_realmatrix(m), n)
       [] OTHER -> IF d = "zero" THEN purge_var(m, n) ELSE Redimensioned(dimension_array_ref(m, v, d), n)

(***************************************************************************)
(* The element at hand.                                                    *)
(***************************************************************************)
Index(m, v) == IF m.ed.i > Len(Elements(m, v)) THEN Len(Elements(m, v)) ELSE m.ed.i
Element(m, v, i) ==
  CASE v.t = "rmat" -> NewPlain(m, IF contains_strings(m, v) THEN "str" ELSE "real")
    [] v.t = "cmat" -> new_complex(m)
    [] OTHER -> IF i \in DOMAIN Elements(m, v) THEN dup_vartype(m, Elements(m, v)[i]) ELSE new_real(m)

ShowX(m, v) == IF Sp(m) = 0 THEN Push(m, v) ELSE SetX(free_vartype(m, X(m)), v)

(* What X may be to become an element of v.                                *)
ElementError(m, v) ==
  CASE v.t = "rmat" -> IF X(m).t \in {"real", "str"} THEN "none" ELSE "type"
    [] v.t = "cmat" -> IF X(m).t \in {"real", "cpx"} THEN "none" ELSE WrongType(X(m))
    [] OTHER -> IF Elements(m, v) = << >> THEN "nonexistent" ELSE "none"

StoreText(text, v) == IF text.ok THEN SetStrings(text.m, v, TRUE) ELSE NoMemory(text.m)
PutElement(m, v, i, new) == free_vartype(SetElements(m, v, [Elements(m, v) EXCEPT ![i] = new]), Elements(m, v)[i])
StoreCopy(d, v) == IF d.v = Null THEN NoMemory(d.m) ELSE PutElement(d.m, v, Index(d.m, v), d.v)

StoreElement(m, v) ==
  CASE v.t = "rmat" /\ X(m).t = "str" -> StoreText(Blocks(m, 1), v)
    [] v.t = "rmat" /\ X(m).t # "str" -> SetStrings(m, v, FALSE)
    [] v.t = "cmat" -> Written(m, v)
    [] OTHER -> StoreCopy(dup_vartype(m, X(m)), v)

(* Every command below starts with matedit_get(), whose result is g.       *)
StoreChecked(m, v, e) == IF e # "none" THEN Fail(m, e) ELSE StoreElement(m, v)
StoreOwn(own) ==
  IF own.v = Null THEN NoMemory(own.m)
  ELSE StoreChecked(SetEdited(own.m, own.v), own.v, ElementError(own.m, own.v))
Stoel(g) == IF g.e # "none" THEN Fail(g.m, g.e) ELSE StoreOwn(disentangle(g.m, g.v))
docmd_stoel(m) == Stoel(matedit_get(m))

Rclel(g) ==
  CASE g.e # "none" -> Fail(g.m, g.e)
    [] g.e = "none" /\ g.v.t = "list" /\ Elements(g.m, g.v) = << >> -> Fail(g.m, "nonexistent")
    [] OTHER -> OrNoMemory(Element(g.m, g.v, Index(g.m, g.v)), recall_result)
docmd_rclel(m) == Rclel(matedit_get(m))

docmd_rclij(m) ==
  IF m.ed.mode = 0 THEN Fail(m, "nonexistent")
  ELSE OrNone(NewAll(m, <<"real", "real">>), LAMBDA n, vs : recall_two_results(n, vs[2], vs[1]))

RealError(v) == IF v.t = "real" THEN "none" ELSE WrongType(v)
TwoReals(m) == FirstOf(<< <<RealError(X(m)) # "none", RealError(X(m))>>, <<RealError(Y(m)) # "none", RealError(Y(m))>>,
                          <<BadSize(m), "dimension">> >>)

Stoij(g) ==
  LET last == Len(Elements(g.m, g.v))
      e == IF g.e # "none" THEN g.e ELSE TwoReals(g.m)
  IN CASE e # "none" -> Fail(g.m, e)
       [] e = "none" /\ g.v.t = "list" /\ last = 0 -> Fail(g.m, "dimension")
       [] OTHER -> [g.m EXCEPT !.ed.i = IF g.v.t = "list" /\ g.m.o = "last" THEN last ELSE 1]
docmd_stoij(m) == Stoij(matedit_get(m))

(***************************************************************************)
(* Entering and leaving.                                                   *)
(***************************************************************************)
(* The user leaves the editor only if X can be stored, or there is no      *)
(* memory for it; what EDIT took from X comes back.                        *)
GivenBack(m) == IF m.ed.mode = 2 THEN [ShowX(m, m.ed.x) EXCEPT !.ed.x = Null] ELSE m
Leave(m) ==
  IF m.err \notin {"none", "memory", "nonexistent"} THEN m
  ELSE [leave_matrix_editor(GivenBack([m EXCEPT !.err = "none"])) EXCEPT !.sld = FALSE]
appmenu_exitcallback_1(m) == Leave(IF Sp(m) = 0 THEN m ELSE docmd_stoel(m))

finish_edit(m) == IF Interactive(m) THEN appmenu_exitcallback_1(m) ELSE m

EditLift(m) == [m EXCEPT !.lift = m.big \/ m.sld]

(* Once the editor has been left without an error: r has the first element.*)
EditX(r) ==
  IF r.v = Null THEN NoMemory(r.m)
  ELSE EditLift([SetX(r.m, r.v) EXCEPT !.ed = [mode |-> 2, name |-> "none", x |-> X(r.m), sub |-> 0, i |-> 1]])
Edit(m) ==
  CASE m.err # "none" -> m
    [] m.err = "none" /\ X(m).t \notin ArrayTypes -> Fail(m, "type")
    [] OTHER -> EditX(Element(m, X(m), 1))
docmd_edit(m) == Edit(finish_edit(m))

(* The variable an argument names must be an array.                        *)
ArrayError(m, d) ==
  CASE d.e # "none" -> d.e
    [] d.e = "none" /\ d.arg.k # "str" -> "type"
    [] d.e = "none" /\ d.arg.k = "str" /\ m.vars[d.arg.n] = Null -> "nonexistent"
    [] OTHER -> IF m.vars[d.arg.n].t \notin ArrayTypes THEN "type" ELSE "none"

EditVariable(r, name) ==
  IF r.v = Null THEN NoMemory(r.m)
  ELSE EditLift([ShowX(r.m, r.v) EXCEPT !.ed = [mode |-> 3, name |-> name, x |-> r.m.ed.x, sub |-> 0, i |-> 1]])
EditFound(m, d, e) ==
  IF e # "none" THEN Fail(m, e) ELSE EditVariable(Element(m, m.vars[d.arg.n], 1), d.arg.n)
EditNamed(m, d) == IF m.err # "none" THEN m ELSE EditFound(m, d, ArrayError(m, d))
EditArgument(m, arg) == EditNamed(m, Direct(m, arg))
docmd_editn(m, arg) == EditArgument(finish_edit(m), arg)

IndexNamed(m, d, e) ==
  IF e # "none" THEN Fail(m, e)
  ELSE [m EXCEPT !.ed = [mode |-> 1, name |-> d.arg.n, x |-> m.ed.x, sub |-> 0, i |-> 1]]
docmd_index(m, arg) ==
  IF Interactive(m) THEN Fail(m, "restricted")
  ELSE LET d == Direct(m, arg) IN IndexNamed(m, d, ArrayError(m, d))

Dim(m, d) ==
  CASE d.e # "none" -> Fail(m, d.e)
    [] d.e = "none" /\ d.arg.k # "str" -> Fail(m, "type")
    [] d.e = "none" /\ d.arg.k = "str" /\ TwoReals(m) # "none" -> Fail(m, TwoReals(m))
    [] OTHER -> dimension_array(m, d.arg.n, IF m.o \in {"less", "more"} THEN m.o ELSE "same")
docmd_dim(m, arg) == Dim(m, Direct(m, arg))

docmd_size(m) == dimension_array(m, "REGS", IF m.o \in {"less", "more", "zero"} THEN m.o ELSE "same")

(***************************************************************************)
(* Rows inserted and deleted.                                              *)
(***************************************************************************)
(* In the editor the new row is shown; what was allocated for that is      *)
(* freed when the array cannot be changed.                                 *)
ToShow(m, new) == IF Interactive(m) THEN new ELSE With(m, Null)
NothingToShow(r) == Interactive(r.m) /\ r.v = Null
Shown(m, newx) == IF newx = Null THEN m ELSE [ShowX(m, newx) EXCEPT !.lift = TRUE]

InsertElement(el, i, v) == SubSeq(el, 1, i - 1) \o <<v>> \o SubSeq(el, i, Len(el))
RemoveElement(el, i) == SubSeq(el, 1, i - 1) \o SubSeq(el, i + 1, Len(el))

(* A shared array is replaced by a resized copy, whose elements are copies *)
(* or, for a row inserted into a list, a zero.                             *)
NowEdited(r) == SetEdited(r.m, r.v)
ResizedCopy(copy, v, newx) ==
  IF ~copy.ok THEN NoMemory(free_vartype(copy.m, newx)) ELSE Shown(NowEdited(Replaced(copy.m, v, copy.vs)), newx)
ResizedIn(room, v, newx, el) == ResizedCopy(IF room.ok THEN DupAll(room.m, el) ELSE room, v, newx)
Resized(m, v, newx, el) == ResizedIn(Blocks(m, BlocksOf(v)), v, newx, el)

(* A list that is not shared: dimension_array_ref() appends a zero, which  *)
(* the elements are then moved over; and when there is no memory for the   *)
(* element inserted, newx is freed although only the editor has one.       *)
ZeroInserted(zero, v, newx, el, i) ==
  IF zero.v = Null THEN Flawed(NoMemory(free_vartype(zero.m, newx)))
  ELSE Shown(Flawed(SetElements(zero.m, v, InsertElement(el, i, zero.v))), newx)

InsertInto(r, v, newx, el, i) ==
  CASE r.e # "none" -> Fail(free_vartype(r.m, newx), r.e)
    [] r.e = "none" /\ v.t # "list" -> Shown(Written(r.m, v), newx)
    [] OTHER -> ZeroInserted(new_real(r.m), v, newx, el, i)

InsertUnshared(m, v, newx) ==
  LET el == Elements(m, v)
  IN InsertInto(dimension_array_ref(m, v, "more"), v, newx, el, IF el = << >> THEN 1 ELSE Index(m, v))

InsertShared(m, v, newx) ==
  LET el == Elements(m, v)
      i == IF el = << >> THEN 1 ELSE Index(m, v)
  IN Resized(m, v, newx, IF v.t = "list" THEN InsertElement(el, i, Plain("real")) ELSE << >>)

InsertRow(m, v, newx) ==
  [IF m.arr[v.a].rc = 1 THEN InsertUnshared(m, v, newx) ELSE InsertShared(m, v, newx) EXCEPT !.lift = TRUE]
InsertShowing(r) == IF NothingToShow(r) THEN NoMemory(r.m) ELSE InsertRow(r.m, Edited(r.m), r.v)
Insert(m) == InsertShowing(ToShow(m, NewPlain(m, IF Edited(m).t = "cmat" THEN "cpx" ELSE "real")))
InsertAfterStoring(m) == IF m.err \notin {"none", "nonexistent"} THEN m ELSE Insert([m EXCEPT !.err = "none"])
Insr(g) ==
  IF g.e # "none" THEN Fail(g.m, g.e)
  ELSE InsertAfterStoring(IF ~Interactive(g.m) \/ Sp(g.m) = 0 THEN g.m ELSE docmd_stoel(g.m))
docmd_insr(m) == Insr(matedit_get(m))

(* Deleting the only element of a list shows zero; an empty list has none  *)
(* to delete, which is not checked, nor are the texts of a shared matrix   *)
(* copied.  o is "size" for a matrix of one row.                           *)
Shrunk(r, v, newx) == IF r.e # "none" THEN Fail(free_vartype(r.m, newx), r.e) ELSE Shown(Written(r.m, v), newx)
DeleteUnshared(m, v, i, newx) ==
  LET el == Elements(m, v)
  IN IF v.t = "list" THEN Shown(free_vartype(SetElements(m, v, RemoveElement(el, i)), el[i]), newx)
     ELSE Shrunk(dimension_array_ref(m, v, "less"), v, newx)

DeleteShared(m, v, i, newx) ==
  Resized(m, v, newx, IF v.t = "list" THEN RemoveElement(Elements(m, v), i) ELSE << >>)

Back(m, i, last) == IF m.err = "none" /\ i = last /\ i > 1 THEN [m EXCEPT !.ed.i = i - 1] ELSE m
DeleteShowing(r, v, i) ==
  IF NothingToShow(r) THEN NoMemory(r.m)
  ELSE Back(IF r.m.arr[v.a].rc = 1 THEN DeleteUnshared(r.m, v, i, r.v) ELSE DeleteShared(r.m, v, i, r.v),
            i, Len(Elements(r.m, v)))
DeleteRow(m, v, i) == DeleteShowing(ToShow(m, Element(m, v, IF i = Len(Elements(m, v)) THEN i - 1 ELSE i + 1)), v, i)
Delr(g) ==
  LET none == g.v.t = "list" /\ Elements(g.m, g.v) = << >>
      seen == IF (g.v.t = "rmat" /\ g.m.arr[g.v.a].rc # 1) \/ none THEN Flawed(g.m) ELSE g.m
  IN CASE g.e # "none" -> Fail(g.m, g.e)
       [] g.e = "none" /\ g.v.t # "list" /\ BadSize(g.m) -> Fail(g.m, "dimension")
       [] OTHER -> IF none THEN seen ELSE DeleteRow(seen, g.v, Index(g.m, g.v))
docmd_delr(m) == Delr(matedit_get(m))

(***************************************************************************)
(* I+, I-, J+ and J- move without storing.  From a list J+ descends into   *)
(* an element that is an array itself, and J- returns.                     *)
(***************************************************************************)
Descended(m) == IF m.ed.sub # 0 THEN Beyond(m) ELSE [m EXCEPT !.ed.sub = m.ed.i, !.ed.i = 1]
Ascended(m) == IF m.ed.sub = 0 THEN m ELSE [m EXCEPT !.ed.i = m.ed.sub, !.ed.sub = 0]

ZeroAppended(all, own) ==
  IF ~all.ok THEN NoMemory(all.m)
  ELSE [SetElements(all.m, own, Append(Elements(all.m, own), all.vs[2])) EXCEPT !.ed.i = Len(Elements(all.m, own)) + 1]
GrownOwn(own) ==
  IF own.v = Null THEN NoMemory(own.m) ELSE ZeroAppended(NewAll(SetEdited(own.m, own.v), <<"raw", "real">>), own.v)
GrownList(m, v) == GrownOwn(disentangle(m, v))

PutResized(r) == IF r.e # "none" THEN r.m ELSE SetEdited(r.m, r.v)
Resize(m, v) == PutResized(dimension_array_ref(m, v, "more"))

NextColumn(m, v, el, i) ==
  CASE v.t # "list" -> IF m.o = "grow" THEN Resize(m, v) ELSE m
    [] v.t = "list" /\ i > Len(el) -> Fail(m, "nonexistent")
    [] OTHER -> IF el[i].t \in ArrayTypes THEN Descended(m)
                ELSE IF i = Len(el) /\ m.o = "grow" THEN GrownList(m, v) ELSE Fail(m, "type")
JAdd(g) == IF g.e # "none" THEN Fail(g.m, g.e) ELSE NextColumn(g.m, g.v, Elements(g.m, g.v), g.m.ed.i)
docmd_j_add(m) == JAdd(matedit_get(m))

JSub(g) == IF g.e # "none" THEN Fail(g.m, g.e) ELSE IF g.v.t = "list" THEN Ascended(g.m) ELSE g.m
docmd_j_sub(m) == JSub(matedit_get(m))

IPlus(m, v) == IF m.ed.i >= Len(Elements(m, v)) THEN 1 ELSE m.ed.i + 1
IMinus(m, v) == IF m.ed.i <= 1 THEN (IF Elements(m, v) = << >> THEN 1 ELSE Len(Elements(m, v))) ELSE m.ed.i - 1

AtRow(g, i) == IF g.e # "none" THEN Fail(g.m, g.e) ELSE IF g.v.t = "list" THEN [g.m EXCEPT !.ed.i = i] ELSE g.m
docmd_i_add(m) == LET g == matedit_get(m) IN AtRow(g, IPlus(g.m, g.v))
docmd_i_sub(m) == LET g == matedit_get(m) IN AtRow(g, IMinus(g.m, g.v))

(***************************************************************************)
(* The arrow keys store X, if it was changed, move, and show the element.  *)
(***************************************************************************)
ShowMoved(m, new) ==
  IF m.err # "none" THEN free_vartype(IF m.o = "one" THEN Flawed(m) ELSE m, new)
  ELSE [IF new = Null THEN m ELSE ShowX(m, new) EXCEPT !.lift = TRUE]

Changed(m, v) == Sp(m) > 0 /\ (m.o # "same" \/ (v.t = "rmat" /\ (X(m).t = "str") # contains_strings(m, v)))

StoreAndShow(r, w, changed) ==
  IF r.v = Null /\ r.m.o # "one" THEN NoMemory(r.m)
  ELSE ShowMoved(IF changed THEN StoreElement(r.m, w) ELSE r.m, r.v)
Moved(m, w, changed) == StoreAndShow(IF m.o = "one" THEN With(m, Null) ELSE Element(m, w, 1), w, changed)
MovedIn(r, changed) == IF r.e # "none" THEN Fail(r.m, r.e) ELSE Moved(SetEdited(r.m, r.v), r.v, changed)
Sized(m, own, right) == IF right /\ m.o = "grow" THEN dimension_array_ref(m, own, "more") ELSE Is(m, own)
MoveOwn(own, right, changed) ==
  IF own.v = Null THEN NoMemory(own.m) ELSE MovedIn(Sized(SetEdited(own.m, own.v), own.v, right), changed)

MoveInMatrix(m, v, right) ==
  IF Sp(m) > 0 /\ ElementError(m, v) # "none" THEN Fail(m, ElementError(m, v))
  ELSE MoveOwn(IF Changed(m, v) THEN disentangle(m, v) ELSE With(m, v), right, Changed(m, v))

(* In a list: the copy of X is made first and put in its place last.       *)
PutOld(m, i, old) ==
  LET v == Edited(m) IN IF old = Null THEN m
                        ELSE free_vartype(SetElements(m, v, [Elements(m, v) EXCEPT ![i] = old]), Elements(m, v)[i])

(* A zero at the end of the list, and another one to show.                 *)
ZeroShown(room, i, old, own, vs) ==
  IF ~room.ok THEN NoMemory(free_vartype(FreeAll(room.m, vs), old))
  ELSE [ShowX(PutOld(SetElements(room.m, own, Append(Elements(room.m, own), vs[1])), i, old), vs[2])
          EXCEPT !.ed.i = Len(Elements(room.m, own)) + 1]
OwnGrown(own, i, old, vs) ==
  IF own.v = Null THEN NoMemory(free_vartype(FreeAll(own.m, vs), old))
  ELSE ZeroShown(Blocks(SetEdited(own.m, own.v), 1), i, old, own.v, vs)
GrowAndShow(zeros, i, old) ==
  IF zeros.ok THEN OwnGrown(disentangle(zeros.m, Edited(zeros.m)), i, old, zeros.vs)
  ELSE NoMemory(free_vartype(zeros.m, old))

(* r is the element to show, at position k of the list sub.                *)
ShowAt(r, i, old, k, sub) ==
  IF r.v = Null THEN NoMemory(free_vartype(r.m, old))
  ELSE [ShowX(PutOld(r.m, i, old), r.v) EXCEPT !.ed.i = k, !.ed.sub = sub]
ShowInto(room, i, old, into) ==
  IF ~room.ok THEN NoMemory(free_vartype(room.m, old)) ELSE ShowAt(Element(room.m, into, 1), i, old, 1, i)

(* Where an arrow leads to from element i of the elements el: the list     *)
(* above, one of its own, nowhere, an element that is a list, a new one.   *)
Target(m, el, i, dir) ==
  LET grows == dir = "right" /\ m.o = "grow"
  IN CASE dir = "left" -> "out"
       [] dir # "left" /\ el = << >> -> IF grows THEN "new" ELSE "same"
       [] dir = "down" /\ el # << >> -> "next"
       [] dir = "up" /\ el # << >> -> "previous"
       [] OTHER -> IF (IF Sp(m) > 0 THEN X(m) ELSE el[i]).t \in ArrayTypes THEN "into"
                   ELSE IF i = Len(el) /\ grows THEN "new" ELSE "same"

ShowVertical(m, el, i, old, k) ==
  IF k = i /\ Sp(m) > 0 THEN PutOld(m, i, old) ELSE ShowAt(dup_vartype(m, el[k]), i, old, k, m.ed.sub)

ShowTarget(m, el, i, old, to) ==
  CASE to = "out" -> ShowAt(dup_vartype(m, Elements(m, EditedTop(m))[m.ed.sub]), i, old, m.ed.sub, 0)
    [] to = "same" -> PutOld(m, i, old)
    [] to = "new" -> GrowAndShow(NewAll(m, <<"real", "real">>), i, old)
    [] to = "into" -> IF m.ed.sub # 0 THEN Beyond(m) ELSE ShowInto(Blocks(m, 1), i, old, IF Sp(m) > 0 THEN X(m) ELSE el[i])
    [] OTHER -> ShowVertical(m, el, i, old, IF to = "next" THEN (IF i = Len(el) THEN 1 ELSE i + 1)
                                            ELSE IF i = 1 THEN Len(el) ELSE i - 1)

ShowElement(m, el, i, old, dir) == ShowTarget(m, el, i, old, Target(m, el, i, dir))

Lifted(m) == IF m.err = "none" THEN [m EXCEPT !.lift = TRUE] ELSE m
ShowNew(m, i, old, dir) == Lifted(ShowElement(m, Elements(m, Edited(m)), i, old, dir))
ShowAndPut(copy, i, dir) == IF copy.v = Null THEN NoMemory(copy.m) ELSE ShowNew(copy.m, i, copy.v, dir)
CopyX(m) == dup_vartype(m, X(m))
OwnCopy(own) == IF own.v = Null THEN own ELSE CopyX(SetEdited(own.m, own.v))

MoveInList(m, v, el, i, dir) ==
  CASE dir = "left" /\ m.ed.sub = 0 -> m
    [] (dir = "left" => m.ed.sub # 0) /\ ~(Sp(m) > 0 /\ el # << >> /\ (m.o # "same" \/ X(m).t # el[i].t)) ->
         ShowNew(m, i, Null, dir)
    [] OTHER -> ShowAndPut(OwnCopy(disentangle(m, v)), i, dir)

Move(g, dir) ==
  CASE g.e # "none" -> Fail(g.m, g.e)
    [] g.e = "none" /\ g.v.t = "list" -> MoveInList(g.m, g.v, Elements(g.m, g.v), Index(g.m, g.v), dir)
    [] OTHER -> MoveInMatrix(g.m, g.v, dir = "right")
matedit_move(m, dir) == Move(matedit_get(m), dir)

(***************************************************************************)
(* Parts of the matrix.                                                    *)
(***************************************************************************)
NotInList(g) ==
  CASE g.e # "none" -> g.e
    [] g.e = "none" /\ g.v.t = "list" -> "type"
    [] OTHER -> TwoReals(g.m)

PartOf(g, e) ==
  IF e # "none" THEN Fail(g.m, e) ELSE OrNoMemory(NewArray(g.m, g.v.t, g.m.arr[g.v.a].str, << >>), binary_result)
Getm(g) == PartOf(g, NotInList(g))
docmd_getm(m) == Getm(matedit_get(m))

PutmError(m, v) ==
  FirstOf(<< <<v.t = "list", "type">>,
             <<X(m).t \notin Matrices, WrongType(X(m))>>,
             <<v.t = "rmat" /\ X(m).t = "cmat", "type">>,
             <<BadSize(m), "dimension">>,
             <<v.t = "cmat" /\ Strings(m, X(m)), "alpha">> >>)

(* A real matrix is copied first, and the copy's array made its own.       *)
PutPart(own, source) ==
  IF own.v = Null THEN NoMemory(free_vartype(own.m, source))
  ELSE free_vartype(SetStrings(SetEdited(own.m, own.v), own.v, Strings(own.m, X(own.m))), source)
PutSource(source, v, copy) ==
  IF source.v = Null THEN NoMemory(free_vartype(source.m, copy)) ELSE PutPart(disentangle(source.m, v), source.v)
PutCopy(copy, v) == IF copy.v = Null THEN NoMemory(copy.m) ELSE PutSource(disentangle(copy.m, copy.v), v, copy.v)
PutChecked(m, v, e) ==
  CASE e # "none" -> Fail(m, e)
    [] e = "none" /\ v.t = "rmat" -> PutCopy(CopyX(m), v)
    [] OTHER -> PutPart(disentangle(m, v), Null)
Putm(g) == IF g.e # "none" THEN Fail(g.m, g.e) ELSE PutChecked(g.m, g.v, PutmError(g.m, g.v))
docmd_putm(m) == Putm(matedit_get(m))

WriteOwn(own) == IF own.v = Null THEN NoMemory(own.m) ELSE Written(SetEdited(own.m, own.v), own.v)
SwapRows(g, e) ==
  CASE e # "none" -> Fail(g.m, e)
    [] e = "none" /\ g.m.o = "same" -> g.m
    [] OTHER -> WriteOwn(disentangle(g.m, g.v))
SwapR(g) == SwapRows(g, NotInList(g))
docmd_swap_r(m) == SwapR(matedit_get(m))

RecallTwo(all) == IF all.ok THEN recall_two_results(all.m, all.vs[1], all.vs[2]) ELSE NoMemory(all.m)
Extreme(g) ==
  CASE g.e # "none" -> Fail(g.m, g.e)
    [] g.e = "none" /\ g.v.t # "rmat" -> Fail(g.m, "type")
    [] g.e = "none" /\ g.v.t = "rmat" /\ contains_strings(g.m, g.v) -> Fail(g.m, "alpha")
    [] OTHER -> RecallTwo(NewAll(g.m, <<"real", "real">>))
max_min_helper(m) == Extreme(matedit_get(m))

Sought(g) ==
  CASE g.e # "none" -> Fail(g.m, g.e)
    [] g.e = "none" /\ g.v.t = "list" -> Fail(g.m, "type")
    [] g.e = "none" /\ g.v.t = "rmat" /\ X(g.m).t = "list" -> Flawed(g.m)
    [] OTHER -> g.m

(* FIND only answers; a list in X is taken for a string.                   *)
docmd_find(m) ==
  IF X(m).t \in Matrices THEN Fail(m, "type")
  ELSE Sought(matedit_get(m))
=============================================================================
