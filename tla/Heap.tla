-------------------------------- MODULE Heap --------------------------------
(***************************************************************************)
(* The values of the calculator and who owns them: core_variables.cc.      *)
(*                                                                         *)
(* A value is a vartype object, a handle.  Matrices and lists are handles  *)
(* to an array with a reference count; several handles may share one, and  *)
(* whoever changes an array must disentangle its handle first.  Numbers,   *)
(* dimensions and texts are left out; of an array only the facts remain    *)
(* that the code branches on: whether a matrix holds strings, and the      *)
(* elements of a list.                                                     *)
(*                                                                         *)
(* m is the state of the machine, a record whose fields are described in   *)
(* module RpnMachine.  An operator that models a function of the code maps *)
(* m to the state after the call; one that returns a value as well yields  *)
(* [m |-> state, v |-> value].                                             *)
(***************************************************************************)
EXTENDS Integers, Sequences, FiniteSets, SequencesExt, FiniteSetsExt

Null == [t |-> "null", a |-> 0]
Plain(t) == [t |-> t, a |-> 0]
Matrices == {"rmat", "cmat"}
ArrayTypes == Matrices \cup {"list"}
Types == {"real", "cpx", "str"} \cup ArrayTypes

With(m, v) == [m |-> m, v |-> v]
Fail(m, e) == [m EXCEPT !.err = e]
NoMemory(m) == Fail(m, "memory")

(* A pair whose value is missing becomes the error, any other goes on.     *)
OrNoMemory(r, Go(_, _)) == IF r.v = Null THEN NoMemory(r.m) ELSE Go(r.m, r.v)

(* m.nomem = n > 0: the n-th call of malloc or realloc from here fails.    *)
Exhausted(m) == m.nomem = 1
Charged(m) == [m EXCEPT !.nomem = IF @ = 0 THEN 0 ELSE @ - 1]

(***************************************************************************)
(* Allocation.  A real, complex or string that this command has freed is   *)
(* in the pool of its type, and taken from there without malloc.           *)
(***************************************************************************)
Pooled(m, t) == t \in m.pool

NewPlain(m, t) ==
  CASE Pooled(m, t)  -> With([m EXCEPT !.live = @ + 1, !.pool = @ \ {t}], Plain(t))
    [] ~Pooled(m, t) /\ Exhausted(m) -> With(Charged(m), Null)
    [] OTHER -> With([Charged(m) EXCEPT !.live = @ + 1], Plain(t))

NewArray(m, t, str, el) ==
  IF Exhausted(m) THEN With(Charged(m), Null)
  ELSE With([Charged(m) EXCEPT !.live = @ + 1,
                               !.arr = Append(@, [rc |-> 1, str |-> str, el |-> el])],
            [t |-> t, a |-> Len(m.arr) + 1])

new_real(m) == NewPlain(m, "real")
new_complex(m) == NewPlain(m, "cpx")
new_string(m) == NewPlain(m, "str")
new_realmatrix(m) == NewArray(m, "rmat", FALSE, << >>)
new_complexmatrix(m) == NewArray(m, "cmat", FALSE, << >>)
new_list(m, n) == NewArray(m, "list", FALSE, [i \in 1 .. n |-> Null])

(***************************************************************************)
(* Release.  bad records what must not happen: an array freed more often   *)
(* than it is referred to, or changed while another handle shares it.      *)
(***************************************************************************)
RECURSIVE free_vartype(_, _)
RECURSIVE FreeAll(_, _)
free_vartype(m, v) ==
  IF v.t \in {"null", "raw"} THEN m
  ELSE IF v.t \notin ArrayTypes
  THEN [m EXCEPT !.live = @ - 1, !.pool = @ \cup {v.t}]
  ELSE LET a == v.a
           n == [m EXCEPT !.live = @ - 1, !.arr[a].rc = @ - 1, !.bad = @ \/ m.arr[a].rc < 1]
       IN IF n.arr[a].rc # 0 THEN n ELSE [FreeAll(n, m.arr[a].el) EXCEPT !.arr[a].el = << >>]

FreeAll(m, vs) == IF vs = << >> THEN m ELSE FreeAll(free_vartype(m, Head(vs)), Tail(vs))

(* clean_vartype_pools(): nothing is pooled any more.                      *)
clean_vartype_pools(m) == [m EXCEPT !.pool = {}]

dup_vartype(m, v) ==
  CASE v = Null -> With(m, Null)
    [] v.t \in ArrayTypes /\ Exhausted(m) -> With(Charged(m), Null)
    [] v.t \in ArrayTypes /\ ~Exhausted(m) ->
         With([Charged(m) EXCEPT !.live = @ + 1, !.arr[v.a].rc = @ + 1], v)
    [] OTHER -> NewPlain(m, v.t)

(***************************************************************************)
(* Several allocations in a row: when one of them fails, those before it   *)
(* are freed.  A raw block is one that is not a value: a permutation, the  *)
(* data of a job, room in a table.                                         *)
(***************************************************************************)
NewOf(m, t) ==
  CASE t \in Matrices -> NewArray(m, t, FALSE, << >>)
    [] t = "raw" -> With(Charged(m), IF Exhausted(m) THEN Null ELSE Plain(t))
    [] OTHER -> NewPlain(m, t)

RECURSIVE NewMore(_, _, _)
NewMore(m, vs, ts) ==
  IF ts = << >> THEN [ok |-> TRUE, m |-> m, vs |-> vs]
  ELSE LET r == NewOf(m, Head(ts))
       IN IF r.v = Null THEN [ok |-> FALSE, m |-> FreeAll(r.m, vs), vs |-> << >>]
          ELSE NewMore(r.m, Append(vs, r.v), Tail(ts))

RECURSIVE DupMore(_, _, _)
DupMore(m, vs, from) ==
  IF from = << >> THEN [ok |-> TRUE, m |-> m, vs |-> vs]
  ELSE LET r == dup_vartype(m, Head(from))
       IN IF Head(from) # Null /\ r.v = Null THEN [ok |-> FALSE, m |-> FreeAll(r.m, vs), vs |-> << >>]
          ELSE DupMore(r.m, Append(vs, r.v), Tail(from))

NewAll(m, ts) == NewMore(m, << >>, ts)
DupAll(m, vs) == DupMore(m, << >>, vs)

(* Go on with what was allocated, or return the error.                     *)
OrNone(all, Go(_, _)) == IF all.ok THEN Go(all.m, all.vs) ELSE NoMemory(all.m)

(***************************************************************************)
(* disentangle(): the handle gets an array of its own.  The value of the   *)
(* pair is the handle afterwards, or Null when there was no memory.        *)
(***************************************************************************)
disentangle(m, v) ==
  IF v.t \notin ArrayTypes \/ m.arr[v.a].rc = 1 THEN With(m, v)
  ELSE IF Exhausted(m) THEN With(Charged(m), Null)
  ELSE LET d == DupAll(Charged(m), m.arr[v.a].el)
       IN IF ~d.ok THEN With(d.m, Null)
          ELSE With([d.m EXCEPT !.arr = Append([@ EXCEPT ![v.a].rc = @ - 1],
                                               [rc |-> 1, str |-> m.arr[v.a].str, el |-> d.vs])],
                    [v EXCEPT !.a = Len(m.arr) + 1])

(* The array of v is written to.                                           *)
Written(m, v) == [m EXCEPT !.bad = @ \/ m.arr[v.a].rc # 1]
Elements(m, v) == m.arr[v.a].el
SetElements(m, v, el) == [Written(m, v) EXCEPT !.arr[v.a].el = el]
SetStrings(m, v, b) == [Written(m, v) EXCEPT !.arr[v.a].str = b]
contains_strings(m, v) == m.arr[v.a].str

(***************************************************************************)
(* Variables.  Levels are the subject of VarTable; here a name has at most *)
(* one value.  An indexed matrix is forgotten when it goes.                *)
(***************************************************************************)
recall_var(m, n) == m.vars[n]

Unindexed(m, n) == IF m.ed.mode = 1 /\ m.ed.name = n THEN [m EXCEPT !.ed.mode = 0, !.ed.name = "none"] ELSE m

(* store_var(): on success the table owns v, otherwise the caller still.   *)
store_var(m, n, v) ==
  IF m.vars[n] = Null
  THEN IF Exhausted(m) THEN NoMemory(Charged(m)) ELSE [Charged(m) EXCEPT !.vars[n] = v]
  ELSE [free_vartype(IF v.t \in ArrayTypes THEN m ELSE Unindexed(m, n), m.vars[n]) EXCEPT !.vars[n] = v]

purge_var(m, n) ==
  IF m.vars[n] = Null THEN m
  ELSE [free_vartype(Unindexed(m, n), m.vars[n]) EXCEPT !.vars[n] = Null]

purge_all_vars(m) ==
  LET names == SetToSeq(DOMAIN m.vars)
  IN [FreeAll(m, [i \in DOMAIN names |-> m.vars[names[i]]]) EXCEPT !.vars = [n \in DOMAIN @ |-> Null]]

(* matrix_copy() of core_linalg1's arguments: what may keep it from it.    *)
CopyError(m, dst, src, sameSize) ==
  CASE src.t \notin Matrices \/ dst.t \notin Matrices -> "type"
    [] src.t = "cmat" /\ dst.t = "rmat" -> "type"
    [] ~sameSize -> "dimension"
    [] src.t = "rmat" /\ contains_strings(m, src) -> "alpha"
    [] OTHER -> "none"
==============================================================================
