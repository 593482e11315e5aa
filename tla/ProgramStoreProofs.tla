------------------------- MODULE ProgramStoreProofs -------------------------
(***************************************************************************)
(* Proofs about the program memory. The invariant says of every program    *)
(* that it ends with its only END, of the table of labels that it lists    *)
(* the labels of all programs in order, of the targets in the code that a  *)
(* search would find them, and of the return addresses that they follow an *)
(* XEQ. None of these is inductive alone: a GTO goes where the table or a  *)
(* target sends it.                                                        *)
(***************************************************************************)
EXTENDS ProgramStore, SelectionTheorems, SequenceTheorems

PrgmRec == [lines : Seq(Lines), invalid : BOOLEAN, locked : BOOLEAN]

WellEnded(lines) ==
    /\ lines \in Seq(Lines)
    /\ Len(lines) > 0
    /\ \A i \in 1 .. Len(lines) : lines[i].op = "end" <=> i = Len(lines)

Shaped(ps) ==
    /\ ps \in Seq(PrgmRec)
    /\ Len(ps) > 0
    /\ \A p \in 1 .. Len(ps) : WellEnded(ps[p].lines)

(* A list of labels *)
LabelRec == [name : GlobalLabels \cup {NoName}, prgm : Nat, pc : Nat]

Spot(e) == <<e.prgm, e.pc>>

Lists(ls, ps) ==
    /\ ls \in Seq(LabelRec)
    /\ \A n \in 1 .. Len(ls) : Spot(ls[n]) \in Labelled(ps) /\ ls[n] = Entry(ps, Spot(ls[n]))
    /\ \A m, n \in 1 .. Len(ls) : m < n => Before(Spot(ls[m]), Spot(ls[n]))
    /\ \A q \in Labelled(ps) : \E n \in 1 .. Len(ls) : Spot(ls[n]) = q

-----------------------------------------------------------------------------
(* The places of the programs' lines                                       *)
LEMMA PositionFacts ==
    ASSUME NEW ps \in Seq(PrgmRec)
    PROVE  /\ \A p, i : <<p, i>> \in Positions(ps)
                            <=> p \in 1 .. Len(ps) /\ i \in 1 .. Len(ps[p].lines)
           /\ \A q \in Positions(ps) : q = <<q[1], q[2]>>
           /\ IsFiniteSet(Positions(ps))
<1>1. \A p \in 1 .. Len(ps) : ps[p].lines \in Seq(Lines)
  <2>1. \A p \in 1 .. Len(ps) : ps[p] \in PrgmRec
    OBVIOUS
  <2> QED
    BY <2>1 DEF PrgmRec
<1>2. \A p \in 1 .. Len(ps) : DOMAIN ps[p].lines = 1 .. Len(ps[p].lines)
  BY <1>1
<1>3. DOMAIN ps = 1 .. Len(ps) /\ Len(ps) \in Nat
  OBVIOUS
<1>4. \A p, i : <<p, i>> \in Positions(ps)
                    <=> p \in 1 .. Len(ps) /\ i \in 1 .. Len(ps[p].lines)
  BY <1>2, <1>3 DEF Positions
<1>5. \A q \in Positions(ps) : q = <<q[1], q[2]>>
  BY DEF Positions
<1> DEFINE row == [p \in 1 .. Len(ps) |-> {p} \X (1 .. Len(ps[p].lines))]
           rows == {row[p] : p \in 1 .. Len(ps)}
<1>6. Positions(ps) = UNION rows
  BY <1>2, <1>3 DEF Positions
<1>7. IsFiniteSet(rows)
  <2>1. row \in Surjection(1 .. Len(ps), rows)
    BY DEF Surjection
  <2> QED
    BY <1>3, <2>1, FS_Surjection, FS_Interval
<1>8. \A r \in rows : IsFiniteSet(r)
  <2> SUFFICES ASSUME NEW p \in 1 .. Len(ps)
               PROVE  IsFiniteSet({p} \X (1 .. Len(ps[p].lines)))
    OBVIOUS
  <2>1. Len(ps[p].lines) \in Nat
    BY <1>1
  <2>2. IsFiniteSet(1 .. Len(ps[p].lines))
    <3>1. \A n \in Nat : IsFiniteSet(1 .. n)
      BY FS_Interval
    <3> QED
      BY <2>1, <3>1, Zenon
  <2>3. IsFiniteSet({p})
    BY FS_Singleton
  <2>4. \A S, T : IsFiniteSet(S) /\ IsFiniteSet(T) => IsFiniteSet(S \X T)
    BY FS_Product, Zenon
  <2> QED
    BY <2>2, <2>3, <2>4, Zenon
<1>9. IsFiniteSet(Positions(ps))
  BY <1>6, <1>7, <1>8, FS_UNION
<1> QED
  BY <1>4, <1>5, <1>9

(* The place of a label                                                    *)
LEMMA LabelledFacts ==
    ASSUME NEW ps \in Seq(PrgmRec)
    PROVE  /\ \A p, i : <<p, i>> \in Labelled(ps)
                            <=> /\ p \in 1 .. Len(ps) /\ i \in 1 .. Len(ps[p].lines)
                                /\ \/ ps[p].lines[i].op = "end"
                                   \/ /\ ps[p].lines[i].op = "lbl"
                                      /\ ps[p].lines[i].arg \in GlobalLabels
           /\ \A q \in Labelled(ps) :
                 /\ q = <<q[1], q[2]>>
                 /\ q[1] \in 1 .. Len(ps) /\ q[2] \in 1 .. Len(ps[q[1]].lines)
                 /\ q[1] \in Nat /\ q[2] \in Nat
                 /\ Entry(ps, q) \in LabelRec /\ Spot(Entry(ps, q)) = q
           /\ IsFiniteSet(Labelled(ps))
<1>1. \A p, i : <<p, i>> \in Labelled(ps)
                    <=> /\ p \in 1 .. Len(ps) /\ i \in 1 .. Len(ps[p].lines)
                        /\ \/ ps[p].lines[i].op = "end"
                           \/ /\ ps[p].lines[i].op = "lbl"
                              /\ ps[p].lines[i].arg \in GlobalLabels
  BY PositionFacts DEF Labelled, LineAt
<1>2. ASSUME NEW q \in Labelled(ps)
      PROVE  /\ q = <<q[1], q[2]>>
             /\ q[1] \in 1 .. Len(ps) /\ q[2] \in 1 .. Len(ps[q[1]].lines)
             /\ q[1] \in Nat /\ q[2] \in Nat
             /\ Entry(ps, q) \in LabelRec /\ Spot(Entry(ps, q)) = q
  <2>1. q = <<q[1], q[2]>>
    BY PositionFacts DEF Labelled
  <2>2. q[1] \in 1 .. Len(ps) /\ q[2] \in 1 .. Len(ps[q[1]].lines)
    BY <1>1, <2>1
  <2>3. q[1] \in Nat /\ q[2] \in Nat
    BY <2>2
  <2>4. LineAt(ps, q).op = "end" \/ LineAt(ps, q).arg \in GlobalLabels
    BY DEF Labelled
  <2>5. Entry(ps, q) \in LabelRec
    BY <2>3, <2>4 DEF Entry, LabelRec
  <2>6. Spot(Entry(ps, q)) = <<q[1], q[2]>>
    BY DEF Spot, Entry
  <2> QED
    BY <2>1, <2>2, <2>3, <2>5, <2>6
<1>3. IsFiniteSet(Labelled(ps))
  <2>1. Labelled(ps) \in SUBSET Positions(ps)
    BY DEF Labelled
  <2> QED
    BY <2>1, PositionFacts, FS_Subset
<1> QED
  BY <1>1, <1>2, <1>3

LabelOrder(ps) == {r \in Labelled(ps) \X Labelled(ps) : Before(r[1], r[2])}

LEMMA LabelOrderOrders ==
    ASSUME NEW ps \in Seq(PrgmRec)
    PROVE  /\ Orders(LabelOrder(ps), Labelled(ps))
           /\ \A q, r \in Labelled(ps) : <<q, r>> \in LabelOrder(ps) <=> Before(q, r)
           /\ \A q \in Labelled(ps) :
                 Cardinality({r \in Labelled(ps) : Before(r, q)})
                     = Rank(LabelOrder(ps), Labelled(ps), q)
<1>1. \A q, r \in Labelled(ps) : <<q, r>> \in LabelOrder(ps) <=> Before(q, r)
  BY DEF LabelOrder
<1>2. \A q \in Labelled(ps) : q = <<q[1], q[2]>> /\ q[1] \in Nat /\ q[2] \in Nat
  BY LabelledFacts
<1>3. \A q \in Labelled(ps) : ~Before(q, q)
  BY <1>2 DEF Before
<1>4. \A q, r \in Labelled(ps) : q # r => Before(q, r) \/ Before(r, q)
  <2> SUFFICES ASSUME NEW q \in Labelled(ps), NEW r \in Labelled(ps),
                      q[1] = r[1] /\ q[2] = r[2]
               PROVE  q = r
    BY <1>2 DEF Before
  <2> QED
    BY <1>2
<1>5. \A q, r, t \in Labelled(ps) : Before(q, r) /\ Before(r, t) => Before(q, t)
  BY <1>2 DEF Before
<1>6. Orders(LabelOrder(ps), Labelled(ps))
  BY <1>1, <1>3, <1>4, <1>5 DEF Orders
<1>7. \A q \in Labelled(ps) :
          {r \in Labelled(ps) : Before(r, q)} = Below(LabelOrder(ps), Labelled(ps), q)
  BY <1>1 DEF Below
<1> QED
  BY <1>1, <1>6, <1>7 DEF Rank

(* rebuild_label_table() lists the labels.                                 *)
LEMMA RebuiltLists ==
    ASSUME NEW ps \in Seq(PrgmRec)
    PROVE  Lists(Rebuilt(ps), ps)
<1> DEFINE at == Labelled(ps)
           N == Cardinality(at)
           R == LabelOrder(ps)
           Nth(n) == CHOOSE q \in at : Cardinality({r \in at : Before(r, q)}) = n - 1
           ls == Rebuilt(ps)
<1>1. IsFiniteSet(at) /\ N \in Nat /\ Orders(R, at)
  BY LabelledFacts, LabelOrderOrders, FS_CardinalityType
<1>2. \A n \in 1 .. N : Nth(n) \in at /\ Rank(R, at, Nth(n)) = n - 1
  <2> SUFFICES ASSUME NEW n \in 1 .. N
               PROVE  Nth(n) \in at /\ Rank(R, at, Nth(n)) = n - 1
    OBVIOUS
  <2>1. PICK q \in at : Rank(R, at, q) = n - 1
    BY <1>1, RankSurjective
  <2>2. Cardinality({r \in at : Before(r, q)}) = n - 1
    BY <2>1, LabelOrderOrders
  <2>3. Nth(n) \in at /\ Cardinality({r \in at : Before(r, Nth(n))}) = n - 1
    BY <2>2
  <2> QED
    BY <2>3, LabelOrderOrders
<1>3. ls = [n \in 1 .. N |-> Entry(ps, Nth(n))]
  BY DEF Rebuilt
<1> HIDE DEF ls, Nth
<1>4. \A n \in 1 .. N : /\ ls[n] = Entry(ps, Nth(n)) /\ Spot(ls[n]) = Nth(n)
                        /\ ls[n] \in LabelRec
  BY <1>2, <1>3, LabelledFacts
<1>5. ls \in Seq(LabelRec) /\ Len(ls) = N
  <2>1. ls \in [1 .. N -> LabelRec]
    BY <1>3, <1>4
  <2> QED
    BY <1>1, <2>1
<1>6. \A n \in 1 .. Len(ls) : Spot(ls[n]) \in at /\ ls[n] = Entry(ps, Spot(ls[n]))
  BY <1>2, <1>4, <1>5
<1>7. \A m, n \in 1 .. Len(ls) : m < n => Before(Spot(ls[m]), Spot(ls[n]))
  <2> SUFFICES ASSUME NEW m \in 1 .. N, NEW n \in 1 .. N, m < n
               PROVE  Before(Nth(m), Nth(n))
    BY <1>4, <1>5
  <2>1. Rank(R, at, Nth(m)) < Rank(R, at, Nth(n))
    BY <1>1, <1>2
  <2>2. <<Nth(m), Nth(n)>> \in R
    BY <1>1, <1>2, <2>1, RankIncreases
  <2> QED
    BY <1>2, <2>2, LabelOrderOrders
<1>8. ASSUME NEW q \in at
      PROVE  \E n \in 1 .. Len(ls) : Spot(ls[n]) = q
  <2>1. Rank(R, at, q) \in 0 .. N - 1
    BY <1>1, RankIncreases
  <2> DEFINE n == Rank(R, at, q) + 1
  <2>2. n \in 1 .. N /\ n - 1 = Rank(R, at, q)
    BY <1>1, <2>1
  <2>3. Nth(n) \in at /\ Rank(R, at, Nth(n)) = Rank(R, at, q)
    BY <1>2, <2>2
  <2>4. Nth(n) = q
    BY <1>1, <2>3, RankIncreases
  <2> QED
    BY <1>4, <1>5, <2>2, <2>4
<1> QED
  BY <1>5, <1>6, <1>7, <1>8 DEF Lists, ls

(* There is only one list.                                                 *)
LEMMA ListsUnique ==
    ASSUME NEW ps \in Seq(PrgmRec), NEW ls, Lists(ls, ps)
    PROVE  ls = Rebuilt(ps)
<1> DEFINE at == Labelled(ps)
           R == LabelOrder(ps)
           spot == [n \in 1 .. Len(ls) |-> Spot(ls[n])]
<1>1. /\ ls \in Seq(LabelRec)
      /\ \A n \in 1 .. Len(ls) : Spot(ls[n]) \in at /\ ls[n] = Entry(ps, Spot(ls[n]))
      /\ \A m, n \in 1 .. Len(ls) : m < n => Before(Spot(ls[m]), Spot(ls[n]))
      /\ \A q \in at : \E n \in 1 .. Len(ls) : Spot(ls[n]) = q
  BY DEF Lists
<1>2. IsFiniteSet(at) /\ Orders(R, at) /\ Len(ls) \in Nat
  BY <1>1, LabelledFacts, LabelOrderOrders
<1>3. \A m, n \in 1 .. Len(ls) : m < n <=> <<spot[m], spot[n]>> \in R
  <2>1. \A m, n \in 1 .. Len(ls) : m < n => <<spot[m], spot[n]>> \in R
    BY <1>1, LabelOrderOrders
  <2>2. \A n \in 1 .. Len(ls) : <<spot[n], spot[n]>> \notin R
    BY <1>1, <1>2 DEF Orders
  <2>3. ASSUME NEW m \in 1 .. Len(ls), NEW n \in 1 .. Len(ls), <<spot[m], spot[n]>> \in R
        PROVE  m < n
    <3>1. m # n
      BY <2>2, <2>3
    <3>2. ~(n < m)
      <4> SUFFICES ASSUME n < m
                   PROVE  FALSE
        OBVIOUS
      <4>1. <<spot[n], spot[m]>> \in R
        BY <2>1
      <4>2. spot[n] \in at /\ spot[m] \in at
        BY <1>1
      <4>3. <<spot[m], spot[m]>> \in R
        BY <1>2, <2>3, <4>1, <4>2 DEF Orders
      <4> QED
        BY <2>2, <4>3
    <3> QED
      BY <3>1, <3>2
  <2> QED
    BY <2>1, <2>3
<1>4. \A m, n \in 1 .. Len(ls) : spot[m] = spot[n] => m = n
  <2> SUFFICES ASSUME NEW m \in 1 .. Len(ls), NEW n \in 1 .. Len(ls), spot[m] = spot[n]
               PROVE  m = n
    OBVIOUS
  <2>1. spot[n] \in at
    BY <1>1
  <2>2. <<spot[m], spot[n]>> \notin R /\ <<spot[n], spot[m]>> \notin R
    BY <1>2, <2>1 DEF Orders
  <2>3. ~(m < n) /\ ~(n < m)
    BY <1>3, <2>2
  <2> QED
    BY <2>3
<1>5. Cardinality(at) = Len(ls)
  <2>1. spot \in Bijection(1 .. Len(ls), at)
    BY <1>1, <1>4 DEF Bijection, Injection, Surjection, IsInjective
  <2> QED
    BY <1>2, <2>1, FS_CountingElements DEF ExistsBijection
<1>6. ASSUME NEW n \in 1 .. Len(ls)
      PROVE  Rank(R, at, spot[n]) = n - 1
  <2> DEFINE f == [m \in 1 .. n - 1 |-> spot[m]]
             B == Below(R, at, spot[n])
  <2>1. \A m \in 1 .. n - 1 : m \in 1 .. Len(ls) /\ m < n
    BY <1>2
  <2>2. f \in [1 .. n - 1 -> B]
    BY <1>1, <1>3, <2>1 DEF Below
  <2>3. \A q \in B : \E m \in 1 .. n - 1 : f[m] = q
    <3> SUFFICES ASSUME NEW q \in B
                 PROVE  \E m \in 1 .. n - 1 : f[m] = q
      OBVIOUS
    <3>1. q \in at /\ <<q, spot[n]>> \in R
      BY DEF Below
    <3>2. PICK m \in 1 .. Len(ls) : spot[m] = q
      BY <1>1, <3>1
    <3>3. m < n
      BY <1>3, <3>1, <3>2
    <3> QED
      BY <3>2, <3>3
  <2>4. f \in Bijection(1 .. n - 1, B)
    BY <1>4, <2>1, <2>2, <2>3 DEF Bijection, Injection, Surjection, IsInjective
  <2>5. n - 1 \in Nat
    OBVIOUS
  <2> QED
    BY <2>4, <2>5, FS_CountingElements DEF ExistsBijection, Rank
<1> DEFINE Nth(n) == CHOOSE q \in at : Cardinality({r \in at : Before(r, q)}) = n - 1
<1>7. ASSUME NEW n \in 1 .. Len(ls)
      PROVE  Nth(n) = spot[n]
  <2>1. spot[n] \in at
    BY <1>1
  <2>2. Cardinality({r \in at : Before(r, spot[n])}) = n - 1
    BY <1>6, <2>1, LabelOrderOrders
  <2>3. Nth(n) \in at /\ Cardinality({r \in at : Before(r, Nth(n))}) = n - 1
    BY <2>1, <2>2
  <2>4. Rank(R, at, Nth(n)) = Rank(R, at, spot[n])
    BY <1>6, <2>3, LabelOrderOrders
  <2> QED
    BY <1>2, <2>1, <2>3, <2>4, RankIncreases
<1>8. Rebuilt(ps) = [n \in 1 .. Len(ls) |-> Entry(ps, Nth(n))]
  BY <1>5 DEF Rebuilt
<1> HIDE DEF Nth
<1>9. \A n \in 1 .. Len(ls) : ls[n] = Entry(ps, Nth(n))
  BY <1>1, <1>7
<1> QED
  BY <1>1, <1>8, <1>9

-----------------------------------------------------------------------------
(* Lists of labels that follow an edit                                     *)

IsLabel(ln) == ln.op = "end" \/ (ln.op = "lbl" /\ ln.arg \in GlobalLabels)

SameLine(a, b) == a.op = b.op /\ a.arg = b.arg

SameText(ps, ps2) ==
    /\ Len(ps2) = Len(ps)
    /\ \A p \in 1 .. Len(ps) :
          /\ Len(ps2[p].lines) = Len(ps[p].lines)
          /\ \A i \in 1 .. Len(ps[p].lines) : SameLine(ps[p].lines[i], ps2[p].lines[i])

(* The labels are where they were when only targets and flags change.      *)
LEMMA SameTextLists ==
    ASSUME NEW ps \in Seq(PrgmRec), NEW ps2 \in Seq(PrgmRec), SameText(ps, ps2),
           NEW ls, Lists(ls, ps)
    PROVE  Lists(ls, ps2)
<1>1. \A p, i : <<p, i>> \in Labelled(ps) <=> <<p, i>> \in Labelled(ps2)
  <2> SUFFICES ASSUME NEW p \in 1 .. Len(ps), NEW i \in 1 .. Len(ps[p].lines)
               PROVE  <<p, i>> \in Labelled(ps) <=> <<p, i>> \in Labelled(ps2)
    BY LabelledFacts DEF SameText
  <2>1. SameLine(ps[p].lines[i], ps2[p].lines[i])
    BY DEF SameText
  <2> QED
    BY <2>1, LabelledFacts DEF SameText, SameLine
<1>2. Labelled(ps) = Labelled(ps2)
  <2>1. \A q \in Labelled(ps) : q \in Labelled(ps2)
    BY <1>1, LabelledFacts
  <2>2. \A q \in Labelled(ps2) : q \in Labelled(ps)
    BY <1>1, LabelledFacts
  <2> QED
    BY <2>1, <2>2
<1>3. \A q \in Labelled(ps) : Entry(ps, q) = Entry(ps2, q)
  <2> SUFFICES ASSUME NEW q \in Labelled(ps)
               PROVE  Entry(ps, q) = Entry(ps2, q)
    OBVIOUS
  <2>1. SameLine(LineAt(ps, q), LineAt(ps2, q))
    BY LabelledFacts DEF SameText, LineAt
  <2> QED
    BY <2>1 DEF SameLine, Entry
<1> QED
  BY <1>2, <1>3 DEF Lists

(* The entries of a list, and the programs                                 *)
LEMMA LabelRecs ==
    ASSUME NEW ls \in Seq(LabelRec), NEW n \in 1 .. Len(ls)
    PROVE  /\ ls[n] \in LabelRec
           /\ ls[n].name \in GlobalLabels \cup {NoName}
           /\ ls[n].prgm \in Nat /\ ls[n].pc \in Nat
<1>1. ls[n] \in LabelRec
  OBVIOUS
<1> QED
  BY <1>1 DEF LabelRec

LEMMA PrgmRecs ==
    ASSUME NEW ps \in Seq(PrgmRec), NEW p \in 1 .. Len(ps)
    PROVE  /\ ps[p] \in PrgmRec /\ ps[p].lines \in Seq(Lines)
           /\ Len(ps[p].lines) \in Nat /\ DOMAIN ps[p].lines = 1 .. Len(ps[p].lines)
           /\ ps[p].invalid \in BOOLEAN /\ ps[p].locked \in BOOLEAN
<1>1. ps[p] \in PrgmRec
  OBVIOUS
<1>2. ps[p].lines \in Seq(Lines)
  BY <1>1 DEF PrgmRec
<1> QED
  BY <1>1, <1>2 DEF PrgmRec

LEMMA AsSeq ==
    ASSUME NEW S, NEW n \in Nat, NEW f \in [1 .. n -> S]
    PROVE  f \in Seq(S) /\ Len(f) = n
OBVIOUS

(* update_label_table() never meets a later program too early.             *)
LEMMA UpdatedFacts ==
    ASSUME NEW ps \in Seq(PrgmRec), NEW ls, Lists(ls, ps),
           NEW p \in Nat, NEW from \in Nat, NEW by
    PROVE  Updated(ls, p, from, by)
               = [n \in 1 .. Len(ls) |->
                     IF ls[n].prgm = p /\ ls[n].pc >= from
                       THEN [ls[n] EXCEPT !.pc = @ + by] ELSE ls[n]]
<1>1. ls \in Seq(LabelRec) /\ DOMAIN ls = 1 .. Len(ls) /\ Len(ls) \in Nat
  BY DEF Lists
<1>2. ASSUME NEW n \in 1 .. Len(ls), ls[n].prgm = p, NEW m \in 1 .. n
      PROVE  ls[m].prgm <= p
  <2>1. m \in 1 .. Len(ls)
    BY <1>1
  <2>2. /\ ls[m].prgm \in Nat /\ ls[m].pc \in Nat
        /\ ls[n].prgm \in Nat /\ ls[n].pc \in Nat
    BY <1>1, <2>1, LabelRecs
  <2>3. m < n => Before(Spot(ls[m]), Spot(ls[n]))
    BY <2>1 DEF Lists
  <2>4. Before(Spot(ls[m]), Spot(ls[n])) => ls[m].prgm <= ls[n].prgm
    BY <2>2 DEF Before, Spot
  <2> QED
    BY <1>2, <2>2, <2>3, <2>4
<1> QED
  BY <1>1, <1>2 DEF Updated

(* Lines from .. from+k-1 are taken out, the lines below move by so many   *)
(* places, and what is put in has no label.                                *)
Moved(old, new, from, k, by) ==
    /\ from \in Nat \ {0} /\ k \in Nat /\ by \in Int
    /\ by >= -k /\ from + k <= Len(old) + 1
    /\ Len(new) = Len(old) + by
    /\ \A i \in 1 .. Len(old) : i < from => SameLine(old[i], new[i])
    /\ \A i \in 1 .. Len(old) : i >= from + k => SameLine(old[i], new[i + by])
    /\ \A j \in 1 .. Len(new) : IsLabel(new[j]) => j < from \/ j - by >= from + k

LEMMA MovedForward ==
    ASSUME NEW old \in Seq(Lines), NEW new \in Seq(Lines), NEW from, NEW k, NEW by,
           Moved(old, new, from, k, by),
           NEW i \in 1 .. Len(old), i < from \/ i >= from + k
    PROVE  /\ i < from => i \in 1 .. Len(new) /\ SameLine(old[i], new[i])
           /\ i >= from + k => i + by \in 1 .. Len(new) /\ SameLine(old[i], new[i + by])
BY DEF Moved

CameFrom(old, new, from, k, by, i, j) ==
    /\ SameLine(old[i], new[j])
    /\ (i < from /\ j = i) \/ (i >= from + k /\ j = i + by)

LEMMA MovedBack ==
    ASSUME NEW old \in Seq(Lines), NEW new \in Seq(Lines), NEW from, NEW k, NEW by,
           Moved(old, new, from, k, by), NEW j \in 1 .. Len(new), IsLabel(new[j])
    PROVE  \E i \in 1 .. Len(old) : CameFrom(old, new, from, k, by, i, j)
<1>1. CASE j < from
  <2>1. j \in 1 .. Len(old) /\ SameLine(old[j], new[j])
    BY <1>1 DEF Moved
  <2> QED
    BY <1>1, <2>1 DEF CameFrom
<1>2. CASE j >= from
  <2> DEFINE i == j - by
  <2>1. i >= from + k /\ i \in 1 .. Len(old) /\ j = i + by
    BY <1>2 DEF Moved
  <2>2. SameLine(old[i], new[j])
    BY <2>1 DEF Moved
  <2> QED
    BY <2>1, <2>2 DEF CameFrom
<1> QED
  BY <1>1, <1>2 DEF Moved

(* The labels outside lines from .. from+k-1 of program p                  *)
Outside(ls, p, from, k) ==
    {m \in 1 .. Len(ls) : ~(ls[m].prgm = p /\ from <= ls[m].pc /\ ls[m].pc < from + k)}

(* src maps the places in kept to those in ls, where it selects I          *)
Selects(src, kept, ls, I) ==
    /\ src \in [1 .. Len(kept) -> 1 .. Len(ls)]
    /\ \A n \in 1 .. Len(kept) : kept[n] = ls[src[n]] /\ src[n] \in I
    /\ \A m, n \in 1 .. Len(kept) : m < n => src[m] < src[n]
    /\ \A i \in I : \E n \in 1 .. Len(kept) : src[n] = i

LEMMA SelectsFacts ==
    ASSUME NEW ls \in Seq(LabelRec), NEW I, I \subseteq 1 .. Len(ls),
           NEW kept, kept = Kept(ls, I)
    PROVE  /\ kept \in Seq(LabelRec) /\ Len(kept) \in Nat
           /\ \E src : Selects(src, kept, ls, I)
<1>1. I \subseteq DOMAIN ls
  OBVIOUS
<1>2. /\ kept \in Seq(LabelRec) /\ Len(kept) = Cardinality(I) /\ Len(kept) \in Nat
      /\ \A n \in 1 .. Len(kept) : NthOf(I, n) \in I /\ kept[n] = ls[NthOf(I, n)]
      /\ \A m, n \in 1 .. Len(kept) : m < n <=> NthOf(I, m) < NthOf(I, n)
      /\ \A i \in I : \E n \in 1 .. Len(kept) : NthOf(I, n) = i
  <2> DEFINE K == Kept(ls, I)
  <2>1. /\ K \in Seq(LabelRec) /\ Len(K) = Cardinality(I) /\ Cardinality(I) \in Nat
        /\ \A n \in 1 .. Cardinality(I) : NthOf(I, n) \in I /\ K[n] = ls[NthOf(I, n)]
        /\ \A m, n \in 1 .. Cardinality(I) : m < n <=> NthOf(I, m) < NthOf(I, n)
        /\ \A i \in I : \E n \in 1 .. Cardinality(I) : NthOf(I, n) = i
    BY <1>1, KeptFacts
  <2> HIDE DEF K
  <2>2. kept = K
    BY DEF K
  <2> QED
    BY <2>1, <2>2
<1> DEFINE src == [n \in 1 .. Len(kept) |-> NthOf(I, n)]
<1>3. Selects(src, kept, ls, I)
  BY <1>1, <1>2 DEF Selects
<1> HIDE DEF src
<1> QED
  BY <1>2, <1>3

(* The labels of program p from a line on are moved.                       *)
Shifted(ls, p, from, by) ==
    [n \in 1 .. Len(ls) |->
        IF ls[n].prgm = p /\ ls[n].pc >= from THEN [ls[n] EXCEPT !.pc = @ + by] ELSE ls[n]]

LEMMA ListsShifted ==
    ASSUME NEW ps \in Seq(PrgmRec), NEW ps2 \in Seq(PrgmRec), Len(ps2) = Len(ps),
           NEW ls, Lists(ls, ps),
           NEW p \in 1 .. Len(ps), NEW from, NEW k, NEW by,
           Moved(ps[p].lines, ps2[p].lines, from, k, by),
           \A q \in 1 .. Len(ps) : q # p => ps2[q].lines = ps[q].lines,
           NEW kept \in Seq(LabelRec), NEW src,
           Selects(src, kept, ls, Outside(ls, p, from, k)),
           NEW ls2, ls2 = Shifted(kept, p, from + k, by)
    PROVE  Lists(ls2, ps2)
<1>1. /\ ls \in Seq(LabelRec) /\ DOMAIN ls = 1 .. Len(ls) /\ Len(ls) \in Nat
      /\ from \in Nat \ {0} /\ k \in Nat /\ by \in Int /\ by >= -k
  BY DEF Lists, Moved
<1>2. Len(kept) \in Nat
  OBVIOUS
<1>3. Selects(src, kept, ls, Outside(ls, p, from, k))
  OBVIOUS
(* A label that is kept, its line before and after *)
<1>4. ASSUME NEW n \in 1 .. Len(kept)
      PROVE  /\ kept[n] = Entry(ps, Spot(kept[n])) /\ Spot(kept[n]) \in Labelled(ps)
             /\ kept[n].prgm \in Nat /\ kept[n].pc \in Nat /\ kept[n] \in LabelRec
             /\ kept[n].prgm = p => kept[n].pc < from \/ kept[n].pc >= from + k
  <2>1. kept[n] = ls[src[n]] /\ src[n] \in Outside(ls, p, from, k) /\ src[n] \in 1 .. Len(ls)
    BY <1>3 DEF Selects
  <2>2. kept[n].prgm \in Nat /\ kept[n].pc \in Nat /\ kept[n] \in LabelRec
    BY <1>2, LabelRecs
  <2>3. kept[n] = Entry(ps, Spot(kept[n])) /\ Spot(kept[n]) \in Labelled(ps)
    BY <2>1 DEF Lists
  <2>4. kept[n].prgm = p => kept[n].pc < from \/ kept[n].pc >= from + k
    BY <1>1, <2>1, <2>2 DEF Outside
  <2> QED
    BY <2>2, <2>3, <2>4
<1>5. ASSUME NEW n \in 1 .. Len(kept)
      PROVE  /\ ls2[n].name = kept[n].name /\ ls2[n].prgm = kept[n].prgm
             /\ ls2[n].pc = IF kept[n].prgm = p /\ kept[n].pc >= from + k
                              THEN kept[n].pc + by ELSE kept[n].pc
             /\ ls2[n] = [name |-> kept[n].name, prgm |-> kept[n].prgm, pc |-> ls2[n].pc]
  BY <1>4 DEF LabelRec, Shifted
<1>6. ASSUME NEW n \in 1 .. Len(kept)
      PROVE  Spot(ls2[n]) \in Labelled(ps2) /\ ls2[n].name = Entry(ps2, Spot(ls2[n])).name
  <2> DEFINE q == kept[n].prgm
             i == kept[n].pc
             j == ls2[n].pc
  <2>1. /\ Spot(kept[n]) = <<q, i>> /\ Spot(ls2[n]) = <<q, j>>
        /\ <<q, i>> \in Labelled(ps)
    BY <1>4, <1>5 DEF Spot
  <2>2. q \in 1 .. Len(ps) /\ i \in 1 .. Len(ps[q].lines) /\ IsLabel(ps[q].lines[i])
    BY <2>1, LabelledFacts DEF IsLabel
  <2>3. ps[p].lines \in Seq(Lines) /\ ps2[p].lines \in Seq(Lines)
    BY PrgmRecs
  <2>4. /\ q # p => j = i
        /\ q = p => (i < from /\ j = i) \/ (i >= from + k /\ j = i + by)
    BY <1>1, <1>4, <1>5
  <2>5. j \in 1 .. Len(ps2[q].lines) /\ SameLine(ps[q].lines[i], ps2[q].lines[j])
    <3>1. CASE q # p
      BY <2>2, <2>4, <3>1 DEF SameLine
    <3>2. CASE q = p
      <4>1. i \in 1 .. Len(ps[p].lines)
        BY <2>2, <3>2
      <4> HIDE DEF q, i, j
      <4> QED
        BY <2>3, <2>4, <3>2, <4>1, MovedForward
    <3> QED
      BY <3>1, <3>2
  <2> HIDE DEF q, i, j
  <2>6. <<q, j>> \in Labelled(ps2)
    BY <2>2, <2>5, LabelledFacts DEF SameLine, IsLabel
  <2>7. kept[n].name = Entry(ps, <<q, i>>).name
    BY <1>4, <2>1
  <2>8. Entry(ps, <<q, i>>).name = Entry(ps2, <<q, j>>).name
    BY <2>5 DEF Entry, LineAt, SameLine
  <2> QED
    BY <1>5, <2>1, <2>6, <2>7, <2>8
<1>7. ls2 \in Seq(LabelRec) /\ Len(ls2) = Len(kept)
  <2>1. \A n \in 1 .. Len(kept) : ls2[n] \in LabelRec
    <3> SUFFICES ASSUME NEW n \in 1 .. Len(kept)
                 PROVE  ls2[n] \in LabelRec
      OBVIOUS
    <3>1. ls2[n].pc \in Nat
      BY <1>6, LabelledFacts DEF Spot
    <3>2. ls2[n].name \in GlobalLabels \cup {NoName} /\ ls2[n].prgm \in Nat
      BY <1>2, <1>5, LabelRecs
    <3>3. \A a \in GlobalLabels \cup {NoName}, b \in Nat, c \in Nat :
              [name |-> a, prgm |-> b, pc |-> c] \in LabelRec
      BY DEF LabelRec
    <3>4. kept[n].name \in GlobalLabels \cup {NoName} /\ kept[n].prgm \in Nat
      BY <1>5, <3>2
    <3>5. [name |-> kept[n].name, prgm |-> kept[n].prgm, pc |-> ls2[n].pc] \in LabelRec
      BY <3>1, <3>3, <3>4
    <3> QED
      BY <1>5, <3>5, Zenon
  <2>2. ls2 \in [1 .. Len(kept) -> LabelRec]
    BY <2>1 DEF Shifted
  <2> QED
    BY <1>2, <2>2, AsSeq
<1>8. \A n \in 1 .. Len(ls2) : /\ Spot(ls2[n]) \in Labelled(ps2)
                               /\ ls2[n] = Entry(ps2, Spot(ls2[n]))
  <2> SUFFICES ASSUME NEW n \in 1 .. Len(kept)
               PROVE  ls2[n] = Entry(ps2, Spot(ls2[n]))
    BY <1>6, <1>7
  <2>1. PICK a : Entry(ps2, Spot(ls2[n])) =
                     [name |-> a, prgm |-> ls2[n].prgm, pc |-> ls2[n].pc]
    BY DEF Entry, Spot
  <2>9. Entry(ps2, Spot(ls2[n])).name = a
    BY <2>1
  <2>2. a = kept[n].name
    BY <1>5, <1>6, <2>9
  <2>3. ls2[n].prgm = kept[n].prgm
    BY <1>5
  <2>4. ls2[n] = [name |-> kept[n].name, prgm |-> kept[n].prgm, pc |-> ls2[n].pc]
    BY <1>5
  <2> DEFINE c == ls2[n].pc
  <2> HIDE DEF c
  <2>5. ls2[n] = [name |-> kept[n].name, prgm |-> kept[n].prgm, pc |-> c]
    BY <2>4 DEF c
  <2>6. Entry(ps2, Spot(ls2[n])) = [name |-> kept[n].name, prgm |-> kept[n].prgm, pc |-> c]
    BY <2>1, <2>2, <2>3 DEF c
  <2> QED
    BY <2>5, <2>6, Zenon
<1>9. \A m, n \in 1 .. Len(ls2) : m < n => Before(Spot(ls2[m]), Spot(ls2[n]))
  <2> SUFFICES ASSUME NEW m \in 1 .. Len(kept), NEW n \in 1 .. Len(kept), m < n
               PROVE  Before(Spot(ls2[m]), Spot(ls2[n]))
    BY <1>7
  <2>1. src[m] \in 1 .. Len(ls) /\ src[n] \in 1 .. Len(ls) /\ src[m] < src[n]
    BY <1>3 DEF Selects
  <2>2. Before(Spot(kept[m]), Spot(kept[n]))
    BY <1>3, <2>1 DEF Lists, Selects
  <2>3. \/ kept[m].prgm < kept[n].prgm
        \/ kept[m].prgm = kept[n].prgm /\ kept[m].pc < kept[n].pc
    BY <2>2 DEF Before, Spot
  <2>4. \/ ls2[m].prgm < ls2[n].prgm
        \/ ls2[m].prgm = ls2[n].prgm /\ ls2[m].pc < ls2[n].pc
    <3>1. CASE kept[m].prgm < kept[n].prgm
      BY <1>5, <3>1
    <3>2. CASE kept[m].prgm = kept[n].prgm /\ kept[m].prgm # p /\ kept[m].pc < kept[n].pc
      BY <1>5, <3>2
    <3>3. CASE kept[m].prgm = p /\ kept[n].prgm = p /\ kept[m].pc < kept[n].pc
      <4>1. /\ kept[m].pc \in Nat /\ kept[n].pc \in Nat
            /\ kept[m].pc < from \/ kept[m].pc >= from + k
            /\ kept[n].pc < from \/ kept[n].pc >= from + k
        BY <1>4, <3>3
      <4>2. /\ ls2[m].pc = IF kept[m].pc >= from + k THEN kept[m].pc + by ELSE kept[m].pc
            /\ ls2[n].pc = IF kept[n].pc >= from + k THEN kept[n].pc + by ELSE kept[n].pc
            /\ ls2[m].prgm = ls2[n].prgm
        BY <1>5, <3>3
      <4>3. \A a, b \in Nat :
               /\ a < b
               /\ a < from \/ a >= from + k
               /\ b < from \/ b >= from + k
               => (IF a >= from + k THEN a + by ELSE a)
                     < (IF b >= from + k THEN b + by ELSE b)
        BY <1>1
      <4> QED
        BY <3>3, <4>1, <4>2, <4>3, Zenon
    <3> QED
      BY <2>3, <3>1, <3>2, <3>3
  <2> QED
    BY <2>4 DEF Before, Spot
<1>10. ASSUME NEW r \in Labelled(ps2)
       PROVE  \E n \in 1 .. Len(ls2) : Spot(ls2[n]) = r
  <2>1. PICK q, j : /\ r = <<q, j>> /\ q \in 1 .. Len(ps) /\ j \in 1 .. Len(ps2[q].lines)
                    /\ IsLabel(ps2[q].lines[j])
    BY LabelledFacts DEF IsLabel
  <2>2. \E i \in 1 .. Len(ps[q].lines) :
            /\ SameLine(ps[q].lines[i], ps2[q].lines[j])
            /\ q # p => j = i
            /\ q = p => (i < from /\ j = i) \/ (i >= from + k /\ j = i + by)
    <3>1. CASE q # p
      BY <2>1, <3>1 DEF SameLine
    <3>2. CASE q = p
      <4>1. ps[p].lines \in Seq(Lines) /\ ps2[p].lines \in Seq(Lines)
        BY PrgmRecs
      <4>2. j \in 1 .. Len(ps2[p].lines) /\ IsLabel(ps2[p].lines[j])
        BY <2>1, <3>2
      <4>3. \E i \in 1 .. Len(ps[p].lines) :
               CameFrom(ps[p].lines, ps2[p].lines, from, k, by, i, j)
        BY <4>1, <4>2, MovedBack
      <4> QED
        BY <3>2, <4>3 DEF CameFrom
    <3> QED
      BY <3>1, <3>2
  <2>3. PICK i \in 1 .. Len(ps[q].lines) :
            /\ SameLine(ps[q].lines[i], ps2[q].lines[j])
            /\ q # p => j = i
            /\ q = p => (i < from /\ j = i) \/ (i >= from + k /\ j = i + by)
    BY <2>2
  <2>4. <<q, i>> \in Labelled(ps)
    BY <2>1, <2>3, LabelledFacts DEF SameLine, IsLabel
  <2>5. PICK m \in 1 .. Len(ls) : Spot(ls[m]) = <<q, i>>
    BY <2>4 DEF Lists
  <2>6. ls[m].prgm = q /\ ls[m].pc = i
    BY <2>5 DEF Spot
  <2>7. i \in Nat
    BY <2>1, PrgmRecs
  <2>8. m \in Outside(ls, p, from, k)
    BY <1>1, <2>3, <2>6, <2>7 DEF Outside
  <2>9. PICK n \in 1 .. Len(kept) : src[n] = m
    BY <1>3, <2>8 DEF Selects
  <2>10. kept[n].prgm = q /\ kept[n].pc = i
    BY <1>3, <2>6, <2>9 DEF Selects
  <2>11. ls2[n].prgm = q /\ ls2[n].pc = j
    <3>1. /\ ls2[n].prgm = q
          /\ ls2[n].pc = IF q = p /\ i >= from + k THEN i + by ELSE i
      BY <1>5, <2>10
    <3>2. i \in Int /\ from \in Int /\ k \in Nat
      BY <1>1, <2>7
    <3> HIDE DEF Selects
    <3>3. j = IF q = p /\ i >= from + k THEN i + by ELSE i
      BY <2>3, <3>2
    <3> QED
      BY <3>1, <3>3
  <2> QED
    BY <1>7, <2>1, <2>11 DEF Spot
<1> QED
  BY <1>7, <1>8, <1>9, <1>10 DEF Lists

-----------------------------------------------------------------------------
(* Sequences with elements put in or taken out                             *)
With(s, i, e) == SubSeq(s, 1, i - 1) \o <<e>> \o SubSeq(s, i, Len(s))

Without(s, i, n) == SubSeq(s, 1, i - 1) \o SubSeq(s, i + n, Len(s))

LEMMA PutIn ==
    ASSUME NEW S, NEW s \in Seq(S), NEW i \in 1 .. Len(s) + 1, NEW e \in S,
           NEW r, r = With(s, i, e)
    PROVE  /\ r \in Seq(S) /\ Len(r) = Len(s) + 1
           /\ \A j \in 1 .. Len(s) + 1 : r[j] = IF j < i THEN s[j]
                                               ELSE IF j = i THEN e ELSE s[j - 1]
<1> DEFINE a == SubSeq(s, 1, i - 1)
           b == SubSeq(s, i, Len(s))
<1>1. Len(s) \in Nat
  OBVIOUS
<1>2. a \in Seq(S) /\ Len(a) = i - 1 /\ \A j \in 1 .. i - 1 : a[j] = s[j]
  BY <1>1, SubSeqProperties
<1>3. /\ b \in Seq(S) /\ Len(b) = Len(s) + 1 - i
      /\ \A j \in 1 .. Len(s) + 1 - i : b[j] = s[j + i - 1]
  BY <1>1, SubSeqProperties
<1>4. <<e>> \in Seq(S) /\ Len(<<e>>) = 1 /\ <<e>>[1] = e
  OBVIOUS
<1> HIDE DEF a, b
<1> DEFINE c == a \o <<e>>
<1>5. c \in Seq(S) /\ Len(c) = i /\ \A j \in 1 .. i : c[j] = IF j < i THEN s[j] ELSE e
  BY <1>1, <1>2, <1>4, ConcatProperties
<1>6. r = c \o b
  BY DEF a, b, With
<1> HIDE DEF c
<1>7. /\ c \o b \in Seq(S) /\ Len(c \o b) = Len(c) + Len(b)
      /\ \A j \in 1 .. Len(c) + Len(b) :
            (c \o b)[j] = IF j <= Len(c) THEN c[j] ELSE b[j - Len(c)]
  BY <1>3, <1>5, ConcatProperties
<1>8. \A j \in 1 .. Len(s) + 1 : r[j] = IF j <= i THEN c[j] ELSE b[j - i]
  BY <1>1, <1>3, <1>5, <1>6, <1>7
<1>9. \A j \in 1 .. Len(s) + 1 : j > i => b[j - i] = s[j - 1]
  <2> SUFFICES ASSUME NEW j \in 1 .. Len(s) + 1, j > i
               PROVE  b[j - i] = s[j - 1]
    OBVIOUS
  <2> DEFINE m == j - i
  <2>1. m \in 1 .. Len(s) + 1 - i /\ m + i - 1 = j - 1
    BY <1>1
  <2> QED
    BY <1>3, <2>1
<1> QED
  BY <1>1, <1>3, <1>5, <1>6, <1>7, <1>8, <1>9

(* r is s without n elements from i on                                     *)
Removed(s, i, n, r) ==
    /\ Len(r) = Len(s) - n
    /\ \A j \in 1 .. Len(s) - n : r[j] = IF j < i THEN s[j] ELSE s[j + n]

LEMMA TakenOut ==
    ASSUME NEW S, NEW s \in Seq(S), NEW i \in 1 .. Len(s) + 1, NEW n \in Nat,
           i + n <= Len(s) + 1,
           NEW r, r = Without(s, i, n)
    PROVE  r \in Seq(S) /\ Removed(s, i, n, r)
<1> DEFINE a == SubSeq(s, 1, i - 1)
           b == SubSeq(s, i + n, Len(s))
<1>1. Len(s) \in Nat
  OBVIOUS
<1>2. a \in Seq(S) /\ Len(a) = i - 1 /\ \A j \in 1 .. i - 1 : a[j] = s[j]
  BY <1>1, SubSeqProperties
<1>3. /\ b \in Seq(S) /\ Len(b) = Len(s) + 1 - i - n
      /\ \A j \in 1 .. Len(s) + 1 - i - n : b[j] = s[j + i + n - 1]
  BY <1>1, SubSeqProperties
<1>4. r = a \o b
  BY DEF Without
<1> HIDE DEF a, b
<1>5. /\ a \o b \in Seq(S) /\ Len(a \o b) = Len(a) + Len(b)
      /\ \A j \in 1 .. Len(a) + Len(b) :
            (a \o b)[j] = IF j <= Len(a) THEN a[j] ELSE b[j - Len(a)]
  BY <1>2, <1>3, ConcatProperties
<1>6. \A j \in 1 .. Len(s) - n : r[j] = IF j < i THEN a[j] ELSE b[j - i + 1]
  BY <1>1, <1>2, <1>3, <1>4, <1>5
<1>7. \A j \in 1 .. Len(s) - n : j >= i => b[j - i + 1] = s[j + n]
  <2> SUFFICES ASSUME NEW j \in 1 .. Len(s) - n, j >= i
               PROVE  b[j - i + 1] = s[j + n]
    OBVIOUS
  <2> DEFINE m == j - i + 1
  <2>1. m \in 1 .. Len(s) + 1 - i - n /\ m + i + n - 1 = j + n
    BY <1>1
  <2> QED
    BY <1>3, <2>1
<1>8. r \in Seq(S) /\ Len(r) = Len(s) - n
  BY <1>1, <1>2, <1>3, <1>4, <1>5
<1> QED
  BY <1>1, <1>2, <1>6, <1>7, <1>8 DEF Removed

-----------------------------------------------------------------------------
(* Labels when a program is deleted                                        *)
LEMMA CutPrgmFacts ==
    ASSUME NEW ps \in Seq(PrgmRec), NEW p \in 1 .. Len(ps)
    PROVE  /\ CutPrgm(ps, p) \in Seq(PrgmRec) /\ Len(CutPrgm(ps, p)) = Len(ps) - 1
           /\ \A q \in 1 .. Len(ps) - 1 :
                 CutPrgm(ps, p)[q] = IF q < p THEN ps[q] ELSE ps[q + 1]
<1> DEFINE r == CutPrgm(ps, p)
           k == 1
<1>1. k \in Nat /\ p + k <= Len(ps) + 1 /\ p \in 1 .. Len(ps) + 1
  OBVIOUS
<1>3. r = Without(ps, p, k)
  BY DEF CutPrgm, Without
<1> HIDE DEF r, k
<1>2. r \in Seq(PrgmRec) /\ Removed(ps, p, k, r)
  BY <1>1, <1>3, TakenOut
<1>4. /\ r \in Seq(PrgmRec) /\ Len(r) = Len(ps) - 1
      /\ \A q \in 1 .. Len(ps) - 1 : r[q] = IF q < p THEN ps[q] ELSE ps[q + 1]
  BY <1>2 DEF Removed, k
<1> QED
  BY <1>4 DEF r

Renumbered(kept, p) ==
    [m \in DOMAIN kept |-> IF kept[m].prgm > p THEN [kept[m] EXCEPT !.prgm = @ - 1]
                                               ELSE kept[m]]

(* The labels of the other programs                                        *)
OtherPrgms(ls, p) == {m \in 1 .. Len(ls) : ls[m].prgm # p}

LEMMA ListsCut ==
    ASSUME NEW ps \in Seq(PrgmRec), NEW ls, Lists(ls, ps),
           NEW p \in 1 .. Len(ps), NEW ps2, ps2 = CutPrgm(ps, p),
           NEW kept, kept = Kept(ls, OtherPrgms(ls, p)),
           NEW ls2, ls2 = Renumbered(kept, p)
    PROVE  Lists(ls2, ps2)
<1> DEFINE I == OtherPrgms(ls, p)
<1>1. ls \in Seq(LabelRec) /\ DOMAIN ls = 1 .. Len(ls) /\ Len(ls) \in Nat
  BY DEF Lists
<1>2. I \subseteq 1 .. Len(ls)
  BY DEF OtherPrgms
<1> HIDE DEF I
<1>3. /\ kept \in Seq(LabelRec) /\ Len(kept) \in Nat
      /\ \E src : Selects(src, kept, ls, I)
  BY <1>1, <1>2, SelectsFacts DEF I
<1>31. DOMAIN kept = 1 .. Len(kept)
  BY <1>3
<1>4. PICK src : Selects(src, kept, ls, I)
  BY <1>3
<1>5. /\ ps2 \in Seq(PrgmRec) /\ Len(ps2) = Len(ps) - 1 /\ Len(ps) \in Nat
      /\ \A q \in 1 .. Len(ps) - 1 : ps2[q] = IF q < p THEN ps[q] ELSE ps[q + 1]
  BY CutPrgmFacts
<1>6. ASSUME NEW n \in 1 .. Len(kept)
      PROVE  /\ kept[n] = Entry(ps, Spot(kept[n])) /\ Spot(kept[n]) \in Labelled(ps)
             /\ kept[n].prgm \in Nat /\ kept[n].pc \in Nat /\ kept[n].prgm # p
             /\ kept[n].name \in GlobalLabels \cup {NoName} /\ kept[n] \in LabelRec
  <2>1. kept[n] = ls[src[n]] /\ src[n] \in I /\ src[n] \in 1 .. Len(ls)
    BY <1>2, <1>4 DEF Selects
  <2>2. /\ kept[n].prgm \in Nat /\ kept[n].pc \in Nat /\ kept[n] \in LabelRec
        /\ kept[n].name \in GlobalLabels \cup {NoName}
    BY <1>3, LabelRecs
  <2>3. kept[n] = Entry(ps, Spot(kept[n])) /\ Spot(kept[n]) \in Labelled(ps)
    BY <2>1 DEF Lists
  <2>4. kept[n].prgm # p
    BY <2>1 DEF I, OtherPrgms
  <2> QED
    BY <2>2, <2>3, <2>4
<1>7. ASSUME NEW n \in 1 .. Len(kept)
      PROVE  /\ ls2[n].name = kept[n].name /\ ls2[n].pc = kept[n].pc
             /\ ls2[n].prgm = IF kept[n].prgm > p THEN kept[n].prgm - 1 ELSE kept[n].prgm
             /\ ls2[n] = [name |-> kept[n].name, prgm |-> ls2[n].prgm, pc |-> kept[n].pc]
  BY <1>3, <1>31, <1>6 DEF LabelRec, Renumbered
<1>8. ASSUME NEW n \in 1 .. Len(kept)
      PROVE  Spot(ls2[n]) \in Labelled(ps2) /\ kept[n].name = Entry(ps2, Spot(ls2[n])).name
  <2> DEFINE q == kept[n].prgm
             i == kept[n].pc
             t == ls2[n].prgm
  <2>1. /\ Spot(kept[n]) = <<q, i>> /\ Spot(ls2[n]) = <<t, i>>
        /\ <<q, i>> \in Labelled(ps)
    BY <1>6, <1>7 DEF Spot
  <2>2. q \in 1 .. Len(ps) /\ i \in 1 .. Len(ps[q].lines) /\ IsLabel(ps[q].lines[i])
    BY <2>1, LabelledFacts DEF IsLabel
  <2>7. q # p /\ t = IF q > p THEN q - 1 ELSE q
    BY <1>6, <1>7
  <2> HIDE DEF q, i, t
  <2>3. t \in 1 .. Len(ps) - 1 /\ ps2[t] = ps[q]
    BY <1>5, <2>2, <2>7
  <2>4. <<t, i>> \in Labelled(ps2)
    BY <1>5, <2>2, <2>3, LabelledFacts DEF IsLabel
  <2>5. kept[n].name = Entry(ps, <<q, i>>).name
    BY <1>6, <2>1
  <2>6. Entry(ps, <<q, i>>).name = Entry(ps2, <<t, i>>).name
    BY <2>3 DEF Entry, LineAt
  <2> QED
    BY <2>1, <2>4, <2>5, <2>6
<1>9. ls2 \in Seq(LabelRec) /\ Len(ls2) = Len(kept)
  <2>1. \A n \in 1 .. Len(kept) : ls2[n] \in LabelRec
    <3> SUFFICES ASSUME NEW n \in 1 .. Len(kept)
                 PROVE  ls2[n] \in LabelRec
      OBVIOUS
    <3>1. ls2[n].prgm \in Nat
      BY <1>5, <1>8, LabelledFacts DEF Spot
    <3>2. \A a \in GlobalLabels \cup {NoName}, b \in Nat, c \in Nat :
              [name |-> a, prgm |-> b, pc |-> c] \in LabelRec
      BY DEF LabelRec
    <3>3. [name |-> kept[n].name, prgm |-> ls2[n].prgm, pc |-> kept[n].pc] \in LabelRec
      BY <1>6, <3>1, <3>2
    <3> QED
      BY <1>7, <3>3, Zenon
  <2>2. ls2 \in [1 .. Len(kept) -> LabelRec]
    BY <1>3, <1>31, <2>1 DEF Renumbered
  <2> QED
    BY <1>3, <2>2, AsSeq
<1>10. \A n \in 1 .. Len(ls2) : /\ Spot(ls2[n]) \in Labelled(ps2)
                                /\ ls2[n] = Entry(ps2, Spot(ls2[n]))
  <2> SUFFICES ASSUME NEW n \in 1 .. Len(kept)
               PROVE  ls2[n] = Entry(ps2, Spot(ls2[n]))
    BY <1>8, <1>9
  <2>1. PICK a : Entry(ps2, Spot(ls2[n])) = [name |-> a, prgm |-> ls2[n].prgm, pc |-> ls2[n].pc]
    BY DEF Entry, Spot
  <2>5. Entry(ps2, Spot(ls2[n])).name = a
    BY <2>1
  <2>2. a = kept[n].name
    BY <1>8, <2>5
  <2> DEFINE b == ls2[n].prgm
             c == ls2[n].pc
  <2>3. Entry(ps2, Spot(ls2[n])) = [name |-> kept[n].name, prgm |-> b, pc |-> c]
    BY <2>1, <2>2
  <2>4. ls2[n] = [name |-> kept[n].name, prgm |-> b, pc |-> c]
    BY <1>7
  <2> HIDE DEF b, c
  <2> QED
    BY <2>3, <2>4, Zenon
<1>11. \A m, n \in 1 .. Len(ls2) : m < n => Before(Spot(ls2[m]), Spot(ls2[n]))
  <2> SUFFICES ASSUME NEW m \in 1 .. Len(kept), NEW n \in 1 .. Len(kept), m < n
               PROVE  Before(Spot(ls2[m]), Spot(ls2[n]))
    BY <1>9
  <2>1. src[m] \in 1 .. Len(ls) /\ src[n] \in 1 .. Len(ls) /\ src[m] < src[n]
    BY <1>4 DEF Selects
  <2>2. Before(Spot(kept[m]), Spot(kept[n]))
    BY <1>4, <2>1 DEF Lists, Selects
  <2>3. \/ kept[m].prgm < kept[n].prgm
        \/ kept[m].prgm = kept[n].prgm /\ kept[m].pc < kept[n].pc
    BY <2>2 DEF Before, Spot
  <2>4. \/ ls2[m].prgm < ls2[n].prgm
        \/ ls2[m].prgm = ls2[n].prgm /\ ls2[m].pc < ls2[n].pc
    <3>1. \A a, b \in Nat : a # p /\ b # p /\ a < b
                => (IF a > p THEN a - 1 ELSE a) < (IF b > p THEN b - 1 ELSE b)
      OBVIOUS
    <3>5. /\ kept[m].prgm \in Nat /\ kept[n].prgm \in Nat
          /\ kept[m].prgm # p /\ kept[n].prgm # p
      BY <1>6
    <3>6. /\ ls2[m].prgm = IF kept[m].prgm > p THEN kept[m].prgm - 1 ELSE kept[m].prgm
          /\ ls2[n].prgm = IF kept[n].prgm > p THEN kept[n].prgm - 1 ELSE kept[n].prgm
          /\ ls2[m].pc = kept[m].pc /\ ls2[n].pc = kept[n].pc
      BY <1>7
    <3>2. CASE kept[m].prgm < kept[n].prgm
      <4>1. ls2[m].prgm < ls2[n].prgm
        BY <3>1, <3>2, <3>5, <3>6, Zenon
      <4> QED
        BY <4>1
    <3>3. CASE kept[m].prgm = kept[n].prgm /\ kept[m].pc < kept[n].pc
      <4>1. ls2[m].prgm = ls2[n].prgm
        BY <3>3, <3>6, Zenon
      <4>2. ls2[m].pc < ls2[n].pc
        BY <3>3, <3>6, Zenon
      <4> QED
        BY <4>1, <4>2
    <3> QED
      BY <2>3, <3>2, <3>3
  <2> QED
    BY <2>4 DEF Before, Spot
<1>12. ASSUME NEW r \in Labelled(ps2)
       PROVE  \E n \in 1 .. Len(ls2) : Spot(ls2[n]) = r
  <2>1. PICK t, i : /\ r = <<t, i>> /\ t \in 1 .. Len(ps2) /\ i \in 1 .. Len(ps2[t].lines)
                    /\ IsLabel(ps2[t].lines[i])
    BY <1>5, LabelledFacts DEF IsLabel
  <2> DEFINE q == IF t < p THEN t ELSE t + 1
  <2>2. q \in 1 .. Len(ps) /\ ps2[t] = ps[q] /\ q # p /\ t = IF q > p THEN q - 1 ELSE q
    BY <1>5, <2>1
  <2> HIDE DEF q
  <2>3. <<q, i>> \in Labelled(ps)
    BY <2>1, <2>2, LabelledFacts DEF IsLabel
  <2>4. PICK m \in 1 .. Len(ls) : Spot(ls[m]) = <<q, i>>
    BY <2>3 DEF Lists
  <2>5. ls[m].prgm = q /\ ls[m].pc = i
    BY <2>4 DEF Spot
  <2>6. m \in I
    BY <2>2, <2>5 DEF I, OtherPrgms
  <2>7. PICK n \in 1 .. Len(kept) : src[n] = m
    BY <1>4, <2>6 DEF Selects
  <2>8. kept[n].prgm = q /\ kept[n].pc = i
    BY <1>4, <2>5, <2>7 DEF Selects
  <2>9. ls2[n].prgm = t /\ ls2[n].pc = i
    BY <1>7, <2>2, <2>8
  <2> QED
    BY <1>9, <2>1, <2>9 DEF Spot
<1> QED
  BY <1>9, <1>10, <1>11, <1>12 DEF Lists

-----------------------------------------------------------------------------
(* What a line is                                                          *)
LEMMA LineFacts ==
    ASSUME NEW ln \in Lines
    PROVE  /\ ln.op \in {"end", "lbl", "gto", "xeq"}
           /\ ln.target \in {Unknown, NotFound} \cup (Nat \ {0})
           /\ \A t \in {Unknown, NotFound} \cup (Nat \ {0}) :
                 /\ [ln EXCEPT !.target = t].op = ln.op
                 /\ [ln EXCEPT !.target = t].arg = ln.arg
                 /\ [ln EXCEPT !.target = t].target = t
                 /\ ln.op # "end" => [ln EXCEPT !.target = t] \in Lines
           /\ [ln EXCEPT !.target = Unknown] \in Lines
<1>1. CASE ln = End
  <2>1. /\ ln.op = "end" /\ ln.target = Unknown /\ [ln EXCEPT !.target = Unknown] = ln
        /\ \A t : /\ [ln EXCEPT !.target = t].op = ln.op
                  /\ [ln EXCEPT !.target = t].arg = ln.arg
                  /\ [ln EXCEPT !.target = t].target = t
    BY <1>1 DEF End
  <2> QED
    BY <2>1
<1>2. CASE ln # End
  <2>1. ln \in [op : {"lbl", "gto", "xeq"}, arg : GlobalLabels \cup LocalLabels,
                target : {Unknown, NotFound} \cup (Nat \ {0})]
    BY <1>2 DEF Lines
  <2>2. \A t \in {Unknown, NotFound} \cup (Nat \ {0}) :
            [ln EXCEPT !.target = t] \in
               [op : {"lbl", "gto", "xeq"}, arg : GlobalLabels \cup LocalLabels,
                target : {Unknown, NotFound} \cup (Nat \ {0})]
    BY <2>1
  <2> QED
    BY <2>1, <2>2 DEF Lines
<1> QED
  BY <1>1, <1>2

LEMMA NewLine ==
    ASSUME NEW c \in Commands
    PROVE  /\ Line(c) \in Lines /\ Line(c).op = c.op /\ Line(c).arg = c.arg
           /\ Line(c).target = Unknown /\ c.op # "end"
BY CommandAssumption DEF Line, Lines

LEMMA EndLine == End \in Lines /\ End.op = "end" /\ End.target = Unknown
BY DEF End, Lines

(* Searches for local labels                                               *)
LEMMA LeastOfFacts ==
    ASSUME NEW S, S \subseteq Int, IsFiniteSet(S), S # {}
    PROVE  LeastOf(S) \in S
<1>1. /\ Cardinality(S) \in Nat
      /\ \A n \in 1 .. Cardinality(S) : NthOf(S, n) \in S
      /\ \A m, n \in 1 .. Cardinality(S) : m < n <=> NthOf(S, m) < NthOf(S, n)
      /\ \A i \in S : \E n \in 1 .. Cardinality(S) : NthOf(S, n) = i
  BY NthOfFacts
<1>2. 1 \in 1 .. Cardinality(S)
  <2>1. PICK i : i \in S
    OBVIOUS
  <2>2. PICK n \in 1 .. Cardinality(S) : NthOf(S, n) = i
    BY <1>1, <2>1
  <2>3. Cardinality(S) \in Nat
    BY <1>1
  <2> QED
    BY <2>2, <2>3
<1>3. ASSUME NEW j \in S
      PROVE  NthOf(S, 1) <= j
  <2>1. PICK n \in 1 .. Cardinality(S) : NthOf(S, n) = j
    BY <1>1
  <2>2. CASE n = 1
    BY <1>1, <1>2, <2>1, <2>2
  <2>3. CASE n # 1
    <3>1. 1 < n
      BY <1>1, <2>3
    <3>2. NthOf(S, 1) < NthOf(S, n)
      BY <1>1, <1>2, <3>1
    <3>3. NthOf(S, 1) \in Int /\ j \in Int
      BY <1>1, <1>2
    <3> HIDE DEF NthOf
    <3> QED
      BY <2>1, <3>2, <3>3
  <2> QED
    BY <2>2, <2>3
<1>4. \E i \in S : \A j \in S : i <= j
  BY <1>1, <1>2, <1>3
<1> QED
  BY <1>4 DEF LeastOf

(* The lines where a search can stop                                       *)
Here(lines, a) ==
    {i \in 1 .. Len(lines) - 1 :
        lines[i].op = "lbl" /\ lines[i].arg \in LocalLabels /\ LabelMatches(lines[i].arg, a)}

Ahead(lines, start, a) == {i \in Here(lines, a) : i >= start}

LEMMA FindLocalIs ==
    ASSUME NEW lines, NEW start, NEW a
    PROVE  FindLocal(lines, start, a) =
               IF Ahead(lines, start, a) # {} THEN LeastOf(Ahead(lines, start, a))
               ELSE IF Here(lines, a) # {} THEN LeastOf(Here(lines, a)) ELSE NotFound
BY DEF FindLocal, Ahead, Here

LEMMA FindLocalFacts ==
    ASSUME NEW lines \in Seq(Lines), NEW start, NEW a
    PROVE  /\ \/ FindLocal(lines, start, a) \in 1 .. Len(lines) - 1
              \/ FindLocal(lines, start, a) = NotFound
           /\ FindLocal(lines, start, a) # Unknown
           /\ FindLocal(lines, start, a) \in {Unknown, NotFound} \cup (Nat \ {0})
<1> DEFINE H == Here(lines, a)
           A == Ahead(lines, start, a)
<1>1. H \subseteq 1 .. Len(lines) - 1 /\ A \subseteq H
  BY DEF Here, Ahead
<1>2. Len(lines) \in Nat /\ IsFiniteSet(1 .. Len(lines) - 1)
  BY FS_Interval
<1>3. IsFiniteSet(H) /\ IsFiniteSet(A) /\ H \subseteq Int /\ A \subseteq Int
  BY <1>1, <1>2, FS_Subset
<1>4. (H # {} => LeastOf(H) \in H) /\ (A # {} => LeastOf(A) \in A)
  BY <1>3, LeastOfFacts
<1>5. FindLocal(lines, start, a) \in 1 .. Len(lines) - 1 \/ FindLocal(lines, start, a) = NotFound
  BY <1>1, <1>4, FindLocalIs
<1> QED
  BY <1>2, <1>5 DEF NotFound, Unknown

(* Targets do not matter to a search.                                      *)
LEMMA FindLocalSame ==
    ASSUME NEW lines, NEW lines2, Len(lines2) = Len(lines), Len(lines) \in Nat,
           \A i \in 1 .. Len(lines) : SameLine(lines[i], lines2[i]),
           NEW start, NEW a
    PROVE  FindLocal(lines2, start, a) = FindLocal(lines, start, a)
<1>1. Here(lines2, a) = Here(lines, a)
  BY DEF Here, SameLine
<1>2. Ahead(lines2, start, a) = Ahead(lines, start, a)
  BY <1>1 DEF Ahead
<1> QED
  BY <1>1, <1>2, FindLocalIs

(* Targets in a program                                                    *)
NoTargets(lines) == \A i \in 1 .. Len(lines) : lines[i].target = Unknown

Consistent(prgm) ==
    \A i \in 1 .. Len(prgm.lines) :
        prgm.lines[i].target # Unknown =>
            /\ Caches(prgm.lines[i])
            /\ prgm.lines[i].target = FindLocal(prgm.lines, i + 1, prgm.lines[i].arg)
            /\ ~prgm.invalid

TargetsOK(ps) == \A p \in 1 .. Len(ps) : Consistent(ps[p])

LEMMA StaleHasNone ==
    ASSUME NEW prgm, Consistent(prgm), prgm.invalid
    PROVE  NoTargets(prgm.lines)
BY DEF Consistent, NoTargets

LEMMA NoneIsConsistent ==
    ASSUME NEW prgm, NoTargets(prgm.lines)
    PROVE  Consistent(prgm)
BY DEF Consistent, NoTargets

LEMMA ForgetFacts ==
    ASSUME NEW lines \in Seq(Lines)
    PROVE  /\ Forget(lines) \in Seq(Lines) /\ Len(Forget(lines)) = Len(lines)
           /\ \A i \in 1 .. Len(lines) : SameLine(lines[i], Forget(lines)[i])
           /\ NoTargets(Forget(lines))
<1>1. Len(lines) \in Nat /\ DOMAIN lines = 1 .. Len(lines)
  OBVIOUS
<1>2. ASSUME NEW i \in 1 .. Len(lines)
      PROVE  /\ [lines[i] EXCEPT !.target = Unknown] \in Lines
             /\ SameLine(lines[i], [lines[i] EXCEPT !.target = Unknown])
             /\ [lines[i] EXCEPT !.target = Unknown].target = Unknown
  <2>1. lines[i] \in Lines
    OBVIOUS
  <2> QED
    BY <2>1, LineFacts DEF SameLine
<1>3. Forget(lines) \in [1 .. Len(lines) -> Lines]
  BY <1>1, <1>2 DEF Forget
<1>4. Forget(lines) \in Seq(Lines) /\ Len(Forget(lines)) = Len(lines)
  BY <1>1, <1>3, AsSeq
<1>5. \A i \in 1 .. Len(lines) : Forget(lines)[i] = [lines[i] EXCEPT !.target = Unknown]
  BY <1>1 DEF Forget
<1> QED
  BY <1>2, <1>4, <1>5 DEF NoTargets

-----------------------------------------------------------------------------
(* Edits of the lines of one program                                       *)
Retexted(ps, p, new) == [ps EXCEPT ![p].lines = new]

LEMMA RetextedFacts ==
    ASSUME NEW ps \in Seq(PrgmRec), NEW p \in 1 .. Len(ps), NEW new \in Seq(Lines),
           NEW r, r = Retexted(ps, p, new)
    PROVE  /\ r \in Seq(PrgmRec) /\ Len(r) = Len(ps)
           /\ r[p].lines = new /\ r[p].invalid = ps[p].invalid /\ r[p].locked = ps[p].locked
           /\ \A q \in 1 .. Len(ps) : q # p => r[q] = ps[q]
<1>1. Len(ps) \in Nat /\ DOMAIN ps = 1 .. Len(ps)
  OBVIOUS
<1>2. r = [q \in 1 .. Len(ps) |-> IF q = p THEN [ps[p] EXCEPT !.lines = new] ELSE ps[q]]
  BY <1>1 DEF Retexted
<1>3. /\ [ps[p] EXCEPT !.lines = new] \in PrgmRec
      /\ [ps[p] EXCEPT !.lines = new].lines = new
      /\ [ps[p] EXCEPT !.lines = new].invalid = ps[p].invalid
      /\ [ps[p] EXCEPT !.lines = new].locked = ps[p].locked
  BY PrgmRecs DEF PrgmRec
<1>4. r \in [1 .. Len(ps) -> PrgmRec]
  BY <1>2, <1>3
<1>5. r \in Seq(PrgmRec) /\ Len(r) = Len(ps)
  BY <1>1, <1>4, AsSeq
<1> QED
  BY <1>2, <1>3, <1>5

LEMMA ForgottenFacts ==
    ASSUME NEW prgm \in PrgmRec
    PROVE  /\ Forgotten(prgm) \in PrgmRec /\ Forgotten(prgm).lines = Forget(prgm.lines)
           /\ Forgotten(prgm).locked = prgm.locked
           /\ prgm.lines \in Seq(Lines)
<1>1. prgm.lines \in Seq(Lines)
  BY DEF PrgmRec
<1>2. Forget(prgm.lines) \in Seq(Lines)
  BY <1>1, ForgetFacts
<1> QED
  BY <1>1, <1>2 DEF PrgmRec, Forgotten

(* invalidate_lclbls() leaves no target.                                   *)
LEMMA InvalidatedFacts ==
    ASSUME NEW ps \in Seq(PrgmRec), NEW p \in 1 .. Len(ps), NEW force \in BOOLEAN,
           ~force /\ ps[p].invalid => NoTargets(ps[p].lines),
           NEW r, r = Invalidated(ps, p, force)
    PROVE  /\ r \in Seq(PrgmRec) /\ Len(r) = Len(ps)
           /\ SameText(ps, r)
           /\ NoTargets(r[p].lines) /\ r[p].locked = ps[p].locked
           /\ \A q \in 1 .. Len(ps) : q # p => r[q] = ps[q]
<1>1. Len(ps) \in Nat /\ DOMAIN ps = 1 .. Len(ps) /\ ps[p] \in PrgmRec
  OBVIOUS
<1>2. CASE ~force /\ ps[p].invalid
  <2>1. r = ps
    BY <1>2 DEF Invalidated
  <2>2. SameText(ps, ps)
    BY DEF SameText, SameLine
  <2> QED
    BY <1>1, <1>2, <2>1, <2>2
<1>3. CASE force \/ ~ps[p].invalid
  <2>9. r = [ps EXCEPT ![p] = Forgotten(@)]
    BY <1>3 DEF Invalidated
  <2>1. r = [q \in 1 .. Len(ps) |-> IF q = p THEN Forgotten(ps[p]) ELSE ps[q]]
    BY <1>1, <2>9
  <2>2. r \in [1 .. Len(ps) -> PrgmRec]
    BY <1>1, <2>1, ForgottenFacts
  <2>3. r \in Seq(PrgmRec) /\ Len(r) = Len(ps)
    BY <1>1, <2>2, AsSeq
  <2>4. r[p].lines = Forget(ps[p].lines) /\ r[p].locked = ps[p].locked
    BY <1>1, <2>1, ForgottenFacts
  <2>5. \A q \in 1 .. Len(ps) : q # p => r[q] = ps[q]
    BY <2>1
  <2>6. /\ Len(r[p].lines) = Len(ps[p].lines) /\ NoTargets(r[p].lines)
        /\ \A i \in 1 .. Len(ps[p].lines) : SameLine(ps[p].lines[i], r[p].lines[i])
    BY <1>1, <2>4, ForgottenFacts, ForgetFacts
  <2>7. SameText(ps, r)
    BY <2>3, <2>5, <2>6 DEF SameText, SameLine
  <2> QED
    BY <2>3, <2>4, <2>5, <2>6, <2>7
<1> QED
  BY <1>2, <1>3

(* Only the text matters to the shape of programs.                         *)
LEMMA SameTextShaped ==
    ASSUME NEW ps, Shaped(ps), NEW r \in Seq(PrgmRec), SameText(ps, r)
    PROVE  Shaped(r)
<1>1. /\ ps \in Seq(PrgmRec) /\ Len(r) = Len(ps) /\ Len(ps) > 0
  BY DEF Shaped, SameText
<1>2. ASSUME NEW p \in 1 .. Len(r)
      PROVE  WellEnded(r[p].lines)
  <2>1. WellEnded(ps[p].lines)
    BY <1>1 DEF Shaped
  <2>2. r[p].lines \in Seq(Lines)
    BY PrgmRecs
  <2>3. /\ Len(r[p].lines) = Len(ps[p].lines)
        /\ \A i \in 1 .. Len(ps[p].lines) : r[p].lines[i].op = ps[p].lines[i].op
    BY <1>1 DEF SameText, SameLine
  <2> QED
    BY <2>1, <2>2, <2>3 DEF WellEnded
<1> QED
  BY <1>1, <1>2 DEF Shaped

(* Lines of program p are replaced, and no target of it stays.             *)
Edited(ps, p, new, r) ==
    /\ Shaped(r) /\ Len(r) = Len(ps)
    /\ Len(r[p].lines) = Len(new)
    /\ \A i \in 1 .. Len(new) : SameLine(new[i], r[p].lines[i])
    /\ NoTargets(r[p].lines) /\ r[p].locked = ps[p].locked
    /\ \A q \in 1 .. Len(ps) : q # p => r[q] = ps[q]

LEMMA EditedFacts ==
    ASSUME NEW ps, Shaped(ps), NEW p \in 1 .. Len(ps), NEW new, WellEnded(new),
           NEW force \in BOOLEAN, ~force /\ ps[p].invalid => NoTargets(new),
           NEW t, t = Retexted(ps, p, new),
           NEW r, r = Invalidated(t, p, force)
    PROVE  Edited(ps, p, new, r) /\ Shaped(t) /\ SameText(t, r)
<1>1. /\ ps \in Seq(PrgmRec) /\ Len(ps) > 0 /\ new \in Seq(Lines)
      /\ \A q \in 1 .. Len(ps) : WellEnded(ps[q].lines)
  BY DEF Shaped, WellEnded
<1>2. /\ t \in Seq(PrgmRec) /\ Len(t) = Len(ps)
      /\ t[p].lines = new /\ t[p].invalid = ps[p].invalid /\ t[p].locked = ps[p].locked
      /\ \A q \in 1 .. Len(ps) : q # p => t[q] = ps[q]
  BY <1>1, RetextedFacts
<1>3. Shaped(t)
  BY <1>1, <1>2 DEF Shaped
<1>4. /\ r \in Seq(PrgmRec) /\ Len(r) = Len(t) /\ SameText(t, r)
      /\ NoTargets(r[p].lines) /\ r[p].locked = t[p].locked
      /\ \A q \in 1 .. Len(t) : q # p => r[q] = t[q]
  <2>1. p \in 1 .. Len(t) /\ (~force /\ t[p].invalid => NoTargets(t[p].lines))
    BY <1>2
  <2> QED
    BY <1>2, <2>1, InvalidatedFacts
<1>5. Shaped(r)
  BY <1>3, <1>4, SameTextShaped
<1>6. Len(r[p].lines) = Len(new) /\ \A i \in 1 .. Len(new) : SameLine(new[i], r[p].lines[i])
  BY <1>2, <1>4 DEF SameText
<1> QED
  BY <1>2, <1>3, <1>4, <1>5, <1>6 DEF Edited

LEMMA EditedTargets ==
    ASSUME NEW ps, TargetsOK(ps), NEW p \in 1 .. Len(ps), NEW new, NEW r, Edited(ps, p, new, r)
    PROVE  TargetsOK(r)
BY NoneIsConsistent DEF Edited, TargetsOK

-----------------------------------------------------------------------------
(* A line put in, lines taken out                                          *)
LEMMA WellEndedLines ==
    ASSUME NEW lines, WellEnded(lines)
    PROVE  /\ lines \in Seq(Lines) /\ Len(lines) \in Nat \ {0}
           /\ \A i \in 1 .. Len(lines) : lines[i] \in Lines
           /\ \A i \in 1 .. Len(lines) : lines[i].op = "end" <=> i = Len(lines)
BY DEF WellEnded

LEMMA LineIn ==
    ASSUME NEW s \in Seq(Lines), NEW i \in 1 .. Len(s) + 1, NEW e \in Lines,
           NEW r, r = With(s, i, e)
    PROVE  /\ r \in Seq(Lines) /\ Len(r) = Len(s) + 1
           /\ \A j \in 1 .. Len(s) + 1 : r[j] = IF j < i THEN s[j]
                                               ELSE IF j = i THEN e ELSE s[j - 1]
<1> DEFINE T == Lines
<1>1. s \in Seq(T) /\ e \in T
  OBVIOUS
<1> HIDE DEF T
<1>2. /\ r \in Seq(T) /\ Len(r) = Len(s) + 1
      /\ \A j \in 1 .. Len(s) + 1 : r[j] = IF j < i THEN s[j]
                                          ELSE IF j = i THEN e ELSE s[j - 1]
  BY <1>1, PutIn
<1> QED
  BY <1>2 DEF T

(* A line a user stores                                                    *)
Plain(ln) == ln.op # "end" /\ ln.target = Unknown

LEMMA InsertedLine ==
    ASSUME NEW lines, WellEnded(lines), NEW i \in 1 .. Len(lines),
           NEW ln \in Lines, Plain(ln),
           NEW r, r = InsertLine(lines, i, ln)
    PROVE  /\ WellEnded(r) /\ Len(r) = Len(lines) + 1
           /\ NoTargets(lines) => NoTargets(r)
           /\ ~IsLabel(ln) => Moved(lines, r, i, 0, 1)
<1>1. lines \in Seq(Lines) /\ Len(lines) \in Nat \ {0}
  BY WellEndedLines
<1>2. r = With(lines, i, ln) /\ i \in 1 .. Len(lines) + 1
  BY <1>1 DEF With, InsertLine
<1>3. /\ r \in Seq(Lines) /\ Len(r) = Len(lines) + 1
      /\ \A j \in 1 .. Len(lines) + 1 : r[j] = IF j < i THEN lines[j]
                                               ELSE IF j = i THEN ln ELSE lines[j - 1]
  <2>1. i \in 1 .. Len(lines) + 1
    BY <1>1
  <2>2. lines \in Seq(Lines)
    BY <1>1
  <2>3. r = With(lines, i, ln)
    BY <1>2
  <2> QED
    BY <2>1, <2>2, <2>3, LineIn
<1>4. /\ \A j \in 1 .. Len(lines) : j < i => r[j] = lines[j]
      /\ \A j \in 1 .. Len(lines) : j >= i => r[j + 1] = lines[j]
      /\ r[i] = ln
  BY <1>1, <1>3
<1>5. \A j \in 1 .. Len(r) : \/ j < i /\ j \in 1 .. Len(lines) /\ r[j] = lines[j]
                             \/ j = i /\ r[j] = ln
                             \/ /\ j - 1 \in 1 .. Len(lines) /\ j - 1 >= i
                                /\ r[j] = lines[j - 1]
  BY <1>1, <1>3
<1>6. ASSUME NEW j \in 1 .. Len(r)
      PROVE  r[j].op = "end" <=> j = Len(r)
  <2>1. CASE j < i /\ j \in 1 .. Len(lines) /\ r[j] = lines[j]
    BY <1>1, <1>3, <2>1, WellEndedLines
  <2>2. CASE j = i /\ r[j] = ln
    BY <1>1, <1>3, <2>2 DEF Plain
  <2>3. CASE j - 1 \in 1 .. Len(lines) /\ j - 1 >= i /\ r[j] = lines[j - 1]
    <3>1. lines[j - 1].op = "end" <=> j - 1 = Len(lines)
      BY <2>3, WellEndedLines
    <3> QED
      BY <1>1, <1>3, <2>3, <3>1
  <2> QED
    BY <1>5, <2>1, <2>2, <2>3
<1>7. WellEnded(r)
  BY <1>1, <1>3, <1>6 DEF WellEnded
<1>8. NoTargets(lines) => NoTargets(r)
  BY <1>5 DEF NoTargets, Plain
<1>9. ASSUME ~IsLabel(ln)
      PROVE  Moved(lines, r, i, 0, 1)
  <2>1. \A j \in 1 .. Len(r) : IsLabel(r[j]) => j < i \/ j - 1 >= i + 0
    BY <1>1, <1>5, <1>9
  <2>2. \A j \in 1 .. Len(lines) : j < i => SameLine(lines[j], r[j])
    BY <1>4 DEF SameLine
  <2>3. \A j \in 1 .. Len(lines) : j >= i + 0 => SameLine(lines[j], r[j + 1])
    BY <1>4 DEF SameLine
  <2> QED
    BY <1>1, <1>3, <2>1, <2>2, <2>3 DEF Moved
<1> QED
  BY <1>3, <1>7, <1>8, <1>9

LEMMA CutLine ==
    ASSUME NEW lines, WellEnded(lines), NEW i \in 1 .. Len(lines), NEW n \in Nat,
           i + n <= Len(lines),
           NEW r, r = CutLines(lines, i, n)
    PROVE  /\ WellEnded(r) /\ Len(r) = Len(lines) - n
           /\ NoTargets(lines) => NoTargets(r)
           /\ Moved(lines, r, i, n, -n)
<1>1. lines \in Seq(Lines) /\ Len(lines) \in Nat \ {0}
  BY WellEndedLines
<1>2. /\ r = Without(lines, i, n) /\ i \in 1 .. Len(lines) + 1
      /\ i + n <= Len(lines) + 1
  BY <1>1 DEF Without, CutLines
<1>12. r \in Seq(Lines) /\ Removed(lines, i, n, r)
  BY <1>1, <1>2, TakenOut
<1>3. /\ r \in Seq(Lines) /\ Len(r) = Len(lines) - n
      /\ \A j \in 1 .. Len(lines) - n : r[j] = IF j < i THEN lines[j] ELSE lines[j + n]
  BY <1>12 DEF Removed
<1>4. /\ \A j \in 1 .. Len(lines) : j < i => j \in 1 .. Len(lines) - n /\ r[j] = lines[j]
      /\ \A j \in 1 .. Len(r) :
            \/ j < i /\ j \in 1 .. Len(lines) /\ r[j] = lines[j]
            \/ j >= i /\ j + n \in 1 .. Len(lines) /\ r[j] = lines[j + n]
  BY <1>1, <1>3
<1>5. ASSUME NEW j \in 1 .. Len(lines), j >= i + n
      PROVE  r[j + -n] = lines[j]
  <2> DEFINE m == j + -n
  <2>1. m \in 1 .. Len(lines) - n /\ m >= i /\ m + n = j
    BY <1>1, <1>5
  <2> HIDE DEF m
  <2> QED
    BY <1>3, <2>1 DEF m
<1>6. ASSUME NEW j \in 1 .. Len(r)
      PROVE  r[j].op = "end" <=> j = Len(r)
  <2>1. CASE j < i /\ j \in 1 .. Len(lines) /\ r[j] = lines[j]
    BY <1>1, <1>3, <2>1, WellEndedLines
  <2>2. CASE j >= i /\ j + n \in 1 .. Len(lines) /\ r[j] = lines[j + n]
    <3>1. lines[j + n].op = "end" <=> j + n = Len(lines)
      BY <2>2, WellEndedLines
    <3> QED
      BY <1>1, <1>3, <2>2, <3>1
  <2> QED
    BY <1>4, <2>1, <2>2
<1>7. WellEnded(r)
  BY <1>1, <1>3, <1>6 DEF WellEnded
<1>8. NoTargets(lines) => NoTargets(r)
  BY <1>4 DEF NoTargets
<1>9. Moved(lines, r, i, n, -n)
  <2> DEFINE by == -n
  <2>7. Len(r) = Len(lines) - n /\ Len(lines) \in Nat
    BY <1>1, <1>3
  <2>1. by \in Int /\ by >= -n /\ Len(r) = Len(lines) + by /\ i + n <= Len(lines) + 1
    BY <2>7
  <2>2. \A j \in 1 .. Len(r) : IsLabel(r[j]) => j < i \/ j - by >= i + n
    BY <1>1, <1>3
  <2>3. \A j \in 1 .. Len(lines) : j < i => SameLine(lines[j], r[j])
    BY <1>4 DEF SameLine
  <2>4. \A j \in 1 .. Len(lines) : j >= i + n => SameLine(lines[j], r[j + by])
    BY <1>5 DEF SameLine
  <2>5. i \in Nat \ {0}
    BY <1>1
  <2> HIDE DEF by
  <2>6. Moved(lines, r, i, n, by)
    BY <2>1, <2>2, <2>3, <2>4, <2>5 DEF Moved
  <2> QED
    BY <2>6 DEF by
<1> QED
  BY <1>3, <1>7, <1>8, <1>9

LEMMA MovedSame ==
    ASSUME NEW old, NEW new, NEW new2, NEW from, NEW k, NEW by,
           Moved(old, new, from, k, by), Len(new2) = Len(new), Len(old) \in Nat,
           \A i \in 1 .. Len(new) : SameLine(new[i], new2[i])
    PROVE  Moved(old, new2, from, k, by)
<1>1. /\ from \in Nat \ {0} /\ k \in Nat /\ by \in Int
      /\ by >= -k /\ from + k <= Len(old) + 1
      /\ Len(new) = Len(old) + by /\ Len(new) \in Nat
  BY DEF Moved
<1>2. ASSUME NEW i \in 1 .. Len(old), i < from
      PROVE  SameLine(old[i], new2[i])
  <2>1. i \in 1 .. Len(new) /\ SameLine(old[i], new[i])
    BY <1>1, <1>2 DEF Moved
  <2> QED
    BY <2>1 DEF SameLine
<1>3. ASSUME NEW i \in 1 .. Len(old), i >= from + k
      PROVE  SameLine(old[i], new2[i + by])
  <2>2. SameLine(old[i], new[i + by])
    BY <1>3 DEF Moved
  <2>3. i + by \in 1 .. Len(new)
    BY <1>1, <1>3
  <2>1. SameLine(new[i + by], new2[i + by])
    BY <2>3
  <2> QED
    BY <2>1, <2>2 DEF SameLine
<1>4. ASSUME NEW j \in 1 .. Len(new), IsLabel(new2[j])
      PROVE  j < from \/ j - by >= from + k
  BY <1>4 DEF Moved, SameLine, IsLabel
<1> QED
  BY <1>1, <1>2, <1>3, <1>4 DEF Moved

LEMMA ListsEdited ==
    ASSUME NEW ps \in Seq(PrgmRec), NEW ls, Lists(ls, ps), NEW p \in 1 .. Len(ps),
           NEW new, NEW r, Edited(ps, p, new, r), NEW from, NEW k, NEW by,
           Moved(ps[p].lines, new, from, k, by),
           NEW kept \in Seq(LabelRec), NEW src,
           Selects(src, kept, ls, Outside(ls, p, from, k)),
           NEW ls2, ls2 = Shifted(kept, p, from + k, by)
    PROVE  Lists(ls2, r)
<1>1. /\ r \in Seq(PrgmRec) /\ Len(r) = Len(ps)
      /\ \A q \in 1 .. Len(ps) : q # p => r[q].lines = ps[q].lines
  BY DEF Edited, Shaped
<1>2. Moved(ps[p].lines, r[p].lines, from, k, by)
  <2>1. /\ Len(r[p].lines) = Len(new) /\ Len(ps[p].lines) \in Nat
        /\ \A i \in 1 .. Len(new) : SameLine(new[i], r[p].lines[i])
    BY PrgmRecs DEF Edited
  <2> QED
    BY <2>1, MovedSame
<1> QED
  BY <1>1, <1>2, ListsShifted

(* update_label_table() after a line was put in or one was taken out       *)
LEMMA ListsUpdated ==
    ASSUME NEW ps \in Seq(PrgmRec), NEW ls, Lists(ls, ps), NEW p \in 1 .. Len(ps),
           NEW new, NEW r, Edited(ps, p, new, r), NEW from, NEW k \in {0, 1}, NEW by,
           Moved(ps[p].lines, new, from, k, by),
           k = 1 => ~IsLabel(ps[p].lines[from]),
           NEW ls2, ls2 = Updated(ls, p, from, by)
    PROVE  Lists(ls2, r)
<1>1. /\ ls \in Seq(LabelRec) /\ Len(ls) \in Nat /\ from \in Nat
  BY DEF Lists, Moved
<1>2. ASSUME NEW n \in 1 .. Len(ls), ls[n].prgm = p
      PROVE  ls[n].pc \in Nat /\ (k = 1 => ls[n].pc # from)
  <2>1. Spot(ls[n]) \in Labelled(ps) /\ ls[n].pc \in Nat
    BY <1>1, LabelRecs DEF Lists
  <2>2. <<p, ls[n].pc>> \in Labelled(ps)
    BY <1>2, <2>1 DEF Spot
  <2>3. IsLabel(ps[p].lines[ls[n].pc])
    BY <2>2, LabelledFacts DEF IsLabel
  <2> QED
    BY <2>1, <2>3
<1>3. Outside(ls, p, from, k) = 1 .. Len(ls)
  BY <1>1, <1>2 DEF Outside
<1> DEFINE src == [n \in 1 .. Len(ls) |-> n]
<1>4. Selects(src, ls, ls, Outside(ls, p, from, k))
  BY <1>3 DEF Selects
<1>5. ls2 = Shifted(ls, p, from, by)
  BY <1>1, UpdatedFacts DEF Shifted
<1>6. \A n \in 1 .. Len(ls) : ls[n].prgm = p => (ls[n].pc >= from <=> ls[n].pc >= from + k)
  BY <1>1, <1>2
<1>7. ls2 = Shifted(ls, p, from + k, by)
  BY <1>1, <1>5, <1>6 DEF Shifted
<1> HIDE DEF src
<1> QED
  BY <1>1, <1>4, <1>7, ListsEdited

-----------------------------------------------------------------------------
(* The programs and labels after each edit                                 *)
Good(ps, ls) == Shaped(ps) /\ Lists(ls, ps) /\ TargetsOK(ps)

LEMMA ShapedFacts ==
    ASSUME NEW ps, Shaped(ps)
    PROVE  /\ ps \in Seq(PrgmRec) /\ Len(ps) \in Nat \ {0}
           /\ \A p \in 1 .. Len(ps) : WellEnded(ps[p].lines)
BY DEF Shaped

LEMMA RebuiltAfter ==
    ASSUME NEW t, Shaped(t), NEW r \in Seq(PrgmRec), SameText(t, r),
           NEW ls2, ls2 = Rebuilt(t)
    PROVE  Lists(ls2, r)
<1>1. t \in Seq(PrgmRec)
  BY ShapedFacts
<1>2. Lists(ls2, t)
  BY <1>1, RebuiltLists
<1> QED
  BY <1>1, <1>2, SameTextLists

(* store_command() changes only the program it stores into.                *)
StoredInto(ps, p, r) ==
    /\ Shaped(r) /\ TargetsOK(r) /\ Len(r) = Len(ps)
    /\ Len(r[p].lines) = Len(ps[p].lines) + 1
    /\ \A q \in 1 .. Len(ps) : q # p => r[q] = ps[q]

LEMMA StoredFacts ==
    ASSUME NEW ps, Shaped(ps), TargetsOK(ps), NEW p \in 1 .. Len(ps),
           NEW i \in 1 .. Len(ps[p].lines), NEW ln \in Lines, Plain(ln), NEW ls,
           NEW r, r = Stored(ps, ls, p, i, ln).prgms,
           NEW ls2, ls2 = Stored(ps, ls, p, i, ln).labels
    PROVE  StoredInto(ps, p, r) /\ (Lists(ls, ps) => Lists(ls2, r))
<1> DEFINE new == InsertLine(ps[p].lines, i, ln)
           t == Retexted(ps, p, new)
<1>1. ps \in Seq(PrgmRec) /\ WellEnded(ps[p].lines) /\ ps[p].invalid \in BOOLEAN
  BY ShapedFacts, PrgmRecs
<1>2. t = [ps EXCEPT ![p].lines = InsertLine(@, i, ln)]
  BY DEF Retexted
<1>3. /\ r = Invalidated(t, p, FALSE)
      /\ ls2 = IF ln.op = "lbl" /\ ln.arg \in GlobalLabels
                 THEN Rebuilt(t) ELSE Updated(ls, p, i, 1)
  BY <1>2 DEF Stored
<1>4. WellEnded(new) /\ Len(new) = Len(ps[p].lines) + 1
  BY <1>1, InsertedLine
<1>5. ~IsLabel(ln) => Moved(ps[p].lines, new, i, 0, 1)
  BY <1>1, InsertedLine
<1>6. ps[p].invalid => NoTargets(new)
  <2>1. ps[p].invalid => NoTargets(ps[p].lines)
    BY StaleHasNone DEF TargetsOK
  <2> QED
    BY <1>1, <2>1, InsertedLine
<1> HIDE DEF new
<1>7. t = Retexted(ps, p, new)
  OBVIOUS
<1> HIDE DEF t
<1>8. Edited(ps, p, new, r) /\ Shaped(t) /\ SameText(t, r)
  BY <1>3, <1>4, <1>6, <1>7, EditedFacts
<1>9. StoredInto(ps, p, r)
  BY <1>4, <1>8, EditedTargets DEF Edited, StoredInto
<1>10. ASSUME Lists(ls, ps)
       PROVE  Lists(ls2, r)
  <2>1. CASE ln.op = "lbl" /\ ln.arg \in GlobalLabels
    <3>1. ls2 = Rebuilt(t) /\ r \in Seq(PrgmRec)
      BY <1>3, <1>8, <2>1 DEF Edited, Shaped
    <3> QED
      BY <1>8, <3>1, RebuiltAfter
  <2>2. CASE ~(ln.op = "lbl" /\ ln.arg \in GlobalLabels)
    <3>1. Moved(ps[p].lines, new, i, 0, 1)
      BY <1>5, <2>2 DEF Plain, IsLabel
    <3>2. ls2 = Updated(ls, p, i, 1)
      BY <1>3, <2>2
    <3>3. Edited(ps, p, new, r) /\ 0 \in {0, 1} /\ ~(0 = 1)
      BY <1>8
    <3> QED
      BY <1>1, <1>10, <3>1, <3>2, <3>3, ListsUpdated
  <2> QED
    BY <2>1, <2>2
<1> QED
  BY <1>9, <1>10

(* A line other than END is deleted.                                       *)
LEMMA CutFacts ==
    ASSUME NEW ps, Shaped(ps), TargetsOK(ps), NEW p \in 1 .. Len(ps),
           NEW i \in 1 .. Len(ps[p].lines), NEW n \in Nat, i + n <= Len(ps[p].lines),
           NEW new, new = CutLines(ps[p].lines, i, n),
           NEW t, t = Retexted(ps, p, new), NEW r, r = Invalidated(t, p, FALSE)
    PROVE  /\ Edited(ps, p, new, r) /\ TargetsOK(r) /\ Shaped(t) /\ SameText(t, r)
           /\ Len(new) = Len(ps[p].lines) - n
           /\ Moved(ps[p].lines, new, i, n, -n)
<1>1. ps \in Seq(PrgmRec) /\ WellEnded(ps[p].lines)
  BY ShapedFacts
<1>2. WellEnded(new) /\ Len(new) = Len(ps[p].lines) - n
  BY <1>1, CutLine
<1>3. Moved(ps[p].lines, new, i, n, -n)
  BY <1>1, CutLine
<1>4. ps[p].invalid => NoTargets(new)
  <2>1. ps[p].invalid => NoTargets(ps[p].lines)
    BY StaleHasNone DEF TargetsOK
  <2> QED
    BY <1>1, <2>1, CutLine
<1>5. Edited(ps, p, new, r) /\ Shaped(t) /\ SameText(t, r)
  BY <1>2, <1>4, EditedFacts
<1> QED
  BY <1>2, <1>3, <1>5, EditedTargets

LEMMA SameTextTrans ==
    ASSUME NEW a, NEW b, NEW c, SameText(a, b), SameText(b, c), Len(a) \in Nat
    PROVE  SameText(a, c)
<1>1. Len(c) = Len(a) /\ Len(b) = Len(a)
  BY DEF SameText
<1>2. ASSUME NEW p \in 1 .. Len(a)
      PROVE  /\ Len(c[p].lines) = Len(a[p].lines)
             /\ \A i \in 1 .. Len(a[p].lines) : SameLine(a[p].lines[i], c[p].lines[i])
  <2>1. /\ Len(b[p].lines) = Len(a[p].lines)
        /\ \A i \in 1 .. Len(a[p].lines) : SameLine(a[p].lines[i], b[p].lines[i])
    BY DEF SameText
  <2>2. /\ Len(c[p].lines) = Len(b[p].lines)
        /\ \A i \in 1 .. Len(b[p].lines) : SameLine(b[p].lines[i], c[p].lines[i])
    BY <1>1 DEF SameText
  <2> QED
    BY <2>1, <2>2 DEF SameLine
<1> QED
  BY <1>1, <1>2 DEF SameText

(* A program that is split, programs that are joined                       *)
FirstHalf(lines, i) == SubSeq(lines, 1, i - 1) \o <<End>>
SecondHalf(lines, i) == SubSeq(lines, i, Len(lines))
Joined(lines, i, rest) == SubSeq(lines, 1, i - 1) \o rest

LEMMA JoinedEnds ==
    ASSUME NEW lines, WellEnded(lines), NEW i \in 1 .. Len(lines),
           NEW rest, WellEnded(rest)
    PROVE  WellEnded(Joined(lines, i, rest)) /\ Len(Joined(lines, i, rest)) = i - 1 + Len(rest)
<1> DEFINE a == SubSeq(lines, 1, i - 1)
           r == Joined(lines, i, rest)
<1>1. /\ lines \in Seq(Lines) /\ Len(lines) \in Nat \ {0}
      /\ rest \in Seq(Lines) /\ Len(rest) \in Nat \ {0}
  BY WellEndedLines
<1>2. a \in Seq(Lines) /\ Len(a) = i - 1 /\ \A j \in 1 .. i - 1 : a[j] = lines[j]
  BY <1>1, SubSeqProperties
<1>3. r = a \o rest
  BY DEF Joined
<1> HIDE DEF a, r
<1>7. /\ a \o rest \in Seq(Lines) /\ Len(a \o rest) = Len(a) + Len(rest)
      /\ \A j \in 1 .. Len(a) + Len(rest) :
            (a \o rest)[j] = IF j <= Len(a) THEN a[j] ELSE rest[j - Len(a)]
  BY <1>1, <1>2, ConcatProperties
<1>4. /\ r \in Seq(Lines) /\ Len(r) = i - 1 + Len(rest)
      /\ \A j \in 1 .. Len(r) : r[j] = IF j <= i - 1 THEN a[j] ELSE rest[j - (i - 1)]
  BY <1>1, <1>2, <1>3, <1>7
<1>5. ASSUME NEW j \in 1 .. Len(r)
      PROVE  r[j].op = "end" <=> j = Len(r)
  <2>1. CASE j <= i - 1
    <3>1. r[j] = lines[j] /\ j \in 1 .. Len(lines) /\ j # Len(lines) /\ j # Len(r)
      BY <1>1, <1>2, <1>4, <2>1
    <3> QED
      BY <3>1, WellEndedLines
  <2>2. CASE ~(j <= i - 1)
    <3> DEFINE m == j - (i - 1)
    <3>1. r[j] = rest[m] /\ m \in 1 .. Len(rest) /\ (m = Len(rest) <=> j = Len(r))
      BY <1>1, <1>4, <2>2
    <3> HIDE DEF m
    <3> QED
      BY <3>1, WellEndedLines
  <2> QED
    BY <2>1, <2>2
<1>6. Len(r) > 0
  BY <1>1, <1>4
<1> QED
  BY <1>4, <1>5, <1>6 DEF WellEnded, r

LEMMA HalvesEnd ==
    ASSUME NEW lines, WellEnded(lines), NEW i \in 1 .. Len(lines)
    PROVE  WellEnded(FirstHalf(lines, i)) /\ WellEnded(SecondHalf(lines, i))
<1>1. lines \in Seq(Lines) /\ Len(lines) \in Nat \ {0}
  BY WellEndedLines
<1>2. WellEnded(<<End>>)
  BY EndLine DEF WellEnded
<1>3. WellEnded(FirstHalf(lines, i))
  BY <1>2, JoinedEnds DEF FirstHalf, Joined
<1> DEFINE b == SecondHalf(lines, i)
<1>4. /\ b \in Seq(Lines) /\ Len(b) = Len(lines) + 1 - i
      /\ \A j \in 1 .. Len(lines) + 1 - i : b[j] = lines[j + i - 1]
  BY <1>1, SubSeqProperties DEF SecondHalf
<1> HIDE DEF b
<1>5. ASSUME NEW j \in 1 .. Len(b)
      PROVE  b[j].op = "end" <=> j = Len(b)
  <2> DEFINE m == j + i - 1
  <2>1. m \in 1 .. Len(lines) /\ b[j] = lines[m] /\ (m = Len(lines) <=> j = Len(b))
    BY <1>1, <1>4
  <2> HIDE DEF m
  <2> QED
    BY <2>1, WellEndedLines
<1>6. WellEnded(b)
  BY <1>1, <1>4, <1>5 DEF WellEnded
<1> QED
  BY <1>3, <1>6 DEF b

(* Programs put in and taken out                                           *)
Sound(prgm) == prgm \in PrgmRec /\ WellEnded(prgm.lines)

LEMMA OpenedFacts ==
    ASSUME NEW ps, Shaped(ps), NEW p \in 1 .. Len(ps) + 1,
           NEW new, Sound(new),
           NEW r, r = InsertPrgm(ps, p, new)
    PROVE  /\ Shaped(r) /\ Len(r) = Len(ps) + 1
           /\ \A q \in 1 .. Len(ps) + 1 : r[q] = IF q < p THEN ps[q]
                                                ELSE IF q = p THEN new ELSE ps[q - 1]
<1>1. ps \in Seq(PrgmRec) /\ Len(ps) \in Nat \ {0}
  BY ShapedFacts
<1>2. new \in PrgmRec /\ WellEnded(new.lines)
  BY DEF Sound
<1>6. ps \in Seq(PrgmRec)
  BY <1>1
<1>7. new \in PrgmRec
  BY <1>2
<1>3. r = With(ps, p, new)
  BY DEF InsertPrgm, With
<1>4. /\ r \in Seq(PrgmRec) /\ Len(r) = Len(ps) + 1
      /\ \A q \in 1 .. Len(ps) + 1 : r[q] = IF q < p THEN ps[q]
                                           ELSE IF q = p THEN new ELSE ps[q - 1]
  BY <1>3, <1>6, <1>7, PutIn
<1>5. ASSUME NEW q \in 1 .. Len(r)
      PROVE  WellEnded(r[q].lines)
  <2>1. CASE q < p
    <3>1. q \in 1 .. Len(ps) /\ r[q] = ps[q]
      BY <1>1, <1>4, <2>1
    <3> QED
      BY <3>1, ShapedFacts
  <2>2. CASE q = p
    BY <1>2, <1>4, <2>2
  <2>3. CASE q > p
    <3>1. q - 1 \in 1 .. Len(ps) /\ r[q] = ps[q - 1]
      BY <1>1, <1>4, <2>3
    <3> QED
      BY <3>1, ShapedFacts
  <2> QED
    BY <1>1, <1>4, <2>1, <2>2, <2>3
<1> QED
  BY <1>1, <1>4, <1>5 DEF Shaped

LEMMA ClosedFacts ==
    ASSUME NEW ps, Shaped(ps), Len(ps) > 1, NEW p \in 1 .. Len(ps),
           NEW r, r = CutPrgm(ps, p)
    PROVE  /\ Shaped(r) /\ Len(r) = Len(ps) - 1
           /\ \A q \in 1 .. Len(ps) - 1 : r[q] = IF q < p THEN ps[q] ELSE ps[q + 1]
<1>1. ps \in Seq(PrgmRec) /\ Len(ps) \in Nat \ {0}
  BY ShapedFacts
<1>2. /\ r \in Seq(PrgmRec) /\ Len(r) = Len(ps) - 1
      /\ \A q \in 1 .. Len(ps) - 1 : r[q] = IF q < p THEN ps[q] ELSE ps[q + 1]
  BY <1>1, CutPrgmFacts
<1>3. ASSUME NEW q \in 1 .. Len(r)
      PROVE  WellEnded(r[q].lines)
  <2> DEFINE m == IF q < p THEN q ELSE q + 1
  <2>1. m \in 1 .. Len(ps) /\ r[q] = ps[m]
    BY <1>1, <1>2
  <2> HIDE DEF m
  <2> QED
    BY <2>1, ShapedFacts
<1> QED
  BY <1>1, <1>2, <1>3 DEF Shaped

Forced(ps, p) == Invalidated(ps, p, TRUE)

LEMMA ForcedFacts ==
    ASSUME NEW ps \in Seq(PrgmRec), NEW p \in 1 .. Len(ps),
           NEW r, r = Forced(ps, p)
    PROVE  /\ r \in Seq(PrgmRec) /\ Len(r) = Len(ps)
           /\ SameText(ps, r) /\ NoTargets(r[p].lines)
           /\ \A q \in 1 .. Len(ps) : q # p => r[q] = ps[q]
<1> DEFINE f == TRUE
<1>1. f \in BOOLEAN /\ f /\ r = Invalidated(ps, p, f)
  BY DEF Forced
<1> HIDE DEF f
<1>2. ~f /\ ps[p].invalid => NoTargets(ps[p].lines)
  BY <1>1
<1>3. f \in BOOLEAN
  BY <1>1
<1>4. r = Invalidated(ps, p, f)
  BY <1>1
<1> QED
  BY <1>2, <1>3, <1>4, InvalidatedFacts

LEMMA SplitFacts ==
    ASSUME NEW ps, Shaped(ps), TargetsOK(ps), NEW p \in 1 .. Len(ps),
           NEW w, w = p + 1,
           NEW first, WellEnded(first), NEW second, Sound(second),
           NEW t, t = Retexted(ps, p, first),
           NEW text, text = InsertPrgm(t, w, second),
           NEW r1, r1 = Forced(text, w),
           NEW r, r = Forced(r1, p)
    PROVE  /\ Shaped(text) /\ SameText(text, r)
           /\ Shaped(r) /\ TargetsOK(r) /\ Len(r) = Len(ps) + 1
           /\ \A q \in 1 .. Len(ps) : /\ q < p => r[q] = ps[q]
                                      /\ q > p => r[q + 1] = ps[q]
<1>1. ps \in Seq(PrgmRec) /\ Len(ps) \in Nat \ {0} /\ p \in Nat /\ w \in Nat
  BY ShapedFacts
<1>2. /\ Shaped(t) /\ t \in Seq(PrgmRec) /\ Len(t) = Len(ps)
      /\ \A q \in 1 .. Len(ps) : q # p => t[q] = ps[q]
  <2>1. Shaped(t)
    BY EditedFacts
  <2>2. first \in Seq(Lines)
    BY WellEndedLines
  <2> QED
    BY <1>1, <2>1, <2>2, RetextedFacts
<1>3. /\ Shaped(text) /\ Len(text) = Len(ps) + 1
      /\ \A q \in 1 .. Len(ps) + 1 : text[q] = IF q < w THEN t[q]
                                              ELSE IF q = w THEN second ELSE t[q - 1]
  <2>1. w \in 1 .. Len(t) + 1
    BY <1>1, <1>2
  <2>2. Shaped(t) /\ Len(t) = Len(ps)
    BY <1>2
  <2>3. /\ Shaped(text) /\ Len(text) = Len(t) + 1
        /\ \A q \in 1 .. Len(t) + 1 : text[q] = IF q < w THEN t[q]
                                               ELSE IF q = w THEN second ELSE t[q - 1]
    BY <2>1, <2>2, OpenedFacts
  <2> QED
    BY <2>2, <2>3
<1>4. text \in Seq(PrgmRec) /\ w \in 1 .. Len(text) /\ p \in 1 .. Len(text)
  BY <1>1, <1>3, ShapedFacts
<1>5. /\ r1 \in Seq(PrgmRec) /\ Len(r1) = Len(text) /\ SameText(text, r1)
      /\ NoTargets(r1[w].lines)
      /\ \A q \in 1 .. Len(text) : q # w => r1[q] = text[q]
  BY <1>4, ForcedFacts
<1>6. /\ r \in Seq(PrgmRec) /\ Len(r) = Len(r1) /\ SameText(r1, r)
      /\ NoTargets(r[p].lines)
      /\ \A q \in 1 .. Len(r1) : q # p => r[q] = r1[q]
  <2>1. p \in 1 .. Len(r1) /\ r1 \in Seq(PrgmRec)
    BY <1>4, <1>5
  <2> QED
    BY <2>1, ForcedFacts
<1>12. /\ Len(r) = Len(ps) + 1
       /\ \A q \in 1 .. Len(ps) + 1 : q # p /\ q # w => r[q] = text[q]
  BY <1>3, <1>5, <1>6
<1>7. SameText(text, r)
  <2>1. Len(text) \in Nat /\ SameText(text, r1) /\ SameText(r1, r)
    BY <1>1, <1>3, <1>5, <1>6
  <2> QED
    BY <2>1, SameTextTrans
<1>8. Shaped(r)
  BY <1>3, <1>6, <1>7, SameTextShaped
<1>9. ASSUME NEW q \in 1 .. Len(ps)
      PROVE  /\ q < p => r[q] = ps[q]
             /\ q > p => r[q + 1] = ps[q]
  <2>1. CASE q < p
    <3>1. q \in 1 .. Len(ps) + 1 /\ q < w /\ q # p
      BY <1>1, <2>1
    <3>2. text[q] = t[q] /\ t[q] = ps[q] /\ r[q] = text[q]
      BY <1>2, <1>3, <1>12, <3>1
    <3> QED
      BY <2>1, <3>2
  <2>2. CASE q > p
    <3> DEFINE m == q + 1
    <3>1. m \in 1 .. Len(ps) + 1 /\ m > w /\ m # p /\ m - 1 = q /\ ~(m < w) /\ m # w
      BY <1>1, <2>2
    <3> HIDE DEF m
    <3>2. text[m] = t[q]
      BY <1>3, <3>1
    <3>3. t[q] = ps[q] /\ r[m] = text[m]
      BY <1>2, <1>12, <2>2, <3>1
    <3> QED
      BY <2>2, <3>2, <3>3 DEF m
  <2> QED
    BY <2>1, <2>2
<1>10. ASSUME NEW q \in 1 .. Len(r)
       PROVE  Consistent(r[q])
  <2>1. CASE q = p
    BY <1>6, <2>1, NoneIsConsistent
  <2>2. CASE q = w
    <3>1. r[w] = r1[w]
      BY <1>4, <1>5, <1>6
    <3>2. NoTargets(r[q].lines)
      BY <1>5, <2>2, <3>1
    <3> QED
      BY <3>2, NoneIsConsistent
  <2>3. CASE q < p
    <3>1. q \in 1 .. Len(ps)
      BY <1>1, <2>3
    <3>2. r[q] = ps[q]
      BY <1>9, <2>3, <3>1
    <3> QED
      BY <3>1, <3>2 DEF TargetsOK
  <2>4. CASE q > w
    <3> DEFINE m == q - 1
    <3>1. m \in 1 .. Len(ps) /\ m > p /\ m + 1 = q
      BY <1>1, <1>12, <2>4
    <3> HIDE DEF m
    <3>2. r[q] = ps[m]
      BY <1>9, <3>1
    <3> QED
      BY <3>1, <3>2 DEF TargetsOK
  <2>5. q = p \/ q = w \/ q < p \/ q > w
    BY <1>1, <1>12
  <2> QED
    BY <2>1, <2>2, <2>3, <2>4, <2>5
<1>11. TargetsOK(r)
  BY <1>10 DEF TargetsOK
<1> QED
  BY <1>3, <1>7, <1>8, <1>9, <1>11, <1>12

LEMMA JoinFacts ==
    ASSUME NEW ps, Shaped(ps), TargetsOK(ps), NEW p \in 1 .. Len(ps),
           NEW w \in 1 .. Len(ps), w = p + 1,
           NEW joined, WellEnded(joined),
           NEW t, t = Retexted(ps, p, joined),
           NEW text, text = CutPrgm(t, w),
           NEW r, r = Forced(text, p)
    PROVE  /\ Shaped(text) /\ SameText(text, r)
           /\ Shaped(r) /\ TargetsOK(r) /\ Len(r) = Len(ps) - 1
           /\ Len(r[p].lines) = Len(joined)
           /\ \A q \in 1 .. Len(ps) : /\ q < p => r[q] = ps[q]
                                      /\ q > w => r[q - 1] = ps[q]
<1>1. /\ ps \in Seq(PrgmRec) /\ Len(ps) \in Nat \ {0} /\ Len(ps) > 1
      /\ p \in Nat /\ w \in 1 .. Len(ps)
  BY ShapedFacts
<1>2. /\ Shaped(t) /\ t \in Seq(PrgmRec) /\ Len(t) = Len(ps) /\ t[p].lines = joined
      /\ \A q \in 1 .. Len(ps) : q # p => t[q] = ps[q]
  <2>1. Shaped(t)
    BY EditedFacts
  <2>2. joined \in Seq(Lines)
    BY WellEndedLines
  <2> QED
    BY <1>1, <2>1, <2>2, RetextedFacts
<1>3. /\ Shaped(text) /\ Len(text) = Len(ps) - 1
      /\ \A q \in 1 .. Len(ps) - 1 : text[q] = IF q < w THEN t[q] ELSE t[q + 1]
  <2>1. Shaped(t) /\ Len(t) > 1 /\ w \in 1 .. Len(t) /\ Len(t) = Len(ps)
    BY <1>1, <1>2
  <2>3. Shaped(t)
    BY <1>2
  <2>4. w \in 1 .. Len(t)
    BY <2>1
  <2>5. Len(t) > 1
    BY <2>1
  <2>2. /\ Shaped(text) /\ Len(text) = Len(t) - 1
        /\ \A q \in 1 .. Len(t) - 1 : text[q] = IF q < w THEN t[q] ELSE t[q + 1]
    BY <2>3, <2>4, <2>5, ClosedFacts
  <2> QED
    BY <2>1, <2>2
<1>4. text \in Seq(PrgmRec) /\ p \in 1 .. Len(text)
  BY <1>1, <1>3, ShapedFacts
<1>5. /\ r \in Seq(PrgmRec) /\ Len(r) = Len(text) /\ SameText(text, r)
      /\ NoTargets(r[p].lines)
      /\ \A q \in 1 .. Len(text) : q # p => r[q] = text[q]
  BY <1>4, ForcedFacts
<1>6. Shaped(r)
  BY <1>3, <1>5, SameTextShaped
<1>12. /\ Len(r) = Len(ps) - 1
       /\ \A q \in 1 .. Len(ps) - 1 : q # p => r[q] = text[q]
  BY <1>3, <1>5
<1>7. Len(r[p].lines) = Len(joined)
  <2>1. p \in 1 .. Len(ps) - 1 /\ p < w
    BY <1>1
  <2>2. text[p] = t[p]
    BY <1>3, <2>1
  <2>3. Len(r[p].lines) = Len(text[p].lines)
    BY <1>4, <1>5 DEF SameText
  <2> QED
    BY <1>2, <2>2, <2>3
<1>8. ASSUME NEW q \in 1 .. Len(ps)
      PROVE  /\ q < p => r[q] = ps[q]
             /\ q > w => r[q - 1] = ps[q]
  <2>1. CASE q < p
    <3>1. q \in 1 .. Len(ps) - 1 /\ q < w /\ q # p
      BY <1>1, <2>1
    <3>2. text[q] = t[q] /\ t[q] = ps[q] /\ r[q] = text[q]
      BY <1>2, <1>3, <1>12, <3>1
    <3>3. ~(q > w)
      BY <1>1, <2>1
    <3> QED
      BY <3>2, <3>3
  <2>2. CASE q > w
    <3> DEFINE m == q - 1
    <3>1. m \in 1 .. Len(ps) - 1 /\ m + 1 = q /\ ~(m < w) /\ m # p /\ q # p /\ ~(q < p)
      BY <1>1, <2>2
    <3> HIDE DEF m
    <3>2. text[m] = t[q]
      BY <1>3, <3>1
    <3>3. t[q] = ps[q] /\ r[m] = text[m]
      BY <1>2, <1>12, <3>1
    <3> QED
      BY <3>1, <3>2, <3>3 DEF m
  <2> QED
    BY <2>1, <2>2
<1>9. ASSUME NEW q \in 1 .. Len(r)
      PROVE  Consistent(r[q])
  <2>1. CASE q = p
    BY <1>5, <2>1, NoneIsConsistent
  <2>2. CASE q < p
    <3>1. q \in 1 .. Len(ps)
      BY <1>1, <2>2
    <3>2. r[q] = ps[q]
      BY <1>8, <2>2, <3>1
    <3> QED
      BY <3>1, <3>2 DEF TargetsOK
  <2>3. CASE q > p
    <3> DEFINE m == q + 1
    <3>1. m \in 1 .. Len(ps) /\ m > w /\ m - 1 = q
      BY <1>1, <1>12, <2>3
    <3> HIDE DEF m
    <3>2. r[q] = ps[m]
      BY <1>8, <3>1
    <3> QED
      BY <3>1, <3>2 DEF TargetsOK
  <2>4. q = p \/ q < p \/ q > p
    BY <1>1, <1>12
  <2> QED
    BY <2>1, <2>2, <2>3, <2>4
<1>10. TargetsOK(r)
  BY <1>9 DEF TargetsOK
<1> QED
  BY <1>3, <1>5, <1>6, <1>7, <1>8, <1>10, <1>12

LEMMA EmptyPrgmFacts ==
    /\ EmptyPrgm \in PrgmRec /\ WellEnded(EmptyPrgm.lines) /\ Consistent(EmptyPrgm)
    /\ Len(EmptyPrgm.lines) = 1
<1>1. EmptyPrgm.lines = <<End>> /\ EmptyPrgm.invalid = TRUE /\ EmptyPrgm.locked = FALSE
  BY DEF EmptyPrgm, NewPrgm
<1>2. <<End>> \in Seq(Lines) /\ Len(<<End>>) = 1 /\ <<End>>[1] = End
  BY EndLine
<1>3. EmptyPrgm \in PrgmRec
  BY <1>2 DEF EmptyPrgm, NewPrgm, PrgmRec
<1>4. WellEnded(<<End>>) /\ NoTargets(<<End>>)
  BY <1>2, EndLine DEF WellEnded, NoTargets
<1>5. Consistent(EmptyPrgm)
  BY <1>1, <1>4, NoneIsConsistent
<1> QED
  BY <1>1, <1>2, <1>3, <1>4, <1>5

(* A new program at the end, after programs of which there may be none     *)
LEMMA AppendedFacts ==
    ASSUME NEW ps \in Seq(PrgmRec), \A q \in 1 .. Len(ps) : WellEnded(ps[q].lines),
           TargetsOK(ps), NEW r, r = Append(ps, EmptyPrgm)
    PROVE  /\ Shaped(r) /\ TargetsOK(r) /\ Len(r) = Len(ps) + 1
           /\ r[Len(r)] = EmptyPrgm
           /\ \A q \in 1 .. Len(ps) : r[q] = ps[q]
<1>1. /\ r \in Seq(PrgmRec) /\ Len(r) = Len(ps) + 1 /\ Len(ps) \in Nat
      /\ r[Len(ps) + 1] = EmptyPrgm
      /\ \A q \in 1 .. Len(ps) : r[q] = ps[q]
  BY EmptyPrgmFacts
<1>2. ASSUME NEW q \in 1 .. Len(r)
      PROVE  WellEnded(r[q].lines) /\ Consistent(r[q])
  <2>1. CASE q \in 1 .. Len(ps)
    BY <1>1, <2>1 DEF TargetsOK
  <2>2. CASE q = Len(ps) + 1
    BY <1>1, <2>2, EmptyPrgmFacts
  <2> QED
    BY <1>1, <2>1, <2>2
<1>3. Shaped(r)
  BY <1>1, <1>2 DEF Shaped
<1>4. TargetsOK(r)
  BY <1>2 DEF TargetsOK
<1> QED
  BY <1>1, <1>3, <1>4

(* CLP                                                                     *)
NeedsNew(p) ==
    /\ p = Len(prgms)
    /\ CutPrgm(prgms, p) # <<>> =>
          Len(CutPrgm(prgms, p)[Len(CutPrgm(prgms, p))].lines) > 1

LEMMA ClearedIs ==
    ASSUME NEW p, labels \in Seq(LabelRec)
    PROVE  /\ NeedsNew(p) =>
                /\ Cleared(p).prgms = Append(CutPrgm(prgms, p), EmptyPrgm)
                /\ Cleared(p).labels = Rebuilt(Append(CutPrgm(prgms, p), EmptyPrgm))
           /\ ~NeedsNew(p) =>
                /\ Cleared(p).prgms = CutPrgm(prgms, p)
                /\ Cleared(p).labels = Renumbered(Kept(labels, OtherPrgms(labels, p)), p)
<1>1. {m \in DOMAIN labels : labels[m].prgm # p} = OtherPrgms(labels, p)
  BY DEF OtherPrgms
<1>2. CASE NeedsNew(p)
  <2>1. Cleared(p) = [prgms |-> Append(CutPrgm(prgms, p), EmptyPrgm),
                      labels |-> Rebuilt(Append(CutPrgm(prgms, p), EmptyPrgm))]
    BY <1>2 DEF NeedsNew, Cleared
  <2> QED
    BY <1>2, <2>1
<1>3. CASE ~NeedsNew(p)
  <2>1. Cleared(p) = [prgms  |-> CutPrgm(prgms, p),
                      labels |-> Renumbered(Kept(labels, OtherPrgms(labels, p)), p)]
    BY <1>1, <1>3 DEF NeedsNew, Cleared, Renumbered
  <2> QED
    BY <1>3, <2>1
<1> QED
  BY <1>2, <1>3

LEMMA ClearedFacts ==
    ASSUME Good(prgms, labels), NEW p \in 1 .. Len(prgms),
           NEW r, r = Cleared(p).prgms, NEW ls2, ls2 = Cleared(p).labels
    PROVE  /\ Good(r, ls2)
           /\ Len(r) = IF NeedsNew(p) THEN Len(prgms) ELSE Len(prgms) - 1
           /\ \A q \in 1 .. Len(prgms) : /\ q < p => r[q] = prgms[q]
                                         /\ q > p => r[q - 1] = prgms[q]
<1>1. /\ prgms \in Seq(PrgmRec) /\ Len(prgms) \in Nat \ {0}
      /\ \A q \in 1 .. Len(prgms) : WellEnded(prgms[q].lines) /\ Consistent(prgms[q])
      /\ labels \in Seq(LabelRec) /\ Lists(labels, prgms)
  BY DEF Good, Shaped, Lists, TargetsOK
<1> DEFINE cut == CutPrgm(prgms, p)
<1>2. /\ cut \in Seq(PrgmRec) /\ Len(cut) = Len(prgms) - 1
      /\ \A q \in 1 .. Len(prgms) - 1 : cut[q] = IF q < p THEN prgms[q] ELSE prgms[q + 1]
  BY <1>1, CutPrgmFacts
<1>3. /\ NeedsNew(p) => r = Append(cut, EmptyPrgm) /\ ls2 = Rebuilt(Append(cut, EmptyPrgm))
      /\ ~NeedsNew(p) => r = cut /\ ls2 = Renumbered(Kept(labels, OtherPrgms(labels, p)), p)
  BY <1>1, ClearedIs
<1>4. Len(prgms) = 1 => NeedsNew(p)
  <2>1. CASE Len(prgms) = 1
    <3>1. cut = <<>> /\ p = Len(prgms)
      BY <1>2, <2>1
    <3> QED
      BY <3>1 DEF NeedsNew
  <2> QED
    BY <2>1
<1>5. cut = CutPrgm(prgms, p)
  OBVIOUS
<1> HIDE DEF cut
<1>6. \A q \in 1 .. Len(prgms) : /\ q < p => cut[q] = prgms[q]
                                 /\ q > p => cut[q - 1] = prgms[q]
  <2> SUFFICES ASSUME NEW q \in 1 .. Len(prgms)
               PROVE  /\ q < p => cut[q] = prgms[q]
                      /\ q > p => cut[q - 1] = prgms[q]
    OBVIOUS
  <2>1. q < p => cut[q] = prgms[q]
    BY <1>1, <1>2
  <2>2. CASE q > p
    <3> DEFINE m == q - 1
    <3>1. m \in 1 .. Len(prgms) - 1 /\ ~(m < p) /\ m + 1 = q
      BY <1>1, <2>2
    <3> HIDE DEF m
    <3>2. cut[m] = prgms[q]
      BY <1>2, <3>1
    <3> QED
      BY <2>1, <3>2 DEF m
  <2> QED
    BY <2>1, <2>2
<1>7. \A q \in 1 .. Len(cut) : WellEnded(cut[q].lines) /\ Consistent(cut[q])
  <2> SUFFICES ASSUME NEW q \in 1 .. Len(cut)
               PROVE  WellEnded(cut[q].lines) /\ Consistent(cut[q])
    OBVIOUS
  <2> DEFINE m == IF q < p THEN q ELSE q + 1
  <2>1. m \in 1 .. Len(prgms) /\ cut[q] = prgms[m]
    BY <1>1, <1>2
  <2> HIDE DEF m
  <2> QED
    BY <1>1, <2>1
<1>8. TargetsOK(cut)
  BY <1>7 DEF TargetsOK
<1>9. CASE NeedsNew(p)
  <2>1. r = Append(cut, EmptyPrgm) /\ ls2 = Rebuilt(r)
    BY <1>3, <1>9
  <2>2. \A q \in 1 .. Len(cut) : WellEnded(cut[q].lines)
    BY <1>7
  <2>5. cut \in Seq(PrgmRec)
    BY <1>2
  <2>3. /\ Shaped(r) /\ TargetsOK(r) /\ Len(r) = Len(cut) + 1
        /\ \A q \in 1 .. Len(cut) : r[q] = cut[q]
    BY <1>8, <2>1, <2>2, <2>5, AppendedFacts
  <2>4. Lists(ls2, r)
    BY <2>1, <2>3, RebuiltLists DEF Shaped
  <2>6. Len(r) = Len(prgms) /\ p = Len(prgms)
    BY <1>1, <1>2, <1>9, <2>3 DEF NeedsNew
  <2>7. ASSUME NEW q \in 1 .. Len(prgms)
        PROVE  (q < p => r[q] = prgms[q]) /\ ~(q > p)
    <3>1. q < p => q \in 1 .. Len(cut)
      BY <1>1, <1>2, <2>6
    <3> QED
      BY <1>1, <1>6, <2>3, <2>6, <3>1
  <2> QED
    BY <1>9, <2>3, <2>4, <2>6, <2>7 DEF Good
<1>10. CASE ~NeedsNew(p)
  <2>1. r = cut /\ ls2 = Renumbered(Kept(labels, OtherPrgms(labels, p)), p)
    BY <1>3, <1>10
  <2>2. Shaped(r)
    BY <1>1, <1>2, <1>4, <1>7, <1>10, <2>1 DEF Shaped
  <2>4. r = CutPrgm(prgms, p)
    BY <1>5, <2>1
  <2>3. Lists(ls2, r)
    BY <1>1, <2>1, <2>4, ListsCut
  <2> QED
    BY <1>2, <1>6, <1>8, <1>10, <2>1, <2>2, <2>3 DEF Good
<1> QED
  BY <1>9, <1>10

-----------------------------------------------------------------------------
(* The invariant                                                           *)
RtnRec == [prgm : Nat, pc : Nat]

Returns(rs, ps) ==
    /\ rs \in Seq(RtnRec) /\ Len(rs) <= MaxReturns
    /\ \A k \in 1 .. Len(rs) :
          /\ rs[k].prgm \in 1 .. Len(ps)
          /\ rs[k].pc \in 2 .. Len(ps[rs[k].prgm].lines)
          /\ ps[rs[k].prgm].lines[rs[k].pc - 1].op = "xeq"

Spotted(ps, p, i) == p \in 1 .. Len(ps) /\ i \in 0 .. Len(ps[p].lines)

Inv ==
    /\ Good(prgms, labels)
    /\ Returns(rtns, prgms)
    /\ Spotted(prgms, currentPrgm, pc)

LEMMA NoReturns ==
    ASSUME NEW ps
    PROVE  Returns(<<>>, ps)
BY BoundAssumption DEF Returns

LEMMA ReturnsSame ==
    ASSUME NEW ps, NEW r, SameText(ps, r), NEW rs, Returns(rs, ps), Shaped(ps)
    PROVE  Returns(rs, r)
<1>1. rs \in Seq(RtnRec) /\ Len(rs) <= MaxReturns
  BY DEF Returns
<1>2. ASSUME NEW k \in 1 .. Len(rs)
      PROVE  /\ rs[k].prgm \in 1 .. Len(r)
             /\ rs[k].pc \in 2 .. Len(r[rs[k].prgm].lines)
             /\ r[rs[k].prgm].lines[rs[k].pc - 1].op = "xeq"
  <2> DEFINE p == rs[k].prgm
             i == rs[k].pc
  <2>1. /\ p \in 1 .. Len(ps) /\ i \in 2 .. Len(ps[p].lines)
        /\ ps[p].lines[i - 1].op = "xeq"
    BY DEF Returns
  <2> HIDE DEF p, i
  <2>2. Len(ps[p].lines) \in Nat
    BY <2>1, ShapedFacts, WellEndedLines
  <2>3. i - 1 \in 1 .. Len(ps[p].lines)
    BY <2>1, <2>2
  <2>4. /\ p \in 1 .. Len(r) /\ Len(r[p].lines) = Len(ps[p].lines)
        /\ r[p].lines[i - 1].op = "xeq"
    BY <2>1, <2>3 DEF SameText, SameLine
  <2> QED
    BY <2>1, <2>4 DEF p, i
<1> QED
  BY <1>1, <1>2 DEF Returns

LEMMA InvFacts ==
    ASSUME Inv
    PROVE  /\ Shaped(prgms) /\ TargetsOK(prgms) /\ Lists(labels, prgms)
           /\ prgms \in Seq(PrgmRec) /\ Len(prgms) \in Nat \ {0}
           /\ currentPrgm \in 1 .. Len(prgms) /\ currentPrgm \in Nat
           /\ WellEnded(prgms[currentPrgm].lines)
           /\ LastLine(currentPrgm) = Len(prgms[currentPrgm].lines)
           /\ LastLine(currentPrgm) \in Nat \ {0}
           /\ pc \in 0 .. LastLine(currentPrgm) /\ pc \in Nat
           /\ InsertPos \in 1 .. LastLine(currentPrgm)
<1>1. /\ Shaped(prgms) /\ TargetsOK(prgms) /\ Lists(labels, prgms)
      /\ currentPrgm \in 1 .. Len(prgms) /\ pc \in 0 .. Len(prgms[currentPrgm].lines)
  BY DEF Inv, Good, Spotted
<1>2. /\ prgms \in Seq(PrgmRec) /\ Len(prgms) \in Nat \ {0}
      /\ WellEnded(prgms[currentPrgm].lines)
  BY <1>1, ShapedFacts
<1>3. /\ LastLine(currentPrgm) = Len(prgms[currentPrgm].lines)
      /\ LastLine(currentPrgm) \in Nat \ {0}
  BY <1>2, WellEndedLines DEF LastLine
<1>4. pc \in 0 .. LastLine(currentPrgm) /\ pc \in Nat
  BY <1>1, <1>3
<1>5. InsertPos \in 1 .. LastLine(currentPrgm)
  BY <1>3, <1>4 DEF InsertPos, IsEnd
<1> QED
  BY <1>1, <1>2, <1>3, <1>4, <1>5

(* Steps that leave the programs and labels alone                          *)
LEMMA Moves ==
    ASSUME Inv, UNCHANGED <<prgms, labels>>,
           Returns(rtns', prgms), Spotted(prgms, currentPrgm', pc')
    PROVE  Inv'
BY DEF Inv

(* Steps after which there are no return addresses                         *)
LEMMA Edits ==
    ASSUME Good(prgms', labels'), rtns' = <<>>, Spotted(prgms', currentPrgm', pc')
    PROVE  Inv'
BY NoReturns DEF Inv

LEMMA InitInv == Init => Inv
<1> SUFFICES ASSUME Init
             PROVE  Inv
  OBVIOUS
<1>1. prgms = <<EmptyPrgm>> /\ labels = Rebuilt(prgms)
  BY DEF Init
<1>2. prgms = Append(<<>>, EmptyPrgm)
  BY <1>1
<1>3. Shaped(prgms) /\ TargetsOK(prgms) /\ Len(prgms) = 1 /\ prgms[1] = EmptyPrgm
  <2> DEFINE none == <<>>
  <2>1. none \in Seq(PrgmRec) /\ Len(none) = 0
    OBVIOUS
  <2>2. prgms = Append(none, EmptyPrgm)
    BY <1>2
  <2> HIDE DEF none
  <2>3. TargetsOK(none) /\ \A q \in 1 .. Len(none) : WellEnded(none[q].lines)
    BY <2>1 DEF TargetsOK
  <2>4. Shaped(prgms) /\ TargetsOK(prgms)
    BY <2>1, <2>2, <2>3, AppendedFacts
  <2> QED
    BY <1>1, <2>4
<1>4. Lists(labels, prgms)
  BY <1>1, <1>3, RebuiltLists DEF Shaped
<1>5. Spotted(prgms, currentPrgm, pc)
  BY <1>3, EmptyPrgmFacts DEF Init, Spotted
<1> QED
  BY <1>3, <1>4, <1>5, NoReturns DEF Init, Inv, Good

(* A line is stored.                                                       *)
LEMMA InsertIs ==
    ASSUME Inv, NEW c \in Commands, Insert(c), ~prgms[currentPrgm].locked
    PROVE  StoredInto(prgms, currentPrgm, prgms') /\ Good(prgms', labels')
<1> DEFINE p == currentPrgm
           s == Stored(prgms, labels, p, InsertPos, Line(c))
<1>1. prgms' = s.prgms /\ labels' = s.labels
  BY DEF Insert
<1>2. /\ Shaped(prgms) /\ TargetsOK(prgms) /\ Lists(labels, prgms) /\ p \in 1 .. Len(prgms)
      /\ InsertPos \in 1 .. Len(prgms[p].lines) /\ Len(prgms[p].lines) \in Nat
  BY InvFacts
<1>3. Line(c) \in Lines /\ Plain(Line(c))
  BY NewLine DEF Plain
<1>4. StoredInto(prgms, p, prgms') /\ Lists(labels', prgms')
  BY <1>1, <1>2, <1>3, StoredFacts
<1> HIDE DEF p, s
<1>5. Good(prgms', labels')
  BY <1>4 DEF StoredInto, Good
<1> QED
  BY <1>4, <1>5 DEF p

LEMMA InsertKeeps ==
    ASSUME Inv, NEW c \in Commands, Insert(c)
    PROVE  Inv'
<1>1. CASE prgms[currentPrgm].locked
  <2>1. /\ UNCHANGED <<prgms, labels, rtns, currentPrgm>>
        /\ pc' \in {pc, InsertPos}
    BY <1>1 DEF Insert
  <2>2. Spotted(prgms, currentPrgm', pc')
    BY <2>1, InvFacts DEF Spotted
  <2>3. Returns(rtns', prgms)
    BY <2>1 DEF Inv
  <2> QED
    BY <2>1, <2>2, <2>3, Moves
<1>2. CASE ~prgms[currentPrgm].locked
  <2> DEFINE p == currentPrgm
  <2>1. pc' = InsertPos /\ rtns' = <<>> /\ currentPrgm' = currentPrgm
    BY <1>2 DEF Insert
  <2>2. /\ p \in 1 .. Len(prgms)
        /\ InsertPos \in 1 .. Len(prgms[p].lines) /\ Len(prgms[p].lines) \in Nat
    BY InvFacts
  <2>3. StoredInto(prgms, p, prgms') /\ Good(prgms', labels')
    BY <1>2, InsertIs
  <2> HIDE DEF p
  <2>4. Spotted(prgms', currentPrgm', pc')
    BY <2>1, <2>2, <2>3 DEF StoredInto, Spotted, p
  <2> QED
    BY <2>1, <2>3, <2>4, Edits
<1> QED
  BY <1>1, <1>2

(* END is stored.                                                          *)
Second(lines, i, garbage) == [NewPrgm(SecondHalf(lines, i)) EXCEPT !.locked = garbage]

LEMMA SecondSound ==
    ASSUME NEW lines, WellEnded(lines), NEW i \in 1 .. Len(lines), NEW garbage \in BOOLEAN
    PROVE  Sound(Second(lines, i, garbage))
<1> DEFINE half == SecondHalf(lines, i)
<1>1. WellEnded(half) /\ half \in Seq(Lines)
  BY HalvesEnd, WellEndedLines
<1> HIDE DEF half
<1>2. NewPrgm(half) \in PrgmRec /\ NewPrgm(half).lines = half
  BY <1>1 DEF NewPrgm, PrgmRec
<1> DEFINE x == NewPrgm(half)
<1>3. x \in PrgmRec /\ x.lines = half
  BY <1>2
<1> HIDE DEF x
<1>4. [x EXCEPT !.locked = garbage] \in PrgmRec /\ [x EXCEPT !.locked = garbage].lines = half
  BY <1>3 DEF PrgmRec
<1> QED
  BY <1>1, <1>4 DEF Sound, Second, x, half

(* The two programs that are left                                          *)
SplitInto(ps, p, r) ==
    /\ Len(r) = Len(ps) + 1
    /\ \A q \in 1 .. Len(ps) : /\ q < p => r[q] = ps[q]
                               /\ q > p => r[q + 1] = ps[q]

LEMMA InsertEndIs ==
    ASSUME Inv, InsertEnd, ~prgms[currentPrgm].locked
    PROVE  /\ Good(prgms', labels') /\ SplitInto(prgms, currentPrgm, prgms')
           /\ currentPrgm' = currentPrgm + 1 /\ rtns' = <<>> /\ pc' = 1
<1> DEFINE p == currentPrgm
           first == FirstHalf(prgms[p].lines, InsertPos)
           t == Retexted(prgms, p, first)
           w == p + 1
           text(g) == InsertPrgm(t, w, Second(prgms[p].lines, InsertPos, g))
           r1(g) == Forced(text(g), w)
           r(g) == Forced(r1(g), p)
<1>1. /\ currentPrgm' = w /\ rtns' = <<>> /\ pc' = 1
      /\ \E g \in BOOLEAN : prgms' = r(g) /\ labels' = Rebuilt(text(g))
  BY DEF InsertEnd, Retexted, FirstHalf, Second, SecondHalf, Forced
<1>2. PICK g \in BOOLEAN : prgms' = r(g) /\ labels' = Rebuilt(text(g))
  BY <1>1
<1>3. /\ Shaped(prgms) /\ TargetsOK(prgms) /\ p \in 1 .. Len(prgms)
      /\ WellEnded(prgms[p].lines) /\ InsertPos \in 1 .. Len(prgms[p].lines)
  BY InvFacts
<1>4. WellEnded(first) /\ Sound(Second(prgms[p].lines, InsertPos, g))
  BY <1>3, HalvesEnd, SecondSound
<1> DEFINE second == Second(prgms[p].lines, InsertPos, g)
           textg == text(g)
           r1g == r1(g)
<1>5. /\ w = p + 1 /\ t = Retexted(prgms, p, first) /\ textg = InsertPrgm(t, w, second)
      /\ r1g = Forced(textg, w) /\ prgms' = Forced(r1g, p) /\ labels' = Rebuilt(textg)
  BY <1>2
<1>6. Sound(second)
  BY <1>4
<1> HIDE DEF first, t, w, second, textg, r1g, p, r, r1, text
<1>7. /\ Shaped(textg) /\ SameText(textg, prgms')
      /\ Shaped(prgms') /\ TargetsOK(prgms') /\ Len(prgms') = Len(prgms) + 1
      /\ \A q \in 1 .. Len(prgms) : /\ q < p => prgms'[q] = prgms[q]
                                    /\ q > p => prgms'[q + 1] = prgms[q]
  BY <1>3, <1>4, <1>5, <1>6, SplitFacts
<1>8. Lists(labels', prgms')
  <2>1. prgms' \in Seq(PrgmRec)
    BY <1>7, ShapedFacts
  <2> QED
    BY <1>5, <1>7, <2>1, RebuiltAfter
<1> QED
  BY <1>1, <1>5, <1>7, <1>8 DEF Good, SplitInto, p

LEMMA InsertEndKeeps ==
    ASSUME Inv, InsertEnd
    PROVE  Inv'
<1>1. CASE prgms[currentPrgm].locked
  <2>1. UNCHANGED <<prgms, labels, currentPrgm, rtns>> /\ pc' = 1
    BY <1>1 DEF InsertEnd
  <2>2. Spotted(prgms, currentPrgm', pc')
    BY <2>1, InvFacts DEF Spotted
  <2>3. Returns(rtns', prgms)
    BY <2>1 DEF Inv
  <2> QED
    BY <2>1, <2>2, <2>3, Moves
<1>2. CASE ~prgms[currentPrgm].locked
  <2>1. /\ Good(prgms', labels') /\ Len(prgms') = Len(prgms) + 1
        /\ currentPrgm' = currentPrgm + 1 /\ rtns' = <<>> /\ pc' = 1
    BY <1>2, InsertEndIs DEF SplitInto
  <2>2. currentPrgm' \in 1 .. Len(prgms')
    BY <2>1, InvFacts
  <2>3. Len(prgms'[currentPrgm'].lines) \in Nat \ {0}
    BY <2>1, <2>2, ShapedFacts, WellEndedLines DEF Good
  <2>4. Spotted(prgms', currentPrgm', pc')
    BY <2>1, <2>2, <2>3 DEF Spotted
  <2> QED
    BY <2>1, <2>4, Edits
<1> QED
  BY <1>1, <1>2

(* The line of the backspace key                                           *)
LEMMA DeleteEndIs ==
    ASSUME Inv, DeleteEnd, pc # 0, currentPrgm # Len(prgms)
    PROVE  /\ Good(prgms', labels') /\ Len(prgms') = Len(prgms) - 1
           /\ Len(prgms'[currentPrgm].lines) >= pc
           /\ \A q \in 1 .. Len(prgms) : /\ q < currentPrgm => prgms'[q] = prgms[q]
                                         /\ q > currentPrgm + 1 => prgms'[q - 1] = prgms[q]
<1> DEFINE p == currentPrgm
           w == p + 1
           joined == Joined(prgms[p].lines, pc, prgms[w].lines)
           t == Retexted(prgms, p, joined)
           text == CutPrgm(t, w)
<1>1. prgms' = Forced(text, p) /\ labels' = Rebuilt(text)
  BY DEF DeleteEnd, Retexted, Joined, Forced
<1>2. /\ Shaped(prgms) /\ TargetsOK(prgms) /\ p \in 1 .. Len(prgms)
      /\ WellEnded(prgms[p].lines) /\ pc \in 1 .. Len(prgms[p].lines)
      /\ Len(prgms) \in Nat /\ pc \in Nat
  BY InvFacts
<1>3. p + 1 <= Len(prgms) /\ w \in 1 .. Len(prgms)
  BY <1>2
<1>4. WellEnded(prgms[w].lines)
  BY <1>2, <1>3, ShapedFacts
<1>5. WellEnded(joined) /\ Len(joined) = pc - 1 + Len(prgms[w].lines)
  BY <1>2, <1>4, JoinedEnds
<1>6. w = p + 1 /\ t = Retexted(prgms, p, joined) /\ text = CutPrgm(t, w)
  OBVIOUS
<1>7. Len(joined) >= pc
  BY <1>2, <1>4, <1>5, WellEndedLines
<1> HIDE DEF joined, t, w, text, p
<1>8. /\ Shaped(text) /\ SameText(text, prgms')
      /\ Shaped(prgms') /\ TargetsOK(prgms') /\ Len(prgms') = Len(prgms) - 1
      /\ Len(prgms'[p].lines) = Len(joined)
      /\ \A q \in 1 .. Len(prgms) : /\ q < p => prgms'[q] = prgms[q]
                                    /\ q > w => prgms'[q - 1] = prgms[q]
  <2>1. Shaped(prgms) /\ TargetsOK(prgms)
    BY <1>2
  <2>2. p \in 1 .. Len(prgms)
    BY <1>2
  <2>3. w \in 1 .. Len(prgms) /\ w = p + 1
    BY <1>3, <1>6
  <2>4. WellEnded(joined)
    BY <1>5
  <2>5. t = Retexted(prgms, p, joined)
    BY <1>6
  <2>7. text = CutPrgm(t, w)
    BY <1>6
  <2>6. prgms' = Forced(text, p)
    BY <1>1
  <2> QED
    BY <2>1, <2>2, <2>3, <2>4, <2>5, <2>6, <2>7, JoinFacts
<1>9. Lists(labels', prgms')
  <2>1. prgms' \in Seq(PrgmRec)
    BY <1>8, ShapedFacts
  <2> QED
    BY <1>1, <1>8, <2>1, RebuiltAfter
<1> QED
  BY <1>6, <1>7, <1>8, <1>9 DEF Good, p

LEMMA DeleteOtherIs ==
    ASSUME Inv, DeleteOther, pc # 0, ~IsEnd(currentPrgm, pc)
    PROVE  /\ Good(prgms', labels') /\ Len(prgms') = Len(prgms)
           /\ Len(prgms'[currentPrgm].lines) = LastLine(currentPrgm) - 1
           /\ \A q \in 1 .. Len(prgms) : q # currentPrgm => prgms'[q] = prgms[q]
<1> DEFINE p == currentPrgm
           ln == prgms[p].lines[pc]
           new == CutLines(prgms[p].lines, pc, 1)
           t == Retexted(prgms, p, new)
<1>1. /\ prgms' = Invalidated(t, p, FALSE)
      /\ labels' = IF ln.op = "lbl" /\ ln.arg \in GlobalLabels
                     THEN Rebuilt(t) ELSE Updated(labels, p, pc, -1)
  BY DEF DeleteOther, Retexted
<1>2. /\ Shaped(prgms) /\ TargetsOK(prgms) /\ p \in 1 .. Len(prgms) /\ Lists(labels, prgms)
      /\ WellEnded(prgms[p].lines) /\ prgms \in Seq(PrgmRec)
  BY InvFacts
<1>3. /\ pc \in 1 .. Len(prgms[p].lines) /\ pc + 1 <= Len(prgms[p].lines)
      /\ LastLine(currentPrgm) = Len(prgms[p].lines)
  BY InvFacts DEF IsEnd
<1>4. new = CutLines(prgms[p].lines, pc, 1) /\ t = Retexted(prgms, p, new)
  OBVIOUS
<1>5. ln.op # "end"
  BY <1>2, <1>3, WellEndedLines
<1>12. ln = prgms[p].lines[pc]
  OBVIOUS
<1> HIDE DEF new, t, p, ln
<1>6. /\ Edited(prgms, p, new, prgms') /\ TargetsOK(prgms') /\ Shaped(t) /\ SameText(t, prgms')
      /\ Len(new) = Len(prgms[p].lines) - 1
      /\ Moved(prgms[p].lines, new, pc, 1, -1)
  BY <1>1, <1>2, <1>3, <1>4, CutFacts
<1>7. Lists(labels', prgms')
  <2>1. CASE ln.op = "lbl" /\ ln.arg \in GlobalLabels
    <3>1. labels' = Rebuilt(t) /\ prgms' \in Seq(PrgmRec)
      BY <1>1, <1>6, <2>1 DEF Edited, Shaped
    <3> QED
      BY <1>6, <3>1, RebuiltAfter
  <2>2. CASE ~(ln.op = "lbl" /\ ln.arg \in GlobalLabels)
    <3>1. ~IsLabel(prgms[p].lines[pc])
      BY <1>5, <1>12, <2>2 DEF IsLabel
    <3>2. labels' = Updated(labels, p, pc, -1)
      BY <1>1, <2>2
    <3> DEFINE one == 1
               by == -1
    <3>3. /\ one \in {0, 1} /\ Moved(prgms[p].lines, new, pc, one, by)
          /\ labels' = Updated(labels, p, pc, by)
          /\ (one = 1 => ~IsLabel(prgms[p].lines[pc]))
      BY <1>6, <3>1, <3>2
    <3> HIDE DEF one, by
    <3>4. Edited(prgms, p, new, prgms')
      BY <1>6
    <3> QED
      BY <1>2, <3>3, <3>4, ListsUpdated
  <2> QED
    BY <2>1, <2>2
<1>8. /\ Shaped(prgms') /\ Len(prgms') = Len(prgms)
      /\ Len(prgms'[p].lines) = Len(new)
      /\ \A q \in 1 .. Len(prgms) : q # p => prgms'[q] = prgms[q]
  BY <1>6 DEF Edited
<1> QED
  BY <1>3, <1>6, <1>7, <1>8 DEF Good, p

LEMMA DeleteLineKeeps ==
    ASSUME Inv, DeleteLine
    PROVE  Inv'
<1>1. /\ pc \in 1 .. LastLine(currentPrgm) /\ currentPrgm' = currentPrgm
      /\ currentPrgm \in 1 .. Len(prgms) /\ Len(prgms) \in Nat
      /\ LastLine(currentPrgm) = Len(prgms[currentPrgm].lines)
      /\ LastLine(currentPrgm) \in Nat /\ pc # 0
  BY InvFacts DEF DeleteLine
<1>2. CASE UNCHANGED <<prgms, labels, rtns>> /\ pc' \in {pc, pc - 1}
  <2>1. Spotted(prgms, currentPrgm', pc')
    BY <1>1, <1>2 DEF Spotted
  <2>2. Returns(rtns', prgms)
    BY <1>2 DEF Inv
  <2> QED
    BY <1>2, <2>1, <2>2, Moves
<1>3. CASE /\ IsEnd(currentPrgm, pc) /\ currentPrgm # Len(prgms)
           /\ DeleteEnd /\ pc' = pc - 1 /\ rtns' = <<>>
  <2>1. /\ Good(prgms', labels') /\ Len(prgms') = Len(prgms) - 1
        /\ Len(prgms'[currentPrgm].lines) >= pc
    BY <1>1, <1>3, DeleteEndIs
  <2>2. currentPrgm \in 1 .. Len(prgms')
    BY <1>1, <1>3, <2>1
  <2>3. Len(prgms'[currentPrgm].lines) \in Nat
    BY <2>1, <2>2, ShapedFacts, WellEndedLines DEF Good
  <2>4. Spotted(prgms', currentPrgm', pc')
    BY <1>1, <1>3, <2>1, <2>2, <2>3 DEF Spotted
  <2> QED
    BY <1>3, <2>1, <2>4, Edits
<1>4. CASE /\ ~IsEnd(currentPrgm, pc)
           /\ DeleteOther /\ pc' = pc - 1 /\ rtns' = <<>>
  <2>1. /\ Good(prgms', labels') /\ Len(prgms') = Len(prgms)
        /\ Len(prgms'[currentPrgm].lines) = LastLine(currentPrgm) - 1
    BY <1>1, <1>4, DeleteOtherIs
  <2>2. Spotted(prgms', currentPrgm', pc')
    BY <1>1, <1>4, <2>1 DEF Spotted, IsEnd
  <2> QED
    BY <1>4, <2>1, <2>2, Edits
<1> QED
  BY <1>2, <1>3, <1>4 DEF DeleteLine, Delete

(* DEL                                                                     *)
From == IF pc = 0 THEN 1 ELSE pc
Count(n) == IF From + n <= LastLine(currentPrgm) THEN n ELSE LastLine(currentPrgm) - From

LEMMA DelIs ==
    ASSUME Inv, NEW n \in Nat, LinesCleared(n)
    PROVE  /\ Good(prgms', labels') /\ Len(prgms') = Len(prgms)
           /\ pc' \in Nat /\ pc' <= Len(prgms'[currentPrgm].lines)
           /\ currentPrgm' = currentPrgm
           /\ \A q \in 1 .. Len(prgms) : q # currentPrgm => prgms'[q] = prgms[q]
<1> DEFINE p == currentPrgm
           from == From
           k == Count(n)
           I == Outside(labels, p, from, k)
           left == Kept(labels, I)
           new == CutLines(prgms[p].lines, from, k)
           t == Retexted(prgms, p, new)
<1>1. /\ Shaped(prgms) /\ TargetsOK(prgms) /\ p \in 1 .. Len(prgms) /\ Lists(labels, prgms)
      /\ WellEnded(prgms[p].lines) /\ prgms \in Seq(PrgmRec)
      /\ labels \in Seq(LabelRec) /\ DOMAIN labels = 1 .. Len(labels)
  BY InvFacts DEF Lists
<1>2. /\ LastLine(p) = Len(prgms[p].lines) /\ LastLine(p) \in Nat \ {0}
      /\ pc \in 0 .. LastLine(p)
  BY InvFacts
<1>3. from \in 1 .. LastLine(p) /\ k \in Nat /\ from + k <= LastLine(p) /\ from \in Nat
  <2> DEFINE last == LastLine(p)
  <2>1. last \in Nat \ {0} /\ pc \in 0 .. last
    BY <1>2
  <2>2. /\ from = (IF pc = 0 THEN 1 ELSE pc)
        /\ k = IF from + n <= last THEN n ELSE last - from
    BY DEF From, Count
  <2> HIDE DEF last, from, k
  <2>3. from \in 1 .. last /\ from \in Nat
    BY <2>1, <2>2
  <2>4. k \in Nat /\ from + k <= last
    BY <2>1, <2>2, <2>3
  <2> QED
    BY <2>3, <2>4 DEF last
<1>4. {m \in DOMAIN labels : ~(labels[m].prgm = p /\ from <= labels[m].pc
                                  /\ labels[m].pc < from + k)} = I
  BY <1>1 DEF Outside
<1>5. /\ prgms' = Invalidated(t, p, FALSE)
      /\ labels' = [m \in DOMAIN left |->
                      IF left[m].prgm = p /\ left[m].pc >= from + k
                        THEN [left[m] EXCEPT !.pc = @ - k] ELSE left[m]]
      /\ pc' = from /\ currentPrgm' = currentPrgm
  BY <1>4 DEF LinesCleared, Retexted, From, Count
<1>6. I \subseteq 1 .. Len(labels)
  BY DEF Outside
<1>7. new = CutLines(prgms[p].lines, from, k) /\ t = Retexted(prgms, p, new)
      /\ left = Kept(labels, I) /\ I = Outside(labels, p, from, k)
  OBVIOUS
<1> HIDE DEF p, from, k, I, left, new, t
<1>8. from \in 1 .. Len(prgms[p].lines) /\ from + k <= Len(prgms[p].lines)
  BY <1>2, <1>3
<1>9. /\ Edited(prgms, p, new, prgms') /\ TargetsOK(prgms')
      /\ Len(new) = Len(prgms[p].lines) - k
      /\ Moved(prgms[p].lines, new, from, k, -k)
  <2>1. Shaped(prgms) /\ TargetsOK(prgms)
    BY <1>1
  <2>2. p \in 1 .. Len(prgms)
    BY <1>1
  <2>3. k \in Nat
    BY <1>3
  <2>4. new = CutLines(prgms[p].lines, from, k)
    BY <1>7
  <2>5. t = Retexted(prgms, p, new)
    BY <1>7
  <2>6. prgms' = Invalidated(t, p, FALSE)
    BY <1>5
  <2>7. from \in 1 .. Len(prgms[p].lines)
    BY <1>8
  <2>8. from + k <= Len(prgms[p].lines)
    BY <1>8
  <2> QED
    BY <2>1, <2>2, <2>3, <2>4, <2>5, <2>6, <2>7, <2>8, CutFacts
<1>10. left \in Seq(LabelRec) /\ Len(left) \in Nat /\ \E src : Selects(src, left, labels, I)
  BY <1>1, <1>6, <1>7, SelectsFacts
<1> DEFINE by == -k
<1>11. labels' = Shifted(left, p, from + k, by)
  <2>1. \A m \in 1 .. Len(left) : left[m].pc \in Nat
    BY <1>10, LabelRecs
  <2>2. \A m \in 1 .. Len(left) : [left[m] EXCEPT !.pc = @ - k] = [left[m] EXCEPT !.pc = @ + by]
    <3>1. \A m \in 1 .. Len(left) : left[m].pc - k = left[m].pc + by
      BY <1>3, <2>1
    <3> QED
      BY <3>1
  <2>3. DOMAIN left = 1 .. Len(left)
    BY <1>10
  <2> QED
    BY <1>5, <2>2, <2>3 DEF Shifted
<1>12. Moved(prgms[p].lines, new, from, k, by)
  BY <1>9
<1> HIDE DEF by
<1>13. Lists(labels', prgms')
  <2>1. PICK src : Selects(src, left, labels, Outside(labels, p, from, k))
    BY <1>7, <1>10
  <2>2. left \in Seq(LabelRec)
    BY <1>10
  <2>3. Edited(prgms, p, new, prgms')
    BY <1>9
  <2>4. prgms \in Seq(PrgmRec)
    BY <1>1
  <2>5. Lists(labels, prgms)
    BY <1>1
  <2>6. p \in 1 .. Len(prgms)
    BY <1>1
  <2> QED
    BY <1>11, <1>12, <2>1, <2>2, <2>3, <2>4, <2>5, <2>6, ListsEdited
<1>14. /\ Shaped(prgms') /\ Len(prgms') = Len(prgms)
       /\ Len(prgms'[p].lines) = Len(new)
       /\ \A q \in 1 .. Len(prgms) : q # p => prgms'[q] = prgms[q]
  BY <1>9 DEF Edited
<1>15. from <= Len(prgms'[p].lines)
  BY <1>2, <1>3, <1>9, <1>14
<1> QED
  BY <1>3, <1>5, <1>9, <1>13, <1>14, <1>15 DEF Good, p

LEMMA DelKeeps ==
    ASSUME Inv, NEW n \in 0 .. MaxLines, Del(n)
    PROVE  Inv'
<1>1. /\ Good(prgms', labels') /\ Len(prgms') = Len(prgms)
      /\ pc' \in Nat /\ pc' <= Len(prgms'[currentPrgm].lines)
      /\ currentPrgm' = currentPrgm /\ rtns' = <<>>
  <2>1. n \in Nat /\ LinesCleared(n) /\ rtns' = <<>>
    BY BoundAssumption DEF Del
  <2> QED
    BY <2>1, DelIs
<1>2. Spotted(prgms', currentPrgm', pc')
  <2>1. currentPrgm \in 1 .. Len(prgms')
    BY <1>1, InvFacts
  <2>2. Len(prgms'[currentPrgm].lines) \in Nat
    BY <1>1, <2>1, ShapedFacts, WellEndedLines DEF Good
  <2> QED
    BY <1>1, <2>1, <2>2 DEF Spotted
<1> QED
  BY <1>1, <1>2, Edits

(* CLP                                                                     *)
LEMMA ClpKeeps ==
    ASSUME Inv, ~CutsPastEmpty, NEW p \in 1 .. Len(prgms), Clp(p)
    PROVE  Inv'
<1> DEFINE c == currentPrgm
<1>1. /\ prgms \in Seq(PrgmRec) /\ Len(prgms) \in Nat \ {0} /\ DOMAIN prgms = 1 .. Len(prgms)
      /\ c \in 1 .. Len(prgms) /\ pc \in 0 .. Len(prgms[c].lines)
      /\ Good(prgms, labels)
  BY InvFacts DEF Inv
<1>2. /\ ~(p = c /\ LeavesEmptyLast(p))
      /\ prgms' = Cleared(p).prgms /\ labels' = Cleared(p).labels
      /\ pc' = (IF p = c THEN 0 ELSE pc)
      /\ currentPrgm' = (IF c > p THEN c - 1 ELSE c)
      /\ rtns' = <<>>
  BY DEF Clp, IndexAfterClp
<1>3. p \in 1 .. Len(prgms)
  OBVIOUS
<1>4. /\ Good(prgms', labels')
      /\ Len(prgms') = IF NeedsNew(p) THEN Len(prgms) ELSE Len(prgms) - 1
      /\ \A q \in 1 .. Len(prgms) : /\ q < p => prgms'[q] = prgms[q]
                                    /\ q > p => prgms'[q - 1] = prgms[q]
  BY <1>1, <1>2, <1>3, ClearedFacts
<1>7. Len(prgms') = Len(prgms) \/ Len(prgms') = Len(prgms) - 1
  BY <1>4
<1>5. ~NeedsNew(p) /\ p = Len(prgms) => LeavesEmptyLast(p)
  <2> SUFFICES ASSUME ~NeedsNew(p), p = Len(prgms)
               PROVE  LeavesEmptyLast(p)
    OBVIOUS
  <2> DEFINE cut == CutPrgm(prgms, p)
  <2>1. cut # <<>> /\ ~(Len(cut[Len(cut)].lines) > 1)
    BY DEF NeedsNew
  <2>2. /\ cut \in Seq(PrgmRec) /\ Len(cut) = Len(prgms) - 1
        /\ \A q \in 1 .. Len(prgms) - 1 : cut[q] = IF q < p THEN prgms[q] ELSE prgms[q + 1]
    BY <1>1, <1>3, CutPrgmFacts
  <2> HIDE DEF cut
  <2>3. Len(cut) # 0
    BY <2>1, <2>2
  <2>4. p > 1 /\ p - 1 \in 1 .. Len(prgms) /\ cut[Len(cut)] = prgms[p - 1]
    BY <1>1, <2>2, <2>3
  <2>5. Len(prgms[p - 1].lines) \in Nat \ {0}
    BY <1>1, <2>4, ShapedFacts, WellEndedLines DEF Good
  <2>6. Len(prgms[p - 1].lines) = 1
    <3>1. ~(Len(prgms[p - 1].lines) > 1)
      BY <2>1, <2>4
    <3> DEFINE last == Len(prgms[p - 1].lines)
    <3>2. last \in Nat \ {0} /\ ~(last > 1)
      BY <2>5, <3>1
    <3> HIDE DEF last
    <3>3. last = 1
      BY <3>2
    <3> QED
      BY <3>3 DEF last
  <2> QED
    BY <2>4, <2>6 DEF LeavesEmptyLast, IsEmptyPrgm, LastLine
<1>8. /\ Len(prgms') = Len(prgms) \/ c # Len(prgms) => c \in 1 .. Len(prgms')
      /\ c < p => c \in 1 .. Len(prgms')
      /\ c > p => c - 1 \in 1 .. Len(prgms')
      /\ p = c \/ c < p \/ c > p
      /\ ~(c < p /\ c > p) /\ ~(p = c /\ c > p)
  <2> DEFINE N == Len(prgms)
             N2 == Len(prgms')
  <2>1. N \in Nat \ {0} /\ c \in 1 .. N /\ p \in 1 .. N /\ (N2 = N \/ N2 = N - 1)
    BY <1>1, <1>7
  <2> HIDE DEF N, N2, c
  <2>2. /\ N2 = N \/ c # N => c \in 1 .. N2
        /\ c < p => c \in 1 .. N2
        /\ c > p => c - 1 \in 1 .. N2
        /\ p = c \/ c < p \/ c > p
        /\ ~(c < p /\ c > p) /\ ~(p = c /\ c > p)
    BY <2>1
  <2> QED
    BY <2>2 DEF N, N2
<1>6. Spotted(prgms', currentPrgm', pc')
  <2>1. CASE p = c
    <3>1. currentPrgm' = c /\ pc' = 0
      BY <1>2, <1>8, <2>1
    <3>2. c \in 1 .. Len(prgms')
      BY <1>2, <1>4, <1>5, <1>8, <2>1
    <3>3. Len(prgms'[c].lines) \in Nat
      BY <1>4, <3>2, ShapedFacts, WellEndedLines DEF Good
    <3> QED
      BY <3>1, <3>2, <3>3 DEF Spotted
  <2>2. CASE c < p
    <3>1. currentPrgm' = c /\ pc' = pc /\ prgms'[c] = prgms[c]
      BY <1>1, <1>2, <1>4, <1>8, <2>2
    <3>2. c \in 1 .. Len(prgms')
      BY <1>8, <2>2
    <3> QED
      BY <1>1, <3>1, <3>2 DEF Spotted
  <2>3. CASE c > p
    <3>1. currentPrgm' = c - 1 /\ pc' = pc /\ prgms'[c - 1] = prgms[c]
      BY <1>1, <1>2, <1>4, <1>8, <2>3
    <3>2. c - 1 \in 1 .. Len(prgms')
      BY <1>8, <2>3
    <3> QED
      BY <1>1, <3>1, <3>2 DEF Spotted
  <2> QED
    BY <1>8, <2>1, <2>2, <2>3
<1> QED
  BY <1>2, <1>4, <1>6, Edits

(* CLALL and GTO ..                                                        *)
LEMMA ClearAllKeeps ==
    ASSUME ClearAll
    PROVE  Inv'
<1>1. prgms' = <<EmptyPrgm>> /\ labels' = Rebuilt(prgms')
  BY DEF ClearAll
<1> DEFINE none == <<>>
<1>2. none \in Seq(PrgmRec) /\ Len(none) = 0
  OBVIOUS
<1>3. prgms' = Append(none, EmptyPrgm)
  BY <1>1
<1> HIDE DEF none
<1>4. TargetsOK(none) /\ \A q \in 1 .. Len(none) : WellEnded(none[q].lines)
  BY <1>2 DEF TargetsOK
<1>5. Shaped(prgms') /\ TargetsOK(prgms')
  BY <1>2, <1>3, <1>4, AppendedFacts
<1>6. Lists(labels', prgms')
  BY <1>1, <1>5, RebuiltLists DEF Shaped
<1>7. Len(prgms') = 1 /\ prgms'[1] = EmptyPrgm
  BY <1>1
<1>8. Spotted(prgms', currentPrgm', pc')
  BY <1>7, EmptyPrgmFacts DEF ClearAll, Spotted
<1> QED
  BY <1>5, <1>6, <1>8, Edits DEF ClearAll, Good

LEMMA WithNewPrgmFacts ==
    ASSUME Inv, NEW r, r = WithNewPrgm
    PROVE  /\ Shaped(r) /\ TargetsOK(r) /\ Len(r) = Len(prgms) + 1
           /\ r[Len(r)] = EmptyPrgm
<1>1. /\ prgms \in Seq(PrgmRec) /\ TargetsOK(prgms)
      /\ \A q \in 1 .. Len(prgms) : WellEnded(prgms[q].lines)
  BY InvFacts, ShapedFacts
<1>2. r = Append(prgms, EmptyPrgm)
  BY DEF WithNewPrgm
<1> QED
  BY <1>1, <1>2, AppendedFacts

LEMMA GtoDotDotKeeps ==
    ASSUME Inv, GtoDotDot
    PROVE  Inv'
<1>1. CASE IsEmptyPrgm(Len(prgms))
  <2>1. currentPrgm' = Len(prgms) /\ pc' = 0 /\ UNCHANGED <<prgms, labels, rtns>>
    BY <1>1 DEF GtoDotDot
  <2>2. Len(prgms) \in 1 .. Len(prgms)
    BY InvFacts
  <2>3. Len(prgms[Len(prgms)].lines) \in Nat
    BY <2>2, InvFacts, ShapedFacts, WellEndedLines
  <2>4. Spotted(prgms, currentPrgm', pc')
    BY <2>1, <2>2, <2>3 DEF Spotted
  <2>5. Returns(rtns', prgms)
    BY <2>1 DEF Inv
  <2> QED
    BY <2>1, <2>4, <2>5, Moves
<1>2. CASE ~IsEmptyPrgm(Len(prgms))
  <2>1. /\ prgms' = WithNewPrgm /\ labels' = Rebuilt(prgms') /\ currentPrgm' = Len(prgms) + 1
        /\ rtns' = <<>> /\ pc' = 0
    BY <1>2 DEF GtoDotDot
  <2>2. /\ Shaped(prgms') /\ TargetsOK(prgms') /\ Len(prgms') = Len(prgms) + 1
    BY <2>1, WithNewPrgmFacts
  <2>3. Lists(labels', prgms')
    BY <2>1, <2>2, RebuiltLists DEF Shaped
  <2>4. currentPrgm' \in 1 .. Len(prgms')
    BY <2>1, <2>2, InvFacts
  <2>5. Len(prgms'[currentPrgm'].lines) \in Nat
    BY <2>2, <2>4, ShapedFacts, WellEndedLines
  <2>6. Spotted(prgms', currentPrgm', pc')
    BY <2>1, <2>4, <2>5 DEF Spotted
  <2> QED
    BY <2>1, <2>2, <2>3, <2>6, Edits DEF Good
<1> QED
  BY <1>1, <1>2

(* Programs of which only one is different                                 *)
OneNew(ps, p, new, r) ==
    r = [q \in 1 .. Len(ps) |-> IF q = p THEN new ELSE ps[q]]

LEMMA OneNewFacts ==
    ASSUME NEW ps, Shaped(ps), TargetsOK(ps), NEW p \in 1 .. Len(ps), NEW new,
           new \in PrgmRec /\ Consistent(new),
           Len(new.lines) = Len(ps[p].lines),
           \A i \in 1 .. Len(ps[p].lines) : SameLine(ps[p].lines[i], new.lines[i]),
           NEW r, OneNew(ps, p, new, r)
    PROVE  Shaped(r) /\ TargetsOK(r) /\ SameText(ps, r)
<1>1. ps \in Seq(PrgmRec) /\ Len(ps) \in Nat
  BY ShapedFacts
<1>2. r = [q \in 1 .. Len(ps) |-> IF q = p THEN new ELSE ps[q]]
  BY DEF OneNew
<1>3. r \in [1 .. Len(ps) -> PrgmRec]
  BY <1>1, <1>2
<1>4. r \in Seq(PrgmRec) /\ Len(r) = Len(ps)
  BY <1>1, <1>3, AsSeq
<1>5. r[p] = new /\ \A q \in 1 .. Len(ps) : q # p => r[q] = ps[q]
  BY <1>2
<1>6. SameText(ps, r)
  BY <1>4, <1>5 DEF SameText, SameLine
<1>7. TargetsOK(r)
  BY <1>4, <1>5 DEF TargetsOK
<1>8. Shaped(r)
  BY <1>4, <1>6, SameTextShaped
<1> QED
  BY <1>6, <1>7, <1>8

LEMMA SameTextKeeps ==
    ASSUME Inv, Shaped(prgms'), TargetsOK(prgms'), SameText(prgms, prgms')
    PROVE  /\ labels' = labels => Good(prgms', labels')
           /\ rtns' = rtns => Returns(rtns', prgms')
           /\ UNCHANGED <<currentPrgm, pc>> => Spotted(prgms', currentPrgm', pc')
<1>1. Shaped(prgms) /\ Lists(labels, prgms) /\ Returns(rtns, prgms)
  BY InvFacts DEF Inv
<1>2. prgms \in Seq(PrgmRec) /\ prgms' \in Seq(PrgmRec)
  BY <1>1, ShapedFacts
<1>3. Lists(labels, prgms')
  BY <1>1, <1>2, SameTextLists
<1>4. Returns(rtns, prgms')
  BY <1>1, ReturnsSame
<1>5. Spotted(prgms', currentPrgm, pc)
  BY DEF Inv, Spotted, SameText
<1> QED
  BY <1>3, <1>4, <1>5 DEF Good

LEMMA LockKeeps ==
    ASSUME Inv, NEW b \in BOOLEAN, Lock(b)
    PROVE  Inv'
<1> DEFINE p == currentPrgm
           new == [prgms[p] EXCEPT !.locked = b]
<1>1. /\ Shaped(prgms) /\ TargetsOK(prgms) /\ p \in 1 .. Len(prgms)
      /\ prgms \in Seq(PrgmRec) /\ DOMAIN prgms = 1 .. Len(prgms) /\ prgms[p] \in PrgmRec
  BY InvFacts
<1>2. OneNew(prgms, p, new, prgms')
  BY <1>1 DEF Lock, OneNew
<1>3. new \in PrgmRec /\ new.lines = prgms[p].lines /\ new.invalid = prgms[p].invalid
  BY <1>1 DEF PrgmRec
<1> HIDE DEF new
<1>4. Consistent(new)
  BY <1>1, <1>3 DEF Consistent, TargetsOK
<1>5. /\ Len(new.lines) = Len(prgms[p].lines)
      /\ \A i \in 1 .. Len(prgms[p].lines) : SameLine(prgms[p].lines[i], new.lines[i])
  BY <1>3 DEF SameLine
<1>6. Shaped(prgms') /\ TargetsOK(prgms') /\ SameText(prgms, prgms')
  BY <1>1, <1>2, <1>3, <1>4, <1>5, OneNewFacts
<1> QED
  BY <1>6, SameTextKeeps DEF Lock, Inv

(* A program is imported.                                                  *)
LEMMA ImportKeeps ==
    ASSUME Inv, NEW c \in Commands, NEW prgmMode \in BOOLEAN, Import(c, prgmMode)
    PROVE  Inv'
<1> DEFINE reuse == IsEmptyPrgm(Len(prgms))
           base == IF reuse THEN prgms ELSE WithNewPrgm
           p == Len(base)
           s == Stored(base, labels, p, 1, Line(c))
<1>1. /\ currentPrgm' = p /\ pc' = 1
      /\ \/ base[p].locked /\ UNCHANGED <<prgms, labels, rtns>>
         \/ prgms' = s.prgms /\ labels' = Rebuilt(prgms') /\ rtns' = <<>>
  BY DEF Import
<1>2. /\ Shaped(base) /\ TargetsOK(base)
      /\ ~reuse => ~base[p].locked
  <2>1. CASE reuse
    BY <2>1, InvFacts
  <2>2. CASE ~reuse
    <3>1. base = WithNewPrgm
      BY <2>2
    <3>2. Shaped(base) /\ TargetsOK(base) /\ base[Len(base)] = EmptyPrgm
      BY <3>1, WithNewPrgmFacts
    <3>3. ~EmptyPrgm.locked
      BY DEF EmptyPrgm, NewPrgm
    <3> QED
      BY <3>2, <3>3
  <2> QED
    BY <2>1, <2>2
<1>3. p \in 1 .. Len(base)
  BY <1>2, ShapedFacts
<1>4. WellEnded(base[p].lines)
  BY <1>2, <1>3, ShapedFacts
<1>5. 1 \in 1 .. Len(base[p].lines) /\ Len(base[p].lines) \in Nat
  BY <1>4, WellEndedLines
<1>6. reuse => base = prgms
  OBVIOUS
<1>7. p = Len(base)
  OBVIOUS
<1> HIDE DEF reuse, base, p
<1>8. CASE base[p].locked /\ UNCHANGED <<prgms, labels, rtns>>
  <2>1. base = prgms
    BY <1>2, <1>6, <1>8
  <2>2. Spotted(prgms, currentPrgm', pc')
    BY <1>1, <1>3, <1>5, <2>1 DEF Spotted
  <2>3. Returns(rtns', prgms)
    BY <1>8 DEF Inv
  <2> QED
    BY <1>8, <2>2, <2>3, Moves
<1>9. CASE prgms' = s.prgms /\ labels' = Rebuilt(prgms') /\ rtns' = <<>>
  <2>1. Line(c) \in Lines /\ Plain(Line(c))
    BY NewLine DEF Plain
  <2>2. StoredInto(base, p, prgms')
    <3> DEFINE i == 1
    <3>1. i \in 1 .. Len(base[p].lines) /\ prgms' = Stored(base, labels, p, i, Line(c)).prgms
      BY <1>5, <1>9
    <3> HIDE DEF i
    <3> QED
      BY <1>2, <1>3, <2>1, <3>1, StoredFacts
  <2>3. /\ Shaped(prgms') /\ TargetsOK(prgms') /\ Len(prgms') = Len(base)
        /\ Len(prgms'[p].lines) = Len(base[p].lines) + 1
    BY <2>2 DEF StoredInto
  <2>4. Lists(labels', prgms')
    BY <1>9, <2>3, RebuiltLists DEF Shaped
  <2>5. Spotted(prgms', currentPrgm', pc')
    BY <1>1, <1>3, <1>5, <2>3 DEF Spotted
  <2> QED
    BY <1>9, <2>3, <2>4, <2>5, Edits DEF Good
<1> QED
  BY <1>1, <1>8, <1>9 DEF base, p

-----------------------------------------------------------------------------
(* Steps that go to a line                                                 *)
LEMMA GtoLineKeeps ==
    ASSUME Inv, NEW n \in 0 .. MaxLines, GtoLine(n)
    PROVE  Inv'
<1> DEFINE last == LastLine(currentPrgm)
<1>1. /\ last \in Nat /\ last = Len(prgms[currentPrgm].lines)
      /\ currentPrgm \in 1 .. Len(prgms) /\ n \in Nat
  BY InvFacts, BoundAssumption
<1>2. /\ pc' = IF n <= last THEN n ELSE last
      /\ rtns' = <<>> /\ UNCHANGED <<prgms, labels, currentPrgm>>
  BY DEF GtoLine
<1> HIDE DEF last
<1>3. pc' \in 0 .. last
  BY <1>1, <1>2
<1> QED
  BY <1>1, <1>2, <1>3, Edits DEF Spotted, Inv

LEMMA GlobalPlace ==
    ASSUME Inv, NEW a, NEW n \in FindGlobal(a)
    PROVE  Spotted(prgms, labels[n].prgm, labels[n].pc)
<1>1. Lists(labels, prgms) /\ prgms \in Seq(PrgmRec)
  BY InvFacts
<1>2. n \in 1 .. Len(labels)
  BY <1>1 DEF Lists, FindGlobal
<1>3. <<labels[n].prgm, labels[n].pc>> \in Labelled(prgms)
  BY <1>1, <1>2 DEF Lists, Spot
<1> DEFINE p == labels[n].prgm
           i == labels[n].pc
<1>4. <<p, i>> \in Labelled(prgms)
  BY <1>3
<1> HIDE DEF p, i
<1>5. p \in 1 .. Len(prgms) /\ i \in 1 .. Len(prgms[p].lines)
  BY <1>1, <1>4, LabelledFacts
<1>6. Len(prgms[p].lines) \in Nat
  BY <1>1, <1>5, PrgmRecs
<1>7. Spotted(prgms, p, i)
  BY <1>5, <1>6 DEF Spotted
<1> QED
  BY <1>7 DEF p, i

LEMMA LocalPlace ==
    ASSUME Inv, NEW start, NEW a, NEW t, t = FindLocal(prgms[currentPrgm].lines, start, a)
    PROVE  t = NotFound \/ (Spotted(prgms, currentPrgm, t) /\ t \in 1 .. LastLine(currentPrgm) - 1)
<1>1. /\ WellEnded(prgms[currentPrgm].lines) /\ currentPrgm \in 1 .. Len(prgms)
      /\ LastLine(currentPrgm) = Len(prgms[currentPrgm].lines)
      /\ LastLine(currentPrgm) \in Nat
  BY InvFacts
<1>2. prgms[currentPrgm].lines \in Seq(Lines)
  BY <1>1, WellEndedLines
<1>3. t \in 1 .. LastLine(currentPrgm) - 1 \/ t = NotFound
  BY <1>1, <1>2, FindLocalFacts
<1> QED
  BY <1>1, <1>3 DEF Spotted

LEMMA GtoKeyKeeps ==
    ASSUME Inv, NEW a, GtoKey(a)
    PROVE  Inv'
<1> DEFINE t == FindLocal(prgms[currentPrgm].lines, pc, a)
<1>1. rtns' = <<>> /\ UNCHANGED <<prgms, labels>>
  BY DEF GtoKey
<1>2. Spotted(prgms, currentPrgm, pc)
  BY DEF Inv
<1>3. Spotted(prgms, currentPrgm', pc')
  <2>1. CASE a \in LocalLabels
    <3>1. currentPrgm' = currentPrgm /\ pc' = IF t = NotFound THEN pc ELSE t
      BY <2>1 DEF GtoKey
    <3>2. t = NotFound \/ Spotted(prgms, currentPrgm, t)
      BY LocalPlace
    <3> HIDE DEF t
    <3> QED
      BY <1>2, <3>1, <3>2
  <2>2. CASE a \notin LocalLabels /\ FindGlobal(a) = {}
    BY <1>2, <2>2 DEF GtoKey
  <2>3. CASE a \notin LocalLabels /\ FindGlobal(a) # {}
    <3>1. PICK n \in FindGlobal(a) : currentPrgm' = labels[n].prgm /\ pc' = labels[n].pc
      BY <2>3 DEF GtoKey
    <3> QED
      BY <3>1, GlobalPlace
  <2> QED
    BY <2>1, <2>2, <2>3
<1>4. Good(prgms', labels')
  BY <1>1 DEF Inv
<1> QED
  BY <1>1, <1>3, <1>4, Edits

LEMMA StepKeyKeeps ==
    ASSUME Inv, SstKey \/ BstKey
    PROVE  Inv'
<1> DEFINE last == LastLine(currentPrgm)
<1>1. /\ last \in Nat /\ last = Len(prgms[currentPrgm].lines) /\ pc \in 0 .. last
      /\ currentPrgm \in 1 .. Len(prgms)
  BY InvFacts
<1>2. /\ UNCHANGED <<prgms, labels, currentPrgm, rtns>>
      /\ pc' = (IF pc >= last THEN 0 ELSE pc + 1) \/ pc' = (IF pc = 0 THEN last ELSE pc - 1)
  BY DEF SstKey, BstKey
<1> HIDE DEF last
<1>3. pc' \in 0 .. last
  BY <1>1, <1>2
<1>4. Spotted(prgms, currentPrgm', pc')
  BY <1>1, <1>2, <1>3 DEF Spotted
<1>5. Returns(rtns', prgms)
  BY <1>2 DEF Inv
<1> QED
  BY <1>2, <1>4, <1>5, Moves

-----------------------------------------------------------------------------
(* Steps of a program                                                      *)
LEMMA CurrentFacts ==
    ASSUME Inv
    PROVE  /\ At \in 1 .. LastLine(currentPrgm) /\ At \in Nat
           /\ Current = prgms[currentPrgm].lines[At] /\ Current \in Lines
           /\ Current.op # "end" => At + 1 <= LastLine(currentPrgm)
<1>1. /\ LastLine(currentPrgm) \in Nat \ {0} /\ pc \in 0 .. LastLine(currentPrgm)
      /\ LastLine(currentPrgm) = Len(prgms[currentPrgm].lines)
      /\ WellEnded(prgms[currentPrgm].lines)
  BY InvFacts
<1>2. At \in 1 .. LastLine(currentPrgm) /\ At \in Nat
  BY <1>1 DEF At
<1>3. At \in 1 .. Len(prgms[currentPrgm].lines)
  BY <1>1, <1>2
<1>4. Current = prgms[currentPrgm].lines[At]
  BY DEF Current
<1>5. Current \in Lines /\ (Current.op = "end" <=> At = LastLine(currentPrgm))
  BY <1>1, <1>3, <1>4, WellEndedLines
<1> QED
  BY <1>1, <1>2, <1>4, <1>5

LEMMA ExecLblKeeps ==
    ASSUME Inv, ExecLbl
    PROVE  Inv'
<1>1. pc' = At + 1 /\ UNCHANGED <<prgms, labels, currentPrgm, rtns>> /\ Current.op # "end"
  BY DEF ExecLbl
<1>2. /\ currentPrgm \in 1 .. Len(prgms) /\ LastLine(currentPrgm) \in Nat
      /\ LastLine(currentPrgm) = Len(prgms[currentPrgm].lines)
  BY InvFacts
<1>3. pc' \in 0 .. LastLine(currentPrgm)
  BY <1>1, <1>2, CurrentFacts
<1>4. Spotted(prgms, currentPrgm', pc')
  BY <1>1, <1>2, <1>3 DEF Spotted
<1>5. Returns(rtns', prgms)
  BY <1>1 DEF Inv
<1> QED
  BY <1>1, <1>4, <1>5, Moves

(* push_rtn_addr()                                                         *)
LEMMA ReturnHereFacts ==
    ASSUME Inv, Callable, Current.op = "xeq"
    PROVE  Returns(ReturnHere, prgms)
<1> DEFINE top == [prgm |-> currentPrgm, pc |-> At + 1]
<1>1. /\ currentPrgm \in 1 .. Len(prgms) /\ currentPrgm \in Nat
      /\ LastLine(currentPrgm) = Len(prgms[currentPrgm].lines)
      /\ LastLine(currentPrgm) \in Nat
  BY InvFacts
<1>2. At + 1 \in 2 .. Len(prgms[currentPrgm].lines) /\ At + 1 - 1 = At
  BY <1>1, CurrentFacts
<1>3. prgms[currentPrgm].lines[At].op = "xeq"
  BY CurrentFacts
<1>4. top \in RtnRec /\ top.prgm = currentPrgm /\ top.pc = At + 1
  BY <1>1, <1>2, CurrentFacts DEF RtnRec
<1>5. /\ top.prgm \in 1 .. Len(prgms) /\ top.pc \in 2 .. Len(prgms[top.prgm].lines)
      /\ prgms[top.prgm].lines[top.pc - 1].op = "xeq"
  <2> HIDE DEF top
  <2>1. top.prgm \in 1 .. Len(prgms) /\ top.pc \in 2 .. Len(prgms[top.prgm].lines)
    BY <1>1, <1>2, <1>4
  <2>4. \A a, v \in Nat : v = a + 1 => v - 1 = a
    OBVIOUS
  <2>6. At \in Nat /\ top.pc \in Nat
    BY <1>4, CurrentFacts DEF RtnRec
  <2>5. top.pc = At + 1
    BY <1>4
  <2>2. top.pc - 1 = At
    BY <2>4, <2>5, <2>6, Zenon
  <2>3. prgms[top.prgm].lines[top.pc - 1].op = "xeq"
    BY <1>3, <1>4, <2>2, Zenon
  <2> QED
    BY <2>1, <2>3
<1>6. /\ rtns \in Seq(RtnRec) /\ Len(rtns) < MaxReturns /\ MaxReturns \in Nat
      /\ \A k \in 1 .. Len(rtns) :
            /\ rtns[k].prgm \in 1 .. Len(prgms)
            /\ rtns[k].pc \in 2 .. Len(prgms[rtns[k].prgm].lines)
            /\ prgms[rtns[k].prgm].lines[rtns[k].pc - 1].op = "xeq"
  BY BoundAssumption DEF Inv, Returns, Callable
<1>7. ReturnHere = Append(rtns, top)
  BY DEF ReturnHere
<1> HIDE DEF top
<1>8. /\ ReturnHere \in Seq(RtnRec) /\ Len(ReturnHere) = Len(rtns) + 1
      /\ ReturnHere[Len(rtns) + 1] = top
      /\ \A k \in 1 .. Len(rtns) : ReturnHere[k] = rtns[k]
  BY <1>4, <1>6, <1>7
<1>9. Len(ReturnHere) <= MaxReturns
  BY <1>6, <1>8
<1>10. ASSUME NEW k \in 1 .. Len(ReturnHere)
       PROVE  /\ ReturnHere[k].prgm \in 1 .. Len(prgms)
              /\ ReturnHere[k].pc \in 2 .. Len(prgms[ReturnHere[k].prgm].lines)
              /\ prgms[ReturnHere[k].prgm].lines[ReturnHere[k].pc - 1].op = "xeq"
  <2>1. CASE k \in 1 .. Len(rtns)
    <3>1. ReturnHere[k] = rtns[k]
      BY <1>8, <2>1
    <3> QED
      BY <1>6, <2>1, <3>1, Zenon
  <2>2. CASE k = Len(rtns) + 1
    <3>1. ReturnHere[k] = top
      BY <1>8, <2>2
    <3> QED
      BY <1>5, <3>1, Zenon
  <2> QED
    BY <1>6, <1>8, <2>1, <2>2
<1> QED
  BY <1>8, <1>9, <1>10 DEF Returns

LEMMA ExecGlobalKeeps ==
    ASSUME Inv, ExecGlobal
    PROVE  Inv'
<1>1. UNCHANGED <<prgms, labels>>
  BY DEF ExecGlobal
<1>2. Returns(rtns, prgms) /\ Spotted(prgms, currentPrgm, pc)
  BY DEF Inv
<1>3. CASE FindGlobal(Current.arg) # {} /\ Callable
  <2>1. /\ \E n \in FindGlobal(Current.arg) : currentPrgm' = labels[n].prgm /\ pc' = labels[n].pc
        /\ rtns' = IF Current.op = "xeq" THEN ReturnHere ELSE rtns
    BY <1>3 DEF ExecGlobal
  <2>2. Spotted(prgms, currentPrgm', pc')
    BY <2>1, GlobalPlace
  <2>3. Returns(rtns', prgms)
    BY <1>2, <1>3, <2>1, ReturnHereFacts
  <2> QED
    BY <1>1, <2>2, <2>3, Moves
<1>4. CASE ~(FindGlobal(Current.arg) # {} /\ Callable)
  <2>1. UNCHANGED <<currentPrgm, pc, rtns>>
    BY <1>4 DEF ExecGlobal
  <2> QED
    BY <1>1, <1>2, <2>1, Moves
<1> QED
  BY <1>3, <1>4

LEMMA ExecEndKeeps ==
    ASSUME Inv, ExecEnd
    PROVE  Inv'
<1>1. UNCHANGED <<prgms, labels>>
  BY DEF ExecEnd
<1>2. Returns(rtns, prgms) /\ Spotted(prgms, currentPrgm, pc)
  BY DEF Inv
<1>3. CASE rtns = <<>>
  <2>1. pc' = 0 /\ UNCHANGED <<currentPrgm, rtns>>
    BY <1>3 DEF ExecEnd
  <2>2. Spotted(prgms, currentPrgm', pc')
    BY <1>2, <2>1 DEF Spotted
  <2> QED
    BY <1>1, <1>2, <2>1, <2>2, Moves
<1>4. CASE rtns # <<>>
  <2> DEFINE n == Len(rtns)
             p == rtns[n].prgm
             i == rtns[n].pc
             rest == SubSeq(rtns, 1, n - 1)
  <2>1. currentPrgm' = p /\ pc' = i /\ rtns' = rest
    BY <1>4 DEF ExecEnd
  <2>2. /\ rtns \in Seq(RtnRec) /\ n \in Nat \ {0} /\ n <= MaxReturns /\ MaxReturns \in Nat
        /\ n \in 1 .. Len(rtns)
    BY <1>2, <1>4, BoundAssumption DEF Returns
  <2>3. p \in 1 .. Len(prgms) /\ i \in 2 .. Len(prgms[p].lines)
    BY <1>2, <2>2 DEF Returns
  <2>7. rest \in Seq(RtnRec) /\ Len(rest) = n - 1 /\ \A k \in 1 .. n - 1 : rest[k] = rtns[k]
    <3>1. n - 1 \in Int /\ 1 \in Int /\ \A k \in 1 .. n - 1 : rtns[k] \in RtnRec
      BY <2>2
    <3> HIDE DEF n
    <3> DEFINE m == n - 1
    <3>2. m \in Nat /\ \A k \in 1 .. m : rtns[k] \in RtnRec
      BY <2>2, <3>1
    <3> HIDE DEF m
    <3>3. /\ SubSeq(rtns, 1, m) \in Seq(RtnRec) /\ Len(SubSeq(rtns, 1, m)) = m
          /\ \A k \in 1 .. m : SubSeq(rtns, 1, m)[k] = rtns[k]
      BY <3>2, SubSeqProperties
    <3> QED
      BY <3>3 DEF m
  <2> HIDE DEF p, i, rest, n
  <2>4. Len(prgms[p].lines) \in Nat
    BY <2>3, InvFacts, PrgmRecs
  <2>5. Spotted(prgms, p, i)
    BY <2>3, <2>4 DEF Spotted
  <2>6. ASSUME NEW k \in 1 .. Len(rest)
        PROVE  k \in 1 .. Len(rtns) /\ rest[k] = rtns[k]
    BY <2>2, <2>7 DEF n
  <2>8. Len(rest) <= MaxReturns
    BY <2>2, <2>7
  <2>9. Returns(rest, prgms)
    BY <1>2, <2>6, <2>7, <2>8 DEF Returns
  <2> QED
    BY <1>1, <2>1, <2>5, <2>9, Moves
<1> QED
  BY <1>3, <1>4

(* A target is cached.                                                     *)
LEMMA AimedFacts ==
    ASSUME NEW prgm \in PrgmRec, Consistent(prgm), NEW i \in 1 .. Len(prgm.lines),
           Caches(prgm.lines[i]),
           NEW t, t = FindLocal(prgm.lines, i + 1, prgm.lines[i].arg),
           NEW new, new = Aimed(prgm, i, t)
    PROVE  /\ new \in PrgmRec /\ Consistent(new) /\ Len(new.lines) = Len(prgm.lines)
           /\ \A j \in 1 .. Len(prgm.lines) : SameLine(prgm.lines[j], new.lines[j])
<1> DEFINE lines == prgm.lines
           ln == lines[i]
           aimed == [ln EXCEPT !.target = t]
           lines2 == [lines EXCEPT ![i] = aimed]
<1>1. lines \in Seq(Lines) /\ Len(lines) \in Nat /\ DOMAIN lines = 1 .. Len(lines) /\ ln \in Lines
  BY DEF PrgmRec
<1>2. t \in {Unknown, NotFound} \cup (Nat \ {0})
  BY <1>1, FindLocalFacts
<1>3. ln.op # "end"
  BY DEF Caches
<1>4. aimed \in Lines /\ SameLine(ln, aimed) /\ aimed.target = t /\ aimed.op = ln.op /\ aimed.arg = ln.arg
  <2> HIDE DEF ln
  <2> QED
    BY <1>1, <1>2, <1>3, LineFacts DEF SameLine
<1>5. new = [prgm EXCEPT !.lines = lines2, !.invalid = FALSE]
  BY DEF Aimed
<1>6. i \in 1 .. Len(lines) /\ t = FindLocal(lines, i + 1, ln.arg) /\ Caches(ln)
  OBVIOUS
<1>7. ASSUME NEW j \in 1 .. Len(lines)
      PROVE  lines[j].target # Unknown =>
               Caches(lines[j]) /\ lines[j].target = FindLocal(lines, j + 1, lines[j].arg)
  BY DEF Consistent
<1>8. ln = lines[i] /\ prgm.lines = lines
  OBVIOUS
<1> HIDE DEF aimed
<1>9. /\ lines2 \in [1 .. Len(lines) -> Lines]
      /\ lines2[i] = aimed
      /\ \A j \in 1 .. Len(lines) : j # i => lines2[j] = lines[j]
  BY <1>1, <1>4
<1> HIDE DEF lines2
<1>10. new \in PrgmRec /\ new.lines = lines2 /\ ~new.invalid
  <2>1. lines2 \in Seq(Lines)
    BY <1>1, <1>9, AsSeq
  <2> QED
    BY <1>5, <2>1 DEF PrgmRec
<1>11. Len(lines2) = Len(lines)
  BY <1>1, <1>9, AsSeq
<1> HIDE DEF lines, ln
<1>12. ASSUME NEW j \in 1 .. Len(lines)
       PROVE  SameLine(lines[j], lines2[j])
  BY <1>4, <1>8, <1>9 DEF SameLine
<1>13. \A start, a : FindLocal(lines2, start, a) = FindLocal(lines, start, a)
  BY <1>1, <1>11, <1>12, FindLocalSame
<1>14. ASSUME NEW j \in 1 .. Len(lines2), lines2[j].target # Unknown
       PROVE  Caches(lines2[j]) /\ lines2[j].target = FindLocal(lines2, j + 1, lines2[j].arg)
  <2>1. CASE j = i
    <3>1. Caches(aimed) /\ aimed.arg = ln.arg
      BY <1>4, <1>6 DEF Caches
    <3> QED
      BY <1>4, <1>6, <1>9, <1>13, <2>1, <3>1
  <2>2. CASE j # i
    <3>1. lines2[j] = lines[j] /\ j \in 1 .. Len(lines)
      BY <1>9, <1>11, <2>2
    <3> QED
      BY <1>7, <1>13, <1>14, <3>1
  <2> QED
    BY <2>1, <2>2
<1>15. Consistent(new)
  BY <1>10, <1>14 DEF Consistent
<1> QED
  BY <1>8, <1>10, <1>11, <1>12, <1>15

LEMMA ExecLocalKeeps ==
    ASSUME Inv, ExecLocal
    PROVE  Inv'
<1> DEFINE p == currentPrgm
           goal == FindLocal(prgms[p].lines, At + 1, Current.arg)
           new == Aimed(prgms[p], At, goal)
<1>1. /\ Shaped(prgms) /\ TargetsOK(prgms) /\ p \in 1 .. Len(prgms)
      /\ prgms \in Seq(PrgmRec) /\ DOMAIN prgms = 1 .. Len(prgms)
      /\ prgms[p] \in PrgmRec
  BY InvFacts
<1>2. Current = prgms[p].lines[At] /\ At \in 1 .. Len(prgms[p].lines) /\ Caches(Current)
  BY CurrentFacts, InvFacts DEF ExecLocal
<1>3. Consistent(prgms[p])
  BY <1>1 DEF TargetsOK
<1>4. Target = goal
  BY <1>2, <1>3 DEF Consistent, Target
<1>5. prgms' = prgms \/ OneNew(prgms, p, new, prgms')
  BY <1>1, <1>4 DEF ExecLocal, Cached, OneNew
<1>6. /\ UNCHANGED <<labels, currentPrgm>>
      /\ \/ /\ goal # NotFound /\ Callable /\ pc' = goal
            /\ rtns' = IF Current.op = "xeq" THEN ReturnHere ELSE rtns
         \/ UNCHANGED <<pc, rtns>>
  BY <1>4 DEF ExecLocal
<1>7. goal = NotFound \/ Spotted(prgms, p, goal)
  BY LocalPlace
<1>8. Spotted(prgms, p, pc) /\ Returns(rtns, prgms) /\ Good(prgms, labels)
  BY DEF Inv
<1>9. /\ new \in PrgmRec /\ Consistent(new) /\ Len(new.lines) = Len(prgms[p].lines)
      /\ \A i \in 1 .. Len(prgms[p].lines) : SameLine(prgms[p].lines[i], new.lines[i])
  <2> HIDE DEF new, p
  <2>1. Caches(prgms[p].lines[At])
    BY <1>2
  <2>2. goal = FindLocal(prgms[p].lines, At + 1, prgms[p].lines[At].arg)
    BY <1>2
  <2>3. new = Aimed(prgms[p], At, goal)
    BY DEF new
  <2> HIDE DEF goal
  <2> QED
    BY <1>1, <1>2, <1>3, <2>1, <2>2, <2>3, AimedFacts
<1> HIDE DEF goal, new
<1>10. Shaped(prgms') /\ TargetsOK(prgms') /\ SameText(prgms, prgms')
  <2>1. CASE prgms' = prgms
    BY <1>1, <2>1 DEF SameText, SameLine
  <2>2. CASE OneNew(prgms, p, new, prgms')
    <3> HIDE DEF p
    <3> QED
      BY <1>1, <1>9, <2>2, OneNewFacts
  <2> QED
    BY <1>5, <2>1, <2>2
<1>11. Good(prgms', labels')
  BY <1>6, <1>10, SameTextKeeps
<1>12. Spotted(prgms, currentPrgm', pc')
  BY <1>6, <1>7, <1>8
<1>13. Spotted(prgms', currentPrgm', pc')
  BY <1>10, <1>12 DEF Spotted, SameText
<1>14. Returns(rtns', prgms)
  <2>1. CASE UNCHANGED rtns
    BY <1>8, <2>1
  <2>2. CASE Callable /\ rtns' = IF Current.op = "xeq" THEN ReturnHere ELSE rtns
    BY <1>8, <2>2, ReturnHereFacts
  <2> QED
    BY <1>6, <2>1, <2>2
<1>15. Returns(rtns', prgms')
  BY <1>1, <1>10, <1>14, ReturnsSame
<1> QED
  BY <1>11, <1>13, <1>15 DEF Inv

(* The program memory is saved and loaded.                                 *)
LEMMA RestartKeeps ==
    ASSUME Inv, Restart
    PROVE  Inv'
<1>1. /\ Shaped(prgms) /\ prgms \in Seq(PrgmRec) /\ DOMAIN prgms = 1 .. Len(prgms)
      /\ Len(prgms) \in Nat
  BY InvFacts
<1>2. prgms' = [p \in 1 .. Len(prgms) |-> Forgotten(prgms[p])] /\ labels' = Rebuilt(prgms)
      /\ UNCHANGED <<currentPrgm, pc, rtns>>
  BY <1>1 DEF Restart
<1>3. ASSUME NEW p \in 1 .. Len(prgms)
      PROVE  /\ prgms'[p] \in PrgmRec /\ Len(prgms'[p].lines) = Len(prgms[p].lines)
             /\ \A i \in 1 .. Len(prgms[p].lines) : SameLine(prgms[p].lines[i], prgms'[p].lines[i])
             /\ NoTargets(prgms'[p].lines)
  <2>1. prgms[p] \in PrgmRec /\ prgms'[p] = Forgotten(prgms[p])
    BY <1>1, <1>2
  <2> QED
    BY <2>1, ForgottenFacts, ForgetFacts
<1>4. prgms' \in Seq(PrgmRec) /\ Len(prgms') = Len(prgms)
  <2>1. prgms' \in [1 .. Len(prgms) -> PrgmRec]
    BY <1>2, <1>3
  <2> QED
    BY <1>1, <2>1, AsSeq
<1>5. SameText(prgms, prgms')
  BY <1>3, <1>4 DEF SameText
<1>6. TargetsOK(prgms')
  BY <1>3, <1>4, NoneIsConsistent DEF TargetsOK
<1>7. Shaped(prgms')
  BY <1>1, <1>4, <1>5, SameTextShaped
<1>8. Lists(labels', prgms')
  BY <1>1, <1>2, <1>4, <1>5, RebuiltAfter
<1>9. Returns(rtns', prgms') /\ Spotted(prgms', currentPrgm', pc')
  BY <1>2, <1>5, <1>6, <1>7, SameTextKeeps
<1> QED
  BY <1>6, <1>7, <1>8, <1>9 DEF Inv, Good

-----------------------------------------------------------------------------
(* The invariant holds.                                                    *)
LEMMA NextKeeps ==
    ASSUME ~CutsPastEmpty, Inv, [Next]_vars
    PROVE  Inv'
<1>1. CASE UNCHANGED vars
  BY <1>1 DEF Inv, vars
<1>2. ASSUME NEW c \in Commands, Insert(c)
      PROVE  Inv'
  BY <1>2, InsertKeeps
<1>3. ASSUME NEW c \in Commands, NEW prgmMode \in BOOLEAN, Import(c, prgmMode)
      PROVE  Inv'
  BY <1>3, ImportKeeps
<1>4. CASE InsertEnd
  BY <1>4, InsertEndKeeps
<1>5. CASE DeleteLine
  BY <1>5, DeleteLineKeeps
<1>6. CASE ClearAll \/ GtoDotDot
  BY <1>6, ClearAllKeeps, GtoDotDotKeeps
<1>7. ASSUME NEW n \in 0 .. MaxLines, Del(n) \/ GtoLine(n)
      PROVE  Inv'
  BY <1>7, DelKeeps, GtoLineKeeps
<1>8. ASSUME NEW p \in DOMAIN prgms, Clp(p)
      PROVE  Inv'
  <2>1. p \in 1 .. Len(prgms)
    BY InvFacts
  <2> QED
    BY <1>8, <2>1, ClpKeeps
<1>9. ASSUME NEW b \in BOOLEAN, Lock(b)
      PROVE  Inv'
  BY <1>9, LockKeeps
<1>10. ASSUME NEW a, GtoKey(a)
       PROVE  Inv'
  BY <1>10, GtoKeyKeeps
<1>11. CASE SstKey \/ BstKey
  BY <1>11, StepKeyKeeps
<1>12. CASE ExecLbl \/ ExecLocal
  BY <1>12, ExecLblKeeps, ExecLocalKeeps
<1>13. CASE ExecGlobal \/ ExecEnd
  BY <1>13, ExecGlobalKeeps, ExecEndKeeps
<1>14. CASE Restart
  BY <1>14, RestartKeeps
<1> QED
  BY <1>1, <1>2, <1>3, <1>4, <1>5, <1>6, <1>7, <1>8, <1>9, <1>10, <1>11, <1>12, <1>13,
     <1>14 DEF Next

(* The invariant holds in every state that is reached without the one CLP  *)
(* that leaves currentPrgm behind the last program.                        *)
THEOREM InvHolds ==
    ASSUME ~CutsPastEmpty
    PROVE  Spec => []Inv
<1>1. Inv /\ [Next]_vars => Inv'
  BY NextKeeps
<1> QED
  BY InitInv, <1>1, PTL DEF Spec

LEMMA InvImplies ==
    ASSUME Inv
    PROVE  TypeOK /\ LabelsExact /\ TargetsExact /\ ReturnsAfterXeq
<1>1. /\ prgms \in Seq(PrgmRec) /\ TargetsOK(prgms) /\ Lists(labels, prgms)
      /\ DOMAIN prgms = 1 .. Len(prgms)
  BY InvFacts
<1>2. \A p \in 1 .. Len(prgms) :
         WellEnded(prgms[p].lines) /\ LastLine(p) = Len(prgms[p].lines)
         /\ prgms[p].lines \in Seq(Lines) /\ DOMAIN prgms[p].lines = 1 .. Len(prgms[p].lines)
  <2>1. ASSUME NEW p \in 1 .. Len(prgms)
        PROVE  /\ WellEnded(prgms[p].lines) /\ LastLine(p) = Len(prgms[p].lines)
               /\ prgms[p].lines \in Seq(Lines)
    BY InvFacts, ShapedFacts, WellEndedLines DEF LastLine
  <2> QED
    BY <2>1
<1>3. TypeOK
  <2>1. prgms \in Seq([lines : Seq(Lines), invalid : BOOLEAN, locked : BOOLEAN])
    BY <1>1 DEF PrgmRec
  <2>2. \A p \in DOMAIN prgms : \A i \in DOMAIN prgms[p].lines :
            prgms[p].lines[i].op = "end" <=> i = LastLine(p)
    BY <1>1, <1>2 DEF WellEnded
  <2>3. \A n \in DOMAIN labels : labels[n].name \in GlobalLabels \cup {NoName}
    <3>1. labels \in Seq(LabelRec) /\ DOMAIN labels = 1 .. Len(labels)
      BY <1>1 DEF Lists
    <3>2. \A n \in DOMAIN labels : labels[n] \in LabelRec
      BY <3>1
    <3> QED
      BY <3>2 DEF LabelRec
  <2>4. Len(rtns) <= MaxReturns
    BY DEF Inv, Returns
  <2>5. CurrentExists
    BY <1>1, InvFacts DEF CurrentExists
  <2> QED
    BY <2>1, <2>2, <2>3, <2>4, <2>5 DEF TypeOK
<1>4. LabelsExact
  BY <1>1, ListsUnique DEF LabelsExact
<1>5. TargetsExact
  BY <1>1, <1>2 DEF TargetsExact, TargetsOK, Consistent
<1>6. ReturnsAfterXeq
  <2>1. /\ rtns \in Seq(RtnRec) /\ DOMAIN rtns = 1 .. Len(rtns)
        /\ \A k \in 1 .. Len(rtns) :
              /\ rtns[k].prgm \in 1 .. Len(prgms)
              /\ rtns[k].pc \in 2 .. Len(prgms[rtns[k].prgm].lines)
              /\ prgms[rtns[k].prgm].lines[rtns[k].pc - 1].op = "xeq"
    BY DEF Inv, Returns
  <2> QED
    BY <1>1, <2>1 DEF ReturnsAfterXeq, LastLine
<1> QED
  BY <1>3, <1>4, <1>5, <1>6

(* Every program ends with its only END, and the current line exists.      *)
THEOREM TypeCorrect ==
    ASSUME ~CutsPastEmpty
    PROVE  Spec => []TypeOK
<1>1. Inv => TypeOK
  BY InvImplies
<1> QED
  BY InvHolds, <1>1, PTL

(* After every edit, which updates the table of labels in a way of its     *)
(* own, the table is the one that rebuild_label_table() would build.       *)
THEOREM LabelsExactCorrect ==
    ASSUME ~CutsPastEmpty
    PROVE  Spec => []LabelsExact
<1>1. Inv => LabelsExact
  BY InvImplies
<1> QED
  BY InvHolds, <1>1, PTL

(* A cached target is what find_local_label() would find, and a set flag   *)
(* lclbl_invalid hides none from invalidate_lclbls().                      *)
THEOREM TargetsExactCorrect ==
    ASSUME ~CutsPastEmpty
    PROVE  Spec => []TargetsExact
<1>1. Inv => TargetsExact
  BY InvImplies
<1> QED
  BY InvHolds, <1>1, PTL

(* No edit leaves a return address that does not follow an XEQ.            *)
THEOREM ReturnsCorrect ==
    ASSUME ~CutsPastEmpty
    PROVE  Spec => []ReturnsAfterXeq
<1>1. Inv => ReturnsAfterXeq
  BY InvImplies
<1> QED
  BY InvHolds, <1>1, PTL

-----------------------------------------------------------------------------
(* Locked programs                                                         *)
Survives(p) ==
    \E q \in DOMAIN prgms' :
        prgms'[q].locked /\ Forget(prgms'[q].lines) = Forget(prgms[p].lines)

LEMMA SameIsKept ==
    ASSUME NEW p, prgms[p].locked, prgms' \in Seq(PrgmRec),
           NEW q \in 1 .. Len(prgms'), prgms'[q] = prgms[p]
    PROVE  Survives(p)
<1>1. DOMAIN prgms' = 1 .. Len(prgms')
  OBVIOUS
<1> QED
  BY <1>1 DEF Survives

LEMMA LockedKeptStep ==
    ASSUME Inv,
           \/ \E c \in Commands : Insert(c)
           \/ InsertEnd \/ DeleteLine
           \/ \E n \in 0 .. MaxLines : Del(n),
           NEW p \in DOMAIN prgms, prgms[p].locked
    PROVE  Survives(p)
<1> DEFINE c == currentPrgm
<1>1. /\ prgms \in Seq(PrgmRec) /\ Len(prgms) \in Nat /\ p \in 1 .. Len(prgms)
      /\ c \in 1 .. Len(prgms)
  BY InvFacts
<1>2. CASE prgms' = prgms
  BY <1>1, <1>2, SameIsKept
<1>3. ASSUME ~prgms[c].locked, Good(prgms', labels'), Len(prgms') = Len(prgms),
             \A q \in 1 .. Len(prgms) : q # c => prgms'[q] = prgms[q]
      PROVE  Survives(p)
  <2>1. p # c
    BY <1>3
  <2>2. p \in 1 .. Len(prgms') /\ prgms'[p] = prgms[p]
    BY <1>1, <1>3, <2>1
  <2>3. prgms' \in Seq(PrgmRec)
    BY <1>3, ShapedFacts DEF Good
  <2> QED
    BY <2>2, <2>3, SameIsKept
<1>4. ASSUME NEW cmd \in Commands, Insert(cmd)
      PROVE  Survives(p)
  <2>1. CASE prgms[c].locked
    <3>1. prgms' = prgms
      BY <1>4, <2>1 DEF Insert
    <3> QED
      BY <1>2, <3>1
  <2>2. CASE ~prgms[c].locked
    <3>1. StoredInto(prgms, c, prgms') /\ Good(prgms', labels')
      BY <1>4, <2>2, InsertIs
    <3> QED
      BY <1>3, <2>2, <3>1 DEF StoredInto
  <2> QED
    BY <2>1, <2>2
<1>5. CASE InsertEnd
  <2>1. CASE prgms[c].locked
    <3>1. prgms' = prgms
      BY <1>5, <2>1 DEF InsertEnd
    <3> QED
      BY <1>2, <3>1
  <2>2. CASE ~prgms[c].locked
    <3>1. Good(prgms', labels') /\ SplitInto(prgms, c, prgms')
      BY <1>5, <2>2, InsertEndIs
    <3>2. prgms' \in Seq(PrgmRec)
      BY <3>1, ShapedFacts DEF Good
    <3>3. /\ Len(prgms') = Len(prgms) + 1
          /\ p < c => prgms'[p] = prgms[p]
          /\ p > c => prgms'[p + 1] = prgms[p]
      BY <1>1, <3>1 DEF SplitInto
    <3>4. p < c \/ p > c
      <4>1. p # c
        BY <2>2
      <4> QED
        BY <1>1, <4>1
    <3>5. p \in 1 .. Len(prgms') /\ p + 1 \in 1 .. Len(prgms')
      BY <1>1, <3>3
    <3> QED
      BY <3>2, <3>3, <3>4, <3>5, SameIsKept
  <2> QED
    BY <2>1, <2>2
<1>6. CASE DeleteLine
  <2>1. \/ prgms' = prgms
        \/ /\ Deletable /\ DeleteEnd /\ pc # 0 /\ c # Len(prgms) /\ IsEnd(c, pc)
        \/ /\ Deletable /\ DeleteOther /\ pc # 0 /\ ~IsEnd(c, pc)
    BY <1>6 DEF DeleteLine, Delete
  <2>2. CASE Deletable /\ DeleteEnd /\ pc # 0 /\ c # Len(prgms) /\ IsEnd(c, pc)
    <3>1. /\ Good(prgms', labels') /\ Len(prgms') = Len(prgms) - 1
          /\ \A q \in 1 .. Len(prgms) : /\ q < c => prgms'[q] = prgms[q]
                                        /\ q > c + 1 => prgms'[q - 1] = prgms[q]
      BY <2>2, DeleteEndIs
    <3>2. prgms' \in Seq(PrgmRec)
      BY <3>1, ShapedFacts DEF Good
    <3>3. p # c /\ p # c + 1
      BY <2>2 DEF Deletable
    <3>4. p < c \/ p > c + 1
      BY <1>1, <3>3
    <3>5. CASE p < c
      <4>1. p \in 1 .. Len(prgms')
        BY <1>1, <3>1, <3>5
      <4>2. prgms'[p] = prgms[p]
        BY <1>1, <3>1, <3>5
      <4> QED
        BY <3>2, <4>1, <4>2, SameIsKept
    <3>6. CASE p > c + 1
      <4>1. p - 1 \in 1 .. Len(prgms')
        BY <1>1, <3>1, <3>6
      <4>2. prgms'[p - 1] = prgms[p]
        BY <1>1, <3>1, <3>6
      <4> QED
        BY <3>2, <4>1, <4>2, SameIsKept
    <3> QED
      BY <3>4, <3>5, <3>6
  <2>3. CASE Deletable /\ DeleteOther /\ pc # 0 /\ ~IsEnd(c, pc)
    <3>1. ~prgms[c].locked
      BY <2>3 DEF Deletable
    <3>2. /\ Good(prgms', labels') /\ Len(prgms') = Len(prgms)
          /\ \A q \in 1 .. Len(prgms) : q # c => prgms'[q] = prgms[q]
      BY <2>3, DeleteOtherIs
    <3> QED
      BY <1>3, <3>1, <3>2
  <2> QED
    BY <1>2, <2>1, <2>2, <2>3
<1>7. ASSUME NEW n \in 0 .. MaxLines, Del(n)
      PROVE  Survives(p)
  <2>1. n \in Nat /\ LinesCleared(n) /\ ~prgms[c].locked
    BY <1>7, BoundAssumption DEF Del
  <2>2. /\ Good(prgms', labels') /\ Len(prgms') = Len(prgms)
        /\ \A q \in 1 .. Len(prgms) : q # c => prgms'[q] = prgms[q]
    BY <2>1, DelIs
  <2> QED
    BY <1>3, <2>1, <2>2
<1> QED
  BY <1>4, <1>5, <1>6, <1>7

(* Keys that edit lines leave every locked program as it is and locked,    *)
(* whichever program is current: splitting and joining others only moves   *)
(* it to another number.                                                   *)
THEOREM LockedKeptCorrect ==
    ASSUME ~CutsPastEmpty
    PROVE  Spec => LockedKept
<1> DEFINE A == \/ \E c \in Commands : Insert(c)
                \/ InsertEnd \/ DeleteLine
                \/ \E n \in 0 .. MaxLines : Del(n)
<1>1. Inv => (A => \A p \in DOMAIN prgms : prgms[p].locked => Survives(p))
  BY LockedKeptStep
<1>2. Inv => [A => \A p \in DOMAIN prgms : prgms[p].locked =>
                 \E q \in DOMAIN prgms' :
                    prgms'[q].locked /\ Forget(prgms'[q].lines) = Forget(prgms[p].lines)]_vars
  BY <1>1 DEF Survives
<1>3. Inv /\ [Next]_vars =>
         [A => \A p \in DOMAIN prgms : prgms[p].locked =>
                 \E q \in DOMAIN prgms' :
                    prgms'[q].locked /\ Forget(prgms'[q].lines) = Forget(prgms[p].lines)]_vars
  BY <1>2
<1> QED
  BY InvHolds, <1>3, PTL DEF Spec, LockedKept, A
=============================================================================
