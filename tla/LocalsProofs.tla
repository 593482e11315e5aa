---------------------------- MODULE LocalsProofs ----------------------------
(***************************************************************************)
(* Proofs about local variables and what a subroutine gives back to its    *)
(* caller. The invariant says of the table of variables that the levels of *)
(* locals never decrease, that the flags hidden and hiding agree with the  *)
(* order of entries of one name, that the two flags of each level say      *)
(* whether it has the private variables STK and MAT, and that neither MAT  *)
(* nor the indexed matrix refers to a local that is gone.                  *)
(*                                                                         *)
(* The second half proves from it that Locals implements DynScope: what    *)
(* the mapping reads off the table is a stack of scopes, and every action  *)
(* changes it as an action of DynScope does or not at all.                 *)
(***************************************************************************)
EXTENDS Locals, SelectionTheorems, SequenceTheorems

-----------------------------------------------------------------------------
(* Every set of natural numbers has a least element, which is what we have *)
(* instead of induction: the least counterexample.                         *)
LEMMA LeastElement ==
    ASSUME NEW T, T \subseteq Nat, T # {}
    PROVE  \E x \in T : \A y \in T : x <= y
<1> DEFINE Under(n) == 1 .. n
           D == {Under(n) : n \in T}
<1>1. D \subseteq FiniteSubsetsOf(Nat) /\ D # {}
  <2>1. ASSUME NEW n \in T
        PROVE  Under(n) \in FiniteSubsetsOf(Nat)
    BY FS_Interval DEF FiniteSubsetsOf
  <2> QED
    BY <2>1
<1>2. \E a \in D : \A b \in D : <<b, a>> \notin StrictSubsetOrdering(Nat)
  <2> HIDE DEF D
  <2> QED
    BY <1>1, WFMin, FS_StrictSubsetOrderingWellFounded
<1>3. PICK x \in T : \A y \in T : <<Under(y), Under(x)>> \notin StrictSubsetOrdering(Nat)
  BY <1>2
<1>4. ASSUME NEW y \in T
      PROVE  x <= y
  <2> SUFFICES ASSUME y < x
               PROVE  FALSE
    OBVIOUS
  <2>1. Under(y) \subseteq Under(x) /\ x \in Under(x) /\ x \notin Under(y)
    OBVIOUS
  <2>2. <<Under(y), Under(x)>> \in StrictSubsetOrdering(Nat)
    BY <2>1 DEF StrictSubsetOrdering
  <2> QED
    BY <1>3, <2>2
<1> QED
  BY <1>4

(* The last of a set of indices                                            *)
LEMMA LastOfFacts ==
    ASSUME NEW I, IsFiniteSet(I), I \subseteq Nat \ {0}
    PROVE  /\ I = {} => LastOf(I) = 0
           /\ I # {} => LastOf(I) \in I /\ \A j \in I : j <= LastOf(I)
           /\ LastOf(I) # 0 <=> I # {}
<1>1. CASE I = {}
  BY <1>1 DEF LastOf
<1>2. CASE I # {}
  <2>1. /\ Cardinality(I) \in Nat
        /\ \A n \in 1 .. Cardinality(I) : NthOf(I, n) \in I
        /\ \A m, n \in 1 .. Cardinality(I) : m < n <=> NthOf(I, m) < NthOf(I, n)
        /\ \A i \in I : \E n \in 1 .. Cardinality(I) : NthOf(I, n) = i
    <3>1. I \subseteq Int
      OBVIOUS
    <3> QED
      BY <3>1, NthOfFacts
  <2> DEFINE N == Cardinality(I)
             nth == [n \in 1 .. N |-> NthOf(I, n)]
  <2>5. /\ N \in Nat
        /\ \A n \in 1 .. N : nth[n] \in I
        /\ \A m, n \in 1 .. N : m < n <=> nth[m] < nth[n]
        /\ \A i \in I : \E n \in 1 .. N : nth[n] = i
    BY <2>1
  <2> HIDE DEF N, nth
  <2>2. N \in 1 .. N
    <3>1. PICK i \in I : TRUE
      BY <1>2
    <3>2. PICK n \in 1 .. N : nth[n] = i
      BY <2>5
    <3> QED
      BY <2>5, <3>2
  <2>3. ASSUME NEW j \in I
        PROVE  j <= nth[N]
    <3>1. PICK n \in 1 .. N : nth[n] = j
      BY <2>5
    <3>2. nth[N] \in Nat /\ j \in Nat
      BY <2>5, <2>2
    <3>3. n = N \/ n < N
      BY <2>5
    <3>4. n < N => nth[n] < nth[N]
      BY <2>5, <2>2
    <3> QED
      BY <3>1, <3>2, <3>3, <3>4
  <2>4. \E i \in I : \A j \in I : j <= i
    BY <2>2, <2>3, <2>5
  <2> QED
    BY <1>2, <2>4 DEF LastOf
<1> QED
  BY <1>1, <1>2

LEMMA AsSeq ==
    ASSUME NEW S, NEW n \in Nat, NEW s \in [1 .. n -> S]
    PROVE  s \in Seq(S) /\ Len(s) = n
OBVIOUS

-----------------------------------------------------------------------------
(* Entries                                                                 *)
LEMMA EntryFacts ==
    ASSUME NEW e \in Entries
    PROVE  /\ e.level \in Int /\ GlobalLevel <= e.level /\ e.level <= MaxLevel
           /\ e.hidden \in BOOLEAN /\ e.hiding \in BOOLEAN /\ e.private \in BOOLEAN
           /\ ~e.private => e.name \in Names /\ e.val \in Values
           /\ e.private =>
                /\ e.level # GlobalLevel /\ ~e.hidden /\ ~e.hiding
                /\ \/ e.name = "STK" /\ e.val \in StkValues
                   \/ e.name = "MAT" /\ e.val \in MatValues
<1> DEFINE Plain == [name : Names, level : GlobalLevel .. MaxLevel, hidden : BOOLEAN,
                    hiding : BOOLEAN, private : {FALSE}, val : Values]
           Saved == [name : {"STK"}, level : 0 .. MaxLevel, hidden : {FALSE},
                   hiding : {FALSE}, private : {TRUE}, val : StkValues]
           Indexed == [name : {"MAT"}, level : 0 .. MaxLevel, hidden : {FALSE},
                   hiding : {FALSE}, private : {TRUE}, val : MatValues]
<1>1. MaxLevel \in Nat
  BY BoundsAssumption
<1>2. e \in Plain \/ e \in Saved \/ e \in Indexed
  BY DEF Entries
<1>3. CASE e \in Plain
  <2>1. e.level \in Int /\ GlobalLevel <= e.level /\ e.level <= MaxLevel
    BY <1>1, <1>3 DEF GlobalLevel
  <2>2. e.hidden \in BOOLEAN /\ e.hiding \in BOOLEAN /\ e.private \in BOOLEAN /\ ~e.private
    BY <1>3
  <2>3. e.name \in Names /\ e.val \in Values
    BY <1>3
  <2> QED
    BY <2>1, <2>2, <2>3, Zenon
<1>4. CASE e \in Saved
  <2>1. e.level \in Int /\ GlobalLevel <= e.level /\ e.level <= MaxLevel /\ e.level # GlobalLevel
    BY <1>1, <1>4 DEF GlobalLevel
  <2>2. /\ e.hidden \in BOOLEAN /\ e.hiding \in BOOLEAN /\ e.private \in BOOLEAN
        /\ ~e.hidden /\ ~e.hiding /\ e.private
    BY <1>4
  <2>3. e.name = "STK" /\ e.val \in StkValues
    BY <1>4
  <2> QED
    BY <2>1, <2>2, <2>3, Zenon
<1>5. CASE e \in Indexed
  <2>1. e.level \in Int /\ GlobalLevel <= e.level /\ e.level <= MaxLevel /\ e.level # GlobalLevel
    BY <1>1, <1>5 DEF GlobalLevel
  <2>2. /\ e.hidden \in BOOLEAN /\ e.hiding \in BOOLEAN /\ e.private \in BOOLEAN
        /\ ~e.hidden /\ ~e.hiding /\ e.private
    BY <1>5
  <2>3. e.name = "MAT" /\ e.val \in MatValues
    BY <1>5
  <2> QED
    BY <2>1, <2>2, <2>3, Zenon
<1> QED
  BY <1>2, <1>3, <1>4, <1>5

(* A variable that is like another but for being hidden                    *)
Alike(e, f) ==
    /\ f.name = e.name /\ f.level = e.level /\ f.private = e.private
    /\ f.hiding = e.hiding /\ f.val = e.val

LEMMA HiddenEntry ==
    ASSUME NEW e \in Entries, NEW b \in BOOLEAN, e.private => ~b,
           NEW f, f = [e EXCEPT !.hidden = b]
    PROVE  f \in Entries /\ Alike(e, f) /\ f.hidden = b
<1>1. Alike(e, f) /\ f.hidden = b
  BY DEF Alike, Entries
<1>2. f \in Entries
  BY DEF Entries
<1> QED
  BY <1>1, <1>2

LEMMA ValEntry ==
    ASSUME NEW e \in Entries, ~e.private, NEW v \in Values, NEW f, f = [e EXCEPT !.val = v]
    PROVE  /\ f \in Entries /\ f.name = e.name /\ f.level = e.level /\ f.private = e.private
           /\ f.hiding = e.hiding /\ f.hidden = e.hidden /\ f.val = v
BY DEF Entries

LEMMA NewVariable ==
    ASSUME NEW n \in Names, NEW l \in GlobalLevel .. MaxLevel, NEW b \in BOOLEAN,
           NEW v \in Values, NEW e, e = Variable(n, l, b, v)
    PROVE  /\ e \in Entries /\ e.name = n /\ e.level = l /\ ~e.private
           /\ e.hiding = b /\ ~e.hidden /\ e.val = v
BY DEF Variable, Entries

LEMMA NewPrivate ==
    ASSUME NEW n, NEW l \in 0 .. MaxLevel, NEW v,
           (n = "STK" /\ v \in StkValues) \/ (n = "MAT" /\ v \in MatValues),
           NEW e, e = PrivateVariable(n, l, v)
    PROVE  /\ e \in Entries /\ e.name = n /\ e.level = l /\ e.private
           /\ ~e.hiding /\ ~e.hidden /\ e.val = v
BY DEF PrivateVariable, Entries

-----------------------------------------------------------------------------
(* The table of variables                                                  *)
Akin(e, f) == e.name = f.name /\ e.private = f.private

Sorted(t, L) ==
    /\ \A i \in 1 .. Len(t) : t[i].level <= L
    /\ \A i, j \in 1 .. Len(t) :
          i < j /\ t[i].level # GlobalLevel /\ t[j].level # GlobalLevel
             => t[i].level <= t[j].level
    /\ \A i, j \in 1 .. Len(t) : i < j /\ Akin(t[i], t[j]) => t[i].level < t[j].level

Older(t, i) == \E j \in 1 .. Len(t) : j < i /\ ~t[j].private /\ t[j].name = t[i].name
Newer(t, i) == \E j \in 1 .. Len(t) : j > i /\ ~t[j].private /\ t[j].name = t[i].name

Shadows(t) ==
    \A i \in 1 .. Len(t) : ~t[i].private =>
        /\ t[i].hiding <=> Older(t, i)
        /\ t[i].hidden <=> Newer(t, i)

Table(t, L) == t \in Seq(Entries) /\ Sorted(t, L) /\ Shadows(t)

(* Entries are removed.                                                    *)
Picks(src, r, t, I) ==
    /\ \A m \in 1 .. Len(r) : src[m] \in (1 .. Len(t)) \ I /\ r[m] = t[src[m]]
    /\ \A m, n \in 1 .. Len(r) : m < n <=> src[m] < src[n]
    /\ \A i \in (1 .. Len(t)) \ I : \E m \in 1 .. Len(r) : src[m] = i

LEMMA WithoutPicks ==
    ASSUME NEW t \in Seq(Entries), NEW I, NEW r, r = Without(t, I)
    PROVE  r \in Seq(Entries) /\ \E src : Picks(src, r, t, I)
<1> DEFINE J == (1 .. Len(t)) \ I
           N == Cardinality(J)
           src == [m \in 1 .. N |-> NthOf(J, m)]
<1>1. Len(t) \in Nat /\ DOMAIN t = 1 .. Len(t) /\ J = DOMAIN t \ I
  OBVIOUS
<1>2. r = Kept(t, J)
  BY <1>1 DEF Without
<1>3. J \subseteq DOMAIN t
  BY <1>1
<1> HIDE DEF J
<1>4. /\ Kept(t, J) \in Seq(Entries) /\ Len(Kept(t, J)) = Cardinality(J)
      /\ Cardinality(J) \in Nat
      /\ \A m \in 1 .. Cardinality(J) : NthOf(J, m) \in J /\ Kept(t, J)[m] = t[NthOf(J, m)]
      /\ \A m, n \in 1 .. Cardinality(J) : m < n <=> NthOf(J, m) < NthOf(J, n)
      /\ \A i \in J : \E n \in 1 .. Cardinality(J) : NthOf(J, n) = i
  BY <1>3, KeptFacts, SMTT(20)
<1>5. /\ r \in Seq(Entries) /\ Len(r) = N /\ N \in Nat
      /\ \A m \in 1 .. N : NthOf(J, m) \in J /\ r[m] = t[NthOf(J, m)]
      /\ \A m, n \in 1 .. N : m < n <=> NthOf(J, m) < NthOf(J, n)
      /\ \A i \in J : \E n \in 1 .. N : NthOf(J, n) = i
  BY <1>2, <1>4, Zenon
<1> HIDE DEF N
<1>6. \A m \in 1 .. N : src[m] = NthOf(J, m)
  OBVIOUS
<1> HIDE DEF src
<1>7. \A m \in 1 .. Len(r) : src[m] \in J /\ r[m] = t[src[m]]
  BY <1>5, <1>6
<1>8. \A m, n \in 1 .. Len(r) : m < n <=> src[m] < src[n]
  BY <1>5, <1>6
<1>9. \A i \in J : \E m \in 1 .. Len(r) : src[m] = i
  BY <1>5, <1>6
<1>10. Picks(src, r, t, I)
  BY <1>7, <1>8, <1>9, Zenon DEF J, Picks
<1> QED
  BY <1>5, <1>10

(* Entry i hides entry j.                                                  *)
Hides(t, i, j) ==
    /\ j < i /\ t[j].hidden /\ t[j].name = t[i].name
    /\ \A k \in 1 .. Len(t) : k < i /\ t[k].hidden /\ t[k].name = t[i].name => k <= j

LEMMA HiddenByFacts ==
    ASSUME NEW t \in Seq(Entries), NEW i \in 1 .. Len(t), NEW j \in 1 .. Len(t)
    PROVE  j = HiddenBy(t, i) <=> Hides(t, i, j)
<1> DEFINE J == {k \in 1 .. (i - 1) : t[k].hidden /\ t[k].name = t[i].name}
           x == HiddenBy(t, i)
<1>1. Len(t) \in Nat /\ i \in Nat /\ j \in Nat /\ 1 <= j
  OBVIOUS
<1>2. x = LastOf(J)
  BY DEF HiddenBy
<1>3. \A k \in 1 .. Len(t) : k \in J <=> k < i /\ t[k].hidden /\ t[k].name = t[i].name
  OBVIOUS
<1>4. IsFiniteSet(J) /\ J \subseteq 1 .. Len(t)
  <2>1. J \subseteq 1 .. (i - 1) /\ IsFiniteSet(1 .. (i - 1))
    BY FS_Interval
  <2>2. IsFiniteSet(J)
    BY <2>1, FS_Subset
  <2> QED
    BY <2>1, <2>2
<1> HIDE DEF J, x
<1>5. J \subseteq Nat \ {0}
  BY <1>1, <1>4
<1>6. /\ J = {} => x = 0
      /\ J # {} => x \in J /\ \A k \in J : k <= x
  BY <1>2, <1>4, <1>5, LastOfFacts
<1>7. ASSUME j = x
      PROVE  Hides(t, i, j)
  <2>1. j \in J /\ \A k \in J : k <= j
    BY <1>1, <1>6, <1>7
  <2> QED
    BY <1>3, <2>1 DEF Hides
<1>8. ASSUME Hides(t, i, j)
      PROVE  j = x
  <2>1. j \in J /\ \A k \in J : k <= j
    BY <1>3, <1>4, <1>8 DEF Hides
  <2>2. x \in J /\ j <= x /\ x <= j
    BY <1>6, <2>1
  <2>3. x \in Nat
    BY <1>5, <2>2
  <2> QED
    BY <1>1, <2>2, <2>3
<1> QED
  BY <1>7, <1>8 DEF x

(* Entries I are about to be removed, and those that they hide uncovered.  *)
Uncovers(t, I, u) ==
    /\ u \in Seq(Entries) /\ Len(u) = Len(t)
    /\ \A j \in 1 .. Len(t) :
          /\ Alike(t[j], u[j])
          /\ u[j].hidden <=> t[j].hidden /\ ~\E i \in I : t[i].hiding /\ Hides(t, i, j)

LEMMA UncoverFacts ==
    ASSUME NEW t \in Seq(Entries), NEW I, I \subseteq 1 .. Len(t)
    PROVE  Uncovers(t, I, Uncover(t, I))
<1> DEFINE seen(j) == \E i \in I : t[i].hiding /\ j = HiddenBy(t, i)
           u == [j \in 1 .. Len(t) |-> [t[j] EXCEPT !.hidden = t[j].hidden /\ ~seen(j)]]
<1>1. Uncover(t, I) = u
  BY DEF Uncover
<1>2. Len(t) \in Nat
  OBVIOUS
<1>3. ASSUME NEW j \in 1 .. Len(t)
      PROVE  /\ u[j] \in Entries /\ Alike(t[j], u[j])
             /\ u[j].hidden <=> t[j].hidden /\ ~\E i \in I : t[i].hiding /\ Hides(t, i, j)
  <2> DEFINE b == t[j].hidden /\ ~seen(j)
             f == [t[j] EXCEPT !.hidden = b]
  <2>1. u[j] = f
    OBVIOUS
  <2>2. seen(j) <=> \E i \in I : t[i].hiding /\ Hides(t, i, j)
    BY HiddenByFacts
  <2>3. b \in BOOLEAN
    OBVIOUS
  <2>4. t[j] \in Entries
    OBVIOUS
  <2>5. t[j].private => ~t[j].hidden
    BY <2>4, EntryFacts
  <2>6. t[j].private => ~b
    BY <2>5
  <2>7. f \in Entries /\ Alike(t[j], f) /\ f.hidden = b
    <3> HIDE DEF b
    <3> QED
      BY <2>3, <2>4, <2>6, HiddenEntry
  <2>8. f.hidden <=> t[j].hidden /\ ~seen(j)
    BY <2>7
  <2> HIDE DEF f, seen, u, b
  <2> QED
    BY <2>1, <2>2, <2>7, <2>8
<1>4. u \in Seq(Entries) /\ Len(u) = Len(t)
  <2>1. u = [j \in 1 .. Len(t) |-> u[j]]
    OBVIOUS
  <2> HIDE DEF u
  <2>2. u \in [1 .. Len(t) -> Entries]
    BY <1>3, <2>1
  <2> QED
    BY <1>2, <2>2, AsSeq
<1> HIDE DEF u
<1> QED
  BY <1>1, <1>3, <1>4 DEF Uncovers

(* The entries I include, with an entry, all newer ones of its name.       *)
Upward(t, I) ==
    \A i \in I, j \in 1 .. Len(t) : i < j /\ Akin(t[i], t[j]) => j \in I

(* The entries of r are those of t, but for I and for what is hidden.      *)
Leaves(t, I, r) ==
    /\ \A j \in (1 .. Len(t)) \ I : \E m \in 1 .. Len(r) : Alike(t[j], r[m])
    /\ \A m \in 1 .. Len(r) : \E j \in (1 .. Len(t)) \ I : Alike(t[j], r[m])

NoDeeper(t, I, M) == \A j \in (1 .. Len(t)) \ I : t[j].level <= M

LEMMA UncoveredEntry ==
    ASSUME NEW t \in Seq(Entries), Shadows(t), NEW I, I \subseteq 1 .. Len(t),
           Upward(t, I), NEW j \in (1 .. Len(t)) \ I, ~t[j].private
    PROVE  (t[j].hidden /\ ~\E i \in I : t[i].hiding /\ Hides(t, i, j))
              <=> \E k \in (1 .. Len(t)) \ I : j < k /\ ~t[k].private /\ t[k].name = t[j].name
<1>0. /\ Len(t) \in Nat
      /\ \A i \in 1 .. Len(t) : /\ t[i].hiding \in BOOLEAN /\ t[i].hidden \in BOOLEAN
                                /\ t[i].private \in BOOLEAN
                                /\ t[i].private => ~t[i].hidden /\ ~t[i].hiding
  BY EntryFacts
<1>1. ASSUME NEW k \in (1 .. Len(t)) \ I, j < k, ~t[k].private, t[k].name = t[j].name
      PROVE  t[j].hidden /\ ~\E i \in I : t[i].hiding /\ Hides(t, i, j)
  <2>1. t[j].hidden
    BY <1>1 DEF Shadows, Newer
  <2>2. ASSUME NEW i \in I, t[i].hiding, Hides(t, i, j)
        PROVE  FALSE
    <3>1. ~t[i].private /\ t[i].name = t[j].name
      BY <1>0, <2>2 DEF Hides
    <3>2. k < i
      <4>1. i # k
        BY <1>1
      <4>2. ~(i < k)
        <5> SUFFICES ASSUME i < k
                     PROVE  FALSE
          OBVIOUS
        <5>1. Akin(t[i], t[k])
          BY <1>0, <1>1, <3>1 DEF Akin
        <5> QED
          BY <1>1, <5>1 DEF Upward
      <4> QED
        BY <4>1, <4>2
    <3>3. t[k].hidden
      BY <1>0, <1>1, <3>1, <3>2 DEF Shadows, Newer
    <3>4. k <= j
      BY <1>1, <2>2, <3>1, <3>2, <3>3 DEF Hides
    <3> QED
      BY <1>1, <3>4
  <2> QED
    BY <2>1, <2>2
<1>2. ASSUME t[j].hidden, ~\E i \in I : t[i].hiding /\ Hides(t, i, j),
             ~\E k \in (1 .. Len(t)) \ I : j < k /\ ~t[k].private /\ t[k].name = t[j].name
      PROVE  FALSE
  <2> DEFINE T == {k \in 1 .. Len(t) : j < k /\ ~t[k].private /\ t[k].name = t[j].name}
  <2>1. T # {}
    <3>1. Newer(t, j)
      BY <1>2 DEF Shadows
    <3> QED
      BY <3>1 DEF Newer
  <2>2. T \subseteq Nat
    OBVIOUS
  <2>3. \A k \in 1 .. Len(t) : k \in T <=> j < k /\ ~t[k].private /\ t[k].name = t[j].name
    OBVIOUS
  <2>4. T \subseteq 1 .. Len(t)
    OBVIOUS
  <2> HIDE DEF T
  <2>5. PICK i \in T : \A k \in T : i <= k
    BY <2>1, <2>2, LeastElement
  <2>6. i \in 1 .. Len(t) /\ j < i /\ ~t[i].private /\ t[i].name = t[j].name
    BY <2>3, <2>4
  <2>7. i \in I
    BY <1>2, <2>6
  <2>8. t[i].hiding
    BY <2>6 DEF Shadows, Older
  <2>9. ASSUME NEW k \in 1 .. Len(t), k < i, t[k].hidden, t[k].name = t[i].name
        PROVE  k <= j
    <3>1. ~t[k].private
      BY <1>0, <2>9
    <3>2. k \notin T
      BY <2>5, <2>6, <2>9
    <3> QED
      BY <2>3, <2>6, <2>9, <3>1, <3>2
  <2>10. Hides(t, i, j)
    BY <1>2, <2>6, <2>9 DEF Hides
  <2> QED
    BY <1>2, <2>7, <2>8, <2>10
<1> QED
  BY <1>1, <1>2

LEMMA TableWithout ==
    ASSUME NEW t, NEW L, Table(t, L), NEW I, I \subseteq 1 .. Len(t), Upward(t, I),
           NEW M \in Int, NoDeeper(t, I, M), NEW r, r = Without(Uncover(t, I), I)
    PROVE  Table(r, M) /\ Leaves(t, I, r)
<1> DEFINE u == Uncover(t, I)
<1>1. t \in Seq(Entries) /\ Sorted(t, L) /\ Shadows(t)
  BY DEF Table
<1>2. Uncovers(t, I, u)
  BY <1>1, UncoverFacts
<1>3. r = Without(u, I)
  OBVIOUS
<1> HIDE DEF u
<1>4. u \in Seq(Entries) /\ Len(u) = Len(t) /\ Len(t) \in Nat
  BY <1>1, <1>2 DEF Uncovers
<1>5. r \in Seq(Entries)
  BY <1>3, <1>4, WithoutPicks
<1>6. PICK src : Picks(src, r, u, I)
  BY <1>3, <1>4, WithoutPicks
<1>7. /\ \A m \in 1 .. Len(r) : src[m] \in (1 .. Len(t)) \ I /\ r[m] = u[src[m]]
      /\ \A m, n \in 1 .. Len(r) : m < n <=> src[m] < src[n]
      /\ \A i \in (1 .. Len(t)) \ I : \E m \in 1 .. Len(r) : src[m] = i
  BY <1>4, <1>6 DEF Picks
<1>8. \A j \in 1 .. Len(t) : Alike(t[j], u[j])
  BY <1>2 DEF Uncovers
<1>9. \A m \in 1 .. Len(r) : src[m] \in (1 .. Len(t)) \ I /\ Alike(t[src[m]], r[m])
  BY <1>7, <1>8
<1>10. Leaves(t, I, r)
  <2>1. ASSUME NEW j \in (1 .. Len(t)) \ I
        PROVE  \E m \in 1 .. Len(r) : Alike(t[j], r[m])
    BY <1>7, <1>9
  <2>2. ASSUME NEW m \in 1 .. Len(r)
        PROVE  \E j \in (1 .. Len(t)) \ I : Alike(t[j], r[m])
    BY <1>9
  <2> QED
    BY <2>1, <2>2 DEF Leaves
<1>11. \A m, n \in 1 .. Len(r) : m < n => src[m] < src[n]
  BY <1>7
<1>12. Len(r) \in Nat
  BY <1>5
<1>13. Sorted(r, M)
  <2>1. ASSUME NEW m \in 1 .. Len(r)
        PROVE  r[m].level <= M
    BY <1>9 DEF Alike, NoDeeper
  <2>2. ASSUME NEW m \in 1 .. Len(r), NEW n \in 1 .. Len(r), m < n,
               r[m].level # GlobalLevel, r[n].level # GlobalLevel
        PROVE  r[m].level <= r[n].level
    <3>1. /\ src[m] \in 1 .. Len(t) /\ src[n] \in 1 .. Len(t) /\ src[m] < src[n]
          /\ Alike(t[src[m]], r[m]) /\ Alike(t[src[n]], r[n])
      BY <1>9, <1>11, <2>2
    <3> DEFINE i == src[m]
               j == src[n]
    <3>2. r[m].level = t[i].level /\ r[n].level = t[j].level
      BY <3>1 DEF Alike
    <3> HIDE DEF i, j
    <3>3. t[i].level <= t[j].level
      <4>1. i \in 1 .. Len(t) /\ j \in 1 .. Len(t) /\ i < j
        BY <3>1 DEF i, j
      <4> QED
        BY <1>1, <2>2, <3>2, <4>1 DEF Sorted
    <3> QED
      BY <3>2, <3>3
  <2>3. ASSUME NEW m \in 1 .. Len(r), NEW n \in 1 .. Len(r), m < n, Akin(r[m], r[n])
        PROVE  r[m].level < r[n].level
    <3>1. /\ src[m] \in 1 .. Len(t) /\ src[n] \in 1 .. Len(t) /\ src[m] < src[n]
          /\ Alike(t[src[m]], r[m]) /\ Alike(t[src[n]], r[n])
      BY <1>9, <1>11, <2>3
    <3> DEFINE i == src[m]
               j == src[n]
    <3>2. Akin(t[i], t[j]) /\ r[m].level = t[i].level /\ r[n].level = t[j].level
      BY <2>3, <3>1 DEF Alike, Akin
    <3> HIDE DEF i, j
    <3>3. t[i].level < t[j].level
      <4>1. i \in 1 .. Len(t) /\ j \in 1 .. Len(t) /\ i < j
        BY <3>1 DEF i, j
      <4> QED
        BY <1>1, <3>2, <4>1 DEF Sorted
    <3> QED
      BY <3>2, <3>3
  <2> QED
    BY <2>1, <2>2, <2>3 DEF Sorted
<1>14. ASSUME NEW m \in 1 .. Len(r), ~r[m].private
       PROVE  r[m].hiding <=> Older(r, m)
  <2> DEFINE j == src[m]
  <2>1. j \in 1 .. Len(t) /\ j \notin I /\ Alike(t[j], r[m]) /\ ~t[j].private
    BY <1>9, <1>14 DEF Alike
  <2> HIDE DEF j
  <2>2. r[m].hiding <=> Older(t, j)
    BY <1>1, <2>1 DEF Alike, Shadows
  <2>3. ASSUME Older(t, j)
        PROVE  Older(r, m)
    <3>1. PICK k \in 1 .. Len(t) : k < j /\ ~t[k].private /\ t[k].name = t[j].name
      BY <2>3 DEF Older
    <3>2. k \notin I
      <4>1. t[k].private = t[j].private
        <5>1. t[k].private \in BOOLEAN /\ t[j].private \in BOOLEAN
          BY <1>1, <2>1, EntryFacts
        <5> QED
          BY <2>1, <3>1, <5>1
      <4>2. Akin(t[k], t[j])
        BY <3>1, <4>1 DEF Akin
      <4> QED
        BY <2>1, <3>1, <4>2 DEF Upward
    <3>3. PICK n \in 1 .. Len(r) : src[n] = k
      BY <1>7, <3>2
    <3>4. n < m
      BY <1>7, <3>1, <3>3 DEF j
    <3>5. ~r[n].private /\ r[n].name = r[m].name
      BY <1>9, <2>1, <3>1, <3>3 DEF Alike
    <3> QED
      BY <3>4, <3>5 DEF Older
  <2>4. ASSUME Older(r, m)
        PROVE  Older(t, j)
    <3>1. PICK n \in 1 .. Len(r) : n < m /\ ~r[n].private /\ r[n].name = r[m].name
      BY <2>4 DEF Older
    <3>2. src[n] \in 1 .. Len(t) /\ src[n] < j /\ ~t[src[n]].private /\ t[src[n]].name = t[j].name
      BY <1>9, <1>11, <2>1, <3>1 DEF Alike, j
    <3> QED
      BY <3>2 DEF Older
  <2> QED
    BY <2>2, <2>3, <2>4
<1>15. ASSUME NEW m \in 1 .. Len(r), ~r[m].private
       PROVE  r[m].hidden <=> Newer(r, m)
  <2> DEFINE j == src[m]
  <2>1. j \in 1 .. Len(t) /\ j \notin I /\ Alike(t[j], r[m]) /\ ~t[j].private /\ r[m] = u[j]
    BY <1>7, <1>9, <1>15 DEF Alike
  <2> HIDE DEF j
  <2>2. r[m].hidden <=> t[j].hidden /\ ~\E i \in I : t[i].hiding /\ Hides(t, i, j)
    BY <1>2, <2>1 DEF Uncovers
  <2>3. r[m].hidden
           <=> \E k \in (1 .. Len(t)) \ I : j < k /\ ~t[k].private /\ t[k].name = t[j].name
    BY <1>1, <2>1, <2>2, UncoveredEntry
  <2>4. ASSUME NEW k \in (1 .. Len(t)) \ I, j < k, ~t[k].private, t[k].name = t[j].name
        PROVE  Newer(r, m)
    <3>3. PICK n \in 1 .. Len(r) : src[n] = k
      BY <1>7
    <3>4. m < n
      BY <1>7, <2>4, <3>3 DEF j
    <3>5. ~r[n].private /\ r[n].name = r[m].name
      BY <1>9, <2>1, <2>4, <3>3 DEF Alike
    <3> QED
      BY <3>4, <3>5 DEF Newer
  <2>5. ASSUME Newer(r, m)
        PROVE  \E k \in (1 .. Len(t)) \ I : j < k /\ ~t[k].private /\ t[k].name = t[j].name
    <3>1. PICK n \in 1 .. Len(r) : n > m /\ ~r[n].private /\ r[n].name = r[m].name
      BY <2>5 DEF Newer
    <3>2. /\ src[n] \in (1 .. Len(t)) \ I /\ j < src[n]
          /\ ~t[src[n]].private /\ t[src[n]].name = t[j].name
      BY <1>9, <1>11, <2>1, <3>1 DEF Alike, j
    <3> QED
      BY <3>2
  <2> QED
    BY <2>3, <2>4, <2>5
<1>16. Shadows(r)
  BY <1>14, <1>15 DEF Shadows
<1> QED
  BY <1>5, <1>10, <1>13, <1>16 DEF Table

-----------------------------------------------------------------------------
(* What the rest of the program relies on                                  *)
HasVar(t, n, l) ==
    \E i \in 1 .. Len(t) : ~t[i].private /\ t[i].name = n /\ t[i].level = l

HasPrivate(t, n, l) ==
    \E i \in 1 .. Len(t) : t[i].private /\ t[i].name = n /\ t[i].level = l

(* A saved pointer is to a variable of a lower level, which exists if it   *)
(* is a local one.                                                         *)
PointsDown(t, e) ==
    /\ e.val.level < e.level
    /\ e.val.level # GlobalLevel => HasVar(t, e.val.name, e.val.level)

MatsPoint(t) ==
    \A i \in 1 .. Len(t) : t[i].private /\ t[i].name = "MAT" => PointsDown(t, t[i])

(* No entry that stays is deeper than a local that goes.                   *)
Deepest(t, I) ==
    \A i \in I : \/ t[i].private \/ t[i].level = GlobalLevel
                 \/ \A j \in (1 .. Len(t)) \ I : t[j].level <= t[i].level

LEMMA LeavesVar ==
    ASSUME NEW t, NEW I, NEW r, Leaves(t, I, r), NEW n, NEW l
    PROVE  /\ HasVar(r, n, l) <=>
                 \E i \in (1 .. Len(t)) \ I : ~t[i].private /\ t[i].name = n /\ t[i].level = l
           /\ HasPrivate(r, n, l) <=>
                 \E i \in (1 .. Len(t)) \ I : t[i].private /\ t[i].name = n /\ t[i].level = l
<1>1. ASSUME NEW i \in (1 .. Len(t)) \ I
      PROVE  \E m \in 1 .. Len(r) : r[m].name = t[i].name /\ r[m].level = t[i].level
                                    /\ r[m].private = t[i].private
  BY DEF Leaves, Alike
<1>2. ASSUME NEW m \in 1 .. Len(r)
      PROVE  \E i \in (1 .. Len(t)) \ I : r[m].name = t[i].name /\ r[m].level = t[i].level
                                          /\ r[m].private = t[i].private
  BY DEF Leaves, Alike
<1>3. /\ HasVar(r, n, l) <=>
            \E i \in (1 .. Len(t)) \ I : ~t[i].private /\ t[i].name = n /\ t[i].level = l
  <2>1. ASSUME NEW i \in (1 .. Len(t)) \ I, ~t[i].private, t[i].name = n, t[i].level = l
        PROVE  HasVar(r, n, l)
    BY <1>1, <2>1 DEF HasVar
  <2>2. ASSUME HasVar(r, n, l)
        PROVE  \E i \in (1 .. Len(t)) \ I : ~t[i].private /\ t[i].name = n /\ t[i].level = l
    <3>1. PICK m \in 1 .. Len(r) : ~r[m].private /\ r[m].name = n /\ r[m].level = l
      BY <2>2 DEF HasVar
    <3> QED
      BY <1>2, <3>1
  <2> QED
    BY <2>1, <2>2
<1>4. HasPrivate(r, n, l) <=>
            \E i \in (1 .. Len(t)) \ I : t[i].private /\ t[i].name = n /\ t[i].level = l
  <2>1. ASSUME NEW i \in (1 .. Len(t)) \ I, t[i].private, t[i].name = n, t[i].level = l
        PROVE  HasPrivate(r, n, l)
    BY <1>1, <2>1 DEF HasPrivate
  <2>2. ASSUME HasPrivate(r, n, l)
        PROVE  \E i \in (1 .. Len(t)) \ I : t[i].private /\ t[i].name = n /\ t[i].level = l
    <3>1. PICK m \in 1 .. Len(r) : r[m].private /\ r[m].name = n /\ r[m].level = l
      BY <2>2 DEF HasPrivate
    <3> QED
      BY <1>2, <3>1
  <2> QED
    BY <2>1, <2>2
<1> QED
  BY <1>3, <1>4

LEMMA LeavesMats ==
    ASSUME NEW t \in Seq(Entries), NEW I, NEW r, Leaves(t, I, r), MatsPoint(t), Deepest(t, I)
    PROVE  MatsPoint(r)
<1> SUFFICES ASSUME NEW m \in 1 .. Len(r), r[m].private, r[m].name = "MAT"
             PROVE  PointsDown(r, r[m])
  BY DEF MatsPoint
<1>1. PICK j \in (1 .. Len(t)) \ I : Alike(t[j], r[m])
  BY DEF Leaves
<1>2. t[j].private /\ t[j].name = "MAT" /\ r[m].val = t[j].val /\ r[m].level = t[j].level
  BY <1>1 DEF Alike
<1> DEFINE v == t[j].val
           l == t[j].level
<1>3. v.level < l /\ (v.level # GlobalLevel => HasVar(t, v.name, v.level))
  BY <1>2 DEF MatsPoint, PointsDown
<1>4. r[m].val.level = v.level /\ r[m].val.name = v.name /\ r[m].level = l
  BY <1>2
<1>5. l \in Int /\ t[j] \in Entries /\ l <= MaxLevel
  BY EntryFacts
<1>6. ASSUME v.level # GlobalLevel
      PROVE  HasVar(r, v.name, v.level)
  <2>1. PICK i \in 1 .. Len(t) : ~t[i].private /\ t[i].name = v.name /\ t[i].level = v.level
    BY <1>3, <1>6 DEF HasVar
  <2>2. i \notin I
    <3>1. t[i].level # GlobalLevel /\ t[i].level < l
      BY <1>3, <1>6, <2>1
    <3>2. t[i].level \in Int
      BY EntryFacts
    <3>3. ~(l <= t[i].level)
      BY <1>5, <3>1, <3>2
    <3> QED
      BY <2>1, <3>1, <3>3 DEF Deepest
  <2>3. \E i1 \in (1 .. Len(t)) \ I : ~t[i1].private /\ t[i1].name = v.name /\ t[i1].level = v.level
    BY <2>1, <2>2
  <2> HIDE DEF v
  <2> QED
    BY <2>3, LeavesVar
<1> HIDE DEF v, l
<1> QED
  BY <1>3, <1>4, <1>6 DEF PointsDown

-----------------------------------------------------------------------------
(* Looking up variables                                                    *)
LEMMA LookupVarFacts ==
    ASSUME NEW t \in Seq(Entries), Shadows(t), NEW n, NEW i, i = LookupVar(t, n)
    PROVE  /\ i = 0 => \A j \in 1 .. Len(t) : ~t[j].private => t[j].name # n
           /\ i # 0 => /\ i \in 1 .. Len(t) /\ ~t[i].private /\ t[i].name = n
                       /\ \A j \in 1 .. Len(t) : ~t[j].private /\ t[j].name = n => j <= i
           /\ i \in 0 .. Len(t)
<1> DEFINE J == {j \in DOMAIN t : t[j].name = n /\ ~t[j].hidden /\ ~t[j].private}
           K == {j \in 1 .. Len(t) : t[j].name = n /\ ~t[j].private}
<1>1. Len(t) \in Nat /\ DOMAIN t = 1 .. Len(t) /\ IsFiniteSet(1 .. Len(t))
  BY FS_Interval
<1>2. \A j \in 1 .. Len(t) : t[j].hidden \in BOOLEAN
  BY EntryFacts
<1>3. /\ \A j \in 1 .. Len(t) : j \in K <=> t[j].name = n /\ ~t[j].private
      /\ \A j \in 1 .. Len(t) : j \in J <=> t[j].name = n /\ ~t[j].private /\ ~t[j].hidden
      /\ J \subseteq 1 .. Len(t) /\ K \subseteq 1 .. Len(t)
  BY <1>1
<1>4. i = LastOf(J)
  BY DEF LookupVar
<1> HIDE DEF J, K
<1>5. IsFiniteSet(J) /\ IsFiniteSet(K) /\ J \subseteq Nat \ {0} /\ K \subseteq Nat \ {0}
  <2>1. IsFiniteSet(J) /\ IsFiniteSet(K)
    BY <1>1, <1>3, FS_Subset
  <2> QED
    BY <1>1, <1>3, <2>1
<1>6. /\ J = {} => i = 0
      /\ J # {} => i \in J
  BY <1>4, <1>5, LastOfFacts
<1>7. K # {} => LastOf(K) \in K /\ \A j \in K : j <= LastOf(K)
  BY <1>5, LastOfFacts
<1>8. ASSUME NEW k \in J
      PROVE  \A j \in K : j <= k
  <2>1. ~Newer(t, k)
    BY <1>3, <1>8 DEF Shadows
  <2>2. ASSUME NEW j \in K
        PROVE  ~(k < j)
    BY <1>3, <2>1 DEF Newer
  <2> QED
    BY <1>5, <2>2
<1>9. K # {} => J # {}
  <2> SUFFICES ASSUME K # {}
               PROVE  LastOf(K) \in J
    OBVIOUS
  <2> DEFINE k == LastOf(K)
  <2>1. k \in K /\ \A j \in K : j <= k
    BY <1>7
  <2> HIDE DEF k
  <2>2. ~Newer(t, k)
    <3> SUFFICES ASSUME Newer(t, k)
                 PROVE  FALSE
      OBVIOUS
    <3>1. PICK j \in 1 .. Len(t) : j > k /\ ~t[j].private /\ t[j].name = t[k].name
      BY DEF Newer
    <3>2. j \in K
      BY <1>3, <2>1, <3>1
    <3>3. j <= k /\ k \in Nat /\ j \in Nat
      BY <1>5, <2>1, <3>2
    <3> QED
      BY <3>1, <3>3
  <2>3. ~t[k].hidden
    BY <1>3, <2>1, <2>2 DEF Shadows
  <2> QED
    BY <1>3, <2>1, <2>3 DEF k
<1>10. CASE J = {}
  <2>1. i = 0 /\ K = {}
    BY <1>6, <1>9, <1>10
  <2> QED
    BY <1>1, <1>3, <2>1
<1>11. CASE J # {}
  <2>1. i \in J /\ \A j \in K : j <= i
    BY <1>6, <1>8, <1>11
  <2>2. i # 0 /\ i \in 1 .. Len(t)
    BY <1>3, <1>5, <2>1
  <2> QED
    BY <1>1, <1>3, <2>1, <2>2
<1> QED
  BY <1>10, <1>11

LEMMA FromLevelFacts ==
    ASSUME NEW t, NEW L \in Nat, Table(t, L)
    PROVE  FromLevel(t, L) = {i \in 1 .. Len(t) : t[i].level = L}
<1>1. t \in Seq(Entries) /\ Sorted(t, L)
  BY DEF Table
<1>2. Len(t) \in Nat /\ DOMAIN t = 1 .. Len(t)
  BY <1>1
<1>3. \A i \in 1 .. Len(t) : t[i].level \in Int /\ t[i].level <= L
  BY <1>1, EntryFacts DEF Sorted
<1>4. L # GlobalLevel
  BY DEF GlobalLevel
<1>5. ASSUME NEW i \in 1 .. Len(t), t[i].level = L
      PROVE  \A j \in i .. Len(t) : t[j].level = GlobalLevel \/ t[j].level >= L
  <2> SUFFICES ASSUME NEW j \in i .. Len(t), t[j].level # GlobalLevel
               PROVE  t[j].level >= L
    OBVIOUS
  <2>1. j \in 1 .. Len(t) /\ (j = i \/ i < j)
    OBVIOUS
  <2>2. i < j => t[i].level <= t[j].level
    BY <1>1, <1>4, <1>5, <2>1 DEF Sorted
  <2> QED
    BY <1>3, <1>5, <2>1, <2>2
<1>6. ASSUME NEW i \in 1 .. Len(t), t[i].level # GlobalLevel,
             \A j \in i .. Len(t) : t[j].level = GlobalLevel \/ t[j].level >= L
      PROVE  t[i].level = L
  <2>1. i \in i .. Len(t)
    BY <1>2
  <2>2. t[i].level >= L
    BY <1>6, <2>1
  <2> QED
    BY <1>3, <2>2
<1>7. ASSUME NEW i \in 1 .. Len(t)
      PROVE  (/\ t[i].level # GlobalLevel
              /\ \A j \in i .. Len(t) : t[j].level = GlobalLevel \/ t[j].level >= L)
                <=> t[i].level = L
  BY <1>4, <1>5, <1>6
<1> QED
  BY <1>2, <1>7 DEF FromLevel

LEMMA LookupPrivateFacts ==
    ASSUME NEW t, NEW L \in Nat, Table(t, L), NEW n, NEW i, i = LookupPrivate(t, n, L)
    PROVE  /\ i = 0 <=> ~HasPrivate(t, n, L)
           /\ i # 0 => i \in 1 .. Len(t) /\ t[i].private /\ t[i].name = n /\ t[i].level = L
<1> DEFINE J == {j \in FromLevel(t, L) : t[j].private /\ t[j].name = n}
<1>1. t \in Seq(Entries) /\ Len(t) \in Nat /\ IsFiniteSet(1 .. Len(t))
  BY FS_Interval DEF Table
<1>2. i = LastOf(J)
  BY DEF LookupPrivate
<1>3. /\ \A j \in 1 .. Len(t) : j \in J <=> t[j].private /\ t[j].name = n /\ t[j].level = L
      /\ J \subseteq 1 .. Len(t)
  BY FromLevelFacts
<1> HIDE DEF J
<1>4. IsFiniteSet(J) /\ J \subseteq Nat \ {0}
  BY <1>1, <1>3, FS_Subset
<1>5. /\ J = {} => i = 0
      /\ J # {} => i \in J
      /\ i # 0 <=> J # {}
  BY <1>2, <1>4, LastOfFacts
<1>6. HasPrivate(t, n, L) <=> J # {}
  BY <1>3 DEF HasPrivate
<1> QED
  BY <1>3, <1>5, <1>6

-----------------------------------------------------------------------------
(* A new entry, which may hide another                                     *)
Covers(t, e, u) ==
    /\ u \in Seq(Entries) /\ Len(u) = Len(t)
    /\ \A j \in 1 .. Len(t) :
          /\ Alike(t[j], u[j])
          /\ u[j].hidden <=> t[j].hidden \/ (~e.private /\ ~t[j].private /\ t[j].name = e.name)

Fits(t, e, L) ==
    /\ e \in Entries /\ ~e.hidden
    /\ e.level = GlobalLevel \/ e.level = L
    /\ \A j \in 1 .. Len(t) : Akin(t[j], e) => t[j].level < e.level
    /\ ~e.private =>
         (e.hiding <=> \E j \in 1 .. Len(t) : ~t[j].private /\ t[j].name = e.name)

Adds(t, e, r) ==
    /\ \A n, l : HasVar(r, n, l) <=> HasVar(t, n, l) \/ (~e.private /\ e.name = n /\ e.level = l)
    /\ \A n, l : HasPrivate(r, n, l)
                    <=> HasPrivate(t, n, l) \/ (e.private /\ e.name = n /\ e.level = l)

LEMMA TableAppend ==
    ASSUME NEW t, NEW L \in Nat, Table(t, L), NEW e, Fits(t, e, L),
           NEW u, Covers(t, e, u), NEW r, r = Append(u, e)
    PROVE  /\ Table(r, L) /\ Adds(t, e, r)
           /\ MatsPoint(t) /\ (e.private /\ e.name = "MAT" => PointsDown(t, e)) => MatsPoint(r)
<1> DEFINE N == Len(t)
<1>1. t \in Seq(Entries) /\ Sorted(t, L) /\ Shadows(t)
  BY DEF Table
<1>2. u \in Seq(Entries) /\ Len(u) = N /\ N \in Nat
  BY <1>1 DEF Covers
<1>3. e \in Entries
  BY DEF Fits
<1>4. /\ r \in Seq(Entries) /\ Len(r) = N + 1
      /\ \A i \in 1 .. N : r[i] = u[i]
      /\ r[N + 1] = e
  BY <1>2, <1>3
<1>5. \A i \in 1 .. N : i # N + 1 /\ i \in 1 .. (N + 1) /\ i \in Nat /\ i < N + 1
  BY <1>2
<1>6. \A i \in 1 .. (N + 1) : i \in 1 .. N \/ i = N + 1
  BY <1>2
<1>7. N + 1 \in 1 .. (N + 1)
  BY <1>2
<1>8. \A j \in 1 .. N :
         /\ Alike(t[j], r[j])
         /\ r[j].hidden <=> t[j].hidden \/ (~e.private /\ ~t[j].private /\ t[j].name = e.name)
  BY <1>4 DEF Covers
<1>9. \A j \in 1 .. N :
         /\ r[j].name = t[j].name /\ r[j].level = t[j].level /\ r[j].private = t[j].private
         /\ r[j].hiding = t[j].hiding /\ r[j].val = t[j].val
  BY <1>8 DEF Alike
<1>10. \A j \in 1 .. N :
         /\ t[j].level \in Int /\ t[j].level <= L
         /\ t[j].private \in BOOLEAN
  BY <1>1, EntryFacts DEF Sorted
<1>11. /\ e.level \in Int /\ e.level <= L /\ e.private \in BOOLEAN
       /\ e.level = GlobalLevel \/ e.level = L
       /\ \A j \in 1 .. N : Akin(t[j], e) => t[j].level < e.level
       /\ ~e.hidden
  <2>1. e.level \in Int /\ e.private \in BOOLEAN
    BY <1>3, EntryFacts
  <2> QED
    BY <2>1 DEF Fits, GlobalLevel
<1>12. ~e.private =>
         (e.hiding <=> \E j \in 1 .. N : ~t[j].private /\ t[j].name = e.name)
  BY DEF Fits
<1> HIDE DEF N
<1>13. \A i, j \in 1 .. (N + 1) : i < j => i \in 1 .. N
  BY <1>2
<1>14. Sorted(r, L)
  <2>1. ASSUME NEW i \in 1 .. Len(r)
        PROVE  r[i].level <= L
    BY <1>4, <1>6, <1>9, <1>10, <1>11
  <2>2. ASSUME NEW i \in 1 .. Len(r), NEW j \in 1 .. Len(r), i < j,
               r[i].level # GlobalLevel, r[j].level # GlobalLevel
        PROVE  r[i].level <= r[j].level
    <3>1. i \in 1 .. N
      BY <1>4, <1>13, <2>2
    <3>2. CASE j \in 1 .. N
      <4>1. t[i].level <= t[j].level
        BY <1>1, <1>9, <2>2, <3>1, <3>2 DEF Sorted, N
      <4> QED
        BY <1>9, <3>1, <3>2, <4>1
    <3>3. CASE j = N + 1
      BY <1>4, <1>9, <1>10, <1>11, <2>2, <3>1, <3>3
    <3> QED
      BY <1>4, <1>6, <3>2, <3>3
  <2>3. ASSUME NEW i \in 1 .. Len(r), NEW j \in 1 .. Len(r), i < j, Akin(r[i], r[j])
        PROVE  r[i].level < r[j].level
    <3>1. i \in 1 .. N
      BY <1>4, <1>13, <2>3
    <3>2. CASE j \in 1 .. N
      <4>1. Akin(t[i], t[j])
        BY <1>9, <2>3, <3>1, <3>2 DEF Akin
      <4>2. t[i].level < t[j].level
        BY <1>1, <2>3, <3>1, <3>2, <4>1 DEF Sorted, N
      <4> QED
        BY <1>9, <3>1, <3>2, <4>2
    <3>3. CASE j = N + 1
      <4>1. Akin(t[i], e)
        BY <1>4, <1>9, <2>3, <3>1, <3>3 DEF Akin
      <4> QED
        BY <1>4, <1>9, <1>11, <3>1, <3>3, <4>1
    <3> QED
      BY <1>4, <1>6, <3>2, <3>3
  <2> QED
    BY <2>1, <2>2, <2>3 DEF Sorted
<1>15. ASSUME NEW i \in 1 .. Len(r), ~r[i].private
       PROVE  (r[i].hiding <=> Older(r, i)) /\ (r[i].hidden <=> Newer(r, i))
  <2>1. CASE i \in 1 .. N
    <3>1. /\ t[i].hiding <=> Older(t, i)
          /\ t[i].hidden <=> Newer(t, i)
      BY <1>1, <1>9, <1>15, <2>1 DEF Shadows, N
    <3>2. Older(t, i) <=> Older(r, i)
      <4>1. ASSUME Older(t, i)
            PROVE  Older(r, i)
        BY <1>4, <1>5, <1>9, <2>1, <4>1 DEF Older, N
      <4>2. ASSUME Older(r, i)
            PROVE  Older(t, i)
        <5>1. PICK j \in 1 .. Len(r) : j < i /\ ~r[j].private /\ r[j].name = r[i].name
          BY <4>2 DEF Older
        <5>2. j \in 1 .. N
          BY <1>4, <1>13, <5>1
        <5> QED
          BY <1>9, <2>1, <5>1, <5>2 DEF Older, N
      <4> QED
        BY <4>1, <4>2
    <3>3. Newer(r, i) <=> Newer(t, i) \/ (~e.private /\ t[i].name = e.name)
      <4>1. ASSUME Newer(t, i)
            PROVE  Newer(r, i)
        BY <1>4, <1>5, <1>9, <2>1, <4>1 DEF Newer, N
      <4>2. ASSUME ~e.private, t[i].name = e.name
            PROVE  Newer(r, i)
        BY <1>4, <1>5, <1>7, <1>9, <2>1, <4>2 DEF Newer
      <4>3. ASSUME Newer(r, i)
            PROVE  Newer(t, i) \/ (~e.private /\ t[i].name = e.name)
        <5>1. PICK j \in 1 .. Len(r) : j > i /\ ~r[j].private /\ r[j].name = r[i].name
          BY <4>3 DEF Newer
        <5>2. CASE j \in 1 .. N
          BY <1>9, <2>1, <5>1, <5>2 DEF Newer, N
        <5>3. CASE j = N + 1
          BY <1>4, <1>9, <2>1, <5>1, <5>3
        <5> QED
          BY <1>4, <1>6, <5>2, <5>3
      <4> QED
        BY <4>1, <4>2, <4>3
    <3>4. ~t[i].private
      BY <1>9, <1>15, <2>1
    <3>5. r[i].hidden <=> t[i].hidden \/ (~e.private /\ t[i].name = e.name)
      BY <1>8, <2>1, <3>4
    <3>6. r[i].hiding = t[i].hiding
      BY <1>9, <2>1
    <3> QED
      BY <3>1, <3>2, <3>3, <3>5, <3>6
  <2>2. CASE i = N + 1
    <3>1. r[i] = e
      BY <1>4, <2>2
    <3>2. ~Newer(r, i)
      <4> SUFFICES ASSUME NEW j \in 1 .. Len(r), j > i
                   PROVE  FALSE
        BY DEF Newer
      <4> QED
        BY <1>2, <1>4, <2>2
    <3>3. Older(r, i) <=> \E j \in 1 .. N : ~t[j].private /\ t[j].name = e.name
      <4>1. ASSUME NEW j \in 1 .. N, ~t[j].private, t[j].name = e.name
            PROVE  Older(r, i)
        BY <1>4, <1>5, <1>9, <2>2, <3>1, <4>1 DEF Older
      <4>2. ASSUME Older(r, i)
            PROVE  \E j \in 1 .. N : ~t[j].private /\ t[j].name = e.name
        <5>1. PICK j \in 1 .. Len(r) : j < i /\ ~r[j].private /\ r[j].name = r[i].name
          BY <4>2 DEF Older
        <5>2. j \in 1 .. N
          BY <1>4, <1>13, <5>1
        <5> QED
          BY <1>9, <3>1, <5>1, <5>2
      <4> QED
        BY <4>1, <4>2
    <3>4. e.hiding <=> \E j \in 1 .. N : ~t[j].private /\ t[j].name = e.name
      BY <1>12, <1>15, <3>1
    <3> QED
      BY <1>11, <3>1, <3>2, <3>3, <3>4
  <2> QED
    BY <1>4, <1>6, <2>1, <2>2
<1>16. Shadows(r)
  BY <1>15 DEF Shadows
<1>17. Adds(t, e, r)
  <2> SUFFICES ASSUME NEW n, NEW l
               PROVE  /\ HasVar(r, n, l)
                            <=> HasVar(t, n, l) \/ (~e.private /\ e.name = n /\ e.level = l)
                      /\ HasPrivate(r, n, l)
                            <=> HasPrivate(t, n, l) \/ (e.private /\ e.name = n /\ e.level = l)
    BY DEF Adds
  <2>1. ASSUME HasVar(t, n, l)
        PROVE  HasVar(r, n, l)
    BY <1>4, <1>5, <1>9, <2>1 DEF HasVar, N
  <2>2. ASSUME ~e.private /\ e.name = n /\ e.level = l
        PROVE  HasVar(r, n, l)
    BY <1>4, <1>7, <2>2 DEF HasVar
  <2>3. ASSUME HasVar(r, n, l)
        PROVE  HasVar(t, n, l) \/ (~e.private /\ e.name = n /\ e.level = l)
    <3>1. PICK i \in 1 .. Len(r) : ~r[i].private /\ r[i].name = n /\ r[i].level = l
      BY <2>3 DEF HasVar
    <3>2. i \in 1 .. N => HasVar(t, n, l)
      BY <1>9, <3>1 DEF HasVar, N
    <3> QED
      BY <1>4, <1>6, <3>1, <3>2
  <2>4. ASSUME HasPrivate(t, n, l)
        PROVE  HasPrivate(r, n, l)
    <3>1. PICK i \in 1 .. N : t[i].private /\ t[i].name = n /\ t[i].level = l
      BY <2>4 DEF HasPrivate, N
    <3>2. r[i].private /\ r[i].name = n /\ r[i].level = l
      BY <1>9, <3>1
    <3> QED
      BY <1>4, <1>5, <3>2 DEF HasPrivate
  <2>5. ASSUME e.private /\ e.name = n /\ e.level = l
        PROVE  HasPrivate(r, n, l)
    BY <1>4, <1>7, <2>5 DEF HasPrivate
  <2>6. ASSUME HasPrivate(r, n, l)
        PROVE  HasPrivate(t, n, l) \/ (e.private /\ e.name = n /\ e.level = l)
    <3>1. PICK i \in 1 .. Len(r) : r[i].private /\ r[i].name = n /\ r[i].level = l
      BY <2>6 DEF HasPrivate
    <3>2. ASSUME i \in 1 .. N
          PROVE  HasPrivate(t, n, l)
      <4>1. t[i].private /\ t[i].name = n /\ t[i].level = l
        BY <1>9, <3>1, <3>2
      <4> QED
        BY <3>2, <4>1 DEF HasPrivate, N
    <3> QED
      BY <1>4, <1>6, <3>1, <3>2
  <2> QED
    BY <2>1, <2>2, <2>3, <2>4, <2>5, <2>6
<1>18. ASSUME MatsPoint(t), e.private /\ e.name = "MAT" => PointsDown(t, e)
       PROVE  MatsPoint(r)
  <2> SUFFICES ASSUME NEW i \in 1 .. Len(r), r[i].private, r[i].name = "MAT"
               PROVE  PointsDown(r, r[i])
    BY DEF MatsPoint
  <2>1. \A n, l : HasVar(t, n, l) => HasVar(r, n, l)
    BY <1>17 DEF Adds
  <2>2. CASE i \in 1 .. N
    <3>1. PointsDown(t, t[i])
      <4>1. t[i].private /\ t[i].name = "MAT"
        BY <1>9, <2>2
      <4> QED
        BY <1>18, <2>2, <4>1 DEF MatsPoint, N
    <3>2. r[i].level = t[i].level /\ r[i].val = t[i].val
      BY <1>9, <2>2
    <3> QED
      BY <2>1, <3>1, <3>2 DEF PointsDown
  <2>3. CASE i = N + 1
    <3>1. r[i] = e
      BY <1>4, <2>3
    <3> QED
      BY <1>18, <2>1, <3>1 DEF PointsDown
  <2> QED
    BY <1>4, <1>6, <2>2, <2>3
<1> QED
  BY <1>4, <1>14, <1>16, <1>17, <1>18 DEF Table

-----------------------------------------------------------------------------
(* Values change, and variables are added.                                 *)
Gains(t, r) ==
    /\ \A n, l : HasVar(t, n, l) => HasVar(r, n, l)
    /\ \A n, l : HasPrivate(r, n, l) <=> HasPrivate(t, n, l)
    /\ MatsPoint(t) => MatsPoint(r)

(* An entry with another value, unless it is a saved pointer               *)
Revalues(e, f) ==
    /\ f.name = e.name /\ f.level = e.level /\ f.private = e.private
    /\ f.hiding = e.hiding /\ f.hidden = e.hidden
    /\ e.private /\ e.name = "MAT" => f.val = e.val

Revalued(t, r) ==
    /\ r \in Seq(Entries) /\ Len(r) = Len(t)
    /\ \A j \in 1 .. Len(t) : Revalues(t[j], r[j])

LEMMA TableRevalued ==
    ASSUME NEW t, NEW L, Table(t, L), NEW r, Revalued(t, r)
    PROVE  Table(r, L) /\ Gains(t, r)
<1>1. t \in Seq(Entries) /\ Sorted(t, L) /\ Shadows(t)
  BY DEF Table
<1>2. r \in Seq(Entries) /\ Len(r) = Len(t) /\ Len(t) \in Nat
  BY <1>1 DEF Revalued
<1>3. \A j \in 1 .. Len(t) :
         /\ r[j].name = t[j].name /\ r[j].level = t[j].level /\ r[j].private = t[j].private
         /\ r[j].hiding = t[j].hiding /\ r[j].hidden = t[j].hidden
         /\ t[j].private /\ t[j].name = "MAT" => r[j].val = t[j].val
  BY DEF Revalued, Revalues
<1>4. Sorted(r, L)
  <2>1. \A i \in 1 .. Len(t) : r[i].level <= L
    BY <1>1, <1>3 DEF Sorted
  <2>2. \A i, j \in 1 .. Len(t) :
           i < j /\ r[i].level # GlobalLevel /\ r[j].level # GlobalLevel
              => r[i].level <= r[j].level
    BY <1>1, <1>3 DEF Sorted
  <2>3. \A i, j \in 1 .. Len(t) : Akin(r[i], r[j]) => Akin(t[i], t[j])
    BY <1>3 DEF Akin
  <2>4. \A i, j \in 1 .. Len(t) : i < j /\ Akin(r[i], r[j]) => r[i].level < r[j].level
    BY <1>1, <1>3, <2>3 DEF Sorted
  <2> QED
    BY <1>2, <2>1, <2>2, <2>4 DEF Sorted
<1>5. Shadows(r)
  <2> SUFFICES ASSUME NEW i \in 1 .. Len(t), ~r[i].private
               PROVE  (r[i].hiding <=> Older(r, i)) /\ (r[i].hidden <=> Newer(r, i))
    BY <1>2 DEF Shadows
  <2>1. ~t[i].private /\ r[i].hiding = t[i].hiding /\ r[i].hidden = t[i].hidden
    BY <1>3
  <2>2. (t[i].hiding <=> Older(t, i)) /\ (t[i].hidden <=> Newer(t, i))
    BY <1>1, <2>1 DEF Shadows
  <2>3. \A j \in 1 .. Len(t) : r[j].private = t[j].private /\ r[j].name = t[j].name
    BY <1>3
  <2>4. Older(r, i) <=> Older(t, i)
    BY <1>2, <2>3 DEF Older
  <2>5. Newer(r, i) <=> Newer(t, i)
    BY <1>2, <2>3 DEF Newer
  <2> QED
    BY <2>1, <2>2, <2>4, <2>5
<1>6. ASSUME NEW n, NEW l
      PROVE  (HasVar(r, n, l) <=> HasVar(t, n, l)) /\ (HasPrivate(r, n, l) <=> HasPrivate(t, n, l))
  <2>1. HasVar(r, n, l) <=> HasVar(t, n, l)
    BY <1>2, <1>3 DEF HasVar
  <2>2. \A i \in 1 .. Len(t) : t[i].private \in BOOLEAN /\ r[i].private \in BOOLEAN
    BY <1>1, <1>2, EntryFacts
  <2>3. HasPrivate(t, n, l) => HasPrivate(r, n, l)
    BY <1>2, <1>3, <2>2 DEF HasPrivate
  <2>4. HasPrivate(r, n, l) => HasPrivate(t, n, l)
    BY <1>2, <1>3, <2>2 DEF HasPrivate
  <2> QED
    BY <2>1, <2>3, <2>4
<1>7. ASSUME MatsPoint(t)
      PROVE  MatsPoint(r)
  <2> SUFFICES ASSUME NEW i \in 1 .. Len(r), r[i].private, r[i].name = "MAT"
               PROVE  PointsDown(r, r[i])
    BY DEF MatsPoint
  <2>1. i \in 1 .. Len(t) /\ t[i].private /\ t[i].name = "MAT"
    BY <1>2, <1>3
  <2>2. PointsDown(t, t[i])
    BY <1>7, <2>1 DEF MatsPoint
  <2>3. r[i].val = t[i].val /\ r[i].level = t[i].level
    BY <1>3, <2>1
  <2> QED
    BY <1>6, <2>2, <2>3 DEF PointsDown
<1> QED
  BY <1>1, <1>2, <1>4, <1>5, <1>6, <1>7 DEF Table, Gains

LEMMA SetVal ==
    ASSUME NEW t, NEW L, Table(t, L), NEW i \in 1 .. Len(t), ~t[i].private,
           NEW v \in Values, NEW r, r = [t EXCEPT ![i].val = v]
    PROVE  Table(r, L) /\ Gains(t, r)
<1> DEFINE f == [t[i] EXCEPT !.val = v]
<1>1. t \in Seq(Entries) /\ t[i] \in Entries
  BY DEF Table
<1>2. /\ f \in Entries /\ f.name = t[i].name /\ f.level = t[i].level /\ f.private = t[i].private
      /\ f.hiding = t[i].hiding /\ f.hidden = t[i].hidden /\ f.val = v
  BY <1>1, ValEntry
<1>3. Len(r) = Len(t) /\ r[i] = f /\ \A j \in 1 .. Len(t) : j # i => r[j] = t[j]
  BY <1>1
<1> HIDE DEF f
<1>4. r \in Seq(Entries)
  <2>1. r = [t EXCEPT ![i] = f]
    BY DEF f
  <2> QED
    BY <1>1, <1>2, <2>1
<1>5. ASSUME NEW j \in 1 .. Len(t)
      PROVE  Revalues(t[j], r[j])
  <2>1. CASE j = i
    BY <1>2, <1>3, <2>1 DEF Revalues
  <2>2. CASE j # i
    <3>1. r[j] = t[j]
      BY <1>3, <2>2
    <3> QED
      BY <3>1 DEF Revalues
  <2> QED
    BY <2>1, <2>2
<1>6. Revalued(t, r)
  BY <1>3, <1>4, <1>5 DEF Revalued
<1> QED
  BY <1>6, TableRevalued

LEMMA StoreVarFacts ==
    ASSUME NEW t, NEW L \in 0 .. MaxLevel, Table(t, L), NEW n \in Names, NEW val \in Values,
           NEW local \in BOOLEAN, NEW r, r = StoreVar(t, n, val, local, L)
    PROVE  Table(r, L) /\ Gains(t, r)
<1> DEFINE i == LookupVar(t, n)
           lvl == IF local THEN L ELSE GlobalLevel
           first == Variable(n, lvl, FALSE, val)
           covering == Variable(n, L, TRUE, val)
           u == [t EXCEPT ![i].hidden = TRUE]
<1>1. t \in Seq(Entries) /\ Sorted(t, L) /\ Shadows(t) /\ Len(t) \in Nat
  BY DEF Table
<1>2. L \in Nat /\ MaxLevel \in Nat /\ L \in GlobalLevel .. MaxLevel
  BY BoundsAssumption DEF GlobalLevel
<1>3. lvl \in GlobalLevel .. MaxLevel /\ (lvl = GlobalLevel \/ lvl = L)
  BY <1>2 DEF GlobalLevel
<1>4. /\ first \in Entries /\ first.name = n /\ first.level = lvl /\ ~first.private
      /\ ~first.hiding /\ ~first.hidden
  <2> DEFINE no == FALSE
  <2>1. no \in BOOLEAN /\ ~no
    OBVIOUS
  <2>2. first = Variable(n, lvl, no, val)
    OBVIOUS
  <2> HIDE DEF no, first, lvl
  <2> QED
    BY <1>3, <2>1, <2>2, NewVariable
<1>5. /\ covering \in Entries /\ covering.name = n /\ covering.level = L /\ ~covering.private
      /\ covering.hiding /\ ~covering.hidden
  <2> DEFINE yes == TRUE
  <2>1. yes \in BOOLEAN /\ yes
    OBVIOUS
  <2>2. covering = Variable(n, L, yes, val)
    OBVIOUS
  <2> HIDE DEF yes, covering
  <2>3. /\ covering \in Entries /\ covering.name = n /\ covering.level = L
        /\ ~covering.private /\ covering.hiding = yes /\ ~covering.hidden
    <3>1. L \in GlobalLevel .. MaxLevel
      BY <1>2
    <3>2. yes \in BOOLEAN
      BY <2>1
    <3> QED
      BY <2>2, <3>1, <3>2, NewVariable
  <2> QED
    BY <2>1, <2>3
<1>6. /\ i = 0 => \A j \in 1 .. Len(t) : ~t[j].private => t[j].name # n
      /\ i # 0 => /\ i \in 1 .. Len(t) /\ ~t[i].private /\ t[i].name = n
                  /\ \A j \in 1 .. Len(t) : ~t[j].private /\ t[j].name = n => j <= i
  BY <1>1, LookupVarFacts
<1>7. \A j \in 1 .. Len(t) :
         /\ t[j].level \in Int /\ t[j].private \in BOOLEAN /\ t[j] \in Entries
         /\ t[j].hidden \in BOOLEAN
  BY <1>1, EntryFacts
<1>8. r = IF i = 0 THEN Append(t, first)
          ELSE IF local /\ t[i].level < L THEN Append(u, covering)
          ELSE [t EXCEPT ![i].val = val]
  BY DEF StoreVar
<1> HIDE DEF i, lvl, first, covering
<1>9. CASE i = 0
  <2>1. r = Append(t, first)
    BY <1>8, <1>9
  <2>2. \A j \in 1 .. Len(t) : ~t[j].private => t[j].name # n
    BY <1>6, <1>9
  <2>3. Fits(t, first, L)
    <3>1. \A j \in 1 .. Len(t) : ~Akin(t[j], first)
      BY <1>4, <1>7, <2>2 DEF Akin
    <3>2. ~first.private =>
             (first.hiding <=> \E j \in 1 .. Len(t) : ~t[j].private /\ t[j].name = first.name)
      BY <1>4, <2>2
    <3> QED
      BY <1>3, <1>4, <3>1, <3>2 DEF Fits
  <2>4. Covers(t, first, t)
    <3>1. \A j \in 1 .. Len(t) : Alike(t[j], t[j])
      BY DEF Alike
    <3> QED
      BY <1>1, <1>4, <2>2, <3>1 DEF Covers
  <2>5. /\ Table(r, L) /\ Adds(t, first, r)
        /\ MatsPoint(t) /\ (first.private /\ first.name = "MAT" => PointsDown(t, first))
              => MatsPoint(r)
    BY <1>2, <2>1, <2>3, <2>4, TableAppend
  <2>6. Gains(t, r)
    BY <1>4, <2>5 DEF Gains, Adds
  <2> QED
    BY <2>5, <2>6
<1>10. CASE i # 0 /\ local /\ t[i].level < L
  <2>1. r = Append(u, covering)
    BY <1>8, <1>10
  <2>2. /\ i \in 1 .. Len(t) /\ ~t[i].private /\ t[i].name = n
        /\ \A j \in 1 .. Len(t) : ~t[j].private /\ t[j].name = n => j <= i
    BY <1>6, <1>10
  <2>3. Fits(t, covering, L)
    <3>1. ASSUME NEW j \in 1 .. Len(t), Akin(t[j], covering)
          PROVE  t[j].level < covering.level
      <4>1. ~t[j].private /\ t[j].name = n /\ j <= i
        BY <1>5, <1>7, <2>2, <3>1 DEF Akin
      <4>2. Akin(t[j], t[i])
        BY <1>7, <2>2, <4>1 DEF Akin
      <4>3. j = i \/ t[j].level < t[i].level
        BY <1>1, <2>2, <4>1, <4>2 DEF Sorted
      <4> QED
        BY <1>2, <1>5, <1>7, <1>10, <2>2, <4>3
    <3>2. ~covering.private =>
             (covering.hiding <=>
                \E j \in 1 .. Len(t) : ~t[j].private /\ t[j].name = covering.name)
      BY <1>5, <2>2
    <3> QED
      BY <1>5, <3>1, <3>2 DEF Fits
  <2>4. Covers(t, covering, u)
    <3> DEFINE f == [t[i] EXCEPT !.hidden = TRUE]
               b == TRUE
    <3>1. b \in BOOLEAN /\ b /\ (t[i].private => ~b)
      BY <2>2
    <3>2. f = [t[i] EXCEPT !.hidden = b]
      OBVIOUS
    <3>3. f \in Entries /\ Alike(t[i], f) /\ f.hidden
      <4> HIDE DEF f, b
      <4> QED
        BY <1>7, <2>2, <3>1, <3>2, HiddenEntry
    <3>4. u = [t EXCEPT ![i] = f]
      OBVIOUS
    <3> HIDE DEF f, b, u
    <3>5. /\ u \in Seq(Entries) /\ Len(u) = Len(t) /\ u[i] = f
          /\ \A j \in 1 .. Len(t) : j # i => u[j] = t[j]
      BY <1>1, <2>2, <3>3, <3>4
    <3>6. ASSUME NEW j \in 1 .. Len(t)
          PROVE  /\ Alike(t[j], u[j])
                 /\ u[j].hidden <=> t[j].hidden \/ (~t[j].private /\ t[j].name = n)
      <4>1. CASE j = i
        BY <2>2, <3>3, <3>5, <4>1
      <4>2. CASE j # i
        <5>1. u[j] = t[j]
          BY <3>5, <4>2
        <5>2. Alike(t[j], t[j])
          BY DEF Alike
        <5>3. ASSUME ~t[j].private, t[j].name = n
              PROVE  t[j].hidden
          <6>1. j < i
            BY <2>2, <4>2, <5>3
          <6>2. Newer(t, j)
            BY <2>2, <5>3, <6>1 DEF Newer
          <6> QED
            BY <1>1, <5>3, <6>2 DEF Shadows
        <5> QED
          BY <5>1, <5>2, <5>3
      <4> QED
        BY <4>1, <4>2
    <3> QED
      BY <1>5, <3>5, <3>6 DEF Covers
  <2> HIDE DEF u
  <2>5. /\ Table(r, L) /\ Adds(t, covering, r)
        /\ MatsPoint(t) /\ (covering.private /\ covering.name = "MAT" => PointsDown(t, covering))
              => MatsPoint(r)
    BY <1>2, <2>1, <2>3, <2>4, TableAppend
  <2>6. Gains(t, r)
    BY <1>5, <2>5 DEF Gains, Adds
  <2> QED
    BY <2>5, <2>6
<1>11. CASE i # 0 /\ ~(local /\ t[i].level < L)
  <2>1. r = [t EXCEPT ![i].val = val]
    BY <1>8, <1>11
  <2>2. i \in 1 .. Len(t) /\ ~t[i].private
    BY <1>6, <1>11
  <2> QED
    BY <2>1, <2>2, SetVal
<1> QED
  BY <1>9, <1>10, <1>11

(* What a level saves                                                      *)
Saves(t, n, v, L, r) ==
    /\ \A m, l : HasVar(r, m, l) <=> HasVar(t, m, l)
    /\ \A m, l : HasPrivate(r, m, l) <=> HasPrivate(t, m, l) \/ (m = n /\ l = L)
    /\ MatsPoint(t) /\ (n = "MAT" => v.level < L
                                    /\ (v.level # GlobalLevel => HasVar(t, v.name, v.level)))
         => MatsPoint(r)

LEMMA StorePrivateFacts ==
    ASSUME NEW t, NEW L \in 0 .. MaxLevel, Table(t, L), NEW n, ~HasPrivate(t, n, L), NEW v,
           (n = "STK" /\ v \in StkValues) \/ (n = "MAT" /\ v \in MatValues)
    PROVE  /\ Table(StorePrivate(t, n, v, L), L)
           /\ Saves(t, n, v, L, StorePrivate(t, n, v, L))
<1> DEFINE e == PrivateVariable(n, L, v)
           r == StorePrivate(t, n, v, L)
<1>1. t \in Seq(Entries) /\ Sorted(t, L) /\ Shadows(t) /\ Len(t) \in Nat
  BY DEF Table
<1>2. L \in Nat /\ MaxLevel \in Nat
  BY BoundsAssumption
<1>3. /\ e \in Entries /\ e.name = n /\ e.level = L /\ e.private
      /\ ~e.hiding /\ ~e.hidden /\ e.val = v
  BY NewPrivate
<1>4. LookupPrivate(t, n, L) = 0
  BY <1>2, LookupPrivateFacts
<1>5. r = Append(t, e)
  BY <1>4 DEF StorePrivate
<1> HIDE DEF e, r
<1>6. \A j \in 1 .. Len(t) : t[j].level \in Int /\ t[j].private \in BOOLEAN /\ t[j].level <= L
  BY <1>1, EntryFacts DEF Sorted
<1>7. e.private \in BOOLEAN
  BY <1>3, EntryFacts
<1>8. Fits(t, e, L)
  <2>1. ASSUME NEW j \in 1 .. Len(t), Akin(t[j], e)
        PROVE  t[j].level < e.level
    <3>1. t[j].private /\ t[j].name = n
      BY <1>3, <1>6, <1>7, <2>1 DEF Akin
    <3>2. t[j].level # L
      BY <3>1 DEF HasPrivate
    <3> QED
      BY <1>2, <1>3, <1>6, <3>2
  <2> QED
    BY <1>3, <2>1 DEF Fits
<1>9. Covers(t, e, t)
  <2>1. \A j \in 1 .. Len(t) : Alike(t[j], t[j])
    BY DEF Alike
  <2> QED
    BY <1>1, <1>3, <2>1 DEF Covers
<1>10. /\ Table(r, L) /\ Adds(t, e, r)
       /\ MatsPoint(t) /\ (e.private /\ e.name = "MAT" => PointsDown(t, e)) => MatsPoint(r)
  BY <1>2, <1>5, <1>8, <1>9, TableAppend
<1>11. \A m, l : HasVar(r, m, l) <=> HasVar(t, m, l)
  BY <1>3, <1>10 DEF Adds
<1>12. \A m, l : HasPrivate(r, m, l) <=> HasPrivate(t, m, l) \/ (m = n /\ l = L)
  BY <1>3, <1>10 DEF Adds
<1>13. ASSUME MatsPoint(t), n = "MAT" => v.level < L
                                    /\ (v.level # GlobalLevel => HasVar(t, v.name, v.level))
       PROVE  MatsPoint(r)
  BY <1>3, <1>10, <1>13 DEF PointsDown
<1> QED
  BY <1>10, <1>11, <1>12, <1>13 DEF Saves, r

-----------------------------------------------------------------------------
(* Entries are removed: one variable, one private one, or those of a level. *)
LEMMA PurgeVarFacts ==
    ASSUME NEW t, NEW L \in Nat, Table(t, L), NEW n, NEW i, i = LookupVar(t, n), i # 0,
           t[i].level = GlobalLevel \/ t[i].level = L, NEW r, r = PurgeVar(t, i)
    PROVE  /\ Table(r, L) /\ Leaves(t, {i}, r)
           /\ MatsPoint(t) => MatsPoint(r)
           /\ \A m, l : HasVar(r, m, l) <=> HasVar(t, m, l) /\ ~(m = n /\ l = t[i].level)
           /\ \A m, l : HasPrivate(r, m, l) <=> HasPrivate(t, m, l)
<1> DEFINE I == {i}
<1>1. t \in Seq(Entries) /\ Sorted(t, L) /\ Shadows(t) /\ Len(t) \in Nat
  BY DEF Table
<1>2. /\ i \in 1 .. Len(t) /\ ~t[i].private /\ t[i].name = n
      /\ \A j \in 1 .. Len(t) : ~t[j].private /\ t[j].name = n => j <= i
  BY <1>1, LookupVarFacts
<1>3. \A j \in 1 .. Len(t) : t[j].level \in Int /\ t[j].private \in BOOLEAN /\ t[j].level <= L
  BY <1>1, EntryFacts DEF Sorted
<1>4. I \subseteq 1 .. Len(t) /\ L \in Int
  BY <1>2
<1>5. Upward(t, I)
  BY <1>2, <1>3 DEF Upward, Akin
<1>6. NoDeeper(t, I, L)
  BY <1>3 DEF NoDeeper
<1>7. Deepest(t, I)
  BY <1>3 DEF Deepest
<1>8. r = Without(Uncover(t, I), I)
  BY DEF PurgeVar
<1> HIDE DEF I
<1>9. Table(r, L) /\ Leaves(t, I, r)
  BY <1>4, <1>5, <1>6, <1>8, TableWithout
<1>10. MatsPoint(t) => MatsPoint(r)
  BY <1>1, <1>7, <1>9, LeavesMats
<1>11. ASSUME NEW m, NEW l
       PROVE  /\ HasVar(r, m, l) <=> HasVar(t, m, l) /\ ~(m = n /\ l = t[i].level)
              /\ HasPrivate(r, m, l) <=> HasPrivate(t, m, l)
  <2>1. /\ HasVar(r, m, l) <=>
              \E j \in (1 .. Len(t)) \ I : ~t[j].private /\ t[j].name = m /\ t[j].level = l
        /\ HasPrivate(r, m, l) <=>
              \E j \in (1 .. Len(t)) \ I : t[j].private /\ t[j].name = m /\ t[j].level = l
    BY <1>9, LeavesVar
  <2>2. \A j \in 1 .. Len(t) : j \in I <=> j = i
    BY DEF I
  <2>3. ASSUME NEW j \in 1 .. Len(t), j # i, ~t[j].private, t[j].name = n
        PROVE  t[j].level # t[i].level
    <3>1. j < i /\ Akin(t[j], t[i])
      BY <1>2, <1>3, <2>3 DEF Akin
    <3>2. t[j].level < t[i].level
      BY <1>1, <1>2, <3>1 DEF Sorted
    <3> QED
      BY <1>2, <1>3, <3>2
  <2>4. HasVar(t, m, l) /\ ~(m = n /\ l = t[i].level) <=>
           \E j \in (1 .. Len(t)) \ I : ~t[j].private /\ t[j].name = m /\ t[j].level = l
    <3>1. ASSUME NEW j \in (1 .. Len(t)) \ I, ~t[j].private, t[j].name = m, t[j].level = l
          PROVE  HasVar(t, m, l) /\ ~(m = n /\ l = t[i].level)
      BY <2>2, <2>3, <3>1 DEF HasVar
    <3>2. ASSUME HasVar(t, m, l), ~(m = n /\ l = t[i].level)
          PROVE  \E j \in (1 .. Len(t)) \ I : ~t[j].private /\ t[j].name = m /\ t[j].level = l
      BY <1>2, <2>2, <3>2 DEF HasVar
    <3> QED
      BY <3>1, <3>2
  <2>5. HasPrivate(t, m, l) <=>
           \E j \in (1 .. Len(t)) \ I : t[j].private /\ t[j].name = m /\ t[j].level = l
    BY <1>2, <2>2 DEF HasPrivate
  <2> QED
    BY <2>1, <2>4, <2>5
<1> QED
  BY <1>9, <1>10, <1>11 DEF I

LEMMA RemoveLocalsFacts ==
    ASSUME NEW t, NEW L \in Nat, Table(t, L), NEW M \in Int, L - 1 <= M,
           NEW r, r = RemoveLocals(t, L)
    PROVE  /\ Table(r, M) /\ Leaves(t, FromLevel(t, L), r)
           /\ MatsPoint(t) => MatsPoint(r)
           /\ \A n, l : HasVar(r, n, l) <=> HasVar(t, n, l) /\ l # L
           /\ \A n, l : HasPrivate(r, n, l) <=> HasPrivate(t, n, l) /\ l # L
<1> DEFINE I == FromLevel(t, L)
<1>1. t \in Seq(Entries) /\ Sorted(t, L) /\ Shadows(t) /\ Len(t) \in Nat
  BY DEF Table
<1>2. \A j \in 1 .. Len(t) : t[j].level \in Int /\ t[j].private \in BOOLEAN /\ t[j].level <= L
  BY <1>1, EntryFacts DEF Sorted
<1>3. /\ \A j \in 1 .. Len(t) : j \in I <=> t[j].level = L
      /\ I \subseteq 1 .. Len(t)
  BY FromLevelFacts
<1>4. r = Without(Uncover(t, I), I)
  BY DEF RemoveLocals
<1> HIDE DEF I
<1>5. Upward(t, I)
  <2> SUFFICES ASSUME NEW i \in I, NEW j \in 1 .. Len(t), i < j, Akin(t[i], t[j])
               PROVE  j \in I
    BY DEF Upward
  <2>1. t[i].level < t[j].level
    BY <1>1, <1>3 DEF Sorted
  <2> QED
    BY <1>2, <1>3, <2>1
<1>6. NoDeeper(t, I, M)
  BY <1>2, <1>3 DEF NoDeeper
<1>7. Deepest(t, I)
  BY <1>2, <1>3 DEF Deepest
<1>8. Table(r, M) /\ Leaves(t, I, r)
  BY <1>3, <1>4, <1>5, <1>6, TableWithout
<1>9. MatsPoint(t) => MatsPoint(r)
  BY <1>1, <1>7, <1>8, LeavesMats
<1>10. ASSUME NEW n, NEW l
       PROVE  /\ HasVar(r, n, l) <=> HasVar(t, n, l) /\ l # L
              /\ HasPrivate(r, n, l) <=> HasPrivate(t, n, l) /\ l # L
  <2>1. /\ HasVar(r, n, l) <=>
              \E j \in (1 .. Len(t)) \ I : ~t[j].private /\ t[j].name = n /\ t[j].level = l
        /\ HasPrivate(r, n, l) <=>
              \E j \in (1 .. Len(t)) \ I : t[j].private /\ t[j].name = n /\ t[j].level = l
    BY <1>8, LeavesVar
  <2>2. HasVar(t, n, l) /\ l # L <=>
           \E j \in (1 .. Len(t)) \ I : ~t[j].private /\ t[j].name = n /\ t[j].level = l
    BY <1>3 DEF HasVar
  <2>3. HasPrivate(t, n, l) /\ l # L <=>
           \E j \in (1 .. Len(t)) \ I : t[j].private /\ t[j].name = n /\ t[j].level = l
    BY <1>3 DEF HasPrivate
  <2> QED
    BY <2>1, <2>2, <2>3
<1> QED
  BY <1>8, <1>9, <1>10 DEF I

LEMMA UncoverNothing ==
    ASSUME NEW t \in Seq(Entries), NEW i \in 1 .. Len(t), ~t[i].hiding
    PROVE  Uncover(t, {i}) = t
<1> DEFINE u == [j \in 1 .. Len(t) |->
                   [t[j] EXCEPT !.hidden = t[j].hidden
                                  /\ ~\E k \in {i} : t[k].hiding /\ j = HiddenBy(t, k)]]
<1>1. Uncover(t, {i}) = u
  BY DEF Uncover
<1>2. ASSUME NEW j \in 1 .. Len(t)
      PROVE  u[j] = t[j]
  <2>1. t[j].hidden \in BOOLEAN /\ t[j] \in Entries
    BY EntryFacts
  <2>2. [t[j] EXCEPT !.hidden = t[j].hidden] = t[j]
    BY <2>1 DEF Entries
  <2>3. (t[j].hidden /\ ~\E k \in {i} : t[k].hiding /\ j = HiddenBy(t, k)) = t[j].hidden
    BY <2>1
  <2> QED
    BY <2>2, <2>3
<1>3. u = [j \in 1 .. Len(t) |-> u[j]]
  OBVIOUS
<1>4. t = [j \in 1 .. Len(t) |-> t[j]]
  OBVIOUS
<1> HIDE DEF u
<1> QED
  BY <1>1, <1>2, <1>3, <1>4

LEMMA PrivateRemoved ==
    ASSUME NEW t, NEW L \in Nat, Table(t, L), NEW i \in 1 .. Len(t), t[i].private,
           t[i].level = L, NEW r, r = Without(t, {i})
    PROVE  /\ Table(r, L) /\ Leaves(t, {i}, r)
           /\ MatsPoint(t) => MatsPoint(r)
           /\ \A m, l : HasVar(r, m, l) <=> HasVar(t, m, l)
           /\ \A m, l : HasPrivate(r, m, l) <=> HasPrivate(t, m, l) /\ ~(m = t[i].name /\ l = L)
<1> DEFINE I == {i}
<1>1. t \in Seq(Entries) /\ Sorted(t, L) /\ Shadows(t) /\ Len(t) \in Nat
  BY DEF Table
<1>2. \A j \in 1 .. Len(t) : t[j].level \in Int /\ t[j].private \in BOOLEAN /\ t[j].level <= L
  BY <1>1, EntryFacts DEF Sorted
<1>3. ~t[i].hiding
  BY <1>1, EntryFacts
<1>4. I \subseteq 1 .. Len(t) /\ L \in Int
  OBVIOUS
<1>5. Upward(t, I)
  <2> SUFFICES ASSUME NEW j \in 1 .. Len(t), i < j, Akin(t[i], t[j])
               PROVE  FALSE
    BY DEF Upward
  <2>1. t[i].level < t[j].level
    BY <1>1 DEF Sorted
  <2> QED
    BY <1>2, <2>1
<1>6. NoDeeper(t, I, L)
  BY <1>2 DEF NoDeeper
<1>7. Deepest(t, I)
  BY DEF Deepest
<1>8. r = Without(Uncover(t, I), I)
  BY <1>1, <1>3, UncoverNothing
<1>9. \A j \in 1 .. Len(t) : j \in I <=> j = i
  OBVIOUS
<1> HIDE DEF I
<1>10. Table(r, L) /\ Leaves(t, I, r)
  BY <1>4, <1>5, <1>6, <1>8, TableWithout
<1>11. MatsPoint(t) => MatsPoint(r)
  BY <1>1, <1>7, <1>10, LeavesMats
<1>12. ASSUME NEW m, NEW l
       PROVE  /\ HasVar(r, m, l) <=> HasVar(t, m, l)
              /\ HasPrivate(r, m, l) <=> HasPrivate(t, m, l) /\ ~(m = t[i].name /\ l = L)
  <2>1. /\ HasVar(r, m, l) <=>
              \E j \in (1 .. Len(t)) \ I : ~t[j].private /\ t[j].name = m /\ t[j].level = l
        /\ HasPrivate(r, m, l) <=>
              \E j \in (1 .. Len(t)) \ I : t[j].private /\ t[j].name = m /\ t[j].level = l
    BY <1>10, LeavesVar
  <2>2. ASSUME NEW j \in 1 .. Len(t), j # i, t[j].private, t[j].name = t[i].name
        PROVE  t[j].level # L
    <3>1. Akin(t[j], t[i]) /\ Akin(t[i], t[j])
      BY <1>2, <2>2 DEF Akin
    <3>2. j < i \/ i < j
      BY <2>2
    <3>3. t[j].level < t[i].level \/ t[i].level < t[j].level
      BY <1>1, <3>1, <3>2 DEF Sorted
    <3> QED
      BY <1>2, <3>3
  <2>3. HasVar(t, m, l) <=>
           \E j \in (1 .. Len(t)) \ I : ~t[j].private /\ t[j].name = m /\ t[j].level = l
    BY <1>9 DEF HasVar
  <2>4. HasPrivate(t, m, l) /\ ~(m = t[i].name /\ l = L) <=>
           \E j \in (1 .. Len(t)) \ I : t[j].private /\ t[j].name = m /\ t[j].level = l
    <3>1. ASSUME NEW j \in (1 .. Len(t)) \ I, t[j].private, t[j].name = m, t[j].level = l
          PROVE  HasPrivate(t, m, l) /\ ~(m = t[i].name /\ l = L)
      BY <1>9, <2>2, <3>1 DEF HasPrivate
    <3>2. ASSUME HasPrivate(t, m, l), ~(m = t[i].name /\ l = L)
          PROVE  \E j \in (1 .. Len(t)) \ I : t[j].private /\ t[j].name = m /\ t[j].level = l
      <4>1. PICK j \in 1 .. Len(t) : t[j].private /\ t[j].name = m /\ t[j].level = l
        BY <3>2 DEF HasPrivate
      <4> QED
        BY <1>9, <3>2, <4>1
    <3> QED
      BY <3>1, <3>2
  <2> QED
    BY <2>1, <2>3, <2>4
<1> QED
  BY <1>10, <1>11, <1>12 DEF I

-----------------------------------------------------------------------------
(* The state                                                               *)
CtxRec == [mat : BOOLEAN, func : BOOLEAN]
MateditRec == [mode : 0 .. 3, name : Names \cup {NoName}, level : GlobalLevel .. MaxLevel]

(* The flags of each level say what it saves.                              *)
Flagged(t, c) ==
    \A k \in 1 .. Len(c) :
        /\ c[k].func <=> HasPrivate(t, "STK", k - 1)
        /\ c[k].mat <=> HasPrivate(t, "MAT", k - 1)

(* What is indexed or edited by name, if a local, exists.                  *)
Points(t, m) ==
    m.mode \in {1, 3} =>
        m.name \in Names /\ (m.level # GlobalLevel => HasVar(t, m.name, m.level))

Good(t, c, m, e) ==
    /\ c \in Seq(CtxRec) /\ Len(c) \in 1 .. (MaxLevel + 1)
    /\ Table(t, Len(c) - 1) /\ MatsPoint(t) /\ Flagged(t, c)
    /\ m \in MateditRec /\ Points(t, m)
    /\ e \in BOOLEAN

OK(S) ==
    /\ S = [vars |-> S.vars, ctx |-> S.ctx, matedit |-> S.matedit, editor |-> S.editor]
    /\ Good(S.vars, S.ctx, S.matedit, S.editor)

LEMMA LevelFacts ==
    ASSUME NEW t, NEW c, NEW m, NEW e, Good(t, c, m, e)
    PROVE  /\ Len(c) \in Nat /\ Len(c) \in 1 .. Len(c)
           /\ Len(c) - 1 \in Nat /\ Len(c) - 1 \in 0 .. MaxLevel /\ MaxLevel \in Nat
           /\ c[Len(c)] \in CtxRec
           /\ c[Len(c)].func \in BOOLEAN /\ c[Len(c)].mat \in BOOLEAN
           /\ c[Len(c)].func <=> HasPrivate(t, "STK", Len(c) - 1)
           /\ c[Len(c)].mat <=> HasPrivate(t, "MAT", Len(c) - 1)
<1> DEFINE n == Len(c)
<1>1. c \in Seq(CtxRec) /\ n \in 1 .. (MaxLevel + 1) /\ Flagged(t, c) /\ MaxLevel \in Nat
  BY BoundsAssumption DEF Good
<1>2. n \in Nat /\ n \in 1 .. n /\ n - 1 \in Nat /\ n - 1 \in 0 .. MaxLevel
  BY <1>1
<1>3. c[n] \in CtxRec
  BY <1>1, <1>2
<1>4. c[n].func \in BOOLEAN /\ c[n].mat \in BOOLEAN
  BY <1>3 DEF CtxRec
<1>5. /\ c[n].func <=> HasPrivate(t, "STK", n - 1)
      /\ c[n].mat <=> HasPrivate(t, "MAT", n - 1)
  BY <1>1, <1>2 DEF Flagged
<1> HIDE DEF n
<1>6. /\ n \in Nat /\ n \in 1 .. n /\ n - 1 \in Nat /\ n - 1 \in 0 .. MaxLevel
      /\ MaxLevel \in Nat
      /\ c[n] \in CtxRec /\ c[n].func \in BOOLEAN /\ c[n].mat \in BOOLEAN
      /\ c[n].func <=> HasPrivate(t, "STK", n - 1)
      /\ c[n].mat <=> HasPrivate(t, "MAT", n - 1)
  BY <1>1, <1>2, <1>3, <1>4, <1>5, Zenon
<1> QED
  BY <1>6, Zenon DEF n

LEMMA OffFacts ==
    ASSUME NEW m \in MateditRec, NEW t
    PROVE  Off(m) \in MateditRec /\ Points(t, Off(m)) /\ Off(m).mode = 0
           /\ Off(m).name = m.name /\ Off(m).level = m.level
<1>1. /\ Off(m) \in MateditRec /\ Off(m).mode = 0
      /\ Off(m).name = m.name /\ Off(m).level = m.level
  BY DEF Off, MateditRec
<1>2. Points(t, Off(m))
  BY <1>1 DEF Points
<1> QED
  BY <1>1, <1>2

LEMMA MateditFacts ==
    ASSUME NEW m \in MateditRec
    PROVE  /\ m.mode \in 0 .. 3 /\ m.name \in Names \cup {NoName}
           /\ m.level \in GlobalLevel .. MaxLevel /\ m.level \in Int
BY DEF MateditRec

(* The level's flags change.                                               *)
CtxLike(c, d) ==
    /\ d \in Seq(CtxRec) /\ Len(d) = Len(c)
    /\ \A k \in 1 .. Len(c) : k # Len(c) => d[k] = c[k]

LEMMA MatFlag ==
    ASSUME NEW c \in Seq(CtxRec), Len(c) # 0, NEW b \in BOOLEAN
    PROVE  /\ CtxLike(c, [c EXCEPT ![Len(c)].mat = b])
           /\ [c EXCEPT ![Len(c)].mat = b][Len(c)].mat = b
           /\ [c EXCEPT ![Len(c)].mat = b][Len(c)].func = c[Len(c)].func
<1> DEFINE n == Len(c)
           x == [c[n] EXCEPT !.mat = b]
           d == [c EXCEPT ![n] = x]
<1>1. n \in 1 .. Len(c) /\ c[n] \in CtxRec
  OBVIOUS
<1>2. x \in CtxRec /\ x.mat = b /\ x.func = c[n].func
  BY <1>1 DEF CtxRec
<1>3. d = [c EXCEPT ![Len(c)].mat = b]
  OBVIOUS
<1> HIDE DEF x
<1>4. CtxLike(c, d) /\ d[n] = x
  BY <1>1, <1>2 DEF CtxLike
<1> HIDE DEF d
<1> QED
  BY <1>2, <1>3, <1>4

LEMMA FuncFlag ==
    ASSUME NEW c \in Seq(CtxRec), Len(c) # 0, NEW b \in BOOLEAN
    PROVE  /\ CtxLike(c, [c EXCEPT ![Len(c)].func = b])
           /\ [c EXCEPT ![Len(c)].func = b][Len(c)].func = b
           /\ [c EXCEPT ![Len(c)].func = b][Len(c)].mat = c[Len(c)].mat
<1> DEFINE n == Len(c)
           x == [c[n] EXCEPT !.func = b]
           d == [c EXCEPT ![n] = x]
<1>1. n \in 1 .. Len(c) /\ c[n] \in CtxRec
  OBVIOUS
<1>2. x \in CtxRec /\ x.func = b /\ x.mat = c[n].mat
  BY <1>1 DEF CtxRec
<1>3. d = [c EXCEPT ![Len(c)].func = b]
  OBVIOUS
<1> HIDE DEF x
<1>4. CtxLike(c, d) /\ d[n] = x
  BY <1>1, <1>2 DEF CtxLike
<1> HIDE DEF d
<1> QED
  BY <1>2, <1>3, <1>4

-----------------------------------------------------------------------------
(* The functions that the commands are made of                             *)
LEMMA IndexPoppedOK ==
    ASSUME NEW S, OK(S)
    PROVE  OK(IndexPopped(S)) /\ Len(IndexPopped(S).ctx) = Len(S.ctx)
<1> DEFINE T == IndexPopped(S)
           t == S.vars
           c == S.ctx
           n == Len(c)
           L == Len(c) - 1
           i == LookupPrivate(t, "MAT", L)
           d == [c EXCEPT ![Len(c)].mat = FALSE]
           v == t[i].val
           m == [mode |-> 1, name |-> v.name, level |-> v.level]
<1>1. CASE ~c[n].mat
  BY <1>1 DEF IndexPopped, TopCtx
<1>2. CASE c[n].mat
  <2>1. Good(t, c, S.matedit, S.editor)
    BY DEF OK
  <2>2. /\ n \in Nat /\ n \in 1 .. n /\ L \in Nat /\ L \in 0 .. MaxLevel
        /\ c[n].func \in BOOLEAN
        /\ c[n].func <=> HasPrivate(t, "STK", L)
        /\ c[n].mat <=> HasPrivate(t, "MAT", L)
    BY <2>1, LevelFacts
  <2>3. c \in Seq(CtxRec) /\ Table(t, L) /\ MatsPoint(t) /\ Flagged(t, c) /\ n # 0
        /\ n \in 1 .. (MaxLevel + 1) /\ S.editor \in BOOLEAN
    BY <2>1, <2>2 DEF Good
  <2>4. i # 0 /\ i \in 1 .. Len(t) /\ t[i].private /\ t[i].name = "MAT" /\ t[i].level = L
    <3> HIDE DEF t, c, n, L, i
    <3> QED
      BY <1>2, <2>2, <2>3, LookupPrivateFacts DEF i
  <2>5. T = [vars |-> Without(t, {i}), ctx |-> d, matedit |-> m, editor |-> S.editor]
    BY <1>2, <2>4 DEF IndexPopped, TopCtx, LevelOf
  <2> DEFINE r == Without(t, {i})
  <2>6. /\ T = [vars |-> T.vars, ctx |-> T.ctx, matedit |-> T.matedit, editor |-> T.editor]
        /\ T.vars = r /\ T.ctx = d /\ T.matedit = m /\ T.editor = S.editor
    <3> HIDE DEF r, d, m, T
    <3> QED
      BY <2>5 DEF r
  <2>7. m.mode = 1 /\ m.name = v.name /\ m.level = v.level
    OBVIOUS
  <2>8. /\ Table(r, L)
        /\ MatsPoint(t) => MatsPoint(r)
        /\ \A x, l : HasVar(r, x, l) <=> HasVar(t, x, l)
        /\ \A x, l : HasPrivate(r, x, l) <=> HasPrivate(t, x, l) /\ ~(x = t[i].name /\ l = L)
    <3> HIDE DEF t, L, i, r
    <3> QED
      BY <2>2, <2>3, <2>4, PrivateRemoved DEF r
  <2>9. CtxLike(c, d) /\ d[n].mat = FALSE /\ d[n].func = c[n].func
    <3> DEFINE b == FALSE
    <3>1. b \in BOOLEAN /\ ~b /\ d = [c EXCEPT ![Len(c)].mat = b]
      OBVIOUS
    <3> HIDE DEF b, d, c
    <3>2. CtxLike(c, d) /\ d[Len(c)].mat = b /\ d[Len(c)].func = c[Len(c)].func
      BY <2>3, <3>1, MatFlag
    <3> QED
      BY <3>2 DEF b
  <2>10. v \in MatValues
    <3>1. t[i] \in Entries
      BY <2>3, <2>4 DEF Table
    <3> HIDE DEF v, t, i
    <3> QED
      BY <2>4, <3>1, EntryFacts DEF v
  <2>11. v.name \in Names /\ v.level \in GlobalLevel .. MaxLevel
    <3> HIDE DEF v
    <3> QED
      BY <2>10 DEF MatValues
  <2>12. v.level # GlobalLevel => HasVar(t, v.name, v.level)
    BY <2>3, <2>4 DEF MatsPoint, PointsDown
  <2>13. m \in MateditRec
    <3> HIDE DEF v
    <3> QED
      BY <2>11 DEF MateditRec
  <2> HIDE DEF T, t, c, n, L, i, d, v, m, r
  <2>14. Points(r, m)
    BY <2>7, <2>8, <2>11, <2>12 DEF Points
  <2>15. Flagged(r, d)
    <3> SUFFICES ASSUME NEW k \in 1 .. Len(d)
                 PROVE  /\ d[k].func <=> HasPrivate(r, "STK", k - 1)
                        /\ d[k].mat <=> HasPrivate(r, "MAT", k - 1)
      BY DEF Flagged
    <3>1. k \in 1 .. n /\ Len(d) = n /\ (k # n => d[k] = c[k])
      BY <2>9 DEF CtxLike, n
    <3>2. /\ c[k].func <=> HasPrivate(t, "STK", k - 1)
          /\ c[k].mat <=> HasPrivate(t, "MAT", k - 1)
      BY <2>3, <3>1 DEF Flagged, n
    <3>3. k = n <=> k - 1 = L
      BY <2>2, <3>1 DEF n, L
    <3>4. HasPrivate(r, "STK", k - 1) <=> HasPrivate(t, "STK", k - 1)
      BY <2>4, <2>8
    <3>5. HasPrivate(r, "MAT", k - 1) <=> HasPrivate(t, "MAT", k - 1) /\ k # n
      BY <2>4, <2>8, <3>3
    <3> QED
      BY <2>9, <3>1, <3>2, <3>4, <3>5
  <2>16. d \in Seq(CtxRec) /\ Len(d) = n
    BY <2>9 DEF CtxLike, n
  <2>17. Table(r, Len(d) - 1)
    BY <2>8, <2>16 DEF L, n
  <2>18. Good(r, d, m, S.editor)
    BY <2>3, <2>8, <2>13, <2>14, <2>15, <2>16, <2>17 DEF Good
  <2> QED
    BY <2>6, <2>16, <2>18 DEF OK, T, n, c
<1> QED
  BY <1>1, <1>2

(* Nothing local is left.                                                  *)
Emptied(S) ==
    /\ S.ctx = <<NoContext>>
    /\ \A n, l : HasVar(S.vars, n, l) => l = GlobalLevel

(* The frames that are left when a level is popped                         *)
FramesLeft(c) == IF Len(c) - 1 = 0 THEN <<NoContext>> ELSE SubSeq(c, 1, Len(c) - 1)

LEMMA OneFrame ==
    ASSUME NEW A, NEW x \in A
    PROVE  <<x>> \in Seq(A) /\ Len(<<x>>) = 1 /\ <<x>>[1] = x
OBVIOUS

LEMMA FirstPart ==
    ASSUME NEW A, NEW c \in Seq(A), NEW n \in Nat, n <= Len(c)
    PROVE  /\ SubSeq(c, 1, n) \in Seq(A) /\ Len(SubSeq(c, 1, n)) = n
           /\ \A k \in 1 .. n : SubSeq(c, 1, n)[k] = c[k]
<1>1. \A i \in 1 .. n : c[i] \in A
  OBVIOUS
<1>2. /\ SubSeq(c, 1, n) \in Seq(A)
      /\ Len(SubSeq(c, 1, n)) = IF 1 <= n THEN n - 1 + 1 ELSE 0
      /\ \A i \in 1 .. n - 1 + 1 : SubSeq(c, 1, n)[i] = c[1 + i - 1]
  BY <1>1, SubSeqProperties
<1> DEFINE s == SubSeq(c, 1, n)
<1> HIDE DEF s
<1>3. Len(s) = n /\ \A k \in 1 .. n : s[k] = c[k]
  <2>1. /\ Len(s) = IF 1 <= n THEN n - 1 + 1 ELSE 0
        /\ \A i \in 1 .. n - 1 + 1 : s[i] = c[1 + i - 1]
    BY <1>2 DEF s
  <2>2. \A k \in 1 .. n : 1 + k - 1 = k /\ k \in 1 .. n - 1 + 1
    OBVIOUS
  <2> QED
    BY <2>1, <2>2
<1> QED
  BY <1>2, <1>3 DEF s

LEMMA FramesLeftFacts ==
    ASSUME NEW c \in Seq(CtxRec), Len(c) # 0
    PROVE  /\ FramesLeft(c) \in Seq(CtxRec)
           /\ Len(c) = 1 => FramesLeft(c) = <<NoContext>>
           /\ Len(c) = 1 => Len(FramesLeft(c)) = 1 /\ FramesLeft(c)[1] = NoContext
           /\ Len(c) # 1 => /\ Len(FramesLeft(c)) = Len(c) - 1
                            /\ \A k \in 1 .. (Len(c) - 1) : FramesLeft(c)[k] = c[k]
<1>1. NoContext \in CtxRec
  BY DEF NoContext, CtxRec
<1>2. CASE Len(c) = 1
  <2>1. FramesLeft(c) = <<NoContext>>
    BY <1>2 DEF FramesLeft
  <2> HIDE DEF FramesLeft
  <2>2. <<NoContext>> \in Seq(CtxRec) /\ Len(<<NoContext>>) = 1 /\ <<NoContext>>[1] = NoContext
    BY <1>1, OneFrame
  <2> QED
    BY <1>2, <2>1, <2>2
<1>3. CASE Len(c) # 1
  <2>1. FramesLeft(c) = SubSeq(c, 1, Len(c) - 1)
    BY <1>3 DEF FramesLeft
  <2>2. /\ SubSeq(c, 1, Len(c) - 1) \in Seq(CtxRec)
        /\ Len(SubSeq(c, 1, Len(c) - 1)) = Len(c) - 1
        /\ \A k \in 1 .. (Len(c) - 1) : SubSeq(c, 1, Len(c) - 1)[k] = c[k]
    <3> DEFINE n == Len(c) - 1
    <3>1. n \in Nat /\ n <= Len(c)
      OBVIOUS
    <3> HIDE DEF n
    <3>2. /\ SubSeq(c, 1, n) \in Seq(CtxRec) /\ Len(SubSeq(c, 1, n)) = n
          /\ \A k \in 1 .. n : SubSeq(c, 1, n)[k] = c[k]
      BY <3>1, FirstPart
    <3> QED
      BY <3>2 DEF n
  <2> QED
    BY <1>3, <2>1, <2>2
<1> QED
  BY <1>2, <1>3

LEMMA PoppedOK ==
    ASSUME NEW S, OK(S)
    PROVE  /\ OK(Popped(S))
           /\ Len(S.ctx) = 1 => Emptied(Popped(S))
           /\ Len(S.ctx) # 1 => Len(Popped(S).ctx) = Len(S.ctx) - 1
<1> DEFINE T == IndexPopped(S)
           t == T.vars
           c == T.ctx
           L == Len(c) - 1
           gone == FromLevel(t, L)
           leave == T.matedit.mode = 3 /\ T.matedit.level >= L
           lost == T.matedit.mode \in {1, 3}
                     /\ \E i \in gone : Refers(T.matedit, t[i].name, t[i].level)
           r == RemoveLocals(t, L)
           d == FramesLeft(c)
           m == IF leave \/ lost THEN Off(T.matedit) ELSE T.matedit
           e == T.editor /\ ~leave
           P == Popped(S)
<1>1. OK(T) /\ Len(c) = Len(S.ctx)
  BY IndexPoppedOK
<1>2. LevelOf(T) = L /\ LevelOf(S) = L
  <2> HIDE DEF T
  <2> QED
    BY <1>1 DEF LevelOf
<1>3. P = [vars |-> r, ctx |-> d, matedit |-> m, editor |-> e]
  <2>1. P = [LocalsRemoved(T) EXCEPT !.ctx = IF L = 0 THEN <<NoContext>> ELSE SubSeq(@, 1, L)]
    BY <1>2 DEF Popped
  <2>2. LocalsRemoved(T) = [vars |-> r, ctx |-> c, matedit |-> m, editor |-> e]
    <3> HIDE DEF T
    <3> QED
      BY <1>2 DEF LocalsRemoved
  <2> HIDE DEF P, T, r, m, e
  <2>3. P = [vars |-> r, matedit |-> m, editor |-> e,
             ctx |-> IF L = 0 THEN <<NoContext>> ELSE SubSeq(c, 1, L)]
    BY <2>1, <2>2
  <2> QED
    BY <2>3 DEF FramesLeft
<1>4. Good(t, c, T.matedit, T.editor)
  BY <1>1 DEF OK
<1> HIDE DEF T
<1>5. L \in Nat /\ Len(c) \in Nat /\ Len(c) \in 1 .. (MaxLevel + 1) /\ MaxLevel \in Nat
  BY <1>4, LevelFacts DEF Good
<1>6. c \in Seq(CtxRec) /\ Table(t, L) /\ MatsPoint(t) /\ Flagged(t, c) /\ Len(c) # 0
      /\ T.matedit \in MateditRec /\ Points(t, T.matedit) /\ T.editor \in BOOLEAN
  BY <1>4, <1>5 DEF Good
<1> HIDE DEF t, c, P, gone
<1>7. /\ P = [vars |-> P.vars, ctx |-> P.ctx, matedit |-> P.matedit, editor |-> P.editor]
      /\ P.vars = r /\ P.ctx = d /\ P.matedit = m /\ P.editor = e
  <2> HIDE DEF r, d, m, e
  <2> QED
    BY <1>3
<1>8. /\ d \in Seq(CtxRec)
      /\ Len(c) = 1 => d = <<NoContext>> /\ Len(d) = 1 /\ d[1] = NoContext
      /\ Len(c) # 1 => Len(d) = Len(c) - 1 /\ \A k \in 1 .. (Len(c) - 1) : d[k] = c[k]
  BY <1>6, FramesLeftFacts
<1> HIDE DEF d
<1> DEFINE M == Len(d) - 1
<1>9. M \in Int /\ L - 1 <= M /\ Len(d) \in 1 .. (MaxLevel + 1)
  <2>1. (Len(c) = 1 /\ Len(d) = 1) \/ (Len(c) # 1 /\ Len(d) = Len(c) - 1)
    BY <1>8
  <2> DEFINE x == Len(c)
             y == Len(d)
  <2>2. x \in 1 .. (MaxLevel + 1) /\ MaxLevel \in Nat
        /\ ((x = 1 /\ y = 1) \/ (x # 1 /\ y = x - 1))
    BY <1>5, <2>1
  <2> HIDE DEF x, y
  <2>3. y - 1 \in Int /\ x - 1 - 1 <= y - 1 /\ y \in 1 .. (MaxLevel + 1)
    BY <2>2
  <2> QED
    BY <2>3 DEF x, y
<1> HIDE DEF M
<1>10. /\ Table(r, M)
       /\ MatsPoint(t) => MatsPoint(r)
       /\ \A n, l : HasVar(r, n, l) <=> HasVar(t, n, l) /\ l # L
       /\ \A n, l : HasPrivate(r, n, l) <=> HasPrivate(t, n, l) /\ l # L
  <2> HIDE DEF r, L
  <2> QED
    BY <1>5, <1>6, <1>9, RemoveLocalsFacts DEF r
<1> HIDE DEF r
<1>11. e \in BOOLEAN
  BY <1>6
<1>12. m \in MateditRec /\ Points(r, m)
  <2>1. CASE leave \/ lost
    <3>1. m = Off(T.matedit)
      BY <2>1
    <3> QED
      BY <1>6, <3>1, OffFacts
  <2>2. CASE ~leave /\ ~lost
    <3>1. m = T.matedit
      BY <2>2
    <3> DEFINE q == T.matedit
    <3>2. ASSUME q.mode \in {1, 3}, q.level # GlobalLevel
          PROVE  HasVar(r, q.name, q.level)
      <4>1. HasVar(t, q.name, q.level)
        BY <1>6, <3>2 DEF Points
      <4>2. q.level # L
        <5> SUFFICES ASSUME q.level = L
                     PROVE  lost
          BY <2>2
        <5>1. PICK i \in 1 .. Len(t) : t[i].name = q.name /\ t[i].level = L
          BY <4>1 DEF HasVar
        <5>2. gone = {j \in 1 .. Len(t) : t[j].level = L}
          BY <1>5, <1>6, FromLevelFacts DEF gone
        <5>3. i \in gone
          BY <5>1, <5>2
        <5> QED
          BY <3>2, <5>1, <5>3 DEF Refers
      <4> QED
        BY <1>10, <4>1, <4>2
    <3>3. Points(r, q)
      BY <1>6, <3>2 DEF Points
    <3> QED
      BY <1>6, <3>1, <3>3
  <2> QED
    BY <2>1, <2>2
<1> HIDE DEF m, e
<1>13. Flagged(r, d)
  <2>1. CASE Len(c) = 1
    <3>1. ~HasPrivate(r, "STK", 0) /\ ~HasPrivate(r, "MAT", 0)
      BY <1>10, <2>1
    <3>2. ~NoContext.mat /\ ~NoContext.func
      BY DEF NoContext
    <3>3. Len(d) = 1 /\ d[1] = NoContext
      BY <1>8, <2>1
    <3>4. \A k \in 1 .. 1 : k = 1 /\ k - 1 = 0
      OBVIOUS
    <3>5. ASSUME NEW k \in 1 .. 1
          PROVE  /\ d[k].func <=> HasPrivate(r, "STK", k - 1)
                 /\ d[k].mat <=> HasPrivate(r, "MAT", k - 1)
      <4>1. k = 1 /\ k - 1 = 0
        BY <3>4
      <4>2. d[k] = NoContext
        BY <3>3, <4>1
      <4> QED
        BY <3>1, <3>2, <4>1, <4>2
    <3> QED
      BY <3>3, <3>5 DEF Flagged
  <2>2. CASE Len(c) # 1
    <3>1. Len(d) = Len(c) - 1 /\ \A k \in 1 .. (Len(c) - 1) : d[k] = c[k]
      BY <1>8, <2>2
    <3> SUFFICES ASSUME NEW k \in 1 .. Len(d)
                 PROVE  /\ d[k].func <=> HasPrivate(r, "STK", k - 1)
                        /\ d[k].mat <=> HasPrivate(r, "MAT", k - 1)
      BY DEF Flagged
    <3>2. k \in 1 .. Len(c) /\ k - 1 # L /\ d[k] = c[k]
      BY <1>5, <3>1
    <3>3. /\ c[k].func <=> HasPrivate(t, "STK", k - 1)
          /\ c[k].mat <=> HasPrivate(t, "MAT", k - 1)
      BY <1>6, <3>2 DEF Flagged
    <3> QED
      BY <1>10, <3>2, <3>3
  <2> QED
    BY <2>1, <2>2
<1>14. OK(P)
  <2>1. Good(r, d, m, e)
    BY <1>6, <1>8, <1>9, <1>10, <1>11, <1>12, <1>13 DEF Good, M
  <2> QED
    BY <1>7, <2>1 DEF OK
<1>15. ASSUME Len(c) = 1
       PROVE  Emptied(P)
  <2>1. L = 0
    BY <1>15
  <2>2. ASSUME NEW n, NEW l, HasVar(r, n, l)
        PROVE  l = GlobalLevel
    <3>1. HasVar(t, n, l) /\ l # 0
      BY <1>10, <2>1, <2>2
    <3>2. PICK i \in 1 .. Len(t) : t[i].level = l
      BY <3>1 DEF HasVar
    <3>3. l \in Int /\ l >= GlobalLevel /\ l <= 0
      <4>0. t[i] \in Entries /\ t[i].level <= L
        <5> HIDE DEF L
        <5> QED
          BY <1>6 DEF Table, Sorted
      <4>1. t[i] \in Entries /\ t[i].level <= 0
        BY <2>1, <4>0
      <4>2. t[i].level \in Int /\ GlobalLevel <= t[i].level
        BY <4>1, EntryFacts
      <4> QED
        BY <3>2, <4>1, <4>2
    <3> QED
      BY <3>1, <3>3 DEF GlobalLevel
  <2> QED
    BY <1>7, <1>8, <1>15, <2>2 DEF Emptied
<1> QED
  BY <1>1, <1>7, <1>8, <1>14, <1>15 DEF P

-----------------------------------------------------------------------------
(* Several levels are popped: the state after each, and the mode found     *)
NothingPopped(S) == [S |-> S, saved |-> {}]

IsPops(g, S, n) ==
    g = [k \in 0 .. n |-> IF k = 0 THEN NothingPopped(S) ELSE PopStep(g[k - 1])]

Pops(S, n) == CHOOSE g : IsPops(g, S, n)

LEMMA PopsExist ==
    ASSUME NEW S, NEW n \in Nat
    PROVE  \E g : IsPops(g, S, n)
<1> DEFINE T == {k \in Nat : ~\E g : IsPops(g, S, k)}
<1> SUFFICES ASSUME T # {}
             PROVE  FALSE
  OBVIOUS
<1>1. T \subseteq Nat /\ \A k \in Nat : k \in T <=> ~\E g : IsPops(g, S, k)
  OBVIOUS
<1> HIDE DEF T
<1>2. PICK m \in T : \A k \in T : m <= k
  BY <1>1, LeastElement
<1>3. m \in Nat
  BY <1>1
<1>4. m # 0
  <2> SUFFICES ASSUME m = 0
               PROVE  FALSE
    OBVIOUS
  <2> DEFINE g == [k \in 0 .. 0 |-> NothingPopped(S)]
  <2>1. \A k \in 0 .. 0 : k = 0
    OBVIOUS
  <2>2. IsPops(g, S, 0)
    BY <2>1 DEF IsPops
  <2> QED
    BY <1>1, <2>2
<1>5. m - 1 \in Nat /\ ~(m <= m - 1)
  BY <1>3, <1>4
<1>6. PICK h : IsPops(h, S, m - 1)
  <2>1. m - 1 \notin T
    BY <1>2, <1>5
  <2> QED
    BY <1>1, <1>5, <2>1
<1>7. \A k \in 0 .. (m - 1) : h[k] = IF k = 0 THEN NothingPopped(S) ELSE PopStep(h[k - 1])
  BY <1>6 DEF IsPops
<1> DEFINE g == [k \in 0 .. m |-> IF k = m THEN PopStep(h[m - 1]) ELSE h[k]]
<1>8. \A k \in 0 .. m : g[k] = IF k = m THEN PopStep(h[m - 1]) ELSE h[k]
  OBVIOUS
<1>9. g = [k \in 0 .. m |-> g[k]]
  OBVIOUS
<1> HIDE DEF g
<1>10. ASSUME NEW k \in 0 .. m
       PROVE  g[k] = IF k = 0 THEN NothingPopped(S) ELSE PopStep(g[k - 1])
  <2>1. CASE k = m
    <3>1. g[k] = PopStep(h[m - 1]) /\ k # 0
      BY <1>4, <1>8, <2>1
    <3>2. k - 1 \in 0 .. m /\ k - 1 # m
      BY <1>3, <1>4, <2>1
    <3>3. g[k - 1] = h[m - 1]
      BY <1>8, <2>1, <3>2
    <3> QED
      BY <3>1, <3>3
  <2>2. CASE k # m
    <3>1. g[k] = h[k] /\ k \in 0 .. (m - 1)
      BY <1>3, <1>8, <2>2
    <3>2. k # 0 => k - 1 \in 0 .. m /\ k - 1 # m
      BY <1>3
    <3>3. k # 0 => g[k - 1] = h[k - 1]
      BY <1>8, <3>2
    <3> QED
      BY <1>7, <3>1, <3>3
  <2> QED
    BY <2>1, <2>2
<1>11. IsPops(g, S, m)
  <2>1. [k \in 0 .. m |-> g[k]]
          = [k \in 0 .. m |-> IF k = 0 THEN NothingPopped(S) ELSE PopStep(g[k - 1])]
    BY <1>10
  <2> QED
    BY <1>9, <2>1 DEF IsPops
<1> QED
  BY <1>1, <1>2, <1>3, <1>11

LEMMA PopsFacts ==
    ASSUME NEW S, NEW n \in Nat
    PROVE  /\ PoppedTimes(S, n) = Pops(S, n)[n]
           /\ \A k \in 0 .. n : Pops(S, n)[k] = IF k = 0 THEN NothingPopped(S)
                                                ELSE PopStep(Pops(S, n)[k - 1])
<1>1. PoppedTimes(S, n) = Pops(S, n)[n]
  BY DEF PoppedTimes, Pops, IsPops, NothingPopped
<1>2. IsPops(Pops(S, n), S, n)
  BY PopsExist DEF Pops
<1>3. \A k \in 0 .. n : Pops(S, n)[k] = IF k = 0 THEN NothingPopped(S)
                                        ELSE PopStep(Pops(S, n)[k - 1])
  BY <1>2 DEF IsPops
<1> QED
  BY <1>1, <1>3

PopStage(R, S, k) ==
    /\ OK(R.S)
    /\ k < Len(S.ctx) => Len(R.S.ctx) = Len(S.ctx) - k
    /\ k = Len(S.ctx) => Emptied(R.S)

LEMMA PopsOK ==
    ASSUME NEW S, OK(S), NEW n \in 0 .. Len(S.ctx)
    PROVE  \A k \in 0 .. n : PopStage(Pops(S, n)[k], S, k)
<1> DEFINE g == Pops(S, n)
           N == Len(S.ctx)
           T == {k \in 0 .. n : ~PopStage(g[k], S, k)}
<1>1. N \in Nat /\ N # 0
  <2>1. Good(S.vars, S.ctx, S.matedit, S.editor)
    BY DEF OK
  <2> QED
    BY <2>1, LevelFacts
<1>2. n \in Nat /\ n <= N
  BY <1>1
<1>3. /\ PoppedTimes(S, n) = g[n]
      /\ \A k \in 0 .. n : g[k] = IF k = 0 THEN NothingPopped(S) ELSE PopStep(g[k - 1])
  BY <1>2, PopsFacts
<1>4. T \subseteq Nat /\ \A k \in 0 .. n : k \in T <=> ~PopStage(g[k], S, k)
  OBVIOUS
<1>5. T \subseteq 0 .. n
  OBVIOUS
<1> HIDE DEF g, T
<1>6. ASSUME T # {}
      PROVE  FALSE
  <2>1. PICK k \in T : \A j \in T : k <= j
    BY <1>4, <1>6, LeastElement
  <2>2. k \in 0 .. n /\ ~PopStage(g[k], S, k) /\ k \in Nat
    BY <1>4, <1>5
  <2>3. k # 0
    <3> SUFFICES ASSUME k = 0
                 PROVE  PopStage(g[k], S, k)
      BY <2>2
    <3>1. g[k] = NothingPopped(S)
      BY <1>3, <2>2
    <3>2. NothingPopped(S).S = S
      BY DEF NothingPopped
    <3> QED
      BY <1>1, <3>1, <3>2 DEF PopStage
  <2>4. k - 1 \in 0 .. n /\ ~(k <= k - 1)
    BY <1>2, <2>2, <2>3
  <2>5. PopStage(g[k - 1], S, k - 1)
    <3>1. k - 1 \notin T
      BY <2>1, <2>4
    <3> QED
      BY <1>4, <2>4, <3>1
  <2> DEFINE Q == g[k - 1].S
  <2>6. g[k].S = Popped(Q)
    <3>1. g[k] = PopStep(g[k - 1])
      BY <1>3, <2>2, <2>3
    <3> QED
      BY <3>1 DEF PopStep
  <2>7. OK(Q) /\ Len(Q.ctx) = N - (k - 1)
    BY <1>1, <1>2, <2>2, <2>3, <2>5 DEF PopStage
  <2> HIDE DEF Q, N
  <2>8. /\ OK(Popped(Q))
        /\ Len(Q.ctx) = 1 => Emptied(Popped(Q))
        /\ Len(Q.ctx) # 1 => Len(Popped(Q).ctx) = Len(Q.ctx) - 1
    BY <2>7, PoppedOK
  <2>9. k < N => Len(Popped(Q).ctx) = N - k
    BY <1>1, <2>2, <2>7, <2>8
  <2>10. k = N => Emptied(Popped(Q))
    BY <1>1, <2>2, <2>7, <2>8
  <2>11. PopStage(g[k], S, k)
    BY <2>6, <2>8, <2>9, <2>10 DEF PopStage, N
  <2> QED
    BY <2>2, <2>11
<1> QED
  BY <1>4, <1>6 DEF g

LEMMA PoppedTimesOK ==
    ASSUME NEW S, OK(S), NEW n \in 0 .. Len(S.ctx)
    PROVE  PopStage(PoppedTimes(S, n), S, n)
<1>1. n \in Nat /\ n \in 0 .. n
  <2>1. Good(S.vars, S.ctx, S.matedit, S.editor)
    BY DEF OK
  <2>2. Len(S.ctx) \in Nat
    BY <2>1, LevelFacts
  <2> QED
    BY <2>2
<1>2. PoppedTimes(S, n) = Pops(S, n)[n]
  BY <1>1, PopsFacts
<1>3. PopStage(Pops(S, n)[n], S, n)
  BY <1>1, PopsOK
<1> QED
  BY <1>2, <1>3

LEMMA SavedModeFacts ==
    ASSUME NEW S, OK(S), HasSavedMode(S)
    PROVE  SavedMode(S) \in BOOLEAN
<1> DEFINE i == StkOf(S)
           L == Len(S.ctx) - 1
<1>1. Good(S.vars, S.ctx, S.matedit, S.editor)
  BY DEF OK
<1>2. Table(S.vars, L) /\ L \in Nat
  BY <1>1, LevelFacts DEF Good
<1>3. i # 0 /\ i = LookupPrivate(S.vars, "STK", L)
  BY DEF HasSavedMode, StkOf, LevelOf
<1> HIDE DEF i, L
<1>4. i \in 1 .. Len(S.vars) /\ S.vars[i].private /\ S.vars[i].name = "STK"
  BY <1>2, <1>3, LookupPrivateFacts
<1>5. S.vars[i] \in Entries
  BY <1>2, <1>4 DEF Table
<1>6. S.vars[i].val \in StkValues
  BY <1>4, <1>5, EntryFacts
<1> DEFINE v == S.vars[i].val
<1>7. v.caller \in BOOLEAN
  <2>1. v \in StkValues
    BY <1>6
  <2> HIDE DEF v
  <2> QED
    BY <2>1 DEF StkValues
<1> QED
  BY <1>7 DEF SavedMode, i

-----------------------------------------------------------------------------
(* The invariant, and that each action preserves it                        *)
Inv ==
    /\ Good(vars, ctx, matedit, editor)
    /\ bigStack \in BOOLEAN /\ allowBig \in BOOLEAN /\ BigStackAllowed

LEMMA NowOK ==
    ASSUME Inv
    PROVE  OK(Now)
<1>1. Now.vars = vars /\ Now.ctx = ctx /\ Now.matedit = matedit /\ Now.editor = editor
  BY DEF Now
<1>2. Now = [vars |-> Now.vars, ctx |-> Now.ctx, matedit |-> Now.matedit,
             editor |-> Now.editor]
  BY <1>1 DEF Now
<1> QED
  BY <1>1, <1>2 DEF OK, Inv

LEMMA BecomeOK ==
    ASSUME NEW S, OK(S), Become(S)
    PROVE  Good(vars, ctx, matedit, editor)'
BY DEF OK, Become

(* A table that gained a value                                             *)
LEMMA GoodGains ==
    ASSUME NEW t, NEW c, NEW m, NEW e, Good(t, c, m, e),
           NEW r, Table(r, Len(c) - 1), Gains(t, r), NEW q, q = m \/ q = Off(m)
    PROVE  Good(r, c, q, e)
<1>1. m \in MateditRec /\ Points(t, m) /\ Flagged(t, c) /\ MatsPoint(t)
  BY DEF Good
<1>2. Points(r, m)
  BY <1>1 DEF Points, Gains
<1>3. q \in MateditRec /\ Points(r, q)
  <2>1. CASE q = m
    BY <1>1, <1>2, <2>1
  <2>2. CASE q = Off(m)
    BY <1>1, <2>2, OffFacts
  <2> QED
    BY <2>1, <2>2
<1>4. MatsPoint(r)
  BY <1>1 DEF Gains
<1>5. Flagged(r, c)
  BY <1>1 DEF Flagged, Gains
<1> QED
  BY <1>3, <1>4, <1>5 DEF Good

LEMMA CallPreserves ==
    ASSUME Inv, Call
    PROVE  Inv'
<1> DEFINE n == Len(ctx)
           d == Append(ctx, NoContext)
<1>1. Good(vars, ctx, matedit, editor) /\ bigStack \in BOOLEAN /\ allowBig \in BOOLEAN
      /\ BigStackAllowed
  BY DEF Inv
<1>2. ctx \in Seq(CtxRec) /\ n \in 1 .. (MaxLevel + 1) /\ Table(vars, n - 1) /\ MatsPoint(vars)
      /\ Flagged(vars, ctx) /\ MaxLevel \in Nat /\ n \in Nat
  BY <1>1, BoundsAssumption DEF Good
<1>3. n - 1 < MaxLevel /\ ctx' = d
  BY DEF Call, rtnLevel
<1>4. UNCHANGED <<vars, matedit, editor, bigStack, allowBig>>
  BY DEF Call
<1>5. NoContext \in CtxRec /\ ~NoContext.mat /\ ~NoContext.func
  BY DEF NoContext, CtxRec
<1>6. /\ d \in Seq(CtxRec) /\ Len(d) = n + 1
      /\ \A k \in 1 .. n : d[k] = ctx[k]
      /\ d[n + 1] = NoContext
  BY <1>2, <1>5
<1> HIDE DEF d, n
<1>7. Len(d) \in 1 .. (MaxLevel + 1) /\ Len(d) - 1 = n
  BY <1>2, <1>3, <1>6
<1>8. vars \in Seq(Entries) /\ Sorted(vars, n - 1) /\ Shadows(vars)
  BY <1>2 DEF Table
<1>9. \A i \in 1 .. Len(vars) : vars[i].level \in Int /\ vars[i].level <= n - 1
  BY <1>8, EntryFacts DEF Sorted
<1>10. Table(vars, n)
  <2>1. \A i \in 1 .. Len(vars) : vars[i].level <= n
    BY <1>2, <1>9
  <2> QED
    BY <1>8, <2>1 DEF Sorted, Table
<1>11. ASSUME NEW x
       PROVE  ~HasPrivate(vars, x, n)
  BY <1>2, <1>9 DEF HasPrivate
<1>12. Flagged(vars, d)
  <2> SUFFICES ASSUME NEW k \in 1 .. Len(d)
               PROVE  /\ d[k].func <=> HasPrivate(vars, "STK", k - 1)
                      /\ d[k].mat <=> HasPrivate(vars, "MAT", k - 1)
    BY DEF Flagged
  <2>1. CASE k \in 1 .. n
    BY <1>2, <1>6, <2>1 DEF Flagged, n
  <2>2. CASE k = n + 1
    <3>1. k - 1 = n /\ d[k] = NoContext
      BY <1>2, <1>6, <2>2
    <3> QED
      BY <1>5, <1>11, <3>1
  <2> QED
    BY <1>2, <1>6, <2>1, <2>2
<1>13. Good(vars, d, matedit, editor)
  BY <1>1, <1>6, <1>7, <1>10, <1>12 DEF Good
<1> QED
  BY <1>1, <1>3, <1>4, <1>13 DEF Inv, BigStackAllowed

LEMMA ReturnPreserves ==
    ASSUME Inv, Return
    PROVE  Inv'
<1>1. OK(Popped(Now)) /\ OK(Now)
  BY NowOK, PoppedOK
<1>2. Good(vars, ctx, matedit, editor)'
  BY <1>1, BecomeOK DEF Return
<1>3. bigStack \in BOOLEAN /\ allowBig \in BOOLEAN /\ BigStackAllowed
  BY DEF Inv
<1>4. CASE HasSavedMode(Now)
  <2>1. SavedMode(Now) \in BOOLEAN
    BY <1>1, <1>4, SavedModeFacts
  <2>2. (SavedMode(Now) => allowBig) /\ bigStack' = SavedMode(Now) /\ allowBig' = allowBig
    BY <1>4 DEF Return
  <2> QED
    BY <1>2, <1>3, <2>1, <2>2 DEF Inv, BigStackAllowed
<1>5. CASE ~HasSavedMode(Now)
  <2>1. bigStack' = bigStack /\ allowBig' = allowBig
    BY <1>5 DEF Return
  <2> QED
    BY <1>2, <1>3, <2>1 DEF Inv, BigStackAllowed
<1> QED
  BY <1>4, <1>5

LEMMA DropLevelsPreserves ==
    ASSUME Inv, NEW n \in 0 .. Len(ctx), DropLevels(n)
    PROVE  Inv'
<1> DEFINE R == PoppedTimes(Now, n)
<1>1. OK(Now) /\ Now.ctx = ctx
  BY NowOK DEF Now
<1>2. PopStage(R, Now, n)
  <2>1. n \in 0 .. Len(Now.ctx)
    BY <1>1
  <2> QED
    BY <1>1, <2>1, PoppedTimesOK
<1>3. Become(R.S) /\ bigStack' = ModeRestored(R.saved) /\ allowBig' = allowBig
  BY DEF DropLevels
<1> HIDE DEF R
<1>4. Good(vars, ctx, matedit, editor)'
  BY <1>2, <1>3, BecomeOK DEF PopStage
<1>5. bigStack \in BOOLEAN /\ allowBig \in BOOLEAN /\ BigStackAllowed
  BY DEF Inv
<1>6. ModeRestored(R.saved) \in BOOLEAN /\ (ModeRestored(R.saved) => allowBig)
  BY <1>5 DEF ModeRestored, BigStackAllowed
<1> QED
  BY <1>3, <1>4, <1>5, <1>6 DEF Inv, BigStackAllowed

LEMMA AfterUpdateIs ==
    ASSUME NEW n, NEW val, NEW local
    PROVE  AfterUpdate(n, val, local) = matedit \/ AfterUpdate(n, val, local) = Off(matedit)
BY DEF AfterUpdate

LEMMA StorePreserves ==
    ASSUME Inv, NEW n \in Names, NEW val \in Values, NEW local \in BOOLEAN,
           vars' = StoreVar(vars, n, val, local, rtnLevel),
           matedit' = AfterUpdate(n, val, local),
           UNCHANGED <<ctx, editor, bigStack, allowBig>>
    PROVE  Inv'
<1> DEFINE L == Len(ctx) - 1
<1>1. Good(vars, ctx, matedit, editor) /\ bigStack \in BOOLEAN /\ allowBig \in BOOLEAN
      /\ BigStackAllowed
  BY DEF Inv
<1>2. L \in 0 .. MaxLevel /\ Table(vars, L)
  BY <1>1, LevelFacts DEF Good
<1>3. vars' = StoreVar(vars, n, val, local, L)
  BY DEF rtnLevel
<1> HIDE DEF L
<1>4. Table(vars', L) /\ Gains(vars, vars')
  BY <1>2, <1>3, StoreVarFacts
<1>5. matedit' = matedit \/ matedit' = Off(matedit)
  BY AfterUpdateIs
<1>6. Good(vars', ctx, matedit', editor)
  BY <1>1, <1>4, <1>5, GoodGains DEF L
<1> QED
  BY <1>1, <1>6 DEF Inv, BigStackAllowed

LEMMA LstoPreserves ==
    ASSUME Inv, NEW n \in Names, NEW val \in Values, Lsto(n, val)
    PROVE  Inv'
<1> DEFINE local == TRUE
<1>1. local \in BOOLEAN /\ vars' = StoreVar(vars, n, val, local, rtnLevel)
      /\ matedit' = AfterUpdate(n, val, local)
      /\ UNCHANGED <<ctx, editor, bigStack, allowBig>>
  BY DEF Lsto
<1> HIDE DEF local
<1> QED
  BY <1>1, StorePreserves

LEMMA StoPreserves ==
    ASSUME Inv, NEW n \in Names, NEW val \in Values, Sto(n, val)
    PROVE  Inv'
<1> DEFINE local == FALSE
<1>1. local \in BOOLEAN /\ vars' = StoreVar(vars, n, val, local, rtnLevel)
      /\ matedit' = AfterUpdate(n, val, local)
      /\ UNCHANGED <<ctx, editor, bigStack, allowBig>>
  BY DEF Sto
<1> HIDE DEF local
<1> QED
  BY <1>1, StorePreserves

LEMMA PurgedOK ==
    ASSUME NEW S, OK(S), NEW n \in Names, NEW local \in BOOLEAN,
           S.matedit.mode = 3 => S.matedit.name # n
    PROVE  OK(Purged(S, n, local)) /\ Purged(S, n, local).ctx = S.ctx
<1> DEFINE t == S.vars
           c == S.ctx
           q == S.matedit
           L == Len(c) - 1
           i == LookupVar(t, n)
           r == PurgeVar(t, i)
           m == IF q.mode = 1 /\ Refers(q, n, t[i].level) THEN Off(q) ELSE q
           T == Purged(S, n, local)
<1>1. Good(t, c, q, S.editor)
  BY DEF OK
<1>2. L \in Nat /\ Table(t, L)
  BY <1>1, LevelFacts DEF Good
<1>3. CASE ToPurge(t, n, local, L) = 0
  BY <1>3 DEF Purged, LevelOf
<1>4. CASE ToPurge(t, n, local, L) # 0
  <2>1. i # 0 /\ (t[i].level = GlobalLevel \/ t[i].level = L) /\ ToPurge(t, n, local, L) = i
    BY <1>4 DEF ToPurge
  <2>2. T = [S EXCEPT !.vars = PurgeVar(@, i),
                      !.matedit = IF @.mode = 1 /\ Refers(@, n, S.vars[i].level)
                                    THEN Off(@) ELSE @]
    BY <2>1 DEF Purged, LevelOf
  <2>3. S = [vars |-> t, ctx |-> c, matedit |-> q, editor |-> S.editor]
    BY DEF OK
  <2>4. T = [vars |-> r, ctx |-> c, matedit |-> m, editor |-> S.editor]
    <3> HIDE DEF T
    <3> QED
      BY <2>2, <2>3
  <2>5. /\ T = [vars |-> T.vars, ctx |-> T.ctx, matedit |-> T.matedit, editor |-> T.editor]
        /\ T.vars = r /\ T.ctx = c /\ T.matedit = m /\ T.editor = S.editor
    <3> HIDE DEF T, r, m, c
    <3> QED
      BY <2>4
  <2> HIDE DEF T, i, L, t, c
  <2>6. /\ Table(r, L)
        /\ MatsPoint(t) => MatsPoint(r)
        /\ \A x, l : HasVar(r, x, l) <=> HasVar(t, x, l) /\ ~(x = n /\ l = t[i].level)
        /\ \A x, l : HasPrivate(r, x, l) <=> HasPrivate(t, x, l)
    <3> HIDE DEF r
    <3> QED
      BY <1>2, <2>1, PurgeVarFacts DEF r, i
  <2> HIDE DEF r
  <2>7. q \in MateditRec /\ Points(t, q) /\ Flagged(t, c) /\ MatsPoint(t)
    BY <1>1 DEF Good
  <2>8. m \in MateditRec /\ Points(r, m)
    <3>1. CASE q.mode = 1 /\ Refers(q, n, t[i].level)
      BY <2>7, <3>1, OffFacts
    <3>2. CASE ~(q.mode = 1 /\ Refers(q, n, t[i].level))
      <4>1. m = q
        BY <3>2
      <4>2. ASSUME q.mode \in {1, 3}, q.level # GlobalLevel
            PROVE  HasVar(r, q.name, q.level)
        <5>1. HasVar(t, q.name, q.level)
          BY <2>7, <4>2 DEF Points
        <5>2. ~(q.name = n /\ q.level = t[i].level)
          BY <3>2, <4>2 DEF Refers
        <5> QED
          BY <2>6, <5>1, <5>2
      <4>3. Points(r, q)
        BY <2>7, <4>2 DEF Points
      <4> QED
        BY <2>7, <4>1, <4>3
    <3> QED
      BY <3>1, <3>2
  <2> HIDE DEF m, q
  <2>9. Flagged(r, c)
    BY <2>6, <2>7 DEF Flagged
  <2>10. Good(r, c, m, S.editor)
    BY <1>1, <2>6, <2>7, <2>8, <2>9 DEF Good, L
  <2> QED
    BY <2>5, <2>10 DEF OK, T, c
<1> QED
  BY <1>3, <1>4

LEMMA Keeps ==
    ASSUME Inv, Good(vars, ctx, matedit, editor)', UNCHANGED <<bigStack, allowBig>>
    PROVE  Inv'
BY DEF Inv, BigStackAllowed

LEMMA ClvPreserves ==
    ASSUME Inv, NEW n \in Names, Clv(n)
    PROVE  Inv'
<1> DEFINE local == FALSE
<1>1. OK(Now) /\ Now.matedit = matedit
  BY NowOK DEF Now
<1>2. local \in BOOLEAN /\ Become(Purged(Now, n, local)) /\ UNCHANGED <<bigStack, allowBig>>
  BY DEF Clv
<1>3. Now.matedit.mode = 3 => Now.matedit.name # n
  BY <1>1 DEF Clv
<1> HIDE DEF local
<1>4. OK(Purged(Now, n, local))
  BY <1>1, <1>2, <1>3, PurgedOK
<1> QED
  BY <1>2, <1>4, BecomeOK, Keeps

LEMMA LclvPreserves ==
    ASSUME Inv, NEW n \in Names, Lclv(n)
    PROVE  Inv'
<1> DEFINE local == TRUE
           S == Purged(Now, n, local)
<1>1. OK(Now) /\ Now.matedit = matedit
  BY NowOK DEF Now
<1>2. local \in BOOLEAN
  OBVIOUS
<1>3. (Become(S) \/ Become(IndexPopped(S))) /\ UNCHANGED <<bigStack, allowBig>>
  BY DEF Lclv
<1>4. Now.matedit.mode = 3 => Now.matedit.name # n
  BY <1>1 DEF Lclv
<1> HIDE DEF local
<1>5. OK(S)
  BY <1>1, <1>2, <1>4, PurgedOK
<1> HIDE DEF S
<1>6. OK(IndexPopped(S))
  BY <1>5, IndexPoppedOK
<1> QED
  BY <1>3, <1>5, <1>6, BecomeOK, Keeps

(* The caller's stack mode is saved at the current level.                  *)
LEMMA SaveMode ==
    ASSUME NEW t, NEW c, NEW m, NEW e, Good(t, c, m, e),
           LookupPrivate(t, "STK", Len(c) - 1) = 0, NEW v \in StkValues
    PROVE  Good(StorePrivate(t, "STK", v, Len(c) - 1), [c EXCEPT ![Len(c)].func = TRUE], m, e)
<1> DEFINE n == Len(c)
           L == Len(c) - 1
           r == StorePrivate(t, "STK", v, L)
           d == [c EXCEPT ![Len(c)].func = TRUE]
<1>1. /\ n \in Nat /\ n \in 1 .. n /\ L \in Nat /\ L \in 0 .. MaxLevel
      /\ c[n].mat \in BOOLEAN
      /\ c[n].mat <=> HasPrivate(t, "MAT", L)
  BY LevelFacts
<1>2. c \in Seq(CtxRec) /\ Table(t, L) /\ MatsPoint(t) /\ Flagged(t, c) /\ n # 0
      /\ m \in MateditRec /\ Points(t, m)
  BY <1>1 DEF Good
<1>3. CtxLike(c, d) /\ d[n].func = TRUE /\ d[n].mat = c[n].mat
  <2> DEFINE b == TRUE
  <2>1. b \in BOOLEAN /\ b /\ d = [c EXCEPT ![Len(c)].func = b]
    OBVIOUS
  <2> HIDE DEF b, d
  <2>2. CtxLike(c, d) /\ d[Len(c)].func = b /\ d[Len(c)].mat = c[Len(c)].mat
    BY <1>2, <2>1, FuncFlag
  <2> QED
    BY <2>2 DEF b
<1> HIDE DEF L, d, n
<1>4. ~HasPrivate(t, "STK", L)
  BY <1>1, <1>2, LookupPrivateFacts DEF L
<1> DEFINE stk == "STK"
<1>5. stk = "STK" /\ stk # "MAT"
  OBVIOUS
<1>6. r = StorePrivate(t, stk, v, L)
  OBVIOUS
<1> HIDE DEF stk, r
<1>7. Table(r, L) /\ Saves(t, stk, v, L, r)
  <2>1. ~HasPrivate(t, stk, L)
    BY <1>4, <1>5
  <2> QED
    BY <1>1, <1>2, <1>5, <1>6, <2>1, StorePrivateFacts
<1>8. /\ \A x, l : HasVar(r, x, l) <=> HasVar(t, x, l)
      /\ \A x, l : HasPrivate(r, x, l) <=> HasPrivate(t, x, l) \/ (x = stk /\ l = L)
      /\ MatsPoint(r)
  BY <1>2, <1>5, <1>7 DEF Saves
<1>9. Points(r, m)
  BY <1>2, <1>8 DEF Points
<1>10. Flagged(r, d)
  <2> SUFFICES ASSUME NEW k \in 1 .. Len(d)
               PROVE  /\ d[k].func <=> HasPrivate(r, "STK", k - 1)
                      /\ d[k].mat <=> HasPrivate(r, "MAT", k - 1)
    BY DEF Flagged
  <2>1. k \in 1 .. n /\ Len(d) = n /\ (k # n => d[k] = c[k])
    BY <1>3 DEF CtxLike, n
  <2>2. /\ c[k].func <=> HasPrivate(t, "STK", k - 1)
        /\ c[k].mat <=> HasPrivate(t, "MAT", k - 1)
    BY <1>2, <2>1 DEF Flagged, n
  <2>3. k = n <=> k - 1 = L
    BY <1>1, <2>1 DEF n, L
  <2>4. HasPrivate(r, "STK", k - 1) <=> HasPrivate(t, "STK", k - 1) \/ k = n
    BY <1>5, <1>8, <2>3
  <2>5. HasPrivate(r, "MAT", k - 1) <=> HasPrivate(t, "MAT", k - 1)
    BY <1>5, <1>8
  <2> QED
    BY <1>3, <2>1, <2>2, <2>4, <2>5
<1>11. d \in Seq(CtxRec) /\ Len(d) = n
  BY <1>3 DEF CtxLike, n
<1>12. Table(r, Len(d) - 1)
  BY <1>7, <1>11 DEF L, n
<1>13. Good(r, d, m, e)
  BY <1>2, <1>8, <1>9, <1>10, <1>11, <1>12 DEF Good, n
<1> QED
  BY <1>13 DEF r, d, L, stk

LEMMA FuncPreserves ==
    ASSUME Inv, Func
    PROVE  Inv'
<1> DEFINE v == [kind |-> "func", caller |-> bigStack, nested |-> FALSE]
           L == Len(ctx) - 1
           d == [ctx EXCEPT ![Len(ctx)].func = TRUE]
<1>1. Good(vars, ctx, matedit, editor) /\ bigStack \in BOOLEAN
  BY DEF Inv
<1>2. v \in StkValues
  BY <1>1 DEF StkValues
<1> HIDE DEF v
<1>3. LookupPrivate(vars, "STK", L) = 0
  BY DEF Func, rtnLevel
<1>4. vars' = StorePrivate(vars, "STK", v, L) /\ ctx' = d
  BY DEF Func, rtnLevel, v
<1>5. UNCHANGED <<matedit, editor, bigStack, allowBig>>
  BY DEF Func
<1>6. Good(vars', ctx', matedit, editor)
  BY <1>1, <1>2, <1>3, <1>4, SaveMode
<1> QED
  BY <1>5, <1>6, Keeps

LEMMA LStkPreserves ==
    ASSUME Inv, NEW big \in BOOLEAN, LStk(big)
    PROVE  Inv'
<1> DEFINE v == [kind |-> "lstk", caller |-> bigStack]
           L == Len(ctx) - 1
           d == [ctx EXCEPT ![Len(ctx)].func = TRUE]
<1>1. Good(vars, ctx, matedit, editor) /\ bigStack \in BOOLEAN /\ allowBig \in BOOLEAN
  BY DEF Inv
<1>2. v \in StkValues
  BY <1>1 DEF StkValues
<1> HIDE DEF v
<1>3. LookupPrivate(vars, "STK", L) = 0
  BY DEF LStk, rtnLevel
<1>4. vars' = StorePrivate(vars, "STK", v, L) /\ ctx' = d
  BY DEF LStk, rtnLevel, v
<1>5. (big => allowBig) /\ bigStack' = big /\ UNCHANGED <<matedit, editor, allowBig>>
  BY DEF LStk
<1>6. Good(vars', ctx', matedit, editor)
  BY <1>1, <1>2, <1>3, <1>4, SaveMode
<1> QED
  BY <1>1, <1>5, <1>6 DEF Inv, BigStackAllowed

LEMMA NestedValue ==
    ASSUME NEW e \in Entries, e.private, e.name = "STK", e.val.kind = "func"
    PROVE  /\ [e EXCEPT !.val.nested = TRUE] \in Entries
           /\ Revalues(e, [e EXCEPT !.val.nested = TRUE])
<1> DEFINE v == e.val
           w == [v EXCEPT !.nested = TRUE]
           f == [e EXCEPT !.val = w]
           Funcs == [kind : {"func"}, caller : BOOLEAN, nested : BOOLEAN]
           Lstks == [kind : {"lstk"}, caller : BOOLEAN]
<1>1. v \in StkValues
  BY EntryFacts
<1>2. v \in Funcs
  <2>1. v \in Funcs \/ v \in Lstks
    BY <1>1 DEF StkValues
  <2> HIDE DEF v
  <2>2. v \in Lstks => v.kind = "lstk"
    OBVIOUS
  <2>3. v.kind = "func"
    BY DEF v
  <2> QED
    BY <2>1, <2>2, <2>3
<1>3. w \in Funcs
  <2> HIDE DEF v
  <2> QED
    BY <1>2
<1>4. w \in StkValues
  BY <1>3 DEF StkValues
<1>5. f = [e EXCEPT !.val.nested = TRUE]
  OBVIOUS
<1> HIDE DEF w, v
<1>6. f \in Entries
  BY <1>4, EntryFacts DEF Entries
<1>7. Revalues(e, f)
  BY DEF Entries, Revalues
<1> QED
  BY <1>5, <1>6, <1>7

LEMMA LStkAfterFuncPreserves ==
    ASSUME Inv, NEW big \in BOOLEAN, LStkAfterFunc(big)
    PROVE  Inv'
<1> DEFINE L == Len(ctx) - 1
           i == LookupPrivate(vars, "STK", L)
           f == [vars[i] EXCEPT !.val.nested = TRUE]
<1>1. Good(vars, ctx, matedit, editor) /\ bigStack \in BOOLEAN /\ allowBig \in BOOLEAN
  BY DEF Inv
<1>2. Table(vars, L) /\ L \in Nat /\ vars \in Seq(Entries)
  BY <1>1, LevelFacts DEF Good, Table
<1>3. i # 0 /\ vars[i].val.kind = "func"
  BY DEF LStkAfterFunc, rtnLevel
<1>4. (big => allowBig) /\ bigStack' = big /\ UNCHANGED <<ctx, matedit, editor, allowBig>>
  BY DEF LStkAfterFunc
<1>5. vars' = [vars EXCEPT ![i] = f]
  BY DEF LStkAfterFunc, rtnLevel
<1>6. i \in 1 .. Len(vars) /\ vars[i].private /\ vars[i].name = "STK"
  <2> HIDE DEF L, i
  <2> QED
    BY <1>2, <1>3, LookupPrivateFacts DEF i
<1> HIDE DEF i, L
<1>7. f \in Entries /\ Revalues(vars[i], f)
  BY <1>2, <1>3, <1>6, NestedValue
<1> HIDE DEF f
<1>8. Revalued(vars, vars')
  <2>1. /\ vars' \in Seq(Entries) /\ Len(vars') = Len(vars) /\ vars'[i] = f
        /\ \A j \in 1 .. Len(vars) : j # i => vars'[j] = vars[j]
    BY <1>2, <1>5, <1>6, <1>7
  <2>2. \A j \in 1 .. Len(vars) : Revalues(vars[j], vars[j])
    BY DEF Revalues
  <2> QED
    BY <1>7, <2>1, <2>2 DEF Revalued
<1>9. Table(vars', L) /\ Gains(vars, vars')
  BY <1>2, <1>8, TableRevalued
<1>10. Good(vars', ctx, matedit, editor)
  BY <1>1, <1>9, GoodGains DEF L
<1> QED
  BY <1>1, <1>4, <1>10 DEF Inv, BigStackAllowed

LEMMA StkPreserves ==
    ASSUME Inv, NEW big \in BOOLEAN, Stk(big)
    PROVE  Inv'
BY DEF Inv, Stk, BigStackAllowed

LEMMA SetAllowPreserves ==
    ASSUME Inv, SetAllowBigStack
    PROVE  Inv'
BY DEF Inv, SetAllowBigStack, BigStackAllowed

-----------------------------------------------------------------------------
(* The indexed matrix and the matrix editor                                *)
LEMMA IndexPushedOK ==
    ASSUME NEW S, OK(S), S.matedit.mode = 1, S.matedit.level < Len(S.ctx) - 1
    PROVE  /\ OK(IndexPushed(S))
           /\ \A n, l : HasVar(S.vars, n, l) => HasVar(IndexPushed(S).vars, n, l)
<1> DEFINE t == S.vars
           c == S.ctx
           q == S.matedit
           n == Len(c)
           L == Len(c) - 1
           v == [kind |-> "index", name |-> q.name, level |-> q.level]
           r == StorePrivate(t, "MAT", v, L)
           d == [c EXCEPT ![Len(c)].mat = TRUE]
           T == IndexPushed(S)
<1>1. Good(t, c, q, S.editor)
  BY DEF OK
<1>2. /\ n \in Nat /\ n \in 1 .. n /\ L \in Nat /\ L \in 0 .. MaxLevel
      /\ c[n].func \in BOOLEAN /\ c[n].mat \in BOOLEAN
      /\ c[n].func <=> HasPrivate(t, "STK", L)
      /\ c[n].mat <=> HasPrivate(t, "MAT", L)
  BY <1>1, LevelFacts
<1>3. c \in Seq(CtxRec) /\ Table(t, L) /\ MatsPoint(t) /\ Flagged(t, c) /\ n # 0
      /\ n \in 1 .. (MaxLevel + 1) /\ S.editor \in BOOLEAN
      /\ q \in MateditRec /\ Points(t, q)
  BY <1>1, <1>2 DEF Good
<1>4. CASE c[n].mat
  BY <1>4 DEF IndexPushed, TopCtx
<1>5. CASE ~c[n].mat
  <2>1. T = [vars |-> r, ctx |-> d, matedit |-> Off(q), editor |-> S.editor]
    BY <1>5 DEF IndexPushed, TopCtx, LevelOf
  <2>2. q.name \in Names /\ (q.level # GlobalLevel => HasVar(t, q.name, q.level))
        /\ q.level \in GlobalLevel .. MaxLevel /\ q.level < L
    BY <1>3, MateditFacts DEF Points
  <2>3. v \in MatValues /\ v.name = q.name /\ v.level = q.level
    <3> HIDE DEF q
    <3> QED
      BY <2>2 DEF MatValues
  <2>4. CtxLike(c, d) /\ d[n].mat = TRUE /\ d[n].func = c[n].func
    <3> DEFINE b == TRUE
    <3>1. b \in BOOLEAN /\ b /\ d = [c EXCEPT ![Len(c)].mat = b]
      OBVIOUS
    <3> HIDE DEF b, d
    <3>2. CtxLike(c, d) /\ d[Len(c)].mat = b /\ d[Len(c)].func = c[Len(c)].func
      BY <1>3, <3>1, MatFlag
    <3> QED
      BY <3>2 DEF b
  <2> DEFINE mat == "MAT"
  <2>5. mat = "MAT" /\ mat # "STK" /\ r = StorePrivate(t, mat, v, L)
    OBVIOUS
  <2>6. /\ T = [vars |-> T.vars, ctx |-> T.ctx, matedit |-> T.matedit, editor |-> T.editor]
        /\ T.vars = r /\ T.ctx = d /\ T.matedit = Off(q) /\ T.editor = S.editor
    <3> HIDE DEF T, r, d
    <3> QED
      BY <2>1
  <2> HIDE DEF T, r, d, v, n, L, c, t, mat, q
  <2>7. Table(r, L) /\ Saves(t, mat, v, L, r)
    <3>1. ~HasPrivate(t, mat, L)
      BY <1>2, <1>5, <2>5
    <3> QED
      BY <1>2, <1>3, <2>3, <2>5, <3>1, StorePrivateFacts
  <2>8. /\ \A x, l : HasVar(r, x, l) <=> HasVar(t, x, l)
        /\ \A x, l : HasPrivate(r, x, l) <=> HasPrivate(t, x, l) \/ (x = mat /\ l = L)
    BY <2>7 DEF Saves
  <2>9. MatsPoint(r)
    BY <1>3, <2>2, <2>3, <2>7 DEF Saves
  <2>10. Off(q) \in MateditRec /\ Points(r, Off(q))
    BY <1>3, OffFacts
  <2>11. Flagged(r, d)
    <3> SUFFICES ASSUME NEW k \in 1 .. Len(d)
                 PROVE  /\ d[k].func <=> HasPrivate(r, "STK", k - 1)
                        /\ d[k].mat <=> HasPrivate(r, "MAT", k - 1)
      BY DEF Flagged
    <3>1. k \in 1 .. n /\ Len(d) = n /\ (k # n => d[k] = c[k])
      BY <2>4 DEF CtxLike, n
    <3>2. /\ c[k].func <=> HasPrivate(t, "STK", k - 1)
          /\ c[k].mat <=> HasPrivate(t, "MAT", k - 1)
      BY <1>3, <3>1 DEF Flagged, n
    <3>3. k = n <=> k - 1 = L
      BY <1>2, <3>1 DEF n, L
    <3>4. HasPrivate(r, "STK", k - 1) <=> HasPrivate(t, "STK", k - 1)
      BY <2>5, <2>8
    <3>5. HasPrivate(r, "MAT", k - 1) <=> HasPrivate(t, "MAT", k - 1) \/ k = n
      BY <2>5, <2>8, <3>3
    <3> QED
      BY <2>4, <3>1, <3>2, <3>4, <3>5
  <2>12. d \in Seq(CtxRec) /\ Len(d) = n
    BY <2>4 DEF CtxLike, n
  <2>13. Table(r, Len(d) - 1)
    BY <2>7, <2>12 DEF L, n
  <2>14. Good(r, d, Off(q), S.editor)
    BY <1>3, <2>9, <2>10, <2>11, <2>12, <2>13 DEF Good
  <2> QED
    BY <2>6, <2>8, <2>14 DEF OK, T, t
<1> QED
  BY <1>4, <1>5

LEMMA PointAtOK ==
    ASSUME NEW S, OK(S), NEW n \in Names, HoldsMatrix(S.vars, n), NEW mode \in {1, 3}
    PROVE  OK(PointAt(S, n, mode))
<1> DEFINE i == LookupVar(S.vars, n)
           level == S.vars[i].level
           T == IF S.matedit.mode = 1 /\ S.matedit.level < level THEN IndexPushed(S) ELSE S
           m == [mode |-> mode, name |-> n, level |-> level]
           e == T.editor \/ mode = 3
           P == PointAt(S, n, mode)
<1>1. Good(S.vars, S.ctx, S.matedit, S.editor)
  BY DEF OK
<1>2. /\ S.vars \in Seq(Entries) /\ Shadows(S.vars) /\ Sorted(S.vars, Len(S.ctx) - 1)
      /\ Len(S.ctx) - 1 \in 0 .. MaxLevel /\ MaxLevel \in Nat /\ S.matedit \in MateditRec
  BY <1>1, LevelFacts DEF Good, Table
<1>3. i # 0
  BY DEF HoldsMatrix
<1>4. i \in 1 .. Len(S.vars) /\ ~S.vars[i].private /\ S.vars[i].name = n
  <2> HIDE DEF i
  <2> QED
    BY <1>2, <1>3, LookupVarFacts DEF i
<1>5. P = [T EXCEPT !.matedit = m, !.editor = @ \/ mode = 3]
  BY DEF PointAt
<1> HIDE DEF i
<1>6. /\ HasVar(S.vars, n, level)
      /\ level \in Int /\ GlobalLevel <= level /\ level <= MaxLevel /\ level <= Len(S.ctx) - 1
  <2>1. HasVar(S.vars, n, level)
    BY <1>4 DEF HasVar
  <2>2. S.vars[i] \in Entries /\ level <= Len(S.ctx) - 1
    BY <1>2, <1>4 DEF Sorted
  <2>3. level \in Int /\ GlobalLevel <= level /\ level <= MaxLevel
    BY <2>2, EntryFacts
  <2> QED
    BY <2>1, <2>2, <2>3
<1> HIDE DEF level
<1>7. OK(T) /\ HasVar(T.vars, n, level)
  <2>1. CASE S.matedit.mode = 1 /\ S.matedit.level < level
    <3>1. S.matedit.level < Len(S.ctx) - 1
      <4>1. S.matedit.level \in Int
        BY <1>2, MateditFacts
      <4> QED
        BY <1>2, <1>6, <2>1, <4>1
    <3>2. T = IndexPushed(S)
      BY <2>1
    <3> HIDE DEF T
    <3> QED
      BY <1>6, <2>1, <3>1, <3>2, IndexPushedOK
  <2>2. CASE ~(S.matedit.mode = 1 /\ S.matedit.level < level)
    <3>1. T = S
      BY <2>2
    <3> HIDE DEF T
    <3> QED
      BY <1>6, <3>1
  <2> QED
    BY <2>1, <2>2
<1> HIDE DEF T
<1>8. P = [vars |-> T.vars, ctx |-> T.ctx, matedit |-> m, editor |-> e]
  <2>1. T = [vars |-> T.vars, ctx |-> T.ctx, matedit |-> T.matedit, editor |-> T.editor]
    BY <1>7 DEF OK
  <2> DEFINE f == [vars |-> T.vars, ctx |-> T.ctx, matedit |-> T.matedit, editor |-> T.editor]
  <2>2. P = [f EXCEPT !.matedit = m, !.editor = @ \/ mode = 3]
    BY <1>5, <2>1
  <2> HIDE DEF P, m
  <2> QED
    BY <2>2
<1>9. m \in MateditRec /\ m.name = n /\ m.level = level /\ m.mode = mode
  <2>1. level \in GlobalLevel .. MaxLevel
    BY <1>2, <1>6 DEF GlobalLevel
  <2> QED
    BY <2>1 DEF MateditRec
<1> HIDE DEF P, m
<1>10. /\ P = [vars |-> P.vars, ctx |-> P.ctx, matedit |-> P.matedit, editor |-> P.editor]
       /\ P.vars = T.vars /\ P.ctx = T.ctx /\ P.matedit = m /\ P.editor = e
  <2> HIDE DEF e
  <2> QED
    BY <1>8
<1>11. Good(T.vars, T.ctx, T.matedit, T.editor)
  BY <1>7 DEF OK
<1>12. e \in BOOLEAN
  OBVIOUS
<1> HIDE DEF e
<1>13. Points(T.vars, m)
  BY <1>7, <1>9 DEF Points
<1>14. Good(T.vars, T.ctx, m, e)
  BY <1>9, <1>11, <1>12, <1>13 DEF Good
<1> QED
  BY <1>10, <1>14 DEF OK, P

(* The editor is left.                                                     *)
Leave(S) == [S EXCEPT !.matedit = Off(@), !.editor = FALSE]

LEMMA LeaveOK ==
    ASSUME NEW S, OK(S)
    PROVE  OK(Leave(S)) /\ Leave(S).vars = S.vars /\ Leave(S).ctx = S.ctx
<1> DEFINE P == Leave(S)
           f == [vars |-> S.vars, ctx |-> S.ctx, matedit |-> S.matedit, editor |-> S.editor]
           m == Off(S.matedit)
<1>1. S = f /\ Good(S.vars, S.ctx, S.matedit, S.editor)
  BY DEF OK
<1>2. P = [f EXCEPT !.matedit = Off(@), !.editor = FALSE]
  BY <1>1 DEF Leave
<1> HIDE DEF P
<1>3. P = [vars |-> S.vars, ctx |-> S.ctx, matedit |-> m, editor |-> FALSE]
  BY <1>2
<1> HIDE DEF m
<1>4. /\ P = [vars |-> P.vars, ctx |-> P.ctx, matedit |-> P.matedit, editor |-> P.editor]
      /\ P.vars = S.vars /\ P.ctx = S.ctx /\ P.matedit = m /\ P.editor = FALSE
  BY <1>3
<1>5. m \in MateditRec /\ Points(S.vars, m)
  <2>1. S.matedit \in MateditRec
    BY <1>1 DEF Good
  <2> QED
    BY <2>1, OffFacts DEF m
<1> DEFINE e == FALSE
<1>6. e \in BOOLEAN /\ P.editor = e
  BY <1>4
<1> HIDE DEF e
<1>7. Good(S.vars, S.ctx, m, e)
  BY <1>1, <1>5, <1>6 DEF Good
<1> QED
  BY <1>4, <1>6, <1>7 DEF OK, P

LEMMA LeftIs ==
    ASSUME NEW S, NEW fits
    PROVE  /\ LeftEditor(S, fits) = S \/ LeftEditor(S, fits) = Leave(S)
           /\ MateditGot(S) = S \/ MateditGot(S) = Leave(S)
<1>1. LeftEditor(S, fits) = S \/ LeftEditor(S, fits) = Leave(S)
  BY DEF LeftEditor, Leave
<1>2. MateditGot(S) = S \/ MateditGot(S) = Leave(S)
  BY DEF MateditGot, Leave
<1> QED
  BY <1>1, <1>2

LEMMA EditFinishedIs ==
    ASSUME NEW S
    PROVE  EditFinished(S) = S \/ EditFinished(S) = Leave(S)
<1> DEFINE yes == TRUE
           P == LeftEditor(S, yes)
<1>1. EditFinished(S) = S \/ EditFinished(S) = P
  BY DEF EditFinished
<1> HIDE DEF yes
<1>2. P = S \/ P = Leave(S)
  BY LeftIs
<1> HIDE DEF P
<1> QED
  BY <1>1, <1>2

LEMMA IndexPreserves ==
    ASSUME Inv, NEW n \in Names, Index(n)
    PROVE  Inv'
<1> DEFINE mode == 1
           S == PointAt(Now, n, mode)
<1>1. OK(Now) /\ Now.vars = vars
  BY NowOK DEF Now
<1>2. mode \in {1, 3} /\ Become(S) /\ HoldsMatrix(vars, n) /\ UNCHANGED <<bigStack, allowBig>>
  BY DEF Index
<1> HIDE DEF mode
<1>3. HoldsMatrix(Now.vars, n)
  BY <1>1, <1>2
<1>4. OK(S)
  BY <1>1, <1>2, <1>3, PointAtOK
<1> HIDE DEF S
<1> QED
  BY <1>2, <1>4, BecomeOK, Keeps

LEMMA EditnPreserves ==
    ASSUME Inv, NEW n \in Names, Editn(n)
    PROVE  Inv'
<1> DEFINE mode == 3
           F == EditFinished(Now)
           S == PointAt(F, n, mode)
<1>1. OK(Now) /\ Now.vars = vars
  BY NowOK DEF Now
<1>2. mode \in {1, 3} /\ Become(S) /\ HoldsMatrix(vars, n) /\ UNCHANGED <<bigStack, allowBig>>
  BY DEF Editn
<1> HIDE DEF mode
<1>3. OK(F) /\ F.vars = vars
  <2>1. F = Now \/ F = Leave(Now)
    BY EditFinishedIs
  <2> HIDE DEF F
  <2> QED
    BY <1>1, <2>1, LeaveOK
<1> HIDE DEF F
<1>4. HoldsMatrix(F.vars, n)
  BY <1>2, <1>3
<1>5. OK(S)
  BY <1>2, <1>3, <1>4, PointAtOK
<1> HIDE DEF S
<1> QED
  BY <1>2, <1>5, BecomeOK, Keeps

LEMMA UseMatrixPreserves ==
    ASSUME Inv, UseMatrix
    PROVE  Inv'
<1> DEFINE S == MateditGot(Now)
<1>1. OK(Now) /\ OK(Leave(Now))
  BY NowOK, LeaveOK
<1>2. S = Now \/ S = Leave(Now)
  BY LeftIs
<1>3. Become(S) /\ UNCHANGED <<bigStack, allowBig>>
  BY DEF UseMatrix
<1> HIDE DEF S
<1>4. OK(S)
  BY <1>1, <1>2
<1> QED
  BY <1>3, <1>4, BecomeOK, Keeps

LEMMA ExitMenuPreserves ==
    ASSUME Inv, ExitMenu
    PROVE  Inv'
<1>1. PICK fits \in BOOLEAN : Become(LeftEditor(Now, fits))
  BY DEF ExitMenu
<1> DEFINE S == LeftEditor(Now, fits)
<1>2. OK(Now) /\ OK(Leave(Now))
  BY NowOK, LeaveOK
<1>3. S = Now \/ S = Leave(Now)
  BY LeftIs
<1>4. Become(S) /\ UNCHANGED <<bigStack, allowBig>>
  BY <1>1 DEF ExitMenu
<1> HIDE DEF S
<1>5. OK(S)
  BY <1>2, <1>3
<1> QED
  BY <1>4, <1>5, BecomeOK, Keeps

LEMMA EditPreserves ==
    ASSUME Inv, Edit
    PROVE  Inv'
<1> DEFINE F == EditFinished(Now)
           P == [F EXCEPT !.matedit.mode = 2, !.editor = TRUE]
           f == [vars |-> F.vars, ctx |-> F.ctx, matedit |-> F.matedit, editor |-> F.editor]
           m == [F.matedit EXCEPT !.mode = 2]
           e == TRUE
<1>1. OK(Now) /\ OK(Leave(Now))
  BY NowOK, LeaveOK
<1>2. Become(P) /\ UNCHANGED <<bigStack, allowBig>>
  BY DEF Edit
<1>3. OK(F)
  <2>1. F = Now \/ F = Leave(Now)
    BY EditFinishedIs
  <2> HIDE DEF F
  <2> QED
    BY <1>1, <2>1
<1> HIDE DEF F
<1>4. F = f /\ Good(F.vars, F.ctx, F.matedit, F.editor)
  BY <1>3 DEF OK
<1>5. P = [f EXCEPT !.matedit.mode = 2, !.editor = TRUE]
  BY <1>4
<1> HIDE DEF P
<1>6. P = [vars |-> F.vars, ctx |-> F.ctx, matedit |-> m, editor |-> e]
  BY <1>5
<1>7. m \in MateditRec /\ m.mode = 2
  <2>1. F.matedit \in MateditRec
    BY <1>4 DEF Good
  <2> QED
    BY <2>1 DEF MateditRec
<1>8. e \in BOOLEAN
  OBVIOUS
<1> HIDE DEF m, e
<1>9. /\ P = [vars |-> P.vars, ctx |-> P.ctx, matedit |-> P.matedit, editor |-> P.editor]
      /\ P.vars = F.vars /\ P.ctx = F.ctx /\ P.matedit = m /\ P.editor = e
  BY <1>6
<1>10. Points(F.vars, m)
  BY <1>7 DEF Points
<1>11. Good(F.vars, F.ctx, m, e)
  BY <1>4, <1>7, <1>8, <1>10 DEF Good
<1>12. OK(P)
  BY <1>9, <1>11 DEF OK
<1> QED
  BY <1>2, <1>12, BecomeOK, Keeps

LEMMA ClAllPreserves ==
    ASSUME Inv, ClAll
    PROVE  Inv'
<1> DEFINE yes == TRUE
           S == IF editor THEN LeftEditor(Now, yes) ELSE Now
           N == Len(S.ctx)
           R == PoppedTimes(S, rtnLevel + 1)
           Q == R.S
           P == [Q EXCEPT !.vars = <<>>]
           f == [vars |-> Q.vars, ctx |-> Q.ctx, matedit |-> Q.matedit, editor |-> Q.editor]
<1>1. OK(Now) /\ OK(Leave(Now)) /\ Leave(Now).ctx = Now.ctx /\ Now.ctx = ctx
  BY NowOK, LeaveOK DEF Now
<1>2. Become(P) /\ bigStack' = ModeRestored(R.saved) /\ allowBig' = allowBig
  BY DEF ClAll
<1> HIDE DEF yes
<1>3. OK(S) /\ S.ctx = ctx
  <2>1. S = Now \/ S = Leave(Now)
    BY LeftIs
  <2> HIDE DEF S
  <2> QED
    BY <1>1, <2>1
<1> HIDE DEF S
<1>4. N \in Nat /\ N = Len(ctx) /\ rtnLevel + 1 = N
  <2>1. Good(vars, ctx, matedit, editor)
    BY DEF Inv
  <2>2. Len(ctx) \in Nat
    BY <2>1, LevelFacts
  <2> QED
    BY <1>3, <2>2 DEF rtnLevel
<1>5. PopStage(R, S, N)
  <2>1. N \in 0 .. Len(S.ctx)
    BY <1>4
  <2>2. R = PoppedTimes(S, N)
    BY <1>4
  <2> HIDE DEF N, R
  <2> QED
    BY <1>3, <2>1, <2>2, PoppedTimesOK
<1> HIDE DEF R
<1>6. OK(Q) /\ Emptied(Q)
  BY <1>5 DEF PopStage
<1> HIDE DEF Q, N
<1>7. Q = f /\ Good(Q.vars, Q.ctx, Q.matedit, Q.editor)
  BY <1>6 DEF OK
<1>8. P = [f EXCEPT !.vars = <<>>]
  BY <1>7
<1> HIDE DEF P
<1>9. P = [vars |-> <<>>, ctx |-> Q.ctx, matedit |-> Q.matedit, editor |-> Q.editor]
  BY <1>8
<1> DEFINE none == <<>>
<1>10. none \in Seq(Entries) /\ Len(none) = 0
  OBVIOUS
<1>11. /\ P = [vars |-> P.vars, ctx |-> P.ctx, matedit |-> P.matedit, editor |-> P.editor]
       /\ P.vars = none /\ P.ctx = Q.ctx /\ P.matedit = Q.matedit /\ P.editor = Q.editor
  BY <1>9
<1> HIDE DEF none
<1>12. \A k \in 1 .. Len(none) : FALSE
  BY <1>10
<1>13. Table(none, Len(Q.ctx) - 1) /\ MatsPoint(none)
  BY <1>10, <1>12 DEF Table, Sorted, Shadows, MatsPoint
<1>14. \A n, l : ~HasPrivate(none, n, l)
  BY <1>12 DEF HasPrivate
<1>15. Flagged(none, Q.ctx)
  <2> DEFINE c == Q.ctx
  <2>1. c = <<NoContext>>
    BY <1>6 DEF Emptied
  <2>2. NoContext \in CtxRec /\ ~NoContext.mat /\ ~NoContext.func
    BY DEF NoContext, CtxRec
  <2>3. Len(c) = 1 /\ c[1] = NoContext
    BY <2>1, <2>2, OneFrame
  <2> HIDE DEF c
  <2>4. \A k \in 1 .. Len(c) : c[k] = NoContext
    BY <2>3
  <2> QED
    BY <1>14, <2>2, <2>4 DEF Flagged, c
<1>16. Points(none, Q.matedit)
  <2> DEFINE q == Q.matedit
  <2>1. Points(Q.vars, q)
    BY <1>7 DEF Good
  <2>2. q.mode \in {1, 3} => q.name \in Names /\ q.level = GlobalLevel
    BY <1>6, <2>1 DEF Points, Emptied
  <2> QED
    BY <2>2 DEF Points
<1>17. Good(none, Q.ctx, Q.matedit, Q.editor)
  BY <1>7, <1>13, <1>15, <1>16 DEF Good
<1>18. OK(P)
  BY <1>11, <1>17 DEF OK
<1>19. Good(vars, ctx, matedit, editor)'
  BY <1>2, <1>18, BecomeOK
<1>20. bigStack \in BOOLEAN /\ allowBig \in BOOLEAN /\ BigStackAllowed
  BY DEF Inv
<1>21. ModeRestored(R.saved) \in BOOLEAN /\ (ModeRestored(R.saved) => allowBig)
  BY <1>20 DEF ModeRestored, BigStackAllowed
<1> QED
  BY <1>2, <1>19, <1>20, <1>21 DEF Inv, BigStackAllowed

-----------------------------------------------------------------------------
LEMMA InitEstablishes ==
    ASSUME Init
    PROVE  Inv
<1> DEFINE none == <<>>
           c == <<NoContext>>
           m == [mode |-> 0, name |-> NoName, level |-> GlobalLevel]
           e == FALSE
<1>1. vars = none /\ ctx = c /\ matedit = m /\ editor = e /\ bigStack = FALSE
      /\ allowBig \in BOOLEAN
  BY DEF Init
<1>2. none \in Seq(Entries) /\ Len(none) = 0 /\ MaxLevel \in Nat
  BY BoundsAssumption
<1>3. NoContext \in CtxRec /\ ~NoContext.mat /\ ~NoContext.func
  BY DEF NoContext, CtxRec
<1>4. c \in Seq(CtxRec) /\ Len(c) = 1 /\ c[1] = NoContext
  BY <1>3, OneFrame
<1>5. m \in MateditRec /\ m.mode = 0 /\ e \in BOOLEAN
  BY <1>2 DEF MateditRec, GlobalLevel
<1> HIDE DEF none, c, m, e
<1>6. (\A k \in 1 .. Len(none) : FALSE) /\ \A k \in 1 .. Len(c) : c[k] = NoContext
  BY <1>2, <1>4
<1>7. Table(none, Len(c) - 1) /\ MatsPoint(none)
  BY <1>2, <1>6 DEF Table, Sorted, Shadows, MatsPoint
<1>8. Flagged(none, c)
  <2>1. \A n, l : ~HasPrivate(none, n, l)
    BY <1>6 DEF HasPrivate
  <2> QED
    BY <1>3, <1>6, <2>1 DEF Flagged
<1>9. Points(none, m)
  BY <1>5 DEF Points
<1>10. Len(c) \in 1 .. (MaxLevel + 1)
  BY <1>2, <1>4
<1>11. Good(none, c, m, e)
  BY <1>4, <1>5, <1>7, <1>8, <1>9, <1>10 DEF Good
<1> QED
  BY <1>1, <1>11 DEF Inv, BigStackAllowed

LEMMA StepPreserves ==
    ASSUME Inv, [Next]_lVars
    PROVE  Inv'
<1>1. CASE UNCHANGED lVars
  BY <1>1 DEF lVars, Inv, BigStackAllowed
<1>2. CASE Next
  <2>1. CASE Call
    BY <2>1, CallPreserves
  <2>2. CASE Return
    BY <2>2, ReturnPreserves
  <2>3. CASE Unwind \/ ClearAllRtns
    <3>1. Len(ctx) \in Nat /\ Len(ctx) # 0 /\ rtnLevel = Len(ctx) - 1
      <4>1. Good(vars, ctx, matedit, editor)
        BY DEF Inv
      <4> QED
        BY <4>1, LevelFacts DEF rtnLevel
    <3>2. \E n \in 0 .. Len(ctx) : DropLevels(n)
      BY <2>3, <3>1 DEF Unwind, ClearAllRtns
    <3> QED
      BY <3>2, DropLevelsPreserves
  <2>4. CASE \E n \in Names, val \in Values : Lsto(n, val) \/ Sto(n, val)
    BY <2>4, LstoPreserves, StoPreserves
  <2>5. CASE \E n \in Names : Clv(n) \/ Lclv(n) \/ Index(n) \/ Editn(n)
    BY <2>5, ClvPreserves, LclvPreserves, IndexPreserves, EditnPreserves
  <2>6. CASE \E big \in BOOLEAN : LStk(big) \/ LStkAfterFunc(big) \/ Stk(big)
    BY <2>6, LStkPreserves, LStkAfterFuncPreserves, StkPreserves
  <2>7. CASE Func \/ SetAllowBigStack
    BY <2>7, FuncPreserves, SetAllowPreserves
  <2>8. CASE Edit \/ UseMatrix \/ ExitMenu \/ ClAll
    BY <2>8, EditPreserves, UseMatrixPreserves, ExitMenuPreserves, ClAllPreserves
  <2> QED
    BY <1>2, <2>1, <2>2, <2>3, <2>4, <2>5, <2>6, <2>7, <2>8 DEF Next
<1> QED
  BY <1>1, <1>2

(* The invariant holds in every reachable state, for any number of names,  *)
(* any depth of the return stack and any size of the table.                *)
THEOREM InvHolds == Spec => []Inv
<1>1. Init => Inv
  BY InitEstablishes
<1>2. Inv /\ [Next]_lVars => Inv'
  BY StepPreserves
<1> QED
  BY <1>1, <1>2, PTL DEF Spec

-----------------------------------------------------------------------------
LEMMA PropertiesFollow ==
    ASSUME Inv
    PROVE  TypeOK /\ Shadowing /\ SavedState /\ IndexedLocalExists /\ LevelsSorted
           /\ LookupInnermost
<1> DEFINE L == Len(ctx) - 1
<1>1. Good(vars, ctx, matedit, editor) /\ bigStack \in BOOLEAN /\ allowBig \in BOOLEAN
  BY DEF Inv
<1>2. /\ ctx \in Seq(CtxRec) /\ Table(vars, L) /\ MatsPoint(vars) /\ Flagged(vars, ctx)
      /\ matedit \in MateditRec /\ Points(vars, matedit) /\ editor \in BOOLEAN
      /\ vars \in Seq(Entries) /\ Sorted(vars, L) /\ Shadows(vars)
  BY <1>1 DEF Good, Table
<1>3. L \in 0 .. MaxLevel /\ rtnLevel = L /\ Len(ctx) \in Nat
  BY <1>1, LevelFacts DEF rtnLevel
<1> HIDE DEF L
<1>4. Len(vars) \in Nat /\ DOMAIN vars = 1 .. Len(vars) /\ DOMAIN ctx = 1 .. Len(ctx)
  BY <1>2
<1>5. \A i : i \in User <=> i \in 1 .. Len(vars) /\ ~vars[i].private
  BY <1>4 DEF User
<1>6. \A i \in 1 .. Len(vars) :
         /\ vars[i].level \in Int /\ vars[i].level <= L
         /\ vars[i].private \in BOOLEAN /\ vars[i] \in Entries
  BY <1>2, EntryFacts DEF Sorted
<1> HIDE DEF User
<1>7. TypeOK
  BY <1>1, <1>2, <1>3 DEF TypeOK, CtxRec, MateditRec
<1>8. Shadowing
  <2> SUFFICES ASSUME NEW i \in User
               PROVE  /\ vars[i].hiding <=> \E j \in User : j < i /\ SameName(i, j)
                      /\ vars[i].hidden <=> \E j \in User : j > i /\ SameName(i, j)
    BY DEF Shadowing
  <2>1. i \in 1 .. Len(vars) /\ ~vars[i].private
    BY <1>5
  <2>2. (vars[i].hiding <=> Older(vars, i)) /\ (vars[i].hidden <=> Newer(vars, i))
    BY <1>2, <2>1 DEF Shadows
  <2>3. Older(vars, i) <=> \E j \in User : j < i /\ SameName(i, j)
    BY <1>5 DEF Older, SameName
  <2>4. Newer(vars, i) <=> \E j \in User : j > i /\ SameName(i, j)
    BY <1>5 DEF Newer, SameName
  <2> QED
    BY <2>2, <2>3, <2>4
<1>9. ASSUME NEW n, NEW l
      PROVE  /\ Exists(n, l) <=> HasVar(vars, n, l)
             /\ Private(n, l) # {} <=> HasPrivate(vars, n, l)
  <2>1. Exists(n, l) <=> HasVar(vars, n, l)
    BY <1>5 DEF Exists, HasVar
  <2>2. Private(n, l) # {} <=> HasPrivate(vars, n, l)
    BY <1>4 DEF Private, HasPrivate
  <2> QED
    BY <2>1, <2>2
<1>10. SavedState
  <2> SUFFICES ASSUME NEW k \in 1 .. Len(ctx)
               PROVE  /\ ctx[k].func <=> Private("STK", k - 1) # {}
                      /\ ctx[k].mat <=> Private("MAT", k - 1) # {}
                      /\ \A i \in Private("MAT", k - 1) :
                            LET m == vars[i].val
                            IN  m.level < k - 1
                                /\ (m.level # GlobalLevel => Exists(m.name, m.level))
    BY <1>4 DEF SavedState
  <2>1. /\ ctx[k].func <=> HasPrivate(vars, "STK", k - 1)
        /\ ctx[k].mat <=> HasPrivate(vars, "MAT", k - 1)
    BY <1>2 DEF Flagged
  <2>2. ASSUME NEW i \in Private("MAT", k - 1)
        PROVE  /\ vars[i].val.level < k - 1
               /\ vars[i].val.level # GlobalLevel => Exists(vars[i].val.name, vars[i].val.level)
    <3>1. i \in 1 .. Len(vars) /\ vars[i].private /\ vars[i].name = "MAT" /\ vars[i].level = k - 1
      BY <1>4 DEF Private
    <3>2. PointsDown(vars, vars[i])
      BY <1>2, <3>1 DEF MatsPoint
    <3> QED
      BY <1>9, <3>1, <3>2 DEF PointsDown
  <2> QED
    BY <1>9, <2>1, <2>2
<1>11. IndexedLocalExists
  BY <1>2, <1>9 DEF IndexedLocalExists, Points
<1>12. LevelsSorted
  <2>1. \A i \in DOMAIN vars : vars[i].level <= rtnLevel
    BY <1>3, <1>4, <1>6
  <2>2. \A i, j \in DOMAIN vars :
           i < j /\ vars[i].level # GlobalLevel /\ vars[j].level # GlobalLevel
              => vars[i].level <= vars[j].level
    BY <1>2, <1>4 DEF Sorted
  <2>3. ASSUME NEW i \in 1 .. Len(vars), NEW j \in 1 .. Len(vars), i # j, SameName(i, j),
               vars[i].private = vars[j].private
        PROVE  vars[i].level # vars[j].level
    <3>1. Akin(vars[i], vars[j]) /\ Akin(vars[j], vars[i])
      BY <2>3 DEF SameName, Akin
    <3>2. i < j \/ j < i
      BY <2>3
    <3>3. vars[i].level < vars[j].level \/ vars[j].level < vars[i].level
      BY <1>2, <3>1, <3>2 DEF Sorted
    <3> QED
      BY <1>6, <3>3
  <2> QED
    BY <1>4, <2>1, <2>2, <2>3 DEF LevelsSorted
<1>13. LookupInnermost
  <2> SUFFICES ASSUME NEW i \in User
               PROVE  /\ LookupVar(vars, vars[i].name) # 0
                      /\ vars[LookupVar(vars, vars[i].name)].level >= vars[i].level
    BY DEF LookupInnermost
  <2> DEFINE j == LookupVar(vars, vars[i].name)
  <2>1. i \in 1 .. Len(vars) /\ ~vars[i].private
    BY <1>5
  <2>2. /\ j = 0 => \A k \in 1 .. Len(vars) : ~vars[k].private => vars[k].name # vars[i].name
        /\ j # 0 => /\ j \in 1 .. Len(vars) /\ ~vars[j].private /\ vars[j].name = vars[i].name
                    /\ \A k \in 1 .. Len(vars) :
                          ~vars[k].private /\ vars[k].name = vars[i].name => k <= j
    <3> DEFINE n == vars[i].name
    <3> HIDE DEF n
    <3>1. /\ LookupVar(vars, n) = 0 => \A k \in 1 .. Len(vars) : ~vars[k].private => vars[k].name # n
          /\ LookupVar(vars, n) # 0 =>
                /\ LookupVar(vars, n) \in 1 .. Len(vars)
                /\ ~vars[LookupVar(vars, n)].private /\ vars[LookupVar(vars, n)].name = n
                /\ \A k \in 1 .. Len(vars) :
                      ~vars[k].private /\ vars[k].name = n => k <= LookupVar(vars, n)
      BY <1>2, LookupVarFacts
    <3> QED
      BY <3>1 DEF n
  <2> HIDE DEF j
  <2>3. j # 0 /\ j \in 1 .. Len(vars) /\ ~vars[j].private /\ vars[j].name = vars[i].name /\ i <= j
    BY <2>1, <2>2
  <2>4. i = j \/ (i < j /\ Akin(vars[i], vars[j]))
    BY <1>6, <2>1, <2>3 DEF Akin
  <2>5. vars[j].level >= vars[i].level
    BY <1>2, <1>6, <2>1, <2>3, <2>4 DEF Sorted
  <2> QED
    BY <2>3, <2>5 DEF j
<1> QED
  BY <1>7, <1>8, <1>10, <1>11, <1>12, <1>13

(* Every entry of the table, every frame's flags and the pointer to the    *)
(* indexed matrix are well-formed (struct var_struct, rtn_stack_entry and  *)
(* the matedit globals).                                                   *)
THEOREM TypeCorrect == Spec => []TypeOK
<1>1. Inv => TypeOK
  BY PropertiesFollow
<1> QED
  BY <1>1, InvHolds, PTL

(* Of the variables of one name exactly the newest can be seen, and each   *)
(* that hides another says so: store_var(), purge_var() and                *)
(* remove_locals() keep VAR_HIDDEN and VAR_HIDING in step with the order   *)
(* of creation, however deep the calls.                                    *)
THEOREM ShadowingCorrect == Spec => []Shadowing
<1>1. Inv => Shadowing
  BY PropertiesFollow
<1> QED
  BY <1>1, InvHolds, PTL

(* lookup_var() finds the innermost subroutine's variable.                 *)
THEOREM LookupCorrect == Spec => []LookupInnermost
<1>1. Inv => LookupInnermost
  BY PropertiesFollow
<1> QED
  BY <1>1, InvHolds, PTL

(* The scan of remove_locals(), which stops at the first local of a lower  *)
(* level, sees all the locals of the level and no others.                  *)
THEOREM LevelsCorrect == Spec => []LevelsSorted
<1>1. Inv => LevelsSorted
  BY PropertiesFollow
<1> QED
  BY <1>1, InvHolds, PTL

(* has_func and has_matrix of every frame are right about the private      *)
(* variables STK and MAT, and the pointer that MAT keeps for the caller is *)
(* to a matrix that still exists.                                          *)
THEOREM SavedStateCorrect == Spec => []SavedState
<1>1. Inv => SavedState
  BY PropertiesFollow
<1> QED
  BY <1>1, InvHolds, PTL

(* matedit_name and matedit_level never refer to a local that RTN, a       *)
(* trapped error, LCLV or CLALL has removed.                               *)
THEOREM IndexedCorrect == Spec => []IndexedLocalExists
<1>1. Inv => IndexedLocalExists
  BY PropertiesFollow
<1> QED
  BY <1>1, InvHolds, PTL

(* The big stack is never on while the setting forbids it, whichever of    *)
(* RTN, unwinding and clearing restores the caller's mode.                 *)
THEOREM BigStackCorrect == Spec => []BigStackAllowed
<1>1. Inv => BigStackAllowed
  BY DEF Inv
<1> QED
  BY <1>1, InvHolds, PTL

-----------------------------------------------------------------------------
(***************************************************************************)
(* Refinement: the table and the frames implement a stack of scopes.       *)
(* Binds and Calls say what can be read off a table; Bound and CallerOf    *)
(* are the same as values.                                                 *)
(***************************************************************************)
Binds(t, n, l, v) ==
    \E i \in 1 .. Len(t) : ~t[i].private /\ t[i].name = n /\ t[i].level = l /\ t[i].val = v

Calls(t, l, b) ==
    \E i \in 1 .. Len(t) :
        t[i].private /\ t[i].name = "STK" /\ t[i].level = l /\ t[i].val.caller = b

Bound(t, n, l) ==
    IF HasVar(t, n, l) THEN CHOOSE v \in Values : Binds(t, n, l, v) ELSE NoValue

CallerOf(t, l) == {b \in BOOLEAN : Calls(t, l, b)}

ScopeOf(t, l) == [locals |-> [n \in Names |-> Bound(t, n, l)], caller |-> CallerOf(t, l)]

GlobalsOf(t) == ScopeOf(t, GlobalLevel).locals

ScopesOf(t, c) == [k \in 1 .. Len(c) |-> ScopeOf(t, k - 1)]

LEMMA BoundFacts ==
    ASSUME NEW t, NEW L, Table(t, L), NEW n, NEW l
    PROVE  /\ \A v : Binds(t, n, l, v) => v \in Values /\ Bound(t, n, l) = v
           /\ HasVar(t, n, l) => Binds(t, n, l, Bound(t, n, l)) /\ Bound(t, n, l) \in Values
           /\ ~HasVar(t, n, l) => Bound(t, n, l) = NoValue
           /\ NoValue \notin Values
<1>1. t \in Seq(Entries) /\ Sorted(t, L)
  BY DEF Table
<1>2. \A i \in 1 .. Len(t) : t[i].level \in Int /\ t[i].private \in BOOLEAN
                             /\ (~t[i].private => t[i].val \in Values)
  BY <1>1, EntryFacts
<1>3. ASSUME NEW i \in 1 .. Len(t), ~t[i].private, t[i].name = n, t[i].level = l,
             NEW j \in 1 .. Len(t), ~t[j].private, t[j].name = n, t[j].level = l
      PROVE  i = j
  <2>1. Akin(t[i], t[j]) /\ Akin(t[j], t[i])
    BY <1>2, <1>3 DEF Akin
  <2>2. ~(i < j) /\ ~(j < i)
    BY <1>1, <1>2, <1>3, <2>1 DEF Sorted
  <2> QED
    BY <2>2
<1>4. \A v, w : Binds(t, n, l, v) /\ Binds(t, n, l, w) => v = w
  BY <1>3 DEF Binds
<1>5. \A v : Binds(t, n, l, v) => v \in Values /\ HasVar(t, n, l)
  BY <1>2 DEF Binds, HasVar
<1>6. HasVar(t, n, l) => \E v : Binds(t, n, l, v)
  BY DEF Binds, HasVar
<1>7. ASSUME NEW v, Binds(t, n, l, v)
      PROVE  Bound(t, n, l) = v
  BY <1>4, <1>5, <1>7 DEF Bound
<1>8. NoValue \notin Values
  <2>1. ~("none" \in Kinds)
    BY KindsAssumption
  <2> SUFFICES ASSUME NoValue \in Values
               PROVE  FALSE
    OBVIOUS
  <2>2. NoValue.kind \in Kinds
    BY DEF Values
  <2> QED
    BY <2>1, <2>2 DEF NoValue
<1>9. ~HasVar(t, n, l) => Bound(t, n, l) = NoValue
  BY DEF Bound
<1> QED
  BY <1>5, <1>6, <1>7, <1>8, <1>9

LEMMA SameBound ==
    ASSUME NEW t, NEW L, Table(t, L), NEW r, NEW M, Table(r, M), NEW n, NEW l,
           \A v : Binds(r, n, l, v) <=> Binds(t, n, l, v)
    PROVE  Bound(r, n, l) = Bound(t, n, l)
<1>1. /\ \A v : Binds(t, n, l, v) => Bound(t, n, l) = v
      /\ HasVar(t, n, l) => Binds(t, n, l, Bound(t, n, l))
      /\ ~HasVar(t, n, l) => Bound(t, n, l) = NoValue
  BY BoundFacts
<1>2. /\ \A v : Binds(r, n, l, v) => Bound(r, n, l) = v
      /\ HasVar(r, n, l) => Binds(r, n, l, Bound(r, n, l))
      /\ ~HasVar(r, n, l) => Bound(r, n, l) = NoValue
  BY BoundFacts
<1>3. HasVar(r, n, l) <=> HasVar(t, n, l)
  BY DEF HasVar, Binds
<1> QED
  BY <1>1, <1>2, <1>3

(* What the caller's mode is, if a level saves it                          *)
LEMMA CallerFacts ==
    ASSUME NEW t, NEW L, Table(t, L), NEW l
    PROVE  /\ ~HasPrivate(t, "STK", l) => CallerOf(t, l) = {}
           /\ \A i \in 1 .. Len(t) :
                 t[i].private /\ t[i].name = "STK" /\ t[i].level = l
                   => t[i].val.caller \in BOOLEAN /\ CallerOf(t, l) = {t[i].val.caller}
<1>1. t \in Seq(Entries) /\ Sorted(t, L)
  BY DEF Table
<1>2. \A i \in 1 .. Len(t) : t[i].level \in Int /\ t[i].private \in BOOLEAN
                             /\ (t[i].private /\ t[i].name = "STK" => t[i].val \in StkValues)
  BY <1>1, EntryFacts
<1>3. \A v \in StkValues : v.caller \in BOOLEAN
  BY DEF StkValues
<1>4. ~HasPrivate(t, "STK", l) => CallerOf(t, l) = {}
  BY DEF HasPrivate, CallerOf, Calls
<1>5. ASSUME NEW i \in 1 .. Len(t), t[i].private, t[i].name = "STK", t[i].level = l
      PROVE  t[i].val.caller \in BOOLEAN /\ CallerOf(t, l) = {t[i].val.caller}
  <2>1. t[i].val.caller \in BOOLEAN /\ Calls(t, l, t[i].val.caller)
    BY <1>2, <1>3, <1>5 DEF Calls
  <2>2. ASSUME NEW b, Calls(t, l, b)
        PROVE  b = t[i].val.caller
    <3>1. PICK j \in 1 .. Len(t) :
             t[j].private /\ t[j].name = "STK" /\ t[j].level = l /\ t[j].val.caller = b
      BY <2>2 DEF Calls
    <3>2. Akin(t[i], t[j]) /\ Akin(t[j], t[i])
      BY <1>2, <1>5, <3>1 DEF Akin
    <3>3. ~(i < j) /\ ~(j < i)
      BY <1>1, <1>2, <1>5, <3>1, <3>2 DEF Sorted
    <3>4. i = j
      BY <3>3
    <3> QED
      BY <3>1, <3>4
  <2> QED
    BY <2>1, <2>2 DEF CallerOf
<1> QED
  BY <1>4, <1>5

(* What the mapping reads off the variables of the module                  *)
LEMMA ValueIsBound ==
    ASSUME Inv, NEW n, NEW l
    PROVE  ValueAt(n, l) = Bound(vars, n, l)
<1>1. Table(vars, Len(ctx) - 1)
  BY DEF Inv, Good
<1>2. /\ \A v : Binds(vars, n, l, v) => Bound(vars, n, l) = v
      /\ ~HasVar(vars, n, l) => Bound(vars, n, l) = NoValue
  BY <1>1, BoundFacts
<1>3. DOMAIN vars = 1 .. Len(vars)
  BY <1>1 DEF Table
<1>4. Exists(n, l) <=> HasVar(vars, n, l)
  BY <1>3 DEF Exists, HasVar, User
<1>5. CASE Exists(n, l)
  <2> DEFINE i == CHOOSE i \in User : vars[i].name = n /\ vars[i].level = l
  <2>1. i \in User /\ vars[i].name = n /\ vars[i].level = l
    BY <1>5 DEF Exists
  <2>2. ValueAt(n, l) = vars[i].val
    BY <1>5 DEF ValueAt
  <2> HIDE DEF i
  <2>3. Binds(vars, n, l, vars[i].val)
    BY <1>3, <2>1 DEF Binds, User
  <2> QED
    BY <1>2, <2>2, <2>3
<1>6. CASE ~Exists(n, l)
  BY <1>2, <1>4, <1>6 DEF ValueAt
<1> QED
  BY <1>5, <1>6

LEMMA CallersAre ==
    ASSUME Inv, NEW k \in 1 .. Len(ctx)
    PROVE  (IF ctx[k].func THEN CallerAt(k - 1) ELSE {}) = CallerOf(vars, k - 1)
<1>1. Table(vars, Len(ctx) - 1) /\ Flagged(vars, ctx)
  BY DEF Inv, Good
<1>2. /\ ~HasPrivate(vars, "STK", k - 1) => CallerOf(vars, k - 1) = {}
      /\ \A i \in 1 .. Len(vars) :
            vars[i].private /\ vars[i].name = "STK" /\ vars[i].level = k - 1
              => vars[i].val.caller \in BOOLEAN /\ CallerOf(vars, k - 1) = {vars[i].val.caller}
  BY <1>1, CallerFacts
<1>3. ctx[k].func <=> HasPrivate(vars, "STK", k - 1)
  BY <1>1 DEF Flagged
<1>4. Private("STK", k - 1)
        = {i \in 1 .. Len(vars) : vars[i].private /\ vars[i].name = "STK" /\ vars[i].level = k - 1}
  BY <1>1 DEF Table, Private
<1>5. CASE ctx[k].func
  <2>1. PICK i \in 1 .. Len(vars) :
           vars[i].private /\ vars[i].name = "STK" /\ vars[i].level = k - 1
    BY <1>3, <1>5 DEF HasPrivate
  <2>2. i \in Private("STK", k - 1)
    BY <1>4, <2>1
  <2>3. \A j \in Private("STK", k - 1) : CallerOf(vars, k - 1) = {vars[j].val.caller}
    BY <1>2, <1>4
  <2>4. \A j \in Private("STK", k - 1) : vars[j].val.caller = vars[i].val.caller
    BY <2>2, <2>3
  <2>5. CallerAt(k - 1) = {vars[i].val.caller}
    BY <2>2, <2>4 DEF CallerAt
  <2> QED
    BY <1>5, <2>2, <2>3, <2>5
<1>6. CASE ~ctx[k].func
  BY <1>2, <1>3, <1>6
<1> QED
  BY <1>5, <1>6

LEMMA View ==
    Inv => GlobalBindings = GlobalsOf(vars) /\ ScopeStack = ScopesOf(vars, ctx)
<1> SUFFICES ASSUME Inv
             PROVE  GlobalBindings = GlobalsOf(vars) /\ ScopeStack = ScopesOf(vars, ctx)
  OBVIOUS
<1>1. \A n, l : ValueAt(n, l) = Bound(vars, n, l)
  BY ValueIsBound
<1>2. DOMAIN ctx = 1 .. Len(ctx)
  BY DEF Inv, Good
<1>3. GlobalBindings = GlobalsOf(vars)
  BY <1>1 DEF GlobalBindings, GlobalsOf, ScopeOf
<1>4. ASSUME NEW k \in 1 .. Len(ctx)
      PROVE  [locals |-> [n \in Names |-> ValueAt(n, k - 1)],
              caller |-> IF ctx[k].func THEN CallerAt(k - 1) ELSE {}] = ScopeOf(vars, k - 1)
  <2>1. (IF ctx[k].func THEN CallerAt(k - 1) ELSE {}) = CallerOf(vars, k - 1)
    BY CallersAre
  <2>2. [n \in Names |-> ValueAt(n, k - 1)] = [n \in Names |-> Bound(vars, n, k - 1)]
    BY <1>1
  <2> QED
    BY <2>1, <2>2, Zenon DEF ScopeOf
<1>5. ScopeStack = ScopesOf(vars, ctx)
  BY <1>2, <1>4, Zenon DEF ScopeStack, ScopesOf
<1> QED
  BY <1>3, <1>5

LEMMA ViewNext ==
    ASSUME Inv, Inv'
    PROVE  /\ GlobalBindings = GlobalsOf(vars) /\ ScopeStack = ScopesOf(vars, ctx)
           /\ GlobalBindings' = GlobalsOf(vars') /\ ScopeStack' = ScopesOf(vars', ctx')
<1>1. GlobalBindings = GlobalsOf(vars) /\ ScopeStack = ScopesOf(vars, ctx)
  BY View
<1>2. (Inv => GlobalBindings = GlobalsOf(vars) /\ ScopeStack = ScopesOf(vars, ctx))'
  BY View, PTL
<1> QED
  BY <1>1, <1>2

ScopeRec == [locals : [Names -> Values \cup {NoValue}], caller : SUBSET BOOLEAN]

LEMMA ScopeFacts ==
    ASSUME NEW t, NEW L, Table(t, L), NEW l
    PROVE  /\ ScopeOf(t, l) \in ScopeRec
           /\ ScopeOf(t, l).locals \in [Names -> Values \cup {NoValue}]
           /\ \A n \in Names : ScopeOf(t, l).locals[n] = Bound(t, n, l)
           /\ ScopeOf(t, l).caller = CallerOf(t, l)
<1>1. \A n : Bound(t, n, l) \in Values \cup {NoValue}
  BY BoundFacts
<1>2. CallerOf(t, l) \in SUBSET BOOLEAN
  BY DEF CallerOf
<1>3. [n \in Names |-> Bound(t, n, l)] \in [Names -> Values \cup {NoValue}]
  BY <1>1
<1> QED
  BY <1>2, <1>3 DEF ScopeOf, ScopeRec

(* Two tables that say the same of a level, but perhaps for one name       *)
SameCalls(t, r, l) == \A b : Calls(r, l, b) <=> Calls(t, l, b)

SameBinds(t, r, l, n) == \A v : Binds(r, n, l, v) <=> Binds(t, n, l, v)

LEMMA SameScope ==
    ASSUME NEW t, NEW L, Table(t, L), NEW r, NEW M, Table(r, M), NEW l,
           SameCalls(t, r, l), \A n \in Names : SameBinds(t, r, l, n)
    PROVE  ScopeOf(r, l) = ScopeOf(t, l)
<1>1. ASSUME NEW n \in Names
      PROVE  Bound(r, n, l) = Bound(t, n, l)
  <2>1. \A v : Binds(r, n, l, v) <=> Binds(t, n, l, v)
    BY DEF SameBinds
  <2> QED
    BY <2>1, SameBound
<1>2. CallerOf(r, l) = CallerOf(t, l)
  BY DEF CallerOf, SameCalls
<1>3. [n \in Names |-> Bound(r, n, l)] = [n \in Names |-> Bound(t, n, l)]
  BY <1>1
<1> QED
  BY <1>2, <1>3, Zenon DEF ScopeOf

LEMMA ScopeBut ==
    ASSUME NEW t, NEW L, Table(t, L), NEW r, NEW M, Table(r, M), NEW l,
           SameCalls(t, r, l), NEW n \in Names,
           \A m \in Names : m # n => SameBinds(t, r, l, m)
    PROVE  ScopeOf(r, l) = [ScopeOf(t, l) EXCEPT !.locals[n] = Bound(r, n, l)]
<1>1. ASSUME NEW m \in Names, m # n
      PROVE  Bound(r, m, l) = Bound(t, m, l)
  <2>1. \A v : Binds(r, m, l, v) <=> Binds(t, m, l, v)
    BY <1>1 DEF SameBinds
  <2> QED
    BY <2>1, SameBound
<1>2. CallerOf(r, l) = CallerOf(t, l)
  BY DEF CallerOf, SameCalls
<1> DEFINE f == [m \in Names |-> Bound(t, m, l)]
           g == [m \in Names |-> Bound(r, m, l)]
           w == Bound(r, n, l)
           c == CallerOf(t, l)
<1>3. /\ f = [m \in Names |-> f[m]] /\ g = [m \in Names |-> g[m]]
      /\ \A m \in Names : m # n => g[m] = f[m]
      /\ g[n] = w
  BY <1>1
<1>4. ScopeOf(t, l) = [locals |-> f, caller |-> c] /\ ScopeOf(r, l) = [locals |-> g, caller |-> c]
  BY <1>2 DEF ScopeOf
<1> HIDE DEF f, g, w, c
<1>5. g = [f EXCEPT ![n] = w]
  BY <1>3
<1>6. [[locals |-> f, caller |-> c] EXCEPT !.locals[n] = w]
        = [locals |-> [f EXCEPT ![n] = w], caller |-> c]
  OBVIOUS
<1> QED
  BY <1>4, <1>5, <1>6 DEF w

(* A level of which the table has nothing                                  *)
NoScope == [locals |-> [n \in Names |-> NoValue], caller |-> {}]

LEMMA NothingThere ==
    ASSUME NEW t, NEW L, Table(t, L), NEW l,
           \A n : ~HasVar(t, n, l), ~HasPrivate(t, "STK", l)
    PROVE  ScopeOf(t, l) = NoScope
<1>1. \A n : Bound(t, n, l) = NoValue
  BY BoundFacts
<1>2. CallerOf(t, l) = {}
  BY CallerFacts
<1> QED
  BY <1>1, <1>2 DEF ScopeOf, NoScope

(* Entries are removed: what the others say of a level stays.              *)
LEMMA LeavesSay ==
    ASSUME NEW t, NEW I, NEW r, Leaves(t, I, r), NEW l
    PROVE  /\ \A n, v : Binds(r, n, l, v) <=>
                 \E i \in (1 .. Len(t)) \ I :
                    ~t[i].private /\ t[i].name = n /\ t[i].level = l /\ t[i].val = v
           /\ \A b : Calls(r, l, b) <=>
                 \E i \in (1 .. Len(t)) \ I :
                    t[i].private /\ t[i].name = "STK" /\ t[i].level = l /\ t[i].val.caller = b
<1> DEFINE J == (1 .. Len(t)) \ I
<1>1. /\ \A j \in J : \E m \in 1 .. Len(r) : Alike(t[j], r[m])
      /\ \A m \in 1 .. Len(r) : \E j \in J : Alike(t[j], r[m])
  BY DEF Leaves
<1> HIDE DEF J
<1>2. ASSUME NEW n, NEW v, Binds(r, n, l, v)
      PROVE  \E i \in J : ~t[i].private /\ t[i].name = n /\ t[i].level = l /\ t[i].val = v
  <2>1. PICK m \in 1 .. Len(r) :
           ~r[m].private /\ r[m].name = n /\ r[m].level = l /\ r[m].val = v
    BY <1>2 DEF Binds
  <2>2. PICK j \in J : Alike(t[j], r[m])
    BY <1>1
  <2> QED
    BY <2>1, <2>2 DEF Alike
<1>3. ASSUME NEW n, NEW v, NEW i \in J,
             ~t[i].private, t[i].name = n, t[i].level = l, t[i].val = v
      PROVE  Binds(r, n, l, v)
  <2>1. PICK m \in 1 .. Len(r) : Alike(t[i], r[m])
    BY <1>1
  <2> QED
    BY <1>3, <2>1 DEF Alike, Binds
<1>4. ASSUME NEW b, Calls(r, l, b)
      PROVE  \E i \in J :
                t[i].private /\ t[i].name = "STK" /\ t[i].level = l /\ t[i].val.caller = b
  <2>1. PICK m \in 1 .. Len(r) :
           r[m].private /\ r[m].name = "STK" /\ r[m].level = l /\ r[m].val.caller = b
    BY <1>4 DEF Calls
  <2>2. PICK j \in J : Alike(t[j], r[m])
    BY <1>1
  <2> QED
    BY <2>1, <2>2 DEF Alike
<1>5. ASSUME NEW b, NEW i \in J,
             t[i].private, t[i].name = "STK", t[i].level = l, t[i].val.caller = b
      PROVE  Calls(r, l, b)
  <2>1. PICK m \in 1 .. Len(r) : Alike(t[i], r[m])
    BY <1>1
  <2> QED
    BY <1>5, <2>1 DEF Alike, Calls
<1> QED
  BY <1>2, <1>3, <1>4, <1>5 DEF J

LEMMA LeavesScope ==
    ASSUME NEW t, NEW L, Table(t, L), NEW r, NEW M, Table(r, M),
           NEW I, Leaves(t, I, r), NEW l,
           \A i \in I : t[i].level = l => t[i].private /\ t[i].name # "STK"
    PROVE  ScopeOf(r, l) = ScopeOf(t, l)
<1>1. /\ \A n, v : Binds(r, n, l, v) <=>
            \E i \in (1 .. Len(t)) \ I :
               ~t[i].private /\ t[i].name = n /\ t[i].level = l /\ t[i].val = v
      /\ \A b : Calls(r, l, b) <=>
            \E i \in (1 .. Len(t)) \ I :
               t[i].private /\ t[i].name = "STK" /\ t[i].level = l /\ t[i].val.caller = b
  BY LeavesSay
<1>2. SameCalls(t, r, l)
  BY <1>1 DEF SameCalls, Calls
<1>3. \A n \in Names : SameBinds(t, r, l, n)
  BY <1>1 DEF SameBinds, Binds
<1> QED
  BY <1>2, <1>3, SameScope

(* A table that gained an entry, others being hidden by it perhaps         *)
Extended(t, e, r) ==
    /\ Len(r) = Len(t) + 1 /\ r[Len(t) + 1] = e
    /\ \A j \in 1 .. Len(t) : Alike(t[j], r[j])

LEMMA ExtendedSays ==
    ASSUME NEW t, Len(t) \in Nat, NEW e, NEW r, Extended(t, e, r)
    PROVE  /\ \A n, l, v : Binds(r, n, l, v) <=>
                 Binds(t, n, l, v) \/ (~e.private /\ e.name = n /\ e.level = l /\ e.val = v)
           /\ \A l, b : Calls(r, l, b) <=>
                 \/ Calls(t, l, b)
                 \/ e.private /\ e.name = "STK" /\ e.level = l /\ e.val.caller = b
<1> DEFINE N == Len(t)
<1>1. N \in Nat /\ Len(r) = N + 1 /\ r[N + 1] = e
  BY DEF Extended
<1>2. \A j \in 1 .. N : /\ r[j].name = t[j].name /\ r[j].level = t[j].level
                        /\ r[j].private = t[j].private /\ r[j].val = t[j].val
  BY DEF Extended, Alike
<1>3. /\ \A j : j \in 1 .. N \/ j = N + 1 <=> j \in 1 .. Len(r)
      /\ N = Len(t)
  BY <1>1
<1> HIDE DEF N
<1>4. ASSUME NEW n, NEW l, NEW v, Binds(t, n, l, v)
      PROVE  Binds(r, n, l, v)
  <2>1. PICK j \in 1 .. N : ~t[j].private /\ t[j].name = n /\ t[j].level = l /\ t[j].val = v
    BY <1>3, <1>4 DEF Binds
  <2> QED
    BY <1>2, <1>3, <2>1 DEF Binds
<1>5. ASSUME NEW n, NEW l, NEW v, ~e.private, e.name = n, e.level = l, e.val = v
      PROVE  Binds(r, n, l, v)
  BY <1>1, <1>3, <1>5 DEF Binds
<1>6. ASSUME NEW n, NEW l, NEW v, Binds(r, n, l, v)
      PROVE  Binds(t, n, l, v) \/ (~e.private /\ e.name = n /\ e.level = l /\ e.val = v)
  <2>1. PICK j \in 1 .. Len(r) :
           ~r[j].private /\ r[j].name = n /\ r[j].level = l /\ r[j].val = v
    BY <1>6 DEF Binds
  <2>2. j \in 1 .. N => Binds(t, n, l, v)
    BY <1>2, <1>3, <2>1 DEF Binds
  <2> QED
    BY <1>1, <1>3, <2>1, <2>2
<1>7. ASSUME NEW l, NEW b, Calls(t, l, b)
      PROVE  Calls(r, l, b)
  <2>1. PICK j \in 1 .. N :
           t[j].private /\ t[j].name = "STK" /\ t[j].level = l /\ t[j].val.caller = b
    BY <1>3, <1>7 DEF Calls
  <2>2. j \in 1 .. Len(r)
    BY <1>3
  <2> QED
    BY <1>2, <2>1, <2>2 DEF Calls
<1>8. ASSUME NEW l, NEW b, e.private, e.name = "STK", e.level = l, e.val.caller = b
      PROVE  Calls(r, l, b)
  BY <1>1, <1>3, <1>8 DEF Calls
<1>9. ASSUME NEW l, NEW b, Calls(r, l, b)
      PROVE  \/ Calls(t, l, b)
             \/ e.private /\ e.name = "STK" /\ e.level = l /\ e.val.caller = b
  <2>1. PICK j \in 1 .. Len(r) :
           r[j].private /\ r[j].name = "STK" /\ r[j].level = l /\ r[j].val.caller = b
    BY <1>9 DEF Calls
  <2>2. CASE j \in 1 .. N
    <3>1. t[j].private /\ t[j].name = "STK" /\ t[j].level = l /\ t[j].val.caller = b
      BY <1>2, <2>1, <2>2
    <3> QED
      BY <1>3, <2>2, <3>1 DEF Calls
  <2> QED
    BY <1>1, <1>3, <2>1, <2>2
<1> QED
  BY <1>4, <1>5, <1>6, <1>7, <1>8, <1>9

(* An entry gets another value.                                            *)
WithVal(t, i, v) == [t EXCEPT ![i].val = v]

LEMMA RevaluedSays ==
    ASSUME NEW t \in Seq(Entries), NEW i \in 1 .. Len(t), ~t[i].private, NEW v,
           NEW r, r = WithVal(t, i, v),
           \A j \in 1 .. Len(t) : ~t[j].private /\ t[j].name = t[i].name
                                  /\ t[j].level = t[i].level => j = i
    PROVE  /\ Binds(r, t[i].name, t[i].level, v)
           /\ \A n, l, w : ~(n = t[i].name /\ l = t[i].level)
                 => (Binds(r, n, l, w) <=> Binds(t, n, l, w))
           /\ \A l, b : Calls(r, l, b) <=> Calls(t, l, b)
<1> DEFINE f == [t[i] EXCEPT !.val = v]
<1>1. Len(r) = Len(t) /\ r[i] = f /\ \A j \in 1 .. Len(t) : j # i => r[j] = t[j]
  BY DEF WithVal
<1>2. t[i] \in Entries
  OBVIOUS
<1>3. f.name = t[i].name /\ f.level = t[i].level /\ f.private = t[i].private /\ f.val = v
  BY <1>2 DEF Entries
<1> HIDE DEF f
<1>4. Binds(r, t[i].name, t[i].level, v)
  BY <1>1, <1>3 DEF Binds
<1>5. ASSUME NEW n, NEW l, NEW w, ~(n = t[i].name /\ l = t[i].level)
      PROVE  Binds(r, n, l, w) <=> Binds(t, n, l, w)
  <2>1. ASSUME NEW j \in 1 .. Len(t), ~t[j].private, t[j].name = n, t[j].level = l, t[j].val = w
        PROVE  Binds(r, n, l, w)
    BY <1>1, <1>5, <2>1 DEF Binds
  <2>2. ASSUME NEW j \in 1 .. Len(t), ~r[j].private, r[j].name = n, r[j].level = l, r[j].val = w
        PROVE  Binds(t, n, l, w)
    BY <1>1, <1>3, <1>5, <2>2 DEF Binds
  <2> QED
    BY <1>1, <2>1, <2>2 DEF Binds
<1>6. ASSUME NEW l, NEW b
      PROVE  Calls(r, l, b) <=> Calls(t, l, b)
  <2>1. ASSUME NEW j \in 1 .. Len(t), t[j].private, t[j].name = "STK", t[j].level = l,
               t[j].val.caller = b
        PROVE  Calls(r, l, b)
    <3>1. j # i
      BY <2>1
    <3>2. r[j] = t[j]
      BY <1>1, <3>1
    <3> QED
      BY <1>1, <2>1, <3>2 DEF Calls
  <2>2. ASSUME NEW j \in 1 .. Len(t), r[j].private, r[j].name = "STK", r[j].level = l,
               r[j].val.caller = b
        PROVE  Calls(t, l, b)
    <3>1. j # i
      BY <1>1, <1>3, <2>2
    <3>2. r[j] = t[j]
      BY <1>1, <3>1
    <3> QED
      BY <2>2, <3>2 DEF Calls
  <2> QED
    BY <1>1, <2>1, <2>2 DEF Calls
<1> QED
  BY <1>4, <1>5, <1>6

(* The binding of one name at one level changes.                           *)
Rebinds(t, r, n, l, w) ==
    /\ ScopeOf(r, l) = [ScopeOf(t, l) EXCEPT !.locals[n] = w]
    /\ \A k : k # l => ScopeOf(r, k) = ScopeOf(t, k)

(* What else two tables say is the same.                                   *)
SaysElse(t, r, n, l) ==
    /\ \A m, k, v : ~(m = n /\ k = l) => (Binds(r, m, k, v) <=> Binds(t, m, k, v))
    /\ \A k, b : Calls(r, k, b) <=> Calls(t, k, b)

LEMMA RebindsSays ==
    ASSUME NEW t, NEW L, Table(t, L), NEW r, NEW M, Table(r, M),
           NEW n \in Names, NEW l, SaysElse(t, r, n, l)
    PROVE  Rebinds(t, r, n, l, Bound(r, n, l))
<1>1. \A m \in Names : m # n => SameBinds(t, r, l, m)
  BY DEF SaysElse, SameBinds
<1>2. \A k : SameCalls(t, r, k)
  BY DEF SaysElse, SameCalls
<1>3. \A k : k # l => \A m \in Names : SameBinds(t, r, k, m)
  BY DEF SaysElse, SameBinds
<1>4. ScopeOf(r, l) = [ScopeOf(t, l) EXCEPT !.locals[n] = Bound(r, n, l)]
  BY <1>1, <1>2, ScopeBut
<1>5. ASSUME NEW k, k # l
      PROVE  ScopeOf(r, k) = ScopeOf(t, k)
  <2>1. SameCalls(t, r, k) /\ \A m \in Names : SameBinds(t, r, k, m)
    BY <1>2, <1>3, <1>5
  <2> QED
    BY <2>1, SameScope
<1> QED
  BY <1>4, <1>5 DEF Rebinds

(* The level at which store_var() stores                                   *)
StoredAt(t, n, local, L) ==
    IF local THEN L ELSE IF LookupVar(t, n) = 0 THEN GlobalLevel ELSE t[LookupVar(t, n)].level

LEMMA StoreScopes ==
    ASSUME NEW t, NEW L \in 0 .. MaxLevel, Table(t, L), NEW n \in Names, NEW val \in Values,
           NEW local \in BOOLEAN, NEW r, r = StoreVar(t, n, val, local, L)
    PROVE  Rebinds(t, r, n, StoredAt(t, n, local, L), val)
<1> DEFINE i == LookupVar(t, n)
           l == StoredAt(t, n, local, L)
           first == Variable(n, l, FALSE, val)
           covering == Variable(n, l, TRUE, val)
           u == [t EXCEPT ![i].hidden = TRUE]
<1>1. t \in Seq(Entries) /\ Sorted(t, L) /\ Shadows(t) /\ Len(t) \in Nat
  BY DEF Table
<1>2. Table(r, L)
  BY StoreVarFacts
<1>3. /\ i = 0 => \A j \in 1 .. Len(t) : ~t[j].private => t[j].name # n
      /\ i # 0 => i \in 1 .. Len(t) /\ ~t[i].private /\ t[i].name = n
  BY <1>1, LookupVarFacts
<1>4. \A j \in 1 .. Len(t) : t[j].level \in Int /\ t[j].level <= L /\ t[j].private \in BOOLEAN
  BY <1>1, EntryFacts DEF Sorted
<1>5. /\ first.name = n /\ first.level = l /\ ~first.private /\ first.val = val
      /\ covering.name = n /\ covering.level = l /\ ~covering.private /\ covering.val = val
  BY DEF Variable
<1>6. r = IF i = 0 THEN Append(t, first)
          ELSE IF local /\ t[i].level < L THEN Append(u, covering)
          ELSE [t EXCEPT ![i].val = val]
  BY DEF StoreVar, StoredAt
<1>7. i # 0 /\ ~(local /\ t[i].level < L) => l = t[i].level
  BY <1>3, <1>4 DEF StoredAt
<1>8. i = 0 => l = IF local THEN L ELSE GlobalLevel
  BY DEF StoredAt
<1>9. local => l = L
  BY DEF StoredAt
<1> HIDE DEF i, l, first, covering
<1>10. ASSUME NEW e, e \in {first, covering}, Extended(t, e, r)
       PROVE  Binds(r, n, l, val) /\ SaysElse(t, r, n, l)
  <2>1. e.name = n /\ e.level = l /\ ~e.private /\ e.val = val
    BY <1>5, <1>10
  <2>2. /\ \A m, k, v : Binds(r, m, k, v) <=>
              Binds(t, m, k, v) \/ (~e.private /\ e.name = m /\ e.level = k /\ e.val = v)
        /\ \A k, b : Calls(r, k, b) <=>
              \/ Calls(t, k, b)
              \/ e.private /\ e.name = "STK" /\ e.level = k /\ e.val.caller = b
    BY <1>1, <1>10, ExtendedSays
  <2> QED
    BY <2>1, <2>2 DEF SaysElse
<1>11. Binds(r, n, l, val) /\ SaysElse(t, r, n, l)
  <2>1. CASE i = 0
    <3>1. Extended(t, first, r)
      <4>1. r = Append(t, first)
        BY <1>6, <2>1
      <4>2. Len(r) = Len(t) + 1 /\ r[Len(t) + 1] = first /\ \A j \in 1 .. Len(t) : r[j] = t[j]
        BY <1>1, <4>1
      <4> QED
        BY <4>2 DEF Extended, Alike
    <3> QED
      BY <1>10, <3>1
  <2>2. CASE i # 0 /\ local /\ t[i].level < L
    <3>1. Extended(t, covering, r)
      <4> DEFINE f == [t[i] EXCEPT !.hidden = TRUE]
                 b == TRUE
      <4>1. i \in 1 .. Len(t) /\ t[i] \in Entries
        BY <1>1, <1>3, <2>2
      <4>8. b \in BOOLEAN /\ (t[i].private => ~b) /\ f = [t[i] EXCEPT !.hidden = b]
        BY <1>3, <2>2
      <4>9. u = [t EXCEPT ![i] = f]
        OBVIOUS
      <4>2. f \in Entries /\ Alike(t[i], f)
        <5> HIDE DEF f, b
        <5> QED
          BY <4>1, <4>8, HiddenEntry
      <4> HIDE DEF f, b, u
      <4>3. /\ u \in Seq(Entries) /\ Len(u) = Len(t) /\ u[i] = f
            /\ \A j \in 1 .. Len(t) : j # i => u[j] = t[j]
        BY <1>1, <4>1, <4>2, <4>9
      <4>4. ASSUME NEW j \in 1 .. Len(t)
            PROVE  Alike(t[j], u[j])
        <5>1. j # i => Alike(t[j], u[j])
          BY <4>3 DEF Alike
        <5> QED
          BY <4>2, <4>3, <5>1
      <4>5. r = Append(u, covering)
        BY <1>6, <2>2
      <4>6. Len(r) = Len(u) + 1 /\ r[Len(u) + 1] = covering /\ \A j \in 1 .. Len(u) : r[j] = u[j]
        BY <4>3, <4>5
      <4> QED
        BY <4>3, <4>4, <4>6 DEF Extended
    <3> QED
      BY <1>10, <3>1
  <2>3. CASE i # 0 /\ ~(local /\ t[i].level < L)
    <3>1. r = WithVal(t, i, val)
      BY <1>6, <2>3 DEF WithVal
    <3>2. i \in 1 .. Len(t) /\ ~t[i].private /\ t[i].name = n /\ t[i].level = l
      BY <1>3, <1>7, <2>3
    <3>3. ASSUME NEW j \in 1 .. Len(t), ~t[j].private, t[j].name = t[i].name,
                 t[j].level = t[i].level
          PROVE  j = i
      <4>1. Akin(t[i], t[j]) /\ Akin(t[j], t[i])
        BY <1>4, <3>2, <3>3 DEF Akin
      <4>2. ~(i < j) /\ ~(j < i)
        BY <1>1, <1>4, <3>2, <3>3, <4>1 DEF Sorted
      <4> QED
        BY <3>2, <4>2
    <3>4. /\ Binds(r, t[i].name, t[i].level, val)
          /\ \A m, k, v : ~(m = t[i].name /\ k = t[i].level)
                => (Binds(r, m, k, v) <=> Binds(t, m, k, v))
          /\ \A k, b : Calls(r, k, b) <=> Calls(t, k, b)
      <4>1. t \in Seq(Entries)
        BY <1>1
      <4>2. i \in 1 .. Len(t)
        BY <3>2
      <4>3. ~t[i].private
        BY <3>2
      <4> QED
        BY <3>1, <3>3, <4>1, <4>2, <4>3, RevaluedSays
    <3> QED
      BY <3>2, <3>4 DEF SaysElse
  <2> QED
    BY <2>1, <2>2, <2>3
<1>12. Bound(r, n, l) = val
  BY <1>2, <1>11, BoundFacts
<1>13. Rebinds(t, r, n, l, Bound(r, n, l))
  BY <1>2, <1>11, RebindsSays
<1> QED
  BY <1>12, <1>13 DEF l

(* The stack of scopes as a sequence                                       *)
LEMMA ScopesFacts ==
    ASSUME NEW t, NEW L, Table(t, L), NEW c, Len(c) \in Nat
    PROVE  /\ ScopesOf(t, c) \in Seq(ScopeRec) /\ Len(ScopesOf(t, c)) = Len(c)
           /\ DOMAIN ScopesOf(t, c) = 1 .. Len(c)
           /\ \A k \in 1 .. Len(c) : ScopesOf(t, c)[k] = ScopeOf(t, k - 1)
<1>1. \A k \in 1 .. Len(c) : ScopeOf(t, k - 1) \in ScopeRec
  BY ScopeFacts
<1>2. ScopesOf(t, c) \in [1 .. Len(c) -> ScopeRec]
  BY <1>1 DEF ScopesOf
<1>3. ScopesOf(t, c) \in Seq(ScopeRec) /\ Len(ScopesOf(t, c)) = Len(c)
  BY <1>2, AsSeq
<1> QED
  BY <1>2, <1>3 DEF ScopesOf

LEMMA SameStack ==
    ASSUME NEW A, NEW s \in Seq(A), NEW r \in Seq(A), Len(s) = Len(r),
           \A k \in 1 .. Len(s) : s[k] = r[k]
    PROVE  s = r
OBVIOUS

LEMMA RebindLocal ==
    ASSUME NEW t, NEW L, Table(t, L), NEW r, NEW M, Table(r, M), NEW c, Len(c) \in Nat,
           NEW n, NEW w, NEW l \in Nat, l < Len(c), Rebinds(t, r, n, l, w)
    PROVE  /\ ScopesOf(r, c) = [ScopesOf(t, c) EXCEPT ![l + 1].locals[n] = w]
           /\ GlobalsOf(r) = GlobalsOf(t)
<1> DEFINE N == Len(c)
           s == [k \in 1 .. N |-> ScopeOf(t, k - 1)]
           q == [k \in 1 .. N |-> ScopeOf(r, k - 1)]
           p == l + 1
           e == [ScopeOf(t, l) EXCEPT !.locals[n] = w]
<1>1. ScopesOf(t, c) = s /\ ScopesOf(r, c) = q
  BY DEF ScopesOf
<1>2. /\ ScopeOf(r, l) = e
      /\ \A k : k # l => ScopeOf(r, k) = ScopeOf(t, k)
  BY DEF Rebinds
<1>3. p \in 1 .. N /\ p - 1 = l /\ \A k \in 1 .. N : k # p => k - 1 # l
  OBVIOUS
<1>4. s[p] = ScopeOf(t, l) /\ q[p] = e /\ \A k \in 1 .. N : k # p => q[k] = s[k]
  <2> HIDE DEF N, p, e
  <2> QED
    BY <1>2, <1>3
<1>5. DOMAIN s = 1 .. N /\ s = [k \in 1 .. N |-> s[k]] /\ q = [k \in 1 .. N |-> q[k]]
  OBVIOUS
<1>6. e = [s[p] EXCEPT !.locals[n] = w]
  BY <1>4
<1> HIDE DEF N, s, q, p, e
<1>7. q = [s EXCEPT ![p] = e]
  BY <1>3, <1>4, <1>5
<1>8. q = [s EXCEPT ![p].locals[n] = w]
  BY <1>6, <1>7
<1>9. GlobalsOf(r) = GlobalsOf(t)
  <2>1. GlobalLevel # l
    BY DEF GlobalLevel
  <2> QED
    BY <1>2, <2>1 DEF GlobalsOf
<1> QED
  BY <1>1, <1>8, <1>9 DEF p

LEMMA RebindGlobal ==
    ASSUME NEW t, NEW L, Table(t, L), NEW r, NEW c, Len(c) \in Nat,
           NEW n, NEW w, Rebinds(t, r, n, GlobalLevel, w)
    PROVE  /\ ScopesOf(r, c) = ScopesOf(t, c)
           /\ GlobalsOf(r) = [GlobalsOf(t) EXCEPT ![n] = w]
<1>1. /\ ScopeOf(r, GlobalLevel) = [ScopeOf(t, GlobalLevel) EXCEPT !.locals[n] = w]
      /\ \A k : k # GlobalLevel => ScopeOf(r, k) = ScopeOf(t, k)
  BY DEF Rebinds
<1>2. \A k \in 1 .. Len(c) : ScopeOf(r, k - 1) = ScopeOf(t, k - 1)
  BY <1>1 DEF GlobalLevel
<1>3. ScopesOf(r, c) = ScopesOf(t, c)
  BY <1>2 DEF ScopesOf
<1>4. ScopeOf(t, GlobalLevel) \in ScopeRec
  BY ScopeFacts
<1> DEFINE s == ScopeOf(t, GlobalLevel)
<1>5. [s EXCEPT !.locals[n] = w].locals = [s.locals EXCEPT ![n] = w]
  <2>1. s \in ScopeRec
    BY <1>4
  <2> HIDE DEF s
  <2> QED
    BY <2>1 DEF ScopeRec
<1> QED
  BY <1>1, <1>3, <1>5 DEF GlobalsOf

(* Where the scopes look a name up                                         *)
LEMMA InnermostIs ==
    ASSUME Inv, ScopeStack = ScopesOf(vars, ctx), NEW n \in Names, NEW local, ~local
    PROVE  /\ Scopes!Innermost(n) = StoredAt(vars, n, local, rtnLevel) + 1
           /\ StoredAt(vars, n, local, rtnLevel) \in GlobalLevel .. (Len(ctx) - 1)
<1> DEFINE N == Len(ctx)
           i == LookupVar(vars, n)
           l == StoredAt(vars, n, local, rtnLevel)
           B == {k \in DOMAIN ScopeStack : ScopeStack[k].locals[n] # NoValue}
<1>1. Table(vars, N - 1) /\ N \in Nat /\ N - 1 \in Nat
  BY LevelFacts DEF Inv, Good
<1>2. vars \in Seq(Entries) /\ Sorted(vars, N - 1) /\ Shadows(vars)
  BY <1>1 DEF Table
<1>3. /\ i = 0 => \A j \in 1 .. Len(vars) : ~vars[j].private => vars[j].name # n
      /\ i # 0 => /\ i \in 1 .. Len(vars) /\ ~vars[i].private /\ vars[i].name = n
                  /\ \A j \in 1 .. Len(vars) : ~vars[j].private /\ vars[j].name = n => j <= i
  BY <1>2, LookupVarFacts
<1>4. \A j \in 1 .. Len(vars) : /\ vars[j].level \in Int /\ vars[j].level <= N - 1
                                /\ GlobalLevel <= vars[j].level /\ vars[j].private \in BOOLEAN
  BY <1>2, EntryFacts DEF Sorted
<1>5. l = IF i = 0 THEN GlobalLevel ELSE vars[i].level
  BY DEF StoredAt
<1>6. DOMAIN ScopeStack = 1 .. N
      /\ \A k \in 1 .. N : ScopeStack[k] = ScopeOf(vars, k - 1)
  BY <1>1, ScopesFacts
<1>7. \A k \in 1 .. N : ScopeStack[k].locals[n] = Bound(vars, n, k - 1)
  BY <1>1, <1>6, ScopeFacts
<1>8. \A k : Bound(vars, n, k) # NoValue <=> HasVar(vars, n, k)
  <2> SUFFICES ASSUME NEW k
               PROVE  Bound(vars, n, k) # NoValue <=> HasVar(vars, n, k)
    OBVIOUS
  <2>1. /\ HasVar(vars, n, k) => Bound(vars, n, k) \in Values
        /\ ~HasVar(vars, n, k) => Bound(vars, n, k) = NoValue
        /\ NoValue \notin Values
    BY <1>1, BoundFacts
  <2> QED
    BY <2>1
<1>9. \A k : k \in B <=> k \in 1 .. N /\ HasVar(vars, n, k - 1)
  BY <1>6, <1>7, <1>8
<1>10. Scopes!Innermost(n)
         = IF B = {} THEN 0 ELSE CHOOSE k \in B : \A j \in B : j <= k
  BY DEF Scopes!Innermost
<1> HIDE DEF N, i, l, B
<1>11. ASSUME NEW k \in B
       PROVE  i # 0 /\ k - 1 <= l
  <2>1. PICK j \in 1 .. Len(vars) :
           ~vars[j].private /\ vars[j].name = n /\ vars[j].level = k - 1
    BY <1>9 DEF HasVar
  <2>2. i # 0 /\ i \in 1 .. Len(vars) /\ j <= i
    BY <1>3, <2>1
  <2>3. Akin(vars[j], vars[i])
    BY <1>3, <1>4, <2>1, <2>2 DEF Akin
  <2>4. j = i \/ vars[j].level < vars[i].level
    BY <1>2, <2>2, <2>3 DEF Sorted
  <2> QED
    BY <1>4, <1>5, <2>1, <2>2, <2>4
<1>12. l \in GlobalLevel .. (N - 1)
  BY <1>1, <1>3, <1>4, <1>5 DEF GlobalLevel
<1>13. CASE l = GlobalLevel
  <2>1. B = {}
    <3> SUFFICES ASSUME NEW k \in B
                 PROVE  FALSE
      OBVIOUS
    <3>1. k \in 1 .. N /\ k - 1 <= l
      BY <1>9, <1>11
    <3> QED
      BY <1>1, <1>13, <3>1 DEF GlobalLevel
  <2> QED
    BY <1>10, <1>12, <1>13, <2>1 DEF GlobalLevel, N, l
<1>14. CASE l # GlobalLevel
  <2>1. i # 0 /\ l \in Nat /\ l <= N - 1
    BY <1>1, <1>5, <1>12, <1>14 DEF GlobalLevel
  <2>2. HasVar(vars, n, l)
    BY <1>3, <1>5, <2>1 DEF HasVar
  <2>3. l + 1 \in B
    <3> DEFINE p == l + 1
    <3>1. p \in 1 .. N /\ p - 1 = l
      BY <1>1, <2>1
    <3> HIDE DEF p
    <3>2. HasVar(vars, n, p - 1)
      BY <2>2, <3>1
    <3>3. p \in B
      BY <1>9, <3>1, <3>2
    <3> QED
      BY <3>3 DEF p
  <2>4. \A k \in B : k \in Nat /\ k <= l + 1
    <3> SUFFICES ASSUME NEW k \in B
                 PROVE  k \in Nat /\ k <= l + 1
      OBVIOUS
    <3>1. k \in 1 .. N /\ k - 1 <= l
      BY <1>9, <1>11
    <3> QED
      BY <1>1, <2>1, <3>1
  <2>5. (CHOOSE k \in B : \A j \in B : j <= k) = l + 1
    <3> DEFINE top == CHOOSE k \in B : \A j \in B : j <= k
    <3>1. top \in B /\ \A j \in B : j <= top
      BY <2>3, <2>4
    <3> HIDE DEF top
    <3>2. top <= l + 1 /\ l + 1 <= top /\ top \in Nat
      BY <2>3, <2>4, <3>1
    <3>3. top = l + 1
      BY <2>1, <3>2
    <3> QED
      BY <3>3 DEF top
  <2> QED
    BY <1>10, <1>12, <2>3, <2>5 DEF N, l
<1> QED
  BY <1>13, <1>14

-----------------------------------------------------------------------------
(* Each action does what the scopes do, or nothing to them.                *)

LEMMA StateFacts ==
    ASSUME Inv
    PROVE  /\ Table(vars, rtnLevel) /\ rtnLevel = Len(ctx) - 1 /\ rtnLevel \in 0 .. MaxLevel
           /\ rtnLevel \in Nat /\ rtnLevel + 1 = Len(ctx) /\ rtnLevel < Len(ctx)
           /\ Len(ctx) \in Nat /\ ctx \in Seq(CtxRec) /\ Len(ctx) # 0
BY LevelFacts DEF Inv, Good, rtnLevel


(* Tables that say the same of every level                                 *)
SameScopes(t, r) == \A l : ScopeOf(r, l) = ScopeOf(t, l)

LEMMA SameView ==
    ASSUME Inv, Inv', SameScopes(vars, vars'), Len(ctx') = Len(ctx)
    PROVE  GlobalBindings' = GlobalBindings /\ ScopeStack' = ScopeStack
<1>1. /\ GlobalBindings = GlobalsOf(vars) /\ ScopeStack = ScopesOf(vars, ctx)
      /\ GlobalBindings' = GlobalsOf(vars') /\ ScopeStack' = ScopesOf(vars', ctx')
  BY ViewNext
<1>2. GlobalsOf(vars') = GlobalsOf(vars)
  BY DEF SameScopes, GlobalsOf
<1>3. ScopesOf(vars', ctx') = ScopesOf(vars, ctx)
  BY DEF SameScopes, ScopesOf
<1> QED
  BY <1>1, <1>2, <1>3

LEMMA TableNow ==
    Inv => Table(vars, rtnLevel)
BY StateFacts

LEMMA BindTop ==
    ASSUME Inv, Inv', NEW n, NEW w, Rebinds(vars, vars', n, rtnLevel, w), Len(ctx') = Len(ctx)
    PROVE  /\ ScopeStack' = [ScopeStack EXCEPT ![Scopes!Top].locals[n] = w]
           /\ GlobalBindings' = GlobalBindings
<1>1. /\ Table(vars, rtnLevel) /\ rtnLevel \in 0 .. MaxLevel /\ rtnLevel \in Nat
      /\ rtnLevel + 1 = Len(ctx) /\ rtnLevel < Len(ctx) /\ Len(ctx) \in Nat
  BY StateFacts
<1>2. Table(vars', rtnLevel')
  <2>1. (Inv => Table(vars, rtnLevel))'
    BY TableNow, PTL
  <2> QED
    BY <2>1
<1>3. /\ ScopesOf(vars', ctx) = [ScopesOf(vars, ctx) EXCEPT ![rtnLevel + 1].locals[n] = w]
      /\ GlobalsOf(vars') = GlobalsOf(vars)
  BY <1>1, <1>2, RebindLocal
<1>4. /\ GlobalBindings = GlobalsOf(vars) /\ ScopeStack = ScopesOf(vars, ctx)
      /\ GlobalBindings' = GlobalsOf(vars') /\ ScopeStack' = ScopesOf(vars', ctx')
  BY ViewNext
<1>5. Len(ScopesOf(vars, ctx)) = Len(ctx)
  BY <1>1, ScopesFacts
<1>6. Scopes!Top = rtnLevel + 1
  BY <1>1, <1>4, <1>5 DEF Scopes!Top
<1>7. ScopesOf(vars', ctx') = ScopesOf(vars', ctx)
  BY DEF ScopesOf
<1> QED
  BY <1>3, <1>4, <1>6, <1>7

LEMMA LstoBinds ==
    ASSUME Inv, Inv', NEW n \in Names, NEW val \in Values, Lsto(n, val)
    PROVE  Scopes!BindLocal(n, val)
<1> DEFINE yes == TRUE
<1>1. Table(vars, rtnLevel) /\ rtnLevel \in 0 .. MaxLevel
  BY StateFacts
<1>2. yes \in BOOLEAN /\ yes
  OBVIOUS
<1>3. vars' = StoreVar(vars, n, val, yes, rtnLevel) /\ UNCHANGED <<ctx, bigStack, allowBig>>
  BY DEF Lsto
<1> HIDE DEF yes
<1>4. StoredAt(vars, n, yes, rtnLevel) = rtnLevel
  BY <1>2 DEF StoredAt
<1>5. Rebinds(vars, vars', n, StoredAt(vars, n, yes, rtnLevel), val)
  BY <1>1, <1>2, <1>3, StoreScopes
<1>6. Rebinds(vars, vars', n, rtnLevel, val) /\ Len(ctx') = Len(ctx)
  BY <1>3, <1>4, <1>5
<1>7. /\ ScopeStack' = [ScopeStack EXCEPT ![Scopes!Top].locals[n] = val]
      /\ GlobalBindings' = GlobalBindings
  BY <1>6, BindTop
<1> QED
  BY <1>3, <1>7 DEF Scopes!BindLocal

LEMMA StoAssigns ==
    ASSUME Inv, Inv', NEW n \in Names, NEW val \in Values, Sto(n, val)
    PROVE  Scopes!Assign(n, val)
<1> DEFINE no == FALSE
           l == StoredAt(vars, n, no, rtnLevel)
<1>1. /\ Table(vars, rtnLevel) /\ rtnLevel \in 0 .. MaxLevel /\ rtnLevel \in Nat
      /\ rtnLevel = Len(ctx) - 1 /\ Len(ctx) \in Nat
  BY StateFacts
<1>2. no \in BOOLEAN /\ ~no
  OBVIOUS
<1>3. vars' = StoreVar(vars, n, val, no, rtnLevel) /\ UNCHANGED <<ctx, bigStack, allowBig>>
  BY DEF Sto
<1> HIDE DEF no
<1>4. Table(vars', rtnLevel) /\ Rebinds(vars, vars', n, l, val)
  <2>1. Rebinds(vars, vars', n, l, val)
    BY <1>1, <1>2, <1>3, StoreScopes
  <2>2. Table(vars', rtnLevel)
    BY <1>1, <1>2, <1>3, StoreVarFacts
  <2> QED
    BY <2>1, <2>2
<1>5. /\ GlobalBindings = GlobalsOf(vars) /\ ScopeStack = ScopesOf(vars, ctx)
      /\ GlobalBindings' = GlobalsOf(vars') /\ ScopeStack' = ScopesOf(vars', ctx')
  BY ViewNext
<1>6. Scopes!Innermost(n) = l + 1 /\ l \in GlobalLevel .. (Len(ctx) - 1)
  BY <1>2, <1>5, InnermostIs
<1> HIDE DEF l
<1>7. CASE l = GlobalLevel
  <2>1. /\ ScopesOf(vars', ctx) = ScopesOf(vars, ctx)
        /\ GlobalsOf(vars') = [GlobalsOf(vars) EXCEPT ![n] = val]
    <3>1. Rebinds(vars, vars', n, GlobalLevel, val)
      BY <1>4, <1>7
    <3>2. Table(vars, rtnLevel)
      BY <1>1
    <3>3. Len(ctx) \in Nat
      BY <1>1
    <3> QED
      BY <3>1, <3>2, <3>3, RebindGlobal
  <2>2. GlobalBindings' = [GlobalBindings EXCEPT ![n] = val]
    BY <1>5, <2>1
  <2>3. ScopeStack' = ScopeStack
    BY <1>3, <1>5, <2>1
  <2>4. Scopes!Innermost(n) = 0
    BY <1>6, <1>7 DEF GlobalLevel
  <2> QED
    BY <1>3, <2>2, <2>3, <2>4 DEF Scopes!Assign
<1>8. CASE l # GlobalLevel
  <2>1. l \in Nat /\ l < Len(ctx) /\ l + 1 # 0
    BY <1>1, <1>6, <1>8 DEF GlobalLevel
  <2>2. /\ ScopesOf(vars', ctx) = [ScopesOf(vars, ctx) EXCEPT ![l + 1].locals[n] = val]
        /\ GlobalsOf(vars') = GlobalsOf(vars)
    BY <1>1, <1>4, <2>1, RebindLocal
  <2>3. ScopeStack' = [ScopeStack EXCEPT ![Scopes!Innermost(n)].locals[n] = val]
    BY <1>3, <1>5, <1>6, <2>2
  <2>4. GlobalBindings' = GlobalBindings
    BY <1>5, <2>2
  <2>5. Scopes!Innermost(n) # 0
    BY <1>6, <2>1
  <2> QED
    BY <1>3, <2>3, <2>4, <2>5 DEF Scopes!Assign
<1> QED
  BY <1>7, <1>8

(* A name that a level does not bind                                       *)
LEMMA NotBound ==
    ASSUME NEW t, NEW L, Table(t, L), NEW n \in Names, NEW l, ~HasVar(t, n, l)
    PROVE  Rebinds(t, t, n, l, NoValue)
<1>1. Bound(t, n, l) = NoValue
  BY BoundFacts
<1>2. SaysElse(t, t, n, l)
  BY DEF SaysElse
<1>3. Rebinds(t, t, n, l, Bound(t, n, l))
  BY <1>2, RebindsSays
<1> QED
  BY <1>1, <1>3

LEMMA PurgeScopes ==
    ASSUME NEW t, NEW L \in Nat, Table(t, L), NEW n \in Names, NEW i, i = LookupVar(t, n), i # 0,
           t[i].level = GlobalLevel \/ t[i].level = L, NEW r, r = PurgeVar(t, i)
    PROVE  Rebinds(t, r, n, t[i].level, NoValue)
<1> DEFINE l == t[i].level
<1>1. /\ Table(r, L) /\ Leaves(t, {i}, r)
      /\ \A m, k : HasVar(r, m, k) <=> HasVar(t, m, k) /\ ~(m = n /\ k = t[i].level)
  BY PurgeVarFacts
<1>2. t \in Seq(Entries) /\ Shadows(t)
  BY DEF Table
<1>3. i \in 1 .. Len(t) /\ ~t[i].private /\ t[i].name = n
  BY <1>2, LookupVarFacts
<1> DEFINE I == {i}
<1>4. Leaves(t, I, r) /\ \A j : j \in (1 .. Len(t)) \ I <=> j \in 1 .. Len(t) /\ j # i
  BY <1>1
<1> HIDE DEF I
<1>5. ASSUME NEW k
      PROVE  /\ \A m, v : ~(m = n /\ k = l) => (Binds(r, m, k, v) <=> Binds(t, m, k, v))
             /\ \A b : Calls(r, k, b) <=> Calls(t, k, b)
  <2>1. /\ \A m, v : Binds(r, m, k, v) <=>
              \E j \in (1 .. Len(t)) \ I :
                 ~t[j].private /\ t[j].name = m /\ t[j].level = k /\ t[j].val = v
        /\ \A b : Calls(r, k, b) <=>
              \E j \in (1 .. Len(t)) \ I :
                 t[j].private /\ t[j].name = "STK" /\ t[j].level = k /\ t[j].val.caller = b
    BY <1>4, LeavesSay
  <2>2. ASSUME NEW m, NEW v, ~(m = n /\ k = l)
        PROVE  Binds(r, m, k, v) <=> Binds(t, m, k, v)
    BY <1>3, <1>4, <2>1, <2>2 DEF Binds
  <2>3. ASSUME NEW b
        PROVE  Calls(r, k, b) <=> Calls(t, k, b)
    BY <1>3, <1>4, <2>1 DEF Calls
  <2> QED
    BY <2>2, <2>3
<1>7. SaysElse(t, r, n, l)
  BY <1>5 DEF SaysElse
<1>8. ~HasVar(r, n, l)
  BY <1>1
<1> HIDE DEF l
<1>9. Bound(r, n, l) = NoValue
  BY <1>1, <1>8, BoundFacts
<1>10. Rebinds(t, r, n, l, Bound(r, n, l))
  BY <1>1, <1>7, RebindsSays
<1> QED
  BY <1>9, <1>10 DEF l

(* What CLV and LCLV take away: a global, a local of this level            *)
LEMMA PurgedScopes ==
    ASSUME Inv, NEW n \in Names, NEW local \in BOOLEAN, ~PurgeRefused(vars, n, local)
    PROVE  Rebinds(vars, Purged(Now, n, local).vars, n,
                   IF local THEN rtnLevel ELSE GlobalLevel, NoValue)
<1> DEFINE i == LookupVar(vars, n)
           l == IF local THEN rtnLevel ELSE GlobalLevel
           T == Purged(Now, n, local)
<1>1. /\ Table(vars, rtnLevel) /\ rtnLevel = Len(ctx) - 1 /\ rtnLevel \in Nat
  BY StateFacts
<1>2. OK(Now) /\ Now.vars = vars /\ LevelOf(Now) = rtnLevel
  BY NowOK DEF Now, LevelOf, rtnLevel
<1>3. vars \in Seq(Entries) /\ Shadows(vars) /\ Sorted(vars, rtnLevel)
  BY <1>1 DEF Table
<1>4. /\ i = 0 => \A j \in 1 .. Len(vars) : ~vars[j].private => vars[j].name # n
      /\ i # 0 => /\ i \in 1 .. Len(vars) /\ ~vars[i].private /\ vars[i].name = n
                  /\ \A j \in 1 .. Len(vars) : ~vars[j].private /\ vars[j].name = n => j <= i
  BY <1>3, LookupVarFacts
<1>5. \A j \in 1 .. Len(vars) : /\ vars[j].level \in Int /\ vars[j].level <= rtnLevel
                                /\ vars[j].private \in BOOLEAN
  BY <1>3, EntryFacts DEF Sorted
<1>6. i # 0 /\ vars[i].level # GlobalLevel => local
  BY DEF PurgeRefused
<1>7. ToPurge(vars, n, local, rtnLevel) = IF i # 0 /\ vars[i].level = l THEN i ELSE 0
  BY DEF ToPurge
<1>8. T = IF ToPurge(vars, n, local, rtnLevel) = 0 THEN Now
          ELSE [Now EXCEPT !.vars = PurgeVar(@, i),
                           !.matedit = IF @.mode = 1 /\ Refers(@, n, Now.vars[i].level)
                                         THEN Off(@) ELSE @]
  BY <1>2, <1>7 DEF Purged
<1> HIDE DEF i, l, T
<1>9. CASE i # 0 /\ vars[i].level = l
  <2>1. ToPurge(vars, n, local, rtnLevel) # 0
    BY <1>7, <1>9
  <2>2. T.vars = PurgeVar(vars, i)
    BY <1>2, <1>8, <2>1 DEF Now
  <2>3. l = GlobalLevel \/ l = rtnLevel
    BY DEF l
  <2>4. Rebinds(vars, T.vars, n, vars[i].level, NoValue)
    BY <1>1, <1>9, <2>2, <2>3, PurgeScopes DEF i
  <2> QED
    BY <1>9, <2>4 DEF l, T
<1>10. CASE ~(i # 0 /\ vars[i].level = l)
  <2>1. T = Now
    BY <1>7, <1>8, <1>10
  <2>2. ~HasVar(vars, n, l)
    <3> SUFFICES ASSUME HasVar(vars, n, l)
                 PROVE  FALSE
      OBVIOUS
    <3>1. PICK j \in 1 .. Len(vars) :
             ~vars[j].private /\ vars[j].name = n /\ vars[j].level = l
      BY DEF HasVar
    <3>2. i # 0 /\ i \in 1 .. Len(vars) /\ j <= i /\ vars[i].level # l
      BY <1>4, <1>10, <3>1
    <3>3. local /\ l = rtnLevel
      BY <1>6, <3>2 DEF l
    <3>4. Akin(vars[j], vars[i])
      BY <1>4, <1>5, <3>1, <3>2 DEF Akin
    <3>5. j = i \/ vars[j].level < vars[i].level
      BY <1>3, <3>2, <3>4 DEF Sorted
    <3> QED
      BY <1>1, <1>5, <3>1, <3>2, <3>3, <3>5
  <2>3. Rebinds(vars, vars, n, l, NoValue)
    BY <1>1, <2>2, NotBound
  <2> QED
    BY <1>2, <2>1, <2>3 DEF l, T
<1> QED
  BY <1>9, <1>10

(* The private variable MAT says nothing of the scopes.                    *)
LEMMA IndexPoppedScopes ==
    ASSUME NEW S, OK(S)
    PROVE  SameScopes(S.vars, IndexPopped(S).vars)
<1> DEFINE t == S.vars
           L == Len(S.ctx) - 1
           i == LookupPrivate(t, "MAT", L)
           I == {i}
           r == Without(t, I)
           T == IndexPopped(S)
<1>1. Good(t, S.ctx, S.matedit, S.editor)
  BY DEF OK
<1>2. L \in Nat /\ Table(t, L)
  BY <1>1, LevelFacts DEF Good
<1>3. CASE ~TopCtx(S).mat \/ i = 0
  <2>1. T.vars = t
    BY <1>3 DEF IndexPopped, LevelOf
  <2> QED
    BY <2>1 DEF SameScopes
<1>4. CASE TopCtx(S).mat /\ i # 0
  <2>1. T.vars = r
    BY <1>4 DEF IndexPopped, LevelOf
  <2>2. i \in 1 .. Len(t) /\ t[i].private /\ t[i].name = "MAT" /\ t[i].level = L
    <3> HIDE DEF t, L, i
    <3> QED
      BY <1>2, <1>4, LookupPrivateFacts DEF i
  <2> HIDE DEF t, L, i, T
  <2>3. Table(r, L) /\ Leaves(t, I, r)
    <3> HIDE DEF r
    <3> QED
      BY <1>2, <2>2, PrivateRemoved DEF r
  <2>4. \A j \in I : t[j].private /\ t[j].name # "STK"
    BY <2>2
  <2> HIDE DEF r, I
  <2>5. ASSUME NEW l
        PROVE  ScopeOf(r, l) = ScopeOf(t, l)
    <3>1. \A j \in I : t[j].level = l => t[j].private /\ t[j].name # "STK"
      BY <2>4
    <3>2. Table(t, L)
      BY <1>2
    <3>3. Table(r, L)
      BY <2>3
    <3>4. Leaves(t, I, r)
      BY <2>3
    <3> QED
      BY <3>1, <3>2, <3>3, <3>4, LeavesScope
  <2> QED
    BY <2>1, <2>5 DEF SameScopes, t, T
<1> QED
  BY <1>3, <1>4

LEMMA ClvUnbinds ==
    ASSUME Inv, Inv', NEW n \in Names, Clv(n)
    PROVE  Scopes!UnbindGlobal(n)
<1> DEFINE no == FALSE
           T == Purged(Now, n, no)
<1>1. /\ Table(vars, rtnLevel) /\ rtnLevel \in Nat
      /\ rtnLevel = Len(ctx) - 1 /\ Len(ctx) \in Nat
  BY StateFacts
<1>2. no \in BOOLEAN /\ ~no
  OBVIOUS
<1>3. /\ ~(matedit.mode = 3 /\ matedit.name = n) /\ ~PurgeRefused(vars, n, no)
      /\ Become(T) /\ UNCHANGED <<bigStack, allowBig>>
  BY DEF Clv
<1>4. OK(Now) /\ Now.ctx = ctx /\ Now.matedit = matedit
  BY NowOK DEF Now
<1> HIDE DEF no
<1>5. T.ctx = ctx
  BY <1>2, <1>3, <1>4, PurgedOK
<1>6. Rebinds(vars, T.vars, n, IF no THEN rtnLevel ELSE GlobalLevel, NoValue)
  BY <1>2, <1>3, PurgedScopes
<1> HIDE DEF T
<1>7. Rebinds(vars, vars', n, GlobalLevel, NoValue) /\ ctx' = ctx
  BY <1>2, <1>3, <1>5, <1>6 DEF Become
<1>8. /\ GlobalBindings = GlobalsOf(vars) /\ ScopeStack = ScopesOf(vars, ctx)
      /\ GlobalBindings' = GlobalsOf(vars') /\ ScopeStack' = ScopesOf(vars', ctx')
  BY ViewNext
<1>9. /\ ScopesOf(vars', ctx) = ScopesOf(vars, ctx)
      /\ GlobalsOf(vars') = [GlobalsOf(vars) EXCEPT ![n] = NoValue]
  <2>1. Rebinds(vars, vars', n, GlobalLevel, NoValue)
    BY <1>7
  <2>2. Table(vars, rtnLevel)
    BY <1>1
  <2>3. Len(ctx) \in Nat
    BY <1>1
  <2> QED
    BY <2>1, <2>2, <2>3, RebindGlobal
<1>10. Scopes!Innermost(n) = 0
  <2>1. Scopes!Innermost(n) = StoredAt(vars, n, no, rtnLevel) + 1
    BY <1>2, <1>8, InnermostIs
  <2>2. StoredAt(vars, n, no, rtnLevel) = GlobalLevel
    BY <1>2, <1>3 DEF StoredAt, PurgeRefused
  <2> QED
    BY <2>1, <2>2 DEF GlobalLevel
<1>11. ScopeStack' = ScopeStack /\ GlobalBindings' = [GlobalBindings EXCEPT ![n] = NoValue]
  BY <1>7, <1>8, <1>9
<1> QED
  BY <1>3, <1>10, <1>11 DEF Scopes!UnbindGlobal

LEMMA LclvUnbinds ==
    ASSUME Inv, Inv', NEW n \in Names, Lclv(n)
    PROVE  Scopes!UnbindLocal(n)
<1> DEFINE yes == TRUE
           T == Purged(Now, n, yes)
<1>1. yes \in BOOLEAN /\ yes
  OBVIOUS
<1>2. /\ ~(matedit.mode = 3 /\ matedit.name = n)
      /\ Become(T) \/ Become(IndexPopped(T))
      /\ UNCHANGED <<bigStack, allowBig>>
  BY DEF Lclv
<1>3. OK(Now) /\ Now.ctx = ctx /\ Now.matedit = matedit
  BY NowOK DEF Now
<1> HIDE DEF yes
<1>4. T.ctx = ctx /\ OK(T)
  BY <1>1, <1>2, <1>3, PurgedOK
<1>5. ~PurgeRefused(vars, n, yes)
  BY <1>1 DEF PurgeRefused
<1>6. Rebinds(vars, T.vars, n, IF yes THEN rtnLevel ELSE GlobalLevel, NoValue)
  BY <1>1, <1>5, PurgedScopes
<1> HIDE DEF T
<1>7. Rebinds(vars, T.vars, n, rtnLevel, NoValue)
  BY <1>1, <1>6
<1>8. SameScopes(T.vars, vars') /\ Len(ctx') = Len(ctx)
  <2>1. CASE Become(T)
    BY <1>4, <2>1 DEF Become, SameScopes
  <2>2. CASE Become(IndexPopped(T))
    <3>1. SameScopes(T.vars, IndexPopped(T).vars)
      BY <1>4, IndexPoppedScopes
    <3>2. Len(IndexPopped(T).ctx) = Len(T.ctx)
      BY <1>4, IndexPoppedOK
    <3> QED
      BY <1>4, <2>2, <3>1, <3>2 DEF Become
  <2> QED
    BY <1>2, <2>1, <2>2
<1>9. Rebinds(vars, vars', n, rtnLevel, NoValue)
  BY <1>7, <1>8 DEF Rebinds, SameScopes
<1>10. /\ ScopeStack' = [ScopeStack EXCEPT ![Scopes!Top].locals[n] = NoValue]
       /\ GlobalBindings' = GlobalBindings
  BY <1>8, <1>9, BindTop
<1> QED
  BY <1>2, <1>10 DEF Scopes!UnbindLocal

(* What the levels say when MAT or STK is stored                           *)
LEMMA PrivateAdded ==
    ASSUME NEW t, NEW L \in 0 .. MaxLevel, Table(t, L), NEW n, ~HasPrivate(t, n, L), NEW v,
           (n = "STK" /\ v \in StkValues) \/ (n = "MAT" /\ v \in MatValues)
    PROVE  /\ Table(StorePrivate(t, n, v, L), L)
           /\ \A m, l, w : Binds(StorePrivate(t, n, v, L), m, l, w) <=> Binds(t, m, l, w)
           /\ \A l, b : Calls(StorePrivate(t, n, v, L), l, b) <=>
                 Calls(t, l, b) \/ (n = "STK" /\ l = L /\ v.caller = b)
<1> DEFINE e == PrivateVariable(n, L, v)
           r == StorePrivate(t, n, v, L)
<1>1. Len(t) \in Nat /\ t \in Seq(Entries) /\ L \in Nat
  BY BoundsAssumption DEF Table
<1>2. Table(r, L)
  BY StorePrivateFacts
<1>3. LookupPrivate(t, n, L) = 0
  BY <1>1, LookupPrivateFacts
<1>4. r = Append(t, e)
  BY <1>3 DEF StorePrivate
<1>5. e.private /\ e.name = n /\ e.level = L /\ e.val = v
  BY DEF PrivateVariable
<1> HIDE DEF e, r
<1>6. Extended(t, e, r)
  <2>1. Len(r) = Len(t) + 1 /\ r[Len(t) + 1] = e /\ \A j \in 1 .. Len(t) : r[j] = t[j]
    BY <1>1, <1>4
  <2> QED
    BY <2>1 DEF Extended, Alike
<1>7. /\ \A m, l, w : Binds(r, m, l, w) <=>
            Binds(t, m, l, w) \/ (~e.private /\ e.name = m /\ e.level = l /\ e.val = w)
      /\ \A l, b : Calls(r, l, b) <=>
            \/ Calls(t, l, b)
            \/ e.private /\ e.name = "STK" /\ e.level = l /\ e.val.caller = b
  BY <1>1, <1>6, ExtendedSays
<1>8. /\ \A m, l, w : Binds(r, m, l, w) <=> Binds(t, m, l, w)
      /\ \A l, b : Calls(r, l, b) <=> Calls(t, l, b) \/ (n = "STK" /\ l = L /\ v.caller = b)
  BY <1>5, <1>7
<1> QED
  BY <1>2, <1>8 DEF r

LEMMA IndexPushedScopes ==
    ASSUME NEW S, OK(S), S.matedit.mode = 1, S.matedit.level < Len(S.ctx) - 1
    PROVE  SameScopes(S.vars, IndexPushed(S).vars) /\ Len(IndexPushed(S).ctx) = Len(S.ctx)
<1> DEFINE t == S.vars
           c == S.ctx
           q == S.matedit
           L == Len(c) - 1
           v == [kind |-> "index", name |-> q.name, level |-> q.level]
           mat == "MAT"
           r == StorePrivate(t, mat, v, L)
           T == IndexPushed(S)
<1>1. Good(t, c, q, S.editor)
  BY DEF OK
<1>2. /\ L \in Nat /\ L \in 0 .. MaxLevel
      /\ c[Len(c)].mat <=> HasPrivate(t, "MAT", L)
  BY <1>1, LevelFacts
<1>3. c \in Seq(CtxRec) /\ Table(t, L) /\ q \in MateditRec /\ Points(t, q)
  BY <1>1, <1>2 DEF Good
<1>4. CASE c[Len(c)].mat
  <2>1. T = S
    BY <1>4 DEF IndexPushed, TopCtx
  <2> QED
    BY <2>1 DEF SameScopes
<1>5. CASE ~c[Len(c)].mat
  <2>1. T.vars = r /\ Len(T.ctx) = Len(c)
    <3>1. T.vars = r /\ T.ctx = [c EXCEPT ![Len(c)].mat = TRUE]
      BY <1>5 DEF IndexPushed, TopCtx, LevelOf
    <3> HIDE DEF r, T
    <3> QED
      BY <1>3, <3>1
  <2>2. v \in MatValues
    <3>1. q.name \in Names /\ q.level \in GlobalLevel .. MaxLevel
      BY <1>3, MateditFacts DEF Points
    <3> HIDE DEF q
    <3> QED
      BY <3>1 DEF MatValues
  <2>3. mat = "MAT" /\ mat # "STK"
    OBVIOUS
  <2> HIDE DEF v, mat, L, c, t, q, T
  <2>4. ~HasPrivate(t, mat, L)
    BY <1>2, <1>5, <2>3
  <2>5. /\ Table(r, L)
        /\ \A m, l, w : Binds(r, m, l, w) <=> Binds(t, m, l, w)
        /\ \A l, b : Calls(r, l, b) <=> Calls(t, l, b) \/ (mat = "STK" /\ l = L /\ v.caller = b)
    BY <1>2, <1>3, <2>2, <2>3, <2>4, PrivateAdded
  <2> HIDE DEF r
  <2>6. ASSUME NEW l
        PROVE  ScopeOf(r, l) = ScopeOf(t, l)
    <3>1. SameCalls(t, r, l)
      BY <2>3, <2>5 DEF SameCalls
    <3>2. \A m \in Names : SameBinds(t, r, l, m)
      BY <2>5 DEF SameBinds
    <3> QED
      BY <1>3, <2>5, <3>1, <3>2, SameScope
  <2> QED
    BY <2>1, <2>6 DEF SameScopes, t, c, T
<1> QED
  BY <1>4, <1>5

LEMMA PointAtScopes ==
    ASSUME NEW S, OK(S), NEW n \in Names, HoldsMatrix(S.vars, n), NEW mode \in {1, 3}
    PROVE  /\ SameScopes(S.vars, PointAt(S, n, mode).vars)
           /\ Len(PointAt(S, n, mode).ctx) = Len(S.ctx)
<1> DEFINE i == LookupVar(S.vars, n)
           level == S.vars[i].level
           T == IF S.matedit.mode = 1 /\ S.matedit.level < level THEN IndexPushed(S) ELSE S
           m == [mode |-> mode, name |-> n, level |-> level]
           P == PointAt(S, n, mode)
<1>1. Good(S.vars, S.ctx, S.matedit, S.editor)
  BY DEF OK
<1>2. /\ S.vars \in Seq(Entries) /\ Shadows(S.vars) /\ Sorted(S.vars, Len(S.ctx) - 1)
      /\ Len(S.ctx) - 1 \in 0 .. MaxLevel /\ MaxLevel \in Nat /\ S.matedit \in MateditRec
  BY <1>1, LevelFacts DEF Good, Table
<1>3. i # 0
  BY DEF HoldsMatrix
<1>4. i \in 1 .. Len(S.vars)
  <2> HIDE DEF i
  <2> QED
    BY <1>2, <1>3, LookupVarFacts DEF i
<1>5. P = [T EXCEPT !.matedit = m, !.editor = @ \/ mode = 3]
  BY DEF PointAt
<1> HIDE DEF i
<1>6. level \in Int /\ level <= Len(S.ctx) - 1
  <2>1. S.vars[i] \in Entries /\ level <= Len(S.ctx) - 1
    BY <1>2, <1>4 DEF Sorted
  <2> QED
    BY <2>1, EntryFacts
<1> HIDE DEF level
<1>7. OK(T) /\ SameScopes(S.vars, T.vars) /\ Len(T.ctx) = Len(S.ctx)
  <2>1. CASE S.matedit.mode = 1 /\ S.matedit.level < level
    <3>1. S.matedit.level < Len(S.ctx) - 1
      <4>1. S.matedit.level \in Int
        BY <1>2, MateditFacts
      <4> QED
        BY <1>2, <1>6, <2>1, <4>1
    <3>2. T = IndexPushed(S)
      BY <2>1
    <3> HIDE DEF T
    <3> QED
      BY <2>1, <3>1, <3>2, IndexPushedOK, IndexPushedScopes
  <2>2. CASE ~(S.matedit.mode = 1 /\ S.matedit.level < level)
    <3>1. T = S
      BY <2>2
    <3> HIDE DEF T
    <3> QED
      BY <3>1 DEF SameScopes
  <2> QED
    BY <2>1, <2>2
<1> HIDE DEF T
<1>8. P.vars = T.vars /\ P.ctx = T.ctx
  <2> DEFINE f == [vars |-> T.vars, ctx |-> T.ctx, matedit |-> T.matedit, editor |-> T.editor]
  <2>1. T = f
    BY <1>7 DEF OK
  <2>2. P = [f EXCEPT !.matedit = m, !.editor = @ \/ mode = 3]
    BY <1>5, <2>1
  <2> HIDE DEF P, m
  <2> QED
    BY <2>2
<1> QED
  BY <1>7, <1>8

(* The commands that leave the scopes as they are                          *)
ScopesKept == UNCHANGED <<GlobalBindings, ScopeStack, bigStack, allowBig>>

LEMMA KeptBy ==
    ASSUME Inv, Inv', NEW S, Become(S), SameScopes(vars, S.vars), Len(S.ctx) = Len(ctx),
           UNCHANGED <<bigStack, allowBig>>
    PROVE  ScopesKept
<1>1. SameScopes(vars, vars') /\ Len(ctx') = Len(ctx)
  BY DEF Become
<1>2. GlobalBindings' = GlobalBindings /\ ScopeStack' = ScopeStack
  BY <1>1, SameView
<1> QED
  BY <1>2 DEF ScopesKept

LEMMA IndexKeeps ==
    ASSUME Inv, Inv', NEW n \in Names, Index(n)
    PROVE  ScopesKept
<1> DEFINE mode == 1
           S == PointAt(Now, n, mode)
<1>1. OK(Now) /\ Now.vars = vars /\ Now.ctx = ctx
  BY NowOK DEF Now
<1>2. mode \in {1, 3} /\ Become(S) /\ HoldsMatrix(vars, n) /\ UNCHANGED <<bigStack, allowBig>>
  BY DEF Index
<1> HIDE DEF mode
<1>3. HoldsMatrix(Now.vars, n)
  BY <1>1, <1>2
<1>4. SameScopes(Now.vars, S.vars) /\ Len(S.ctx) = Len(Now.ctx)
  BY <1>1, <1>2, <1>3, PointAtScopes
<1> HIDE DEF S
<1> QED
  BY <1>1, <1>2, <1>4, KeptBy

LEMMA EditnKeeps ==
    ASSUME Inv, Inv', NEW n \in Names, Editn(n)
    PROVE  ScopesKept
<1> DEFINE mode == 3
           F == EditFinished(Now)
           S == PointAt(F, n, mode)
<1>1. OK(Now) /\ Now.vars = vars /\ Now.ctx = ctx
  BY NowOK DEF Now
<1>2. mode \in {1, 3} /\ Become(S) /\ HoldsMatrix(vars, n) /\ UNCHANGED <<bigStack, allowBig>>
  BY DEF Editn
<1> HIDE DEF mode
<1>3. OK(F) /\ F.vars = vars /\ F.ctx = ctx
  <2>1. F = Now \/ F = Leave(Now)
    BY EditFinishedIs
  <2> HIDE DEF F
  <2> QED
    BY <1>1, <2>1, LeaveOK
<1> HIDE DEF F
<1>4. HoldsMatrix(F.vars, n)
  BY <1>2, <1>3
<1>5. SameScopes(F.vars, S.vars) /\ Len(S.ctx) = Len(F.ctx)
  BY <1>2, <1>3, <1>4, PointAtScopes
<1> HIDE DEF S
<1> QED
  BY <1>2, <1>3, <1>5, KeptBy

LEMMA LeaveKeeps ==
    ASSUME Inv, Inv', UseMatrix \/ ExitMenu \/ Edit
    PROVE  ScopesKept
<1>1. OK(Now) /\ Now.vars = vars /\ Now.ctx = ctx
  BY NowOK DEF Now
<1>2. Leave(Now).vars = vars /\ Leave(Now).ctx = ctx
  BY <1>1, LeaveOK
<1>3. ASSUME NEW S, S = Now \/ S = Leave(Now), Become(S), UNCHANGED <<bigStack, allowBig>>
      PROVE  ScopesKept
  <2>1. SameScopes(vars, S.vars) /\ Len(S.ctx) = Len(ctx)
    BY <1>1, <1>2, <1>3 DEF SameScopes
  <2> QED
    BY <1>3, <2>1, KeptBy
<1>4. CASE UseMatrix
  <2>1. Become(MateditGot(Now)) /\ UNCHANGED <<bigStack, allowBig>>
    BY <1>4 DEF UseMatrix
  <2>2. MateditGot(Now) = Now \/ MateditGot(Now) = Leave(Now)
    BY LeftIs
  <2> QED
    BY <1>3, <2>1, <2>2
<1>5. CASE ExitMenu
  <2>1. PICK fits \in BOOLEAN : Become(LeftEditor(Now, fits))
    BY <1>5 DEF ExitMenu
  <2>2. LeftEditor(Now, fits) = Now \/ LeftEditor(Now, fits) = Leave(Now)
    BY LeftIs
  <2>3. UNCHANGED <<bigStack, allowBig>>
    BY <1>5 DEF ExitMenu
  <2> QED
    BY <1>3, <2>1, <2>2, <2>3
<1>6. CASE Edit
  <2> DEFINE F == EditFinished(Now)
             P == [F EXCEPT !.matedit.mode = 2, !.editor = TRUE]
             f == [vars |-> F.vars, ctx |-> F.ctx, matedit |-> F.matedit, editor |-> F.editor]
  <2>1. Become(P) /\ UNCHANGED <<bigStack, allowBig>>
    BY <1>6 DEF Edit
  <2>2. F = Now \/ F = Leave(Now)
    BY EditFinishedIs
  <2> HIDE DEF F
  <2>3. OK(F) /\ F.vars = vars /\ F.ctx = ctx
    BY <1>1, <1>2, <2>2, LeaveOK
  <2>4. P.vars = F.vars /\ P.ctx = F.ctx
    <3>1. F = f
      BY <2>3 DEF OK
    <3>2. P = [f EXCEPT !.matedit.mode = 2, !.editor = TRUE]
      BY <3>1
    <3> HIDE DEF P
    <3> QED
      BY <3>2
  <2> HIDE DEF P
  <2>5. SameScopes(vars, P.vars) /\ Len(P.ctx) = Len(ctx)
    BY <2>3, <2>4 DEF SameScopes
  <2> QED
    BY <2>1, <2>5, KeptBy
<1> QED
  BY <1>4, <1>5, <1>6

(* The caller's mode of one level changes.                                 *)
Recalls(t, r, l, w) ==
    /\ ScopeOf(r, l) = [ScopeOf(t, l) EXCEPT !.caller = w]
    /\ \A k : k # l => ScopeOf(r, k) = ScopeOf(t, k)

LEMMA ScopeCaller ==
    ASSUME NEW t, NEW L, Table(t, L), NEW r, NEW M, Table(r, M), NEW l,
           \A n \in Names : SameBinds(t, r, l, n)
    PROVE  ScopeOf(r, l) = [ScopeOf(t, l) EXCEPT !.caller = CallerOf(r, l)]
<1>1. ASSUME NEW n \in Names
      PROVE  Bound(r, n, l) = Bound(t, n, l)
  <2>1. \A v : Binds(r, n, l, v) <=> Binds(t, n, l, v)
    BY DEF SameBinds
  <2> QED
    BY <2>1, SameBound
<1> DEFINE f == [n \in Names |-> Bound(t, n, l)]
           g == [n \in Names |-> Bound(r, n, l)]
           c == CallerOf(t, l)
           d == CallerOf(r, l)
<1>2. g = f
  BY <1>1
<1>3. ScopeOf(t, l) = [locals |-> f, caller |-> c] /\ ScopeOf(r, l) = [locals |-> g, caller |-> d]
  BY DEF ScopeOf
<1> HIDE DEF f, g, c, d
<1>4. [[locals |-> f, caller |-> c] EXCEPT !.caller = d] = [locals |-> f, caller |-> d]
  OBVIOUS
<1> QED
  BY <1>2, <1>3, <1>4 DEF d

LEMMA RecallTop ==
    ASSUME Inv, Inv', NEW w, Recalls(vars, vars', rtnLevel, w), Len(ctx') = Len(ctx)
    PROVE  /\ ScopeStack' = [ScopeStack EXCEPT ![Scopes!Top].caller = w]
           /\ GlobalBindings' = GlobalBindings
<1> DEFINE N == Len(ctx)
           s == [k \in 1 .. N |-> ScopeOf(vars, k - 1)]
           q == [k \in 1 .. N |-> ScopeOf(vars', k - 1)]
           e == [ScopeOf(vars, rtnLevel) EXCEPT !.caller = w]
           L == rtnLevel
<1>1. L \in Nat /\ L + 1 = N /\ N \in Nat
  BY StateFacts
<1>2. /\ GlobalBindings = GlobalsOf(vars) /\ ScopeStack = ScopesOf(vars, ctx)
      /\ GlobalBindings' = GlobalsOf(vars') /\ ScopeStack' = ScopesOf(vars', ctx')
  BY ViewNext
<1>3. ScopeStack = s /\ ScopeStack' = q
  BY <1>2 DEF ScopesOf
<1>4. /\ ScopeOf(vars', L) = e
      /\ \A k : k # L => ScopeOf(vars', k) = ScopeOf(vars, k)
  BY DEF Recalls
<1> HIDE DEF L
<1>5. N \in 1 .. N /\ N - 1 = L /\ \A k \in 1 .. N : k # N => k - 1 # L
  BY <1>1
<1>6. s[N] = ScopeOf(vars, L) /\ q[N] = e /\ \A k \in 1 .. N : k # N => q[k] = s[k]
  <2> HIDE DEF N, e
  <2> QED
    BY <1>4, <1>5
<1>7. DOMAIN s = 1 .. N /\ s = [k \in 1 .. N |-> s[k]] /\ q = [k \in 1 .. N |-> q[k]]
  OBVIOUS
<1>8. e = [s[N] EXCEPT !.caller = w]
  BY <1>6 DEF L
<1>9. Scopes!Top = N
  <2>1. Len(ScopesOf(vars, ctx)) = Len(ctx)
    <3>1. Table(vars, rtnLevel) /\ Len(ctx) \in Nat
      BY StateFacts
    <3> QED
      BY <3>1, ScopesFacts
  <2> QED
    BY <1>2, <2>1 DEF Scopes!Top
<1>10. GlobalsOf(vars') = GlobalsOf(vars)
  <2>1. GlobalLevel # L
    BY <1>1 DEF GlobalLevel
  <2> QED
    BY <1>4, <2>1 DEF GlobalsOf
<1> HIDE DEF N, s, q, e
<1>11. q = [s EXCEPT ![N] = e]
  BY <1>5, <1>6, <1>7
<1>12. q = [s EXCEPT ![N].caller = w]
  BY <1>8, <1>11
<1> QED
  BY <1>2, <1>3, <1>9, <1>10, <1>12

(* STK is stored: the level remembers its caller's mode.                   *)
LEMMA SaveModeScopes ==
    ASSUME Inv, LookupPrivate(vars, "STK", rtnLevel) = 0, NEW v \in StkValues
    PROVE  /\ CallerOf(vars, rtnLevel) = {}
           /\ Recalls(vars, StorePrivate(vars, "STK", v, rtnLevel), rtnLevel, {v.caller})
<1> DEFINE stk == "STK"
           r == StorePrivate(vars, stk, v, rtnLevel)
           b == v.caller
<1>1. Table(vars, rtnLevel) /\ rtnLevel \in 0 .. MaxLevel /\ rtnLevel \in Nat
  BY StateFacts
<1>2. stk = "STK"
  OBVIOUS
<1> HIDE DEF stk
<1>3. LookupPrivate(vars, stk, rtnLevel) = 0
  BY <1>2
<1>4. ~HasPrivate(vars, stk, rtnLevel)
  BY <1>1, <1>3, LookupPrivateFacts
<1>5. /\ Table(r, rtnLevel)
      /\ \A m, l, w : Binds(r, m, l, w) <=> Binds(vars, m, l, w)
      /\ \A l, x : Calls(r, l, x) <=>
            Calls(vars, l, x) \/ (stk = "STK" /\ l = rtnLevel /\ v.caller = x)
  BY <1>1, <1>2, <1>4, PrivateAdded
<1>6. CallerOf(vars, rtnLevel) = {}
  BY <1>1, <1>2, <1>4, CallerFacts
<1>7. b \in BOOLEAN
  BY DEF StkValues
<1> HIDE DEF r, b
<1>8. \A l : \A n \in Names : SameBinds(vars, r, l, n)
  BY <1>5 DEF SameBinds
<1>9. CallerOf(r, rtnLevel) = {b}
  <2>1. \A x \in BOOLEAN : ~Calls(vars, rtnLevel, x)
    BY <1>6 DEF CallerOf
  <2>2. \A x \in BOOLEAN : Calls(r, rtnLevel, x) <=> x = b
    BY <1>2, <1>5, <2>1 DEF b
  <2> QED
    BY <1>7, <2>2 DEF CallerOf
<1>10. ScopeOf(r, rtnLevel) = [ScopeOf(vars, rtnLevel) EXCEPT !.caller = CallerOf(r, rtnLevel)]
  BY <1>1, <1>5, <1>8, ScopeCaller
<1>11. ASSUME NEW l, l # rtnLevel
       PROVE  ScopeOf(r, l) = ScopeOf(vars, l)
  <2>1. SameCalls(vars, r, l)
    BY <1>5, <1>11 DEF SameCalls
  <2> QED
    BY <1>1, <1>5, <1>8, <2>1, SameScope
<1>12. Recalls(vars, r, rtnLevel, {b})
  BY <1>9, <1>10, <1>11 DEF Recalls
<1> QED
  BY <1>2, <1>6, <1>12 DEF r, b

LEMMA TopCaller ==
    ASSUME Inv
    PROVE  ScopeStack[Scopes!Top].caller = CallerOf(vars, rtnLevel)
<1>1. /\ Table(vars, rtnLevel) /\ rtnLevel \in Nat /\ rtnLevel = Len(ctx) - 1
      /\ Len(ctx) \in Nat /\ Len(ctx) # 0
  BY StateFacts
<1>2. ScopeStack = ScopesOf(vars, ctx)
  BY View
<1>3. Len(ScopesOf(vars, ctx)) = Len(ctx)
      /\ \A k \in 1 .. Len(ctx) : ScopesOf(vars, ctx)[k] = ScopeOf(vars, k - 1)
  BY <1>1, ScopesFacts
<1>4. Len(ctx) \in 1 .. Len(ctx)
  BY <1>1
<1>5. Scopes!Top = Len(ctx)
  BY <1>2, <1>3 DEF Scopes!Top
<1>6. ScopeStack[Scopes!Top] = ScopeOf(vars, rtnLevel)
  BY <1>1, <1>2, <1>3, <1>4, <1>5
<1> QED
  BY <1>6 DEF ScopeOf

LEMMA SavesMode ==
    ASSUME Inv, Inv', LookupPrivate(vars, "STK", rtnLevel) = 0, NEW v \in StkValues,
           v.caller = bigStack, vars' = StorePrivate(vars, "STK", v, rtnLevel),
           Len(ctx') = Len(ctx), bigStack' => allowBig, allowBig' = allowBig
    PROVE  Scopes!ChangeMode(bigStack')
<1> DEFINE big == bigStack'
<1>1. /\ CallerOf(vars, rtnLevel) = {}
      /\ Recalls(vars, vars', rtnLevel, {v.caller})
  BY SaveModeScopes
<1>2. Recalls(vars, vars', rtnLevel, {bigStack})
  BY <1>1
<1>3. /\ ScopeStack' = [ScopeStack EXCEPT ![Scopes!Top].caller = {bigStack}]
      /\ GlobalBindings' = GlobalBindings
  BY <1>2, RecallTop
<1>4. ScopeStack[Scopes!Top].caller = {}
  BY <1>1, TopCaller
<1>5. bigStack' = big
  OBVIOUS
<1> HIDE DEF big
<1>6. Scopes!ChangeMode(big)
  BY <1>3, <1>4, <1>5 DEF Scopes!ChangeMode
<1> QED
  BY <1>6 DEF big

LEMMA FuncFlagLen ==
    Inv => Len([ctx EXCEPT ![Len(ctx)].func = TRUE]) = Len(ctx)
<1> SUFFICES ASSUME Inv
             PROVE  Len([ctx EXCEPT ![Len(ctx)].func = TRUE]) = Len(ctx)
  OBVIOUS
<1>1. ctx \in Seq(CtxRec)
  BY StateFacts
<1> QED
  BY <1>1

LEMMA FuncChanges ==
    ASSUME Inv, Inv', Func
    PROVE  Scopes!ChangeMode(bigStack')
<1> DEFINE v == [kind |-> "func", caller |-> bigStack, nested |-> FALSE]
<1>1. LookupPrivate(vars, "STK", rtnLevel) = 0
      /\ vars' = StorePrivate(vars, "STK", v, rtnLevel)
      /\ ctx' = [ctx EXCEPT ![Len(ctx)].func = TRUE]
      /\ UNCHANGED <<bigStack, allowBig>>
  BY DEF Func
<1>2. bigStack \in BOOLEAN /\ BigStackAllowed
  BY DEF Inv
<1>3. v \in StkValues /\ v.caller = bigStack
  BY <1>2 DEF StkValues
<1>4. Len(ctx') = Len(ctx)
  BY <1>1, FuncFlagLen
<1> HIDE DEF v
<1>5. bigStack' => allowBig
  BY <1>1, <1>2 DEF BigStackAllowed
<1> QED
  BY <1>1, <1>3, <1>4, <1>5, SavesMode

LEMMA LStkChanges ==
    ASSUME Inv, Inv', NEW big \in BOOLEAN, LStk(big)
    PROVE  Scopes!ChangeMode(bigStack')
<1> DEFINE v == [kind |-> "lstk", caller |-> bigStack]
<1>1. LookupPrivate(vars, "STK", rtnLevel) = 0
      /\ vars' = StorePrivate(vars, "STK", v, rtnLevel)
      /\ ctx' = [ctx EXCEPT ![Len(ctx)].func = TRUE]
      /\ bigStack' = big /\ allowBig' = allowBig /\ (big => allowBig)
  BY DEF LStk
<1>2. bigStack \in BOOLEAN
  BY DEF Inv
<1>3. v \in StkValues /\ v.caller = bigStack
  BY <1>2 DEF StkValues
<1>4. Len(ctx') = Len(ctx)
  BY <1>1, FuncFlagLen
<1> HIDE DEF v
<1>5. bigStack' => allowBig
  BY <1>1
<1> QED
  BY <1>1, <1>3, <1>4, <1>5, SavesMode

(* LNSTK or L4STK after FUNC: who called is still what it was.             *)
LEMMA NestedCaller ==
    ASSUME NEW e \in Entries, e.private, e.name = "STK", e.val.kind = "func"
    PROVE  [e EXCEPT !.val.nested = TRUE].val.caller = e.val.caller
<1> DEFINE v == e.val
           w == [v EXCEPT !.nested = TRUE]
<1>1. v \in StkValues
  BY EntryFacts
<1>2. w.caller = v.caller
  <2> HIDE DEF v
  <2> QED
    BY <1>1 DEF StkValues
<1>3. [e EXCEPT !.val.nested = TRUE].val = w
  BY DEF Entries
<1> QED
  BY <1>2, <1>3

LEMMA LStkAfterFuncSets ==
    ASSUME Inv, Inv', NEW big \in BOOLEAN, LStkAfterFunc(big)
    PROVE  Scopes!SetMode(big)
<1> DEFINE L == Len(ctx) - 1
           i == LookupPrivate(vars, "STK", L)
           f == [vars[i] EXCEPT !.val.nested = TRUE]
<1>1. Table(vars, L) /\ L \in Nat /\ vars \in Seq(Entries)
  BY StateFacts DEF Table, rtnLevel
<1>2. Table(vars', L')
  <2>1. (Inv => Table(vars, rtnLevel))'
    BY TableNow, PTL
  <2> QED
    BY <2>1 DEF rtnLevel
<1>3. i # 0 /\ vars[i].val.kind = "func"
  BY DEF LStkAfterFunc, rtnLevel
<1>4. (big => allowBig) /\ bigStack' = big /\ UNCHANGED <<ctx, matedit, editor, allowBig>>
  BY DEF LStkAfterFunc
<1>5. vars' = [vars EXCEPT ![i] = f]
  BY DEF LStkAfterFunc, rtnLevel
<1>6. i \in 1 .. Len(vars) /\ vars[i].private /\ vars[i].name = "STK"
  <2> HIDE DEF L, i
  <2> QED
    BY <1>1, <1>3, LookupPrivateFacts DEF i
<1> HIDE DEF i, L
<1>7. vars[i] \in Entries
  BY <1>1, <1>6
<1>8. /\ f \in Entries /\ f.name = vars[i].name /\ f.level = vars[i].level
      /\ f.private = vars[i].private /\ f.val.caller = vars[i].val.caller
  BY <1>3, <1>6, <1>7, NestedValue, NestedCaller DEF Revalues
<1> HIDE DEF f
<1>9. /\ Len(vars') = Len(vars) /\ vars'[i] = f
      /\ \A j \in 1 .. Len(vars) : j # i => vars'[j] = vars[j]
  BY <1>1, <1>5, <1>6, <1>8
<1>10. ASSUME NEW n, NEW l, NEW v
       PROVE  Binds(vars', n, l, v) <=> Binds(vars, n, l, v)
  <2>1. ASSUME NEW j \in 1 .. Len(vars), ~vars[j].private, vars[j].name = n,
               vars[j].level = l, vars[j].val = v
        PROVE  Binds(vars', n, l, v)
    <3>1. vars'[j] = vars[j]
      BY <1>6, <1>9, <2>1
    <3> QED
      BY <1>9, <2>1, <3>1 DEF Binds
  <2>2. ASSUME NEW j \in 1 .. Len(vars), ~vars'[j].private, vars'[j].name = n,
               vars'[j].level = l, vars'[j].val = v
        PROVE  Binds(vars, n, l, v)
    <3>1. vars'[j] = vars[j]
      BY <1>6, <1>8, <1>9, <2>2
    <3> QED
      BY <2>2, <3>1 DEF Binds
  <2> QED
    BY <1>9, <2>1, <2>2 DEF Binds
<1>11. ASSUME NEW l, NEW b
       PROVE  Calls(vars', l, b) <=> Calls(vars, l, b)
  <2>1. \A j \in 1 .. Len(vars) :
           /\ vars'[j].private = vars[j].private /\ vars'[j].name = vars[j].name
           /\ vars'[j].level = vars[j].level
           /\ vars[j].private /\ vars[j].name = "STK" => vars'[j].val.caller = vars[j].val.caller
    BY <1>8, <1>9
  <2> QED
    BY <1>9, <2>1 DEF Calls
<1>12. ASSUME NEW l
       PROVE  ScopeOf(vars', l) = ScopeOf(vars, l)
  <2>1. SameCalls(vars, vars', l)
    BY <1>11 DEF SameCalls
  <2>2. \A n \in Names : SameBinds(vars, vars', l, n)
    BY <1>10 DEF SameBinds
  <2> QED
    BY <1>1, <1>2, <2>1, <2>2, SameScope
<1>13. SameScopes(vars, vars') /\ Len(ctx') = Len(ctx)
  BY <1>4, <1>12 DEF SameScopes
<1>14. GlobalBindings' = GlobalBindings /\ ScopeStack' = ScopeStack
  BY <1>13, SameView
<1> QED
  BY <1>4, <1>14 DEF Scopes!SetMode

LEMMA StkSets ==
    ASSUME Inv, Inv', NEW big \in BOOLEAN, Stk(big)
    PROVE  Scopes!SetMode(big)
<1>1. (big => allowBig) /\ bigStack' = big /\ UNCHANGED <<vars, ctx, allowBig>>
  BY DEF Stk
<1>2. SameScopes(vars, vars') /\ Len(ctx') = Len(ctx)
  BY <1>1 DEF SameScopes
<1>3. GlobalBindings' = GlobalBindings /\ ScopeStack' = ScopeStack
  BY <1>2, SameView
<1> QED
  BY <1>1, <1>3 DEF Scopes!SetMode

LEMMA SetAllowSets ==
    ASSUME Inv, Inv', SetAllowBigStack
    PROVE  Scopes!SetAllowBigStack
<1>1. allowBig' = ~allowBig /\ bigStack' = (bigStack /\ allowBig') /\ UNCHANGED <<vars, ctx>>
  BY DEF SetAllowBigStack
<1>2. SameScopes(vars, vars') /\ Len(ctx') = Len(ctx)
  BY <1>1 DEF SameScopes
<1>3. GlobalBindings' = GlobalBindings /\ ScopeStack' = ScopeStack
  BY <1>2, SameView
<1> QED
  BY <1>1, <1>3 DEF Scopes!SetAllowBigStack

(* XEQ: nothing is local to the new level yet.                             *)
LEMMA EmptyIs ==
    Scopes!EmptyScope = NoScope
BY DEF Scopes!EmptyScope, Scopes!NoBindings, NoScope

LEMMA CallEnters ==
    ASSUME Inv, Inv', Call
    PROVE  Scopes!Enter
<1> DEFINE N == Len(ctx)
           s == ScopesOf(vars, ctx)
           q == ScopesOf(vars, ctx')
<1>1. /\ Table(vars, rtnLevel) /\ rtnLevel = N - 1 /\ rtnLevel \in Nat
      /\ N \in Nat /\ ctx \in Seq(CtxRec)
  BY StateFacts
<1>2. rtnLevel < MaxLevel /\ ctx' = Append(ctx, NoContext)
      /\ UNCHANGED <<vars, bigStack, allowBig>>
  BY DEF Call
<1>3. Len(ctx') = N + 1
  BY <1>1, <1>2
<1>4. /\ GlobalBindings = GlobalsOf(vars) /\ ScopeStack = ScopesOf(vars, ctx)
      /\ GlobalBindings' = GlobalsOf(vars') /\ ScopeStack' = ScopesOf(vars', ctx')
  BY ViewNext
<1> HIDE DEF N
<1>5. \A j \in 1 .. Len(vars) : vars[j].level # N
  <2>1. \A j \in 1 .. Len(vars) : vars[j] \in Entries /\ vars[j].level <= rtnLevel
    BY <1>1 DEF Table, Sorted
  <2>2. \A j \in 1 .. Len(vars) : vars[j].level \in Int
    BY <2>1, EntryFacts
  <2> QED
    BY <1>1, <2>1, <2>2
<1>6. ScopeOf(vars, N) = NoScope
  <2>1. (\A n : ~HasVar(vars, n, N)) /\ ~HasPrivate(vars, "STK", N)
    BY <1>5 DEF HasVar, HasPrivate
  <2> QED
    BY <1>1, <2>1, NothingThere
<1>7. /\ s \in Seq(ScopeRec) /\ Len(s) = N
      /\ \A k \in 1 .. N : s[k] = ScopeOf(vars, k - 1)
  BY <1>1, ScopesFacts DEF N
<1>8. /\ q \in Seq(ScopeRec) /\ Len(q) = N + 1
      /\ \A k \in 1 .. (N + 1) : q[k] = ScopeOf(vars, k - 1)
  <2>1. Len(ctx') \in Nat
    BY <1>1, <1>3
  <2>2. /\ q \in Seq(ScopeRec) /\ Len(q) = Len(ctx')
        /\ \A k \in 1 .. Len(ctx') : q[k] = ScopeOf(vars, k - 1)
    <3>1. Table(vars, rtnLevel)
      BY <1>1
    <3> QED
      BY <2>1, <3>1, ScopesFacts
  <2> QED
    BY <1>3, <2>2
<1>9. NoScope \in ScopeRec
  <2>1. ScopeOf(vars, N) \in ScopeRec
    BY <1>1, ScopeFacts
  <2> QED
    BY <1>6, <2>1
<1> HIDE DEF s, q
<1>10. q = Append(s, NoScope)
  <2> DEFINE a == Append(s, NoScope)
  <2>1. a \in Seq(ScopeRec) /\ Len(a) = N + 1 /\ a[N + 1] = NoScope
        /\ \A k \in 1 .. N : a[k] = s[k]
    BY <1>1, <1>7, <1>9
  <2> HIDE DEF a
  <2>2. q[N + 1] = NoScope
    <3> DEFINE p == N + 1
    <3>1. p \in 1 .. (N + 1) /\ p - 1 = N
      BY <1>1
    <3> HIDE DEF p
    <3>2. q[p] = ScopeOf(vars, p - 1)
      BY <1>8, <3>1
    <3>3. q[p] = NoScope
      BY <1>6, <3>1, <3>2
    <3> QED
      BY <3>3 DEF p
  <2>3. \A k \in 1 .. N : q[k] = a[k]
    <3>1. \A k \in 1 .. N : k \in 1 .. (N + 1)
      BY <1>1
    <3> QED
      BY <1>7, <1>8, <2>1, <3>1
  <2>4. \A k \in 1 .. (N + 1) : k \in 1 .. N \/ k = N + 1
    BY <1>1
  <2>5. \A k \in 1 .. Len(q) : q[k] = a[k]
    BY <1>8, <2>1, <2>2, <2>3, <2>4
  <2>6. q = a
    <3>1. Len(q) = Len(a)
      BY <1>8, <2>1
    <3> QED
      BY <1>8, <2>1, <2>5, <3>1, SameStack
  <2> QED
    BY <2>6 DEF a
<1>11. ScopeStack' = Append(ScopeStack, Scopes!EmptyScope) /\ GlobalBindings' = GlobalBindings
  BY <1>2, <1>4, <1>10, EmptyIs DEF s, q
<1>12. Scopes!Top <= MaxLevel
  <2>1. Scopes!Top = N
    BY <1>4, <1>7 DEF Scopes!Top, s
  <2>2. MaxLevel \in Nat
    BY BoundsAssumption
  <2> QED
    BY <1>1, <1>2, <2>1, <2>2
<1> QED
  BY <1>2, <1>11, <1>12 DEF Scopes!Enter

(***************************************************************************)
(* Popping. Sheds: of N levels the k innermost are emptied and the others  *)
(* stay; Found: saved is the mode that the lowest of those k remembers.    *)
(***************************************************************************)
Shed(N, k) == (N - k) .. (N - 1)

Sheds(t, r, N, k) ==
    /\ \A l : l \notin Shed(N, k) => ScopeOf(r, l) = ScopeOf(t, l)
    /\ \A l \in Shed(N, k) : ScopeOf(r, l) = NoScope

Found(t, saved, N, k) ==
    /\ saved = {} => \A l \in Shed(N, k) : CallerOf(t, l) = {}
    /\ saved # {} => \E l \in Shed(N, k) :
          saved = CallerOf(t, l) /\ \A j \in Shed(N, k) : j < l => CallerOf(t, j) = {}

LEMMA PoppedScopes ==
    ASSUME NEW S, OK(S)
    PROVE  /\ \A l : l # Len(S.ctx) - 1 => ScopeOf(Popped(S).vars, l) = ScopeOf(S.vars, l)
           /\ ScopeOf(Popped(S).vars, Len(S.ctx) - 1) = NoScope
<1> DEFINE T == IndexPopped(S)
           t == T.vars
           L == Len(T.ctx) - 1
           I == FromLevel(t, L)
           r == RemoveLocals(t, L)
           M == L
<1>1. OK(T) /\ Len(T.ctx) = Len(S.ctx)
  BY IndexPoppedOK
<1>2. Popped(S).vars = r
  <2>1. Popped(S).vars = LocalsRemoved(T).vars
    <3> DEFINE Q == LocalsRemoved(T)
               c == IF LevelOf(S) = 0 THEN <<NoContext>> ELSE SubSeq(Q.ctx, 1, LevelOf(S))
    <3>1. Popped(S) = [Q EXCEPT !.ctx = c]
      BY DEF Popped
    <3>2. Q = [vars |-> Q.vars, ctx |-> Q.ctx, matedit |-> Q.matedit, editor |-> Q.editor]
      BY DEF LocalsRemoved
    <3> HIDE DEF Q, c
    <3>3. [Q EXCEPT !.ctx = c].vars = Q.vars
      BY <3>2
    <3> QED
      BY <3>1, <3>3 DEF Q
  <2>2. LocalsRemoved(T).vars = r
    <3> HIDE DEF T
    <3> QED
      BY DEF LocalsRemoved, LevelOf
  <2> QED
    BY <2>1, <2>2
<1>3. SameScopes(S.vars, t)
  BY IndexPoppedScopes
<1>4. Good(t, T.ctx, T.matedit, T.editor)
  BY <1>1 DEF OK
<1> HIDE DEF T
<1>5. L \in Nat /\ Table(t, L)
  BY <1>4, LevelFacts DEF Good
<1> HIDE DEF t, L
<1>6. /\ Table(r, M) /\ Leaves(t, I, r)
      /\ \A n, l : HasVar(r, n, l) <=> HasVar(t, n, l) /\ l # L
      /\ \A n, l : HasPrivate(r, n, l) <=> HasPrivate(t, n, l) /\ l # L
  <2>1. M \in Int /\ L - 1 <= M
    BY <1>5
  <2> HIDE DEF r, M
  <2> QED
    BY <1>5, <2>1, RemoveLocalsFacts DEF r
<1>7. \A i \in I : t[i].level = L
  BY <1>5, FromLevelFacts
<1> HIDE DEF r, I, M
<1>8. ScopeOf(r, L) = NoScope
  <2>1. (\A n : ~HasVar(r, n, L)) /\ ~HasPrivate(r, "STK", L)
    BY <1>6
  <2> QED
    BY <1>6, <2>1, NothingThere
<1>9. ASSUME NEW l, l # L
      PROVE  ScopeOf(r, l) = ScopeOf(t, l)
  <2>1. \A i \in I : t[i].level = l => t[i].private /\ t[i].name # "STK"
    BY <1>7, <1>9
  <2>2. Table(t, L)
    BY <1>5
  <2>3. Table(r, M)
    BY <1>6
  <2>4. Leaves(t, I, r)
    BY <1>6
  <2> QED
    BY <2>1, <2>2, <2>3, <2>4, LeavesScope
<1>10. L = Len(S.ctx) - 1
  BY <1>1 DEF L
<1> QED
  BY <1>2, <1>3, <1>8, <1>9, <1>10 DEF SameScopes, t

(* What get_saved_stack_mode() finds is what the level remembers.          *)
LEMMA SavedModeIs ==
    ASSUME NEW S, OK(S)
    PROVE  /\ HasSavedMode(S) <=> CallerOf(S.vars, Len(S.ctx) - 1) # {}
           /\ HasSavedMode(S) => CallerOf(S.vars, Len(S.ctx) - 1) = {SavedMode(S)}
<1> DEFINE L == Len(S.ctx) - 1
           t == S.vars
           i == LookupPrivate(t, "STK", L)
<1>1. Good(t, S.ctx, S.matedit, S.editor)
  BY DEF OK
<1>2. /\ L \in Nat /\ Table(t, L)
      /\ S.ctx[Len(S.ctx)].func <=> HasPrivate(t, "STK", L)
  BY <1>1, LevelFacts DEF Good
<1>3. /\ HasSavedMode(S) <=> S.ctx[Len(S.ctx)].func /\ i # 0
      /\ SavedMode(S) = t[i].val.caller
  BY DEF HasSavedMode, SavedMode, StkOf, TopCtx, LevelOf
<1> HIDE DEF t, L, i
<1>4. /\ i = 0 <=> ~HasPrivate(t, "STK", L)
      /\ i # 0 => i \in 1 .. Len(t) /\ t[i].private /\ t[i].name = "STK" /\ t[i].level = L
  BY <1>2, LookupPrivateFacts DEF i
<1>5. /\ ~HasPrivate(t, "STK", L) => CallerOf(t, L) = {}
      /\ \A j \in 1 .. Len(t) :
            t[j].private /\ t[j].name = "STK" /\ t[j].level = L
              => t[j].val.caller \in BOOLEAN /\ CallerOf(t, L) = {t[j].val.caller}
  BY <1>2, CallerFacts
<1>6. HasSavedMode(S) <=> i # 0
  BY <1>2, <1>3, <1>4
<1>7. i # 0 => CallerOf(t, L) = {t[i].val.caller}
  BY <1>4, <1>5
<1>8. i = 0 => CallerOf(t, L) = {}
  BY <1>4, <1>5
<1> QED
  BY <1>3, <1>6, <1>7, <1>8 DEF t, L

(* One more level goes.                                                    *)
LEMMA ShedMore ==
    ASSUME NEW N \in Nat, NEW k \in 1 .. N
    PROVE  /\ \A l : l \in Shed(N, k) <=> l \in Shed(N, k - 1) \/ l = N - k
           /\ N - k \notin Shed(N, k - 1)
           /\ \A l \in Shed(N, k - 1) : N - k < l
           /\ \A l : l \in Shed(N, k) => l \in Nat
           /\ \A l : l \notin Shed(N, 0)
BY DEF Shed

LEMMA ShedsMore ==
    ASSUME NEW t, NEW u, NEW r, NEW N \in Nat, NEW k \in 1 .. N, Sheds(t, u, N, k - 1),
           \A l : l # N - k => ScopeOf(r, l) = ScopeOf(u, l), ScopeOf(r, N - k) = NoScope
    PROVE  Sheds(t, r, N, k)
<1>1. /\ \A l : l \in Shed(N, k) <=> l \in Shed(N, k - 1) \/ l = N - k
      /\ N - k \notin Shed(N, k - 1)
  BY ShedMore
<1> DEFINE L == N - k
           A == Shed(N, k)
           B == Shed(N, k - 1)
<1>2. /\ \A l : l \in A <=> l \in B \/ l = L
      /\ L \notin B
  BY <1>1
<1>3. /\ \A l : l # L => ScopeOf(r, l) = ScopeOf(u, l)
      /\ ScopeOf(r, L) = NoScope
  OBVIOUS
<1>4. /\ \A l : l \notin B => ScopeOf(u, l) = ScopeOf(t, l)
      /\ \A l \in B : ScopeOf(u, l) = NoScope
  BY DEF Sheds
<1> HIDE DEF L, A, B
<1>5. /\ \A l : l \notin A => ScopeOf(r, l) = ScopeOf(t, l)
      /\ \A l \in A : ScopeOf(r, l) = NoScope
  BY <1>2, <1>3, <1>4
<1> QED
  BY <1>5 DEF Sheds, A

LEMMA FoundMore ==
    ASSUME NEW t, NEW saved, NEW N \in Nat, NEW k \in 1 .. N, Found(t, saved, N, k - 1), NEW after,
           after = IF CallerOf(t, N - k) # {} THEN CallerOf(t, N - k) ELSE saved
    PROVE  Found(t, after, N, k)
<1>1. /\ \A l : l \in Shed(N, k) <=> l \in Shed(N, k - 1) \/ l = N - k
      /\ \A l \in Shed(N, k - 1) : N - k < l
      /\ \A l : l \in Shed(N, k) => l \in Nat
  BY ShedMore
<1> DEFINE L == N - k
           A == Shed(N, k)
           B == Shed(N, k - 1)
           c == CallerOf(t, L)
<1>2. /\ \A l : l \in A <=> l \in B \/ l = L
      /\ \A l \in B : L < l
      /\ \A l : l \in A => l \in Nat
  BY <1>1
<1>3. after = IF c # {} THEN c ELSE saved
  OBVIOUS
<1>4. /\ saved = {} => \A l \in B : CallerOf(t, l) = {}
      /\ saved # {} => \E l \in B :
            saved = CallerOf(t, l) /\ \A j \in B : j < l => CallerOf(t, j) = {}
  BY DEF Found
<1>5. c = CallerOf(t, L)
  OBVIOUS
<1> HIDE DEF L, A, B, c
<1>6. CASE c # {}
  <2>1. after = CallerOf(t, L) /\ L \in A /\ after # {}
    BY <1>2, <1>3, <1>5, <1>6
  <2>2. \A j \in A : ~(j < L)
    BY <1>2, <2>1
  <2> QED
    BY <2>1, <2>2 DEF Found, A
<1>7. CASE c = {}
  <2>1. after = saved /\ CallerOf(t, L) = {}
    BY <1>3, <1>5, <1>7
  <2>2. CASE saved = {}
    <3>1. \A l \in A : CallerOf(t, l) = {}
      BY <1>2, <1>4, <2>1, <2>2
    <3> QED
      BY <2>1, <2>2, <3>1 DEF Found, A
  <2>3. CASE saved # {}
    <3>1. PICK l \in B : saved = CallerOf(t, l) /\ \A j \in B : j < l => CallerOf(t, j) = {}
      BY <1>4, <2>3
    <3>2. l \in A /\ \A j \in A : j < l => CallerOf(t, j) = {}
      BY <1>2, <2>1, <3>1
    <3> QED
      BY <2>1, <2>3, <3>1, <3>2 DEF Found, A
  <2> QED
    BY <2>2, <2>3
<1> QED
  BY <1>6, <1>7

(* The state after k levels are popped, and the mode found so far          *)
Unwound(R, S, k) ==
    Sheds(S.vars, R.S.vars, Len(S.ctx), k) /\ Found(S.vars, R.saved, Len(S.ctx), k)

LEMMA NothingUnwound ==
    ASSUME NEW S, OK(S)
    PROVE  Unwound(NothingPopped(S), S, 0)
<1>1. Len(S.ctx) \in Nat
  <2>1. Good(S.vars, S.ctx, S.matedit, S.editor)
    BY DEF OK
  <2> QED
    BY <2>1, LevelFacts
<1>2. \A l : l \notin Shed(Len(S.ctx), 0)
  BY <1>1 DEF Shed
<1>3. NothingPopped(S).S = S /\ NothingPopped(S).saved = {}
  BY DEF NothingPopped
<1> QED
  BY <1>2, <1>3 DEF Unwound, Sheds, Found

LEMMA PopStepScopes ==
    ASSUME NEW S, OK(S), NEW k \in 1 .. Len(S.ctx), NEW R, OK(R.S),
           Len(R.S.ctx) = Len(S.ctx) - (k - 1), Unwound(R, S, k - 1)
    PROVE  Unwound(PopStep(R), S, k)
<1> DEFINE N == Len(S.ctx)
           t == S.vars
           u == R.S.vars
           r == Popped(R.S).vars
           L == N - k
           after == PopStep(R).saved
<1>1. N \in Nat
  <2>1. Good(S.vars, S.ctx, S.matedit, S.editor)
    BY DEF OK
  <2> QED
    BY <2>1, LevelFacts
<1>2. L = Len(R.S.ctx) - 1 /\ k \in 1 .. N
  BY <1>1
<1>3. /\ PopStep(R).S.vars = r
      /\ after = IF HasSavedMode(R.S) THEN {SavedMode(R.S)} ELSE R.saved
  BY DEF PopStep
<1>4. /\ \A l : l # Len(R.S.ctx) - 1 => ScopeOf(r, l) = ScopeOf(u, l)
      /\ ScopeOf(r, Len(R.S.ctx) - 1) = NoScope
  BY PoppedScopes
<1>5. /\ HasSavedMode(R.S) <=> CallerOf(u, Len(R.S.ctx) - 1) # {}
      /\ HasSavedMode(R.S) => CallerOf(u, Len(R.S.ctx) - 1) = {SavedMode(R.S)}
  BY SavedModeIs
<1>6. Sheds(t, u, N, k - 1) /\ Found(t, R.saved, N, k - 1)
  BY DEF Unwound
<1>7. L \notin Shed(N, k - 1)
  BY <1>1, ShedMore
<1> HIDE DEF L
<1>8. CallerOf(u, L) = CallerOf(t, L)
  <2>1. ScopeOf(u, L) = ScopeOf(t, L)
    BY <1>6, <1>7 DEF Sheds
  <2>2. ScopeOf(u, L).caller = CallerOf(u, L) /\ ScopeOf(t, L).caller = CallerOf(t, L)
    BY DEF ScopeOf
  <2> QED
    BY <2>1, <2>2
<1>9. after = IF CallerOf(t, L) # {} THEN CallerOf(t, L) ELSE R.saved
  BY <1>2, <1>3, <1>5, <1>8
<1> HIDE DEF N, t, u, r, after
<1>10. Found(t, after, N, k)
  BY <1>1, <1>2, <1>6, <1>9, FoundMore DEF L
<1>11. Sheds(t, r, N, k)
  <2>1. (\A l : l # N - k => ScopeOf(r, l) = ScopeOf(u, l)) /\ ScopeOf(r, N - k) = NoScope
    BY <1>2, <1>4 DEF L
  <2> QED
    BY <1>1, <1>2, <1>6, <2>1, ShedsMore
<1> QED
  BY <1>3, <1>10, <1>11 DEF Unwound, N, t, after

LEMMA PoppedTimesScopes ==
    ASSUME NEW S, OK(S), NEW n \in 0 .. Len(S.ctx)
    PROVE  Unwound(PoppedTimes(S, n), S, n)
<1> DEFINE g == Pops(S, n)
           N == Len(S.ctx)
           T == {k \in 0 .. n : ~Unwound(g[k], S, k)}
<1>1. N \in Nat
  <2>1. Good(S.vars, S.ctx, S.matedit, S.editor)
    BY DEF OK
  <2> QED
    BY <2>1, LevelFacts
<1>2. n \in Nat /\ n <= N
  BY <1>1
<1>3. /\ PoppedTimes(S, n) = g[n]
      /\ \A k \in 0 .. n : g[k] = IF k = 0 THEN NothingPopped(S) ELSE PopStep(g[k - 1])
  BY <1>2, PopsFacts
<1>4. \A k \in 0 .. n : PopStage(g[k], S, k)
  BY PopsOK
<1>5. T \subseteq Nat /\ T \subseteq 0 .. n
      /\ \A k \in 0 .. n : k \in T <=> ~Unwound(g[k], S, k)
  OBVIOUS
<1> HIDE DEF g, T
<1>6. ASSUME T # {}
      PROVE  FALSE
  <2>1. PICK k \in T : \A j \in T : k <= j
    BY <1>5, <1>6, LeastElement
  <2>2. k \in 0 .. n /\ ~Unwound(g[k], S, k) /\ k \in Nat
    BY <1>5
  <2>3. k # 0
    <3> SUFFICES ASSUME k = 0
                 PROVE  Unwound(g[k], S, k)
      BY <2>2
    <3>1. g[k] = NothingPopped(S)
      BY <1>3, <2>2
    <3>2. Unwound(NothingPopped(S), S, k)
      BY NothingUnwound
    <3> QED
      BY <3>1, <3>2
  <2>4. k - 1 \in 0 .. n /\ ~(k <= k - 1) /\ k \in 1 .. N /\ k - 1 < N
    BY <1>1, <1>2, <2>2, <2>3
  <2> DEFINE R == g[k - 1]
  <2>5. Unwound(R, S, k - 1)
    <3>1. k - 1 \notin T
      BY <2>1, <2>4
    <3> QED
      BY <1>5, <2>4, <3>1
  <2>6. PopStage(R, S, k - 1)
    BY <1>4, <2>4
  <2>7. g[k] = PopStep(R)
    BY <1>3, <2>2, <2>3
  <2> HIDE DEF R
  <2>8. OK(R.S) /\ Len(R.S.ctx) = Len(S.ctx) - (k - 1)
    BY <2>4, <2>6 DEF PopStage
  <2>9. Unwound(PopStep(R), S, k)
    BY <2>4, <2>5, <2>8, PopStepScopes
  <2> QED
    BY <2>2, <2>7, <2>9
<1>7. n \in 0 .. n
  BY <1>2
<1> QED
  BY <1>3, <1>5, <1>6, <1>7

(* k levels gone are k scopes left.                                        *)
LEMMA LeavesScopes ==
    ASSUME Inv, Inv', NEW k \in 1 .. Len(ctx), Sheds(vars, vars', Len(ctx), k),
           Len(ctx') = IF k = Len(ctx) THEN 1 ELSE Len(ctx) - k
    PROVE  /\ ScopeStack' = IF k = Scopes!Top THEN <<Scopes!EmptyScope>>
                            ELSE SubSeq(ScopeStack, 1, Scopes!Top - k)
           /\ GlobalBindings' = GlobalBindings
<1> DEFINE N == Len(ctx)
           s == ScopesOf(vars, ctx)
           q == ScopesOf(vars', ctx')
           M == Len(ctx')
<1>1. Table(vars, rtnLevel) /\ N \in Nat
  BY StateFacts
<1>2. Table(vars', rtnLevel')
  <2>1. (Inv => Table(vars, rtnLevel))'
    BY TableNow, PTL
  <2> QED
    BY <2>1
<1>3. /\ GlobalBindings = GlobalsOf(vars) /\ ScopeStack = s
      /\ GlobalBindings' = GlobalsOf(vars') /\ ScopeStack' = q
  BY ViewNext
<1>4. k \in 1 .. N /\ M = IF k = N THEN 1 ELSE N - k
  OBVIOUS
<1>5. M \in Nat
  BY <1>1, <1>4
<1>6. s \in Seq(ScopeRec) /\ Len(s) = N /\ \A j \in 1 .. N : s[j] = ScopeOf(vars, j - 1)
  BY <1>1, ScopesFacts
<1>7. q \in Seq(ScopeRec) /\ Len(q) = M /\ \A j \in 1 .. M : q[j] = ScopeOf(vars', j - 1)
  BY <1>2, <1>5, ScopesFacts
<1>8. Scopes!Top = N
  BY <1>3, <1>6 DEF Scopes!Top
<1>9. /\ \A l : l \notin Shed(N, k) => ScopeOf(vars', l) = ScopeOf(vars, l)
      /\ \A l \in Shed(N, k) : ScopeOf(vars', l) = NoScope
  BY DEF Sheds
<1> HIDE DEF s, q, N, M
<1>10. GlobalsOf(vars') = GlobalsOf(vars)
  <2>1. GlobalLevel \notin Shed(N, k)
    BY <1>1, <1>4 DEF Shed, GlobalLevel
  <2> QED
    BY <1>9, <2>1 DEF GlobalsOf
<1>11. CASE k = N
  <2>1. 0 \in Shed(N, k)
    BY <1>1, <1>4, <1>11 DEF Shed
  <2>2. M = 1 /\ 1 \in 1 .. M /\ 1 - 1 = 0
    BY <1>4, <1>11
  <2>3. q[1] = NoScope
    BY <1>7, <1>9, <2>1, <2>2
  <2> DEFINE a == <<NoScope>>
  <2>4. NoScope \in ScopeRec
    BY <1>9, <1>2, <2>1, ScopeFacts
  <2>5. a \in Seq(ScopeRec) /\ Len(a) = 1 /\ a[1] = NoScope
    BY <2>4, OneFrame
  <2> HIDE DEF a
  <2>6. Len(q) = Len(a) /\ \A j \in 1 .. Len(q) : q[j] = a[j]
    BY <1>7, <2>2, <2>3, <2>5
  <2>7. q = a
    BY <1>7, <2>5, <2>6, SameStack
  <2> QED
    BY <1>3, <1>8, <1>10, <1>11, <2>7, EmptyIs DEF a
<1>12. CASE k # N
  <2>1. M = N - k /\ M <= N
    BY <1>1, <1>4, <1>12
  <2> DEFINE a == SubSeq(s, 1, M)
  <2>2. a \in Seq(ScopeRec) /\ Len(a) = M /\ \A j \in 1 .. M : a[j] = s[j]
    BY <1>5, <1>6, <2>1, FirstPart
  <2> HIDE DEF a
  <2>3. ASSUME NEW j \in 1 .. M
        PROVE  q[j] = a[j]
    <3>1. j \in 1 .. N /\ j - 1 \notin Shed(N, k)
      BY <1>1, <1>4, <2>1 DEF Shed
    <3> QED
      BY <1>6, <1>7, <1>9, <2>2, <3>1
  <2>4. Len(q) = Len(a) /\ \A j \in 1 .. Len(q) : q[j] = a[j]
    BY <1>7, <2>2, <2>3
  <2>5. q = a
    BY <1>7, <2>2, <2>4, SameStack
  <2> QED
    BY <1>3, <1>8, <1>10, <1>12, <2>1, <2>5 DEF a
<1> QED
  BY <1>11, <1>12

(* The mode found last is the mode before the first of the scopes that     *)
(* ended changed it.                                                       *)
LEMMA ModeIs ==
    ASSUME Inv, NEW k \in 1 .. Len(ctx), NEW saved, Found(vars, saved, Len(ctx), k)
    PROVE  Scopes!ModeAfter(k) = ModeRestored(saved)
<1> DEFINE N == Len(ctx)
           C == Scopes!Changed(k)
           A == Shed(N, k)
           yes == TRUE \in saved
<1>1. Table(vars, rtnLevel) /\ N \in Nat
  BY StateFacts
<1>2. ScopeStack = ScopesOf(vars, ctx)
  BY View
<1>3. Len(ScopesOf(vars, ctx)) = N
      /\ \A j \in 1 .. N : ScopesOf(vars, ctx)[j] = ScopeOf(vars, j - 1)
  BY <1>1, ScopesFacts
<1>4. Scopes!Top = N
  BY <1>2, <1>3 DEF Scopes!Top
<1>5. \A j \in 1 .. N : ScopeStack[j].caller = CallerOf(vars, j - 1)
  <2>1. \A j : ScopeOf(vars, j).caller = CallerOf(vars, j)
    BY DEF ScopeOf
  <2> QED
    BY <1>2, <1>3, <2>1
<1>6. k \in 1 .. N
  OBVIOUS
<1> HIDE DEF N
<1>7. C = {j \in (N - k + 1) .. N : ScopeStack[j].caller # {}}
  BY <1>4 DEF Scopes!Changed
<1>8. /\ \A j \in (N - k + 1) .. N : j \in 1 .. N /\ j - 1 \in A
      /\ \A l \in A : l + 1 \in (N - k + 1) .. N /\ l \in Int
  BY <1>1, <1>6 DEF Shed
<1>9. \A j : j \in C <=> j \in (N - k + 1) .. N /\ CallerOf(vars, j - 1) # {}
  BY <1>5, <1>7, <1>8
<1>10. /\ saved = {} => \A l \in A : CallerOf(vars, l) = {}
       /\ saved # {} => \E l \in A :
             saved = CallerOf(vars, l) /\ \A j \in A : j < l => CallerOf(vars, j) = {}
  BY DEF Found, N
<1>11. Scopes!ModeAfter(k) =
          IF C = {} THEN bigStack
          ELSE LET first == CHOOSE j \in C : \A i \in C : j <= i
               IN  TRUE \in ScopeStack[first].caller /\ allowBig
  BY DEF Scopes!ModeAfter
<1>12. ModeRestored(saved) = ((yes /\ (allowBig \/ bigStack)) \/ (saved = {} /\ bigStack))
  BY DEF ModeRestored
<1>13. bigStack \in BOOLEAN /\ allowBig \in BOOLEAN /\ (bigStack => allowBig)
  BY DEF Inv, BigStackAllowed
<1> HIDE DEF C, A
<1>14. CASE saved = {}
  <2>1. C = {}
    <3> SUFFICES ASSUME NEW j \in C
                 PROVE  FALSE
      OBVIOUS
    <3>1. j - 1 \in A /\ CallerOf(vars, j - 1) # {}
      BY <1>8, <1>9
    <3> QED
      BY <1>10, <1>14, <3>1
  <2>2. ~yes
    BY <1>14
  <2>3. Scopes!ModeAfter(k) = bigStack
    BY <1>11, <2>1
  <2> HIDE DEF yes
  <2>4. ModeRestored(saved) = bigStack
    BY <1>12, <1>13, <1>14, <2>2
  <2> QED
    BY <2>3, <2>4
<1>15. CASE saved # {}
  <2>1. PICK l \in A :
           saved = CallerOf(vars, l) /\ \A j \in A : j < l => CallerOf(vars, j) = {}
    BY <1>10, <1>15
  <2> DEFINE p == l + 1
             first == CHOOSE j \in C : \A i \in C : j <= i
  <2>2. p \in (N - k + 1) .. N /\ p - 1 = l /\ p \in Int
    BY <1>1, <1>6, <1>8, <2>1
  <2> HIDE DEF p
  <2>3. p \in C
    BY <1>9, <1>15, <2>1, <2>2
  <2>4. ASSUME NEW i \in C
        PROVE  p <= i /\ i \in Int
    <3>1. i \in (N - k + 1) .. N /\ i - 1 \in A /\ CallerOf(vars, i - 1) # {}
      BY <1>8, <1>9
    <3>2. ~(i - 1 < l)
      BY <2>1, <3>1
    <3>3. l \in Int
      BY <1>8
    <3> QED
      BY <1>1, <1>6, <2>2, <3>1, <3>2, <3>3
  <2>5. first \in C /\ \A i \in C : first <= i
    BY <2>3, <2>4
  <2> HIDE DEF first
  <2>6. first = p
    <3>1. first <= p /\ p <= first /\ first \in Int
      BY <2>3, <2>4, <2>5
    <3> QED
      BY <2>2, <3>1
  <2>7. ScopeStack[first].caller = saved
    <3>1. p \in 1 .. N
      BY <1>8, <2>2
    <3>2. ScopeStack[p].caller = CallerOf(vars, p - 1)
      BY <1>5, <3>1
    <3> QED
      BY <2>1, <2>2, <2>6, <3>2
  <2>8. C # {}
    BY <2>3
  <2>9. Scopes!ModeAfter(k) = (TRUE \in ScopeStack[first].caller /\ allowBig)
    BY <1>11, <2>8 DEF first
  <2>10. Scopes!ModeAfter(k) = (yes /\ allowBig)
    BY <2>7, <2>9
  <2> HIDE DEF yes
  <2>11. ModeRestored(saved) = (yes /\ allowBig)
    BY <1>12, <1>13, <1>15
  <2> QED
    BY <2>10, <2>11
<1> QED
  BY <1>14, <1>15

LEMMA DroppedLeaves ==
    ASSUME Inv, Inv', NEW k \in 1 .. Len(ctx), NEW R, Unwound(R, Now, k), PopStage(R, Now, k),
           Become(R.S), bigStack' = ModeRestored(R.saved), allowBig' = allowBig
    PROVE  Scopes!Leave(k)
<1>1. Now.vars = vars /\ Now.ctx = ctx
  BY DEF Now
<1>2. vars' = R.S.vars /\ ctx' = R.S.ctx
  BY DEF Become
<1>3. Sheds(vars, vars', Len(ctx), k) /\ Found(vars, R.saved, Len(ctx), k)
  BY <1>1, <1>2 DEF Unwound
<1>4. Len(ctx) \in Nat
  BY StateFacts
<1>5. Len(ctx') = IF k = Len(ctx) THEN 1 ELSE Len(ctx) - k
  <2>1. CASE k = Len(ctx)
    <3>1. R.S.ctx = <<NoContext>>
      BY <1>1, <2>1 DEF PopStage, Emptied
    <3>2. Len(<<NoContext>>) = 1
      BY DEF NoContext
    <3> QED
      BY <1>2, <2>1, <3>1, <3>2
  <2>2. CASE k # Len(ctx)
    <3>1. k < Len(ctx)
      BY <1>4, <2>2
    <3> QED
      BY <1>1, <1>2, <2>2, <3>1 DEF PopStage
  <2> QED
    BY <2>1, <2>2
<1>6. /\ ScopeStack' = IF k = Scopes!Top THEN <<Scopes!EmptyScope>>
                       ELSE SubSeq(ScopeStack, 1, Scopes!Top - k)
      /\ GlobalBindings' = GlobalBindings
  BY <1>3, <1>5, LeavesScopes
<1>7. Scopes!ModeAfter(k) = ModeRestored(R.saved)
  BY <1>3, ModeIs
<1>8. k \in 1 .. Scopes!Top
  <2>1. Table(vars, rtnLevel)
    BY StateFacts
  <2>2. Scopes!Top = Len(ctx)
    BY <1>4, <2>1, View, ScopesFacts DEF Scopes!Top
  <2> QED
    BY <2>2
<1> QED
  BY <1>6, <1>7, <1>8 DEF Scopes!Leave

LEMMA DropLevelsLeaves ==
    ASSUME Inv, Inv', NEW n \in 1 .. Len(ctx), DropLevels(n)
    PROVE  Scopes!Leave(n)
<1> DEFINE R == PoppedTimes(Now, n)
<1>1. OK(Now) /\ Now.ctx = ctx /\ Len(ctx) \in Nat
  BY NowOK, StateFacts DEF Now
<1>2. n \in 0 .. Len(Now.ctx)
  BY <1>1
<1>3. PopStage(R, Now, n) /\ Unwound(R, Now, n)
  BY <1>1, <1>2, PoppedTimesOK, PoppedTimesScopes
<1>4. Become(R.S) /\ bigStack' = ModeRestored(R.saved) /\ allowBig' = allowBig
  BY DEF DropLevels
<1> HIDE DEF R
<1> QED
  BY <1>3, <1>4, DroppedLeaves

LEMMA ReturnLeaves ==
    ASSUME Inv, Inv', Return
    PROVE  \E k \in 1 .. Scopes!Top : Scopes!Leave(k)
<1> DEFINE one == 1
           none == NothingPopped(Now)
           R == PopStep(none)
<1>1. OK(Now) /\ Now.ctx = ctx /\ Len(ctx) \in Nat /\ Len(ctx) # 0
  BY NowOK, StateFacts DEF Now
<1>2. none.S = Now /\ none.saved = {}
  BY DEF NothingPopped
<1>3. R.S = Popped(Now)
      /\ R.saved = IF HasSavedMode(Now) THEN {SavedMode(Now)} ELSE {}
  BY <1>2 DEF PopStep
<1>4. Unwound(none, Now, 0)
  BY <1>1, NothingUnwound
<1>5. one \in 1 .. Len(ctx) /\ one - 1 = 0 /\ Len(Now.ctx) = Len(Now.ctx) - (one - 1)
      /\ (one = Len(ctx) <=> Len(ctx) = 1) /\ one = 1
  BY <1>1
<1> HIDE DEF one, none
<1>6. Unwound(R, Now, one)
  <2>1. one \in 1 .. Len(Now.ctx)
    BY <1>1, <1>5
  <2>2. OK(none.S) /\ Len(none.S.ctx) = Len(Now.ctx) - (one - 1)
    BY <1>1, <1>2, <1>5
  <2>3. Unwound(none, Now, one - 1)
    BY <1>4, <1>5
  <2> QED
    BY <1>1, <2>1, <2>2, <2>3, PopStepScopes
<1> HIDE DEF R
<1>7. PopStage(R, Now, one)
  <2>1. /\ OK(Popped(Now))
        /\ Len(Now.ctx) = 1 => Emptied(Popped(Now))
        /\ Len(Now.ctx) # 1 => Len(Popped(Now).ctx) = Len(Now.ctx) - 1
    BY <1>1, PoppedOK
  <2>2. one < Len(Now.ctx) => Len(R.S.ctx) = Len(Now.ctx) - one
    <3>1. one = 1
      BY <1>5
    <3>2. ~(one < one)
      BY <3>1
    <3>3. one < Len(Now.ctx) => Len(Now.ctx) # 1
      BY <3>1, <3>2
    <3> QED
      BY <1>3, <2>1, <3>1, <3>3
  <2>3. one = Len(Now.ctx) => Emptied(R.S)
    BY <1>1, <1>3, <1>5, <2>1
  <2>4. OK(R.S)
    BY <1>3, <2>1
  <2> QED
    BY <2>2, <2>3, <2>4 DEF PopStage
<1>8. Become(R.S) /\ allowBig' = allowBig
  BY <1>3 DEF Return
<1>9. bigStack' = ModeRestored(R.saved)
  <2>1. bigStack \in BOOLEAN
    BY DEF Inv
  <2>2. CASE HasSavedMode(Now)
    <3> DEFINE b == SavedMode(Now)
    <3>1. b \in BOOLEAN /\ (b => allowBig) /\ bigStack' = b /\ R.saved = {b}
      BY <1>1, <1>3, <2>2, SavedModeFacts DEF Return
    <3> HIDE DEF b
    <3>2. ModeRestored({b}) = b
      <4>1. TRUE \in {b} <=> b
        BY <3>1
      <4>2. {b} # {}
        OBVIOUS
      <4>3. ModeRestored({b}) \in BOOLEAN
        BY <2>1 DEF ModeRestored
      <4>4. ModeRestored({b}) <=> b
        BY <3>1, <4>1, <4>2 DEF ModeRestored
      <4> QED
        BY <3>1, <4>3, <4>4
    <3> QED
      BY <3>1, <3>2
  <2>3. CASE ~HasSavedMode(Now)
    <3> DEFINE no == {}
    <3>1. R.saved = no /\ no = {} /\ bigStack' = bigStack
      BY <1>3, <2>3 DEF Return
    <3> HIDE DEF no
    <3>2. ModeRestored(no) = bigStack
      BY <2>1, <3>1 DEF ModeRestored
    <3> QED
      BY <3>1, <3>2
  <2> QED
    BY <2>2, <2>3
<1>10. Scopes!Leave(one)
  BY <1>5, <1>6, <1>7, <1>8, <1>9, DroppedLeaves
<1>11. one \in 1 .. Scopes!Top
  BY <1>10 DEF Scopes!Leave
<1> QED
  BY <1>10, <1>11

(* Nothing is left.                                                        *)
LEMMA NothingLeft ==
    Inv /\ Len(vars) = 0 /\ Len(ctx) = 1
       => GlobalBindings = Scopes!NoBindings /\ ScopeStack = <<Scopes!EmptyScope>>
<1> SUFFICES ASSUME Inv, Len(vars) = 0, Len(ctx) = 1
             PROVE  GlobalBindings = Scopes!NoBindings /\ ScopeStack = <<Scopes!EmptyScope>>
  OBVIOUS
<1> DEFINE s == ScopesOf(vars, ctx)
           a == <<NoScope>>
<1>1. Table(vars, rtnLevel) /\ Len(ctx) \in Nat
  BY StateFacts
<1>2. \A i \in 1 .. Len(vars) : FALSE
  OBVIOUS
<1>3. ASSUME NEW l
      PROVE  ScopeOf(vars, l) = NoScope
  <2>1. (\A n : ~HasVar(vars, n, l)) /\ ~HasPrivate(vars, "STK", l)
    BY <1>2 DEF HasVar, HasPrivate
  <2> QED
    BY <1>1, <2>1, NothingThere
<1>4. GlobalBindings = GlobalsOf(vars) /\ ScopeStack = s
  BY View
<1>5. GlobalsOf(vars) = Scopes!NoBindings
  <2>1. NoScope.locals = Scopes!NoBindings
    BY DEF NoScope, Scopes!NoBindings
  <2> QED
    BY <1>3, <2>1 DEF GlobalsOf
<1>6. s \in Seq(ScopeRec) /\ Len(s) = 1 /\ \A k \in 1 .. 1 : s[k] = ScopeOf(vars, k - 1)
  BY <1>1, ScopesFacts
<1>7. NoScope \in ScopeRec
  <2>1. ScopeOf(vars, rtnLevel) \in ScopeRec
    BY <1>1, ScopeFacts
  <2> QED
    BY <1>3, <2>1
<1>8. a \in Seq(ScopeRec) /\ Len(a) = 1 /\ a[1] = NoScope
  BY <1>7, OneFrame
<1> HIDE DEF s, a
<1>9. Len(s) = Len(a) /\ \A k \in 1 .. Len(s) : s[k] = a[k]
  <2>1. \A k \in 1 .. 1 : k = 1
    OBVIOUS
  <2> QED
    BY <1>3, <1>6, <1>8, <2>1
<1>10. s = a
  BY <1>6, <1>8, <1>9, SameStack
<1> QED
  BY <1>4, <1>5, <1>10, EmptyIs DEF a

LEMMA ClAllForgets ==
    ASSUME Inv, Inv', ClAll
    PROVE  Scopes!ForgetAll
<1> DEFINE yes == TRUE
           S == IF editor THEN LeftEditor(Now, yes) ELSE Now
           k == Len(ctx)
           R == PoppedTimes(S, rtnLevel + 1)
           P == [R.S EXCEPT !.vars = <<>>]
<1>1. OK(Now) /\ OK(Leave(Now)) /\ Leave(Now).ctx = ctx /\ Now.ctx = ctx
      /\ Leave(Now).vars = vars /\ Now.vars = vars
  BY NowOK, LeaveOK DEF Now
<1>2. Become(P) /\ bigStack' = ModeRestored(R.saved) /\ allowBig' = allowBig
  BY DEF ClAll
<1> HIDE DEF yes
<1>3. OK(S) /\ S.ctx = ctx /\ S.vars = vars
  <2>1. S = Now \/ S = Leave(Now)
    BY LeftIs
  <2> HIDE DEF S
  <2> QED
    BY <1>1, <2>1
<1> HIDE DEF S
<1>4. k \in Nat /\ k # 0 /\ rtnLevel + 1 = k /\ k \in 1 .. Len(ctx) /\ k \in 0 .. Len(S.ctx)
      /\ Table(vars, rtnLevel)
  <2>1. Len(ctx) \in Nat /\ Len(ctx) # 0 /\ rtnLevel + 1 = Len(ctx) /\ Table(vars, rtnLevel)
    BY StateFacts
  <2> QED
    BY <1>3, <2>1
<1>5. R = PoppedTimes(S, k)
  BY <1>4
<1> HIDE DEF R
<1>6. PopStage(R, S, k) /\ Unwound(R, S, k)
  BY <1>3, <1>4, <1>5, PoppedTimesOK, PoppedTimesScopes
<1>7. OK(R.S) /\ R.S.ctx = <<NoContext>>
  BY <1>3, <1>6 DEF PopStage, Emptied
<1>8. P.vars = <<>> /\ P.ctx = R.S.ctx
  <2> DEFINE Q == R.S
             f == [vars |-> Q.vars, ctx |-> Q.ctx, matedit |-> Q.matedit, editor |-> Q.editor]
  <2>1. Q = f
    BY <1>7 DEF OK
  <2>2. P = [f EXCEPT !.vars = <<>>]
    BY <2>1
  <2> HIDE DEF P, Q
  <2> QED
    BY <2>2 DEF Q
<1> HIDE DEF P
<1>9. Len(vars') = 0 /\ Len(ctx') = 1
  <2>1. vars' = <<>> /\ ctx' = <<NoContext>>
    BY <1>2, <1>7, <1>8 DEF Become
  <2>2. Len(<<NoContext>>) = 1
    BY DEF NoContext
  <2> QED
    BY <2>1, <2>2
<1>10. GlobalBindings' = Scopes!NoBindings /\ ScopeStack' = <<Scopes!EmptyScope>>
  <2>1. (Inv /\ Len(vars) = 0 /\ Len(ctx) = 1
           => GlobalBindings = Scopes!NoBindings /\ ScopeStack = <<Scopes!EmptyScope>>)'
    BY NothingLeft, PTL
  <2> QED
    BY <1>9, <2>1
<1>11. Scopes!ModeAfter(k) = ModeRestored(R.saved)
  <2>1. Found(vars, R.saved, Len(ctx), k)
    BY <1>3, <1>6 DEF Unwound
  <2> HIDE DEF k
  <2> QED
    BY <1>4, <2>1, ModeIs
<1>12. Scopes!Top = k
  BY <1>4, View, ScopesFacts DEF Scopes!Top
<1> HIDE DEF k
<1> QED
  BY <1>2, <1>10, <1>11, <1>12 DEF Scopes!ForgetAll

-----------------------------------------------------------------------------
LEMMA ScopesInit ==
    ASSUME Init
    PROVE  Scopes!Init
<1>1. Inv
  BY InitEstablishes
<1>2. vars = <<>> /\ ctx = <<NoContext>> /\ bigStack = FALSE /\ allowBig \in BOOLEAN
  BY DEF Init
<1>3. Len(vars) = 0 /\ Len(ctx) = 1
  BY <1>2 DEF NoContext
<1> QED
  BY <1>1, <1>2, <1>3, NothingLeft DEF Scopes!Init

LEMMA ScopesStep ==
    ASSUME Inv, Inv', Next
    PROVE  Scopes!Next \/ ScopesKept
<1>1. CASE Call
  BY <1>1, CallEnters DEF Scopes!Next
<1>2. CASE Return
  BY <1>2, ReturnLeaves DEF Scopes!Next
<1>3. CASE Unwind \/ ClearAllRtns
  <2>1. Len(ctx) \in Nat /\ Len(ctx) # 0 /\ rtnLevel = Len(ctx) - 1
    BY StateFacts
  <2>2. PICK n \in 1 .. Len(ctx) : DropLevels(n)
    BY <1>3, <2>1 DEF Unwind, ClearAllRtns
  <2>3. Scopes!Leave(n)
    BY <2>2, DropLevelsLeaves
  <2>4. n \in 1 .. Scopes!Top
    BY <2>3 DEF Scopes!Leave
  <2> QED
    BY <2>3, <2>4 DEF Scopes!Next
<1>4. CASE \E n \in Names, val \in Values : Lsto(n, val) \/ Sto(n, val)
  <2>1. \E n \in Names, val \in Values : Scopes!BindLocal(n, val) \/ Scopes!Assign(n, val)
    BY <1>4, LstoBinds, StoAssigns
  <2> QED
    BY <2>1 DEF Scopes!Next
<1>5. CASE \E n \in Names : Clv(n) \/ Lclv(n)
  <2>1. \E n \in Names : Scopes!UnbindGlobal(n) \/ Scopes!UnbindLocal(n)
    BY <1>5, ClvUnbinds, LclvUnbinds
  <2> QED
    BY <2>1 DEF Scopes!Next
<1>6. CASE \E n \in Names : Index(n) \/ Editn(n)
  BY <1>6, IndexKeeps, EditnKeeps
<1>7. CASE \E big \in BOOLEAN : LStkAfterFunc(big) \/ Stk(big)
  <2>1. \E big \in BOOLEAN : Scopes!SetMode(big)
    BY <1>7, LStkAfterFuncSets, StkSets
  <2> QED
    BY <2>1 DEF Scopes!Next
<1>8. CASE Func \/ \E big \in BOOLEAN : LStk(big)
  <2>1. Scopes!ChangeMode(bigStack')
    BY <1>8, FuncChanges, LStkChanges
  <2>2. bigStack' \in BOOLEAN
    BY DEF Inv
  <2> QED
    BY <2>1, <2>2 DEF Scopes!Next
<1>9. CASE SetAllowBigStack
  BY <1>9, SetAllowSets DEF Scopes!Next
<1>10. CASE Edit \/ UseMatrix \/ ExitMenu
  BY <1>10, LeaveKeeps
<1>11. CASE ClAll
  BY <1>11, ClAllForgets DEF Scopes!Next
<1> QED
  BY <1>1, <1>2, <1>3, <1>4, <1>5, <1>6, <1>7, <1>8, <1>9, <1>10, <1>11 DEF Next

(* Local variables and local stack modes behave like a stack of scopes:    *)
(* whatever a subroutine binds, hides or removes, and however it ends, its *)
(* callers find their own bindings and their own stack mode again.         *)
THEOREM ScopesCorrect == Spec => ScopesSpec
<1>1. Init => Scopes!Init
  BY ScopesInit
<1>2. Inv /\ Inv' /\ [Next]_lVars => [Scopes!Next]_(Scopes!dVars)
  <2>1. ASSUME Inv, Inv', Next
        PROVE  [Scopes!Next]_(Scopes!dVars)
    BY <2>1, ScopesStep DEF ScopesKept, Scopes!dVars
  <2>2. ASSUME Inv, Inv', UNCHANGED lVars
        PROVE  [Scopes!Next]_(Scopes!dVars)
    <3>1. UNCHANGED <<vars, ctx, bigStack, allowBig>>
      BY <2>2 DEF lVars
    <3>2. SameScopes(vars, vars') /\ Len(ctx') = Len(ctx)
      BY <3>1 DEF SameScopes
    <3>3. GlobalBindings' = GlobalBindings /\ ScopeStack' = ScopeStack
      BY <2>2, <3>2, SameView
    <3> QED
      BY <3>1, <3>3 DEF Scopes!dVars
  <2> QED
    BY <2>1, <2>2
<1> QED
  BY <1>1, <1>2, InvHolds, PTL DEF Spec, ScopesSpec, Scopes!Spec
=============================================================================
