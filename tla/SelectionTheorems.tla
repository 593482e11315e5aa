-------------------------- MODULE SelectionTheorems -------------------------
(***************************************************************************)
(* Facts about the elements of a finite set in order: each has a rank, the *)
(* number of those before it, and every rank below the cardinality is the  *)
(* rank of exactly one.                                                    *)
(***************************************************************************)
EXTENDS Selection, FunctionTheorems, FiniteSetTheorems, TLAPS

(* A strict total order on S, as a set of pairs *)
Orders(R, S) ==
    /\ \A x \in S : <<x, x>> \notin R
    /\ \A x, y \in S : x # y => <<x, y>> \in R \/ <<y, x>> \in R
    /\ \A x, y, z \in S : <<x, y>> \in R /\ <<y, z>> \in R => <<x, z>> \in R

Below(R, S, x) == {y \in S : <<y, x>> \in R}

Rank(R, S, x) == Cardinality(Below(R, S, x))

(* Ranks increase with the order, from 0 to the cardinality less 1. *)
LEMMA RankIncreases ==
    ASSUME NEW S, IsFiniteSet(S), NEW R, Orders(R, S)
    PROVE  /\ \A x \in S : Rank(R, S, x) \in 0 .. Cardinality(S) - 1
           /\ \A x, y \in S : <<x, y>> \in R <=> Rank(R, S, x) < Rank(R, S, y)
           /\ \A x, y \in S : Rank(R, S, x) = Rank(R, S, y) => x = y
<1>1. ASSUME NEW x \in S
      PROVE  Rank(R, S, x) \in 0 .. Cardinality(S) - 1
  <2>1. Below(R, S, x) \subseteq S /\ x \notin Below(R, S, x)
    BY DEF Below, Orders
  <2>2. Below(R, S, x) \in SUBSET S /\ Below(R, S, x) # S
    BY <2>1
  <2> QED
    BY <2>2, FS_Subset, FS_CardinalityType DEF Rank
<1>2. ASSUME NEW x \in S, NEW y \in S, <<x, y>> \in R
      PROVE  Rank(R, S, x) < Rank(R, S, y)
  <2>1. Below(R, S, x) \in SUBSET Below(R, S, y)
    BY <1>2 DEF Below, Orders
  <2>2. x \in Below(R, S, y) /\ x \notin Below(R, S, x)
    BY <1>2 DEF Below, Orders
  <2>3. IsFiniteSet(Below(R, S, y))
    <3>1. Below(R, S, y) \in SUBSET S
      BY DEF Below
    <3> QED
      BY <3>1, FS_Subset
  <2>4. Below(R, S, x) # Below(R, S, y)
    BY <2>2
  <2>5. /\ Cardinality(Below(R, S, x)) <= Cardinality(Below(R, S, y))
        /\ Cardinality(Below(R, S, x)) # Cardinality(Below(R, S, y))
    BY <2>1, <2>3, <2>4, FS_Subset
  <2> QED
    BY <1>1, <2>5 DEF Rank
<1>3. \A x, y \in S : Rank(R, S, x) = Rank(R, S, y) => x = y
  <2> SUFFICES ASSUME NEW x \in S, NEW y \in S, Rank(R, S, x) = Rank(R, S, y)
               PROVE  x = y
    OBVIOUS
  <2>1. ~(Rank(R, S, x) < Rank(R, S, y)) /\ ~(Rank(R, S, y) < Rank(R, S, x))
    BY <1>1
  <2> QED
    BY <1>2, <2>1 DEF Orders
<1>4. \A x, y \in S : Rank(R, S, x) < Rank(R, S, y) => <<x, y>> \in R
  <2> SUFFICES ASSUME NEW x \in S, NEW y \in S, Rank(R, S, x) < Rank(R, S, y)
               PROVE  <<x, y>> \in R
    OBVIOUS
  <2>1. x # y /\ ~(Rank(R, S, y) < Rank(R, S, x))
    BY <1>1
  <2> QED
    BY <1>2, <2>1 DEF Orders
<1> QED
  BY <1>1, <1>2, <1>3, <1>4

(* Every rank below the cardinality is taken. *)
LEMMA RankSurjective ==
    ASSUME NEW S, IsFiniteSet(S), NEW R, Orders(R, S),
           NEW n \in 1 .. Cardinality(S)
    PROVE  \E x \in S : Rank(R, S, x) = n - 1
<1> DEFINE T == 1 .. Cardinality(S)
           f == [x \in S |-> Rank(R, S, x) + 1]
<1>1. Cardinality(S) \in Nat
  BY FS_CardinalityType
<1>2. f \in [S -> T]
  BY <1>1, RankIncreases
<1>3. \A x, y \in S : f[x] = f[y] => x = y
  <2> SUFFICES ASSUME NEW x \in S, NEW y \in S, f[x] = f[y]
               PROVE  x = y
    OBVIOUS
  <2>1. Rank(R, S, x) + 1 = Rank(R, S, y) + 1
    OBVIOUS
  <2>2. Rank(R, S, x) \in Int /\ Rank(R, S, y) \in Int
    BY <1>1, RankIncreases
  <2>3. Rank(R, S, x) = Rank(R, S, y)
    BY <2>1, <2>2
  <2> QED
    BY <2>3, RankIncreases
<1>4. f \in Injection(S, T)
  BY <1>2, <1>3, Fun_IsInj
<1>5. IsFiniteSet(T) /\ Cardinality(T) = Cardinality(S)
  BY <1>1, FS_Interval
<1>6. f \in Surjection(S, T)
  BY <1>4, <1>5, FS_Injection
<1>7. PICK x \in S : f[x] = n
  BY <1>6 DEF Surjection
<1> QED
  BY <1>1, <1>7, RankIncreases

(* The same for the natural order of a finite set of integers. *)
LEMMA NthOfFacts ==
    ASSUME NEW I, IsFiniteSet(I), I \subseteq Int
    PROVE  /\ Cardinality(I) \in Nat
           /\ \A n \in 1 .. Cardinality(I) : NthOf(I, n) \in I
           /\ \A m, n \in 1 .. Cardinality(I) : m < n <=> NthOf(I, m) < NthOf(I, n)
           /\ \A i \in I : \E n \in 1 .. Cardinality(I) : NthOf(I, n) = i
<1> DEFINE R == {p \in I \X I : p[1] < p[2]}
<1>1. Orders(R, I)
  BY DEF Orders
<1>2. \A i \in I : {j \in I : j < i} = Below(R, I, i)
  BY DEF Below
<1>3. \A i \in I : Cardinality({j \in I : j < i}) = Rank(R, I, i)
  BY <1>2 DEF Rank
<1>4. \A i, j \in I : i < j <=> <<i, j>> \in R
  OBVIOUS
<1> HIDE DEF R
<1>5. Cardinality(I) \in Nat
  BY FS_CardinalityType
<1>6. ASSUME NEW n \in 1 .. Cardinality(I)
      PROVE  NthOf(I, n) \in I /\ Rank(R, I, NthOf(I, n)) = n - 1
  <2>1. PICK i \in I : Rank(R, I, i) = n - 1
    BY <1>1, RankSurjective
  <2>2. Cardinality({j \in I : j < i}) = n - 1
    BY <1>3, <2>1
  <2>3. NthOf(I, n) \in I /\ Cardinality({j \in I : j < NthOf(I, n)}) = n - 1
    BY <2>2 DEF NthOf
  <2> QED
    BY <1>3, <2>3
<1>7. ASSUME NEW m \in 1 .. Cardinality(I), NEW n \in 1 .. Cardinality(I)
      PROVE  m < n <=> NthOf(I, m) < NthOf(I, n)
  <2>1. m < n <=> Rank(R, I, NthOf(I, m)) < Rank(R, I, NthOf(I, n))
    BY <1>5, <1>6
  <2> QED
    BY <1>1, <1>4, <1>6, <2>1, RankIncreases
<1>8. ASSUME NEW i \in I
      PROVE  \E n \in 1 .. Cardinality(I) : NthOf(I, n) = i
  <2>1. Rank(R, I, i) \in 0 .. Cardinality(I) - 1
    BY <1>1, RankIncreases
  <2> DEFINE n == Rank(R, I, i) + 1
  <2>2. n \in 1 .. Cardinality(I) /\ n - 1 = Rank(R, I, i)
    BY <1>5, <2>1
  <2>3. NthOf(I, n) \in I /\ Rank(R, I, NthOf(I, n)) = Rank(R, I, i)
    BY <1>6, <2>2
  <2> QED
    BY <1>1, <2>2, <2>3, RankIncreases
<1> QED
  BY <1>5, <1>6, <1>7, <1>8

(* A selection has the selected entries, in their order. *)
LEMMA KeptFacts ==
    ASSUME NEW T, NEW s \in Seq(T), NEW I, I \subseteq DOMAIN s
    PROVE  /\ Kept(s, I) \in Seq(T)
           /\ Len(Kept(s, I)) = Cardinality(I)
           /\ Cardinality(I) \in Nat
           /\ \A n \in 1 .. Cardinality(I) :
                 NthOf(I, n) \in I /\ Kept(s, I)[n] = s[NthOf(I, n)]
           /\ \A m, n \in 1 .. Cardinality(I) : m < n <=> NthOf(I, m) < NthOf(I, n)
           /\ \A i \in I : \E n \in 1 .. Cardinality(I) : NthOf(I, n) = i
<1>1. I \in SUBSET (1 .. Len(s)) /\ Len(s) \in Nat /\ IsFiniteSet(1 .. Len(s))
  BY FS_Interval
<1>2. IsFiniteSet(I) /\ I \subseteq Int
  BY <1>1, FS_Subset
<1>3. /\ Cardinality(I) \in Nat
      /\ \A n \in 1 .. Cardinality(I) : NthOf(I, n) \in I
      /\ \A m, n \in 1 .. Cardinality(I) : m < n <=> NthOf(I, m) < NthOf(I, n)
      /\ \A i \in I : \E n \in 1 .. Cardinality(I) : NthOf(I, n) = i
  BY <1>2, NthOfFacts
<1>4. \A n \in 1 .. Cardinality(I) : s[NthOf(I, n)] \in T
  BY <1>1, <1>3
<1>5. Kept(s, I) \in [1 .. Cardinality(I) -> T]
  BY <1>4 DEF Kept
<1>6. Kept(s, I) \in Seq(T) /\ Len(Kept(s, I)) = Cardinality(I)
  BY <1>3, <1>5
<1> QED
  BY <1>3, <1>6 DEF Kept
=============================================================================
