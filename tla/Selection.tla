----------------------------- MODULE Selection ------------------------------
(***************************************************************************)
(* Tables from which some of the entries are taken, the others keeping     *)
(* their order: what the loops of the code do that move the entries of an  *)
(* array down over those they delete.                                      *)
(***************************************************************************)
EXTENDS Integers, Sequences, FiniteSets

(* The nth smallest of a set of indices *)
NthOf(I, n) == CHOOSE i \in I : Cardinality({j \in I : j < i}) = n - 1

(* The entries of s at the indices I *)
Kept(s, I) == [n \in 1 .. Cardinality(I) |-> s[NthOf(I, n)]]
=============================================================================
