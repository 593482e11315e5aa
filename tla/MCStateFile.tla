---------------------------- MODULE MCStateFile -----------------------------
(* StateFile with three names, of which two are interchangeable.            *)
EXTENDS StateFile, TLC

CONSTANTS n1, n2, n3

Symmetry == Permutations({n2, n3})
=============================================================================
