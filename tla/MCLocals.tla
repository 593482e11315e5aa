------------------------------ MODULE MCLocals ------------------------------
(* Locals with two names, one of them that of a private variable, and three *)
(* levels.                                                                  *)
EXTENDS Locals

MCNames == {"A", "MAT"}
MCName == {"MAT"}
=============================================================================
