----------------------------- MODULE MCRoutes -----------------------------
(* A service of a few servers and two processes that call it.              *)
EXTENDS Routes, TLC

Symmetry == Permutations(Callers)
=============================================================================
