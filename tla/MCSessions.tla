----------------------------- MODULE MCSessions -----------------------------
(* An instance of Sessions for TLC: see README.md for the bounds. *)
EXTENDS Sessions, TLC

Symmetry == Permutations(Callers)
=============================================================================
