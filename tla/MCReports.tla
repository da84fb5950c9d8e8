----------------------------- MODULE MCReports -----------------------------
(* Calls are interchangeable.                                               *)
EXTENDS Reports

Symmetry == Permutations(Calls)
=============================================================================
