------------------------------ MODULE MCGateway ------------------------------
(* Two handlers and one user under all four settings; the handlers are      *)
(* interchangeable, which liveness must not use.                            *)
EXTENDS Gateway, TLC

Symmetry == Permutations(Callers)
=============================================================================
