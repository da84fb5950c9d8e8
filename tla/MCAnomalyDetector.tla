-------------------------- MODULE MCAnomalyDetector --------------------------
(* Symmetric evaluations. *)
EXTENDS AnomalyDetector, TLC

Symmetry == Permutations(Tasks)
=============================================================================
