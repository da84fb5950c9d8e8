----------------------------- MODULE MCUserQuota -----------------------------
(* Symmetric transactions: sound for the safety runs only. *)
EXTENDS UserQuota, TLC

Symmetry == Permutations(Calls)
=============================================================================
