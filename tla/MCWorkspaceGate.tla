--------------------------- MODULE MCWorkspaceGate ---------------------------
(* Symmetric transactions and users: sound for the safety runs only. *)
EXTENDS WorkspaceGate, TLC

Symmetry == Permutations(Calls) \cup Permutations(Users)
=============================================================================
