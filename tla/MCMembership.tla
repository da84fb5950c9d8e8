---------------------------- MODULE MCMembership ----------------------------
(* Workspaces, users and request slots are each interchangeable.           *)
EXTENDS Membership, TLC

Symmetry == Permutations(Workspaces) \union Permutations(Users) \union Permutations(Requests)
=============================================================================
