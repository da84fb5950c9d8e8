----------------------------- MODULE MCQuotaProbe -----------------------------
(* The levels of a grant are interchangeable, and so are the requests.      *)
EXTENDS QuotaProbe, TLC

Symmetry == Permutations(Levels) \union Permutations(Requests)
=============================================================================
