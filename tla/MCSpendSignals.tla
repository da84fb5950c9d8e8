--------------------------- MODULE MCSpendSignals ---------------------------
(* No history, a quiet one and a busy one, in tenths of a dollar. *)
EXTENDS SpendSignals

MCHistories == {[months |-> 0, total |-> 0], [months |-> 2, total |-> 4],
                [months |-> 3, total |-> 90]}

ASSUME MCSettings == WarnsInTime
=============================================================================
