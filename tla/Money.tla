------------------------------- MODULE Money -------------------------------
(***************************************************************************)
(* Amounts of money in columns of different scales.  Every amount is a     *)
(* number of the smallest units that occur, 10^-8 dollars: the scale of    *)
(* cost estimates (cost_estimator.py:114) and of a workspace's total       *)
(* (013_workspace_usage.sql:18).  A column of a coarser scale holds        *)
(* multiples of its own unit, and PostgreSQL rounds what it is given, half *)
(* away from zero: up, since no amount is negative.                        *)
(***************************************************************************)
EXTENDS Integers

Rounded(amount, unit) == unit * ((2 * amount + unit) \div (2 * unit))
=============================================================================
