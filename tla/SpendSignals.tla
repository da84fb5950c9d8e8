---------------------------- MODULE SpendSignals ----------------------------
(***************************************************************************)
(* What an evaluation finds in the spending of a workspace, over one month *)
(* (_detect_anomalies and the severities in                                *)
(* backend/app/services/anomaly_detector.py).                              *)
(*                                                                         *)
(* Every charged request starts an evaluation in the background            *)
(* (_run_anomaly_check in usage.py).  Evaluations run some time later;     *)
(* here none fails, and one has run before Overlap requests were charged.  *)
(*                                                                         *)
(* Quotients are compared after multiplying out; the code's divisions are  *)
(* in floating point, and its rounded figures are only displayed.          *)
(***************************************************************************)
EXTENDS Integers

CONSTANTS
    DaysInMonth,
    Budget,          \* workspaces.monthly_budget_usd
    MinDaily,        \* ANOMALY_MIN_DAILY_SPEND_USD
    SpikeMultiplier, \* ANOMALY_SPIKE_MULTIPLIER
    TrajectoryPct,   \* ANOMALY_TRAJECTORY_PCT
    Histories,       \* what the previous months may have been: their number,
                     \* at most three, and total
    Amounts,         \* what requests may cost
    MaxAmount,       \* the largest of them
    Overlap,         \* requests that may be charged between two evaluations
    MaxSpend         \* bound on the month's spend

ASSUME SignalsAssumption ==
    /\ DaysInMonth \in 28..31
    /\ Budget \in Nat \ {0} /\ MinDaily \in Nat
    /\ SpikeMultiplier \in Nat /\ TrajectoryPct \in Nat
    /\ Histories \subseteq [months : 0..3, total : Nat]
    /\ MaxAmount \in Nat /\ Amounts \subseteq 1..MaxAmount
    /\ Overlap \in Nat /\ MaxSpend \in Nat

VARIABLES
    day,             \* days_elapsed
    current_spend,   \* total_cost_usd of the current month
    prev,            \* the previous months
    due,             \* requests charged since the latest evaluation
    warned           \* history: the highest severity of budget_trajectory that
                     \* an evaluation has found while budget was left

signalsVars == <<day, current_spend, prev, due, warned>>

SignalsInit ==
    /\ day = 1
    /\ current_spend = 0
    /\ prev \in Histories
    /\ due = 0
    /\ warned = 0

-----------------------------------------------------------------------------
(* The three signals, as severities: 1 is low, 2 medium, 3 high, 4 critical. *)

\* No signal.
NoSignal == 0

\* The highest level whose bound was reached.
Level(reached) ==
    CHOOSE i \in {1} \cup reached : \A j \in reached : j <= i

\* Seeded fault: no more warnings once the budget is spent.
Notable_whileBudgetLeft ==
    current_spend > MinDaily * day /\ current_spend < Budget

Notable == current_spend > MinDaily * day

\* current_daily >= ratio * baseline_daily, and the same with ">".
SpikeReaches(ratio) ==
    current_spend * 30 * prev.months >= ratio * prev.total * day
SpikeExceeds(ratio) ==
    current_spend * 30 * prev.months > ratio * prev.total * day

SpikeBounds == <<0, 3, 5, 10>>

spend_spike ==
    IF prev.months > 0 /\ prev.total > 0 /\ SpikeExceeds(SpikeMultiplier) /\ Notable
      THEN Level({i \in 2..4 : SpikeReaches(SpikeBounds[i])})
      ELSE NoSignal

\* Seeded fault: only the rest of the month is projected.
Projected_rest == current_spend * (DaysInMonth - day)

\* Projected spend of the whole month, times the days elapsed.
Projected == current_spend * DaysInMonth

TrajectoryReaches(pct) == 100 * Projected >= pct * Budget * day
TrajectoryExceeds(pct) == 100 * Projected > pct * Budget * day

TrajectoryBounds == <<0, 120, 150, 200>>

budget_trajectory ==
    IF day <= 20 /\ Notable /\ TrajectoryExceeds(TrajectoryPct)
      THEN Level({i \in 2..4 : TrajectoryReaches(TrajectoryBounds[i])})
      ELSE NoSignal

\* Half of the total is taken for the spend of either half of the month.
rapid_acceleration ==
    IF /\ day > 15
       /\ current_spend > 0
       /\ 2 * (current_spend * 15) > 3 * current_spend * (day - 15)
       /\ current_spend > 2 * MinDaily * (day - 15)
      THEN 2
      ELSE NoSignal

-----------------------------------------------------------------------------
(* The month passes.                                                       *)

Spend(a) ==
    /\ due < Overlap
    /\ current_spend + a <= MaxSpend
    /\ current_spend' = current_spend + a
    /\ due' = due + 1
    /\ UNCHANGED <<day, prev, warned>>

\* evaluate_and_store sees every charge that was committed by then.
Evaluation ==
    /\ due > 0
    /\ due' = 0
    /\ warned' = IF current_spend < Budget /\ budget_trajectory > warned
                 THEN budget_trajectory ELSE warned
    /\ UNCHANGED <<day, current_spend, prev>>

NextDay ==
    /\ day < DaysInMonth
    /\ day' = day + 1
    /\ UNCHANGED <<current_spend, prev, due, warned>>

SignalsNext == (\E a \in Amounts : Spend(a)) \/ Evaluation \/ NextDay

SignalsSpec == SignalsInit /\ [][SignalsNext]_signalsVars

-----------------------------------------------------------------------------
(* Properties                                                              *)

\* What may be charged before anybody has looked.
Unseen == Overlap * MaxAmount

\* Budgets so large that what is charged unseen is a small part of them: 22
\* percent of the budget at most in a month of 31 days, 14 in one of 28, if
\* the settings are those of the code, 120 percent and a tenth of a dollar.
WarnsInTime ==
    LET seen == Budget - Unseen
    IN  /\ 20 * MinDaily < seen
        /\ 20 * TrajectoryPct * Budget < 100 * (seen * DaysInMonth)
        /\ 20 * 120 * Budget <= 100 * (seen * DaysInMonth)

\* A workspace that runs out of budget by day 20 was warned before it did, with
\* at least medium severity, in whatever order and amounts it spent, and
\* whenever in between the evaluations ran: nothing but the last requests is
\* charged between the last chance to warn and the end of the budget
\* (anomaly_detector.py:202-226).  It takes a budget that is not gone in a few
\* requests.
ExhaustionForeseen ==
    WarnsInTime /\ day <= 20 /\ current_spend >= Budget => warned >= 2

\* On any one day more spending never withdraws a signal, nor makes it milder.
SpendingNeverSoothes ==
    [][day' = day => /\ spend_spike' >= spend_spike
                     /\ budget_trajectory' >= budget_trajectory
                     /\ rapid_acceleration' >= rapid_acceleration]_signalsVars
=============================================================================
