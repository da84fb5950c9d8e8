---------------------------- MODULE BudgetLedger ----------------------------
(***************************************************************************)
(* What the budget of a workspace is to those who share it: a ledger.  Each*)
(* request that is let through is one entry, which charges the workspace   *)
(* and a user, each in its own unit, and raises the alerts, with no reads, *)
(* locks or failures in sight.  What is left of them: an entry may have    *)
(* been judged by a total and a budget that were true some time ago, and   *)
(* charge a past month.                                                    *)
(***************************************************************************)
EXTENDS Integers, Money

CONSTANTS Months, Budgets, Costs, Thresholds, CounterUnit, AlertUnit

VARIABLES
    month,        \* the calendar month
    ceiling,      \* the highest budget so far
    spend,        \* by month, what the workspace was charged
    user_spend,   \* by month, what its users were
    alerts

vars == <<month, ceiling, spend, user_spend, alerts>>

Init ==
    /\ month = 0
    /\ ceiling \in Budgets
    /\ spend = [m \in Months |-> 0]
    /\ user_spend = [m \in Months |-> 0]
    /\ alerts = {}

\* The alerts of a total that are not there yet.
Raised(m, total, budget) ==
    { a \in [month : {m}, threshold_pct : Thresholds,
             spend_at_trigger : {Rounded(total, AlertUnit)},
             budget_usd : {budget}] :
        /\ 100 * total >= a.threshold_pct * budget
        /\ \A b \in alerts : b.month = m => b.threshold_pct # a.threshold_pct }

\* A request of month m, which its user pays in month n.
Enter(m, n, cost) ==
    /\ m <= n /\ n <= month
    /\ spend' = [spend EXCEPT ![m] = @ + cost]
    /\ user_spend' = [user_spend EXCEPT ![n] = @ + Rounded(cost, CounterUnit)]
    /\ \E budget \in Budgets, seen \in 0..spend[m] :
         /\ budget <= ceiling
         /\ seen + cost <= budget
         /\ alerts' = alerts \cup Raised(m, seen + cost, budget)
    /\ UNCHANGED <<month, ceiling>>

Raise ==
    /\ ceiling' \in Budgets /\ ceiling' > ceiling
    /\ UNCHANGED <<month, spend, user_spend, alerts>>

Turn ==
    /\ month' = month + 1
    /\ UNCHANGED <<ceiling, spend, user_spend, alerts>>

Next ==
    \/ \E m, n \in Months, cost \in Costs : Enter(m, n, cost)
    \/ Raise
    \/ Turn

Spec == Init /\ [][Next]_vars
=============================================================================
