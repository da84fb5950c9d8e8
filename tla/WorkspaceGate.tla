---------------------------- MODULE WorkspaceGate ----------------------------
(***************************************************************************)
(* The budget of one workspace, shared by its members: concurrent calls of *)
(* workspace_check_and_consume_usage (migration 016) against the workspace *)
(* row (012), its monthly aggregate (013) and its budget alerts (014).     *)
(*                                                                         *)
(* A call is one READ COMMITTED transaction.  It samples the clock, reads  *)
(* the workspace and then the month's spend without a lock, waits for the  *)
(* lock of its user's quota row, which the user gate takes (UserQuota is   *)
(* the model of that gate; here it just allows or denies), waits for the   *)
(* lock of the aggregate row, and commits.                                 *)
(*                                                                         *)
(* Amounts of money are in the units of the aggregate, numeric(16,8), which*)
(* is also the scale of a cost.  The other columns are coarser and round.  *)
(***************************************************************************)
EXTENDS Integers, FiniteSets, FiniteSetsExt, Money

CONSTANTS
    Calls,        \* slots for concurrent transactions
    Users,
    Budgets,      \* values an administrator gives monthly_budget_usd
    Costs,        \* estimated costs of requests
    MaxCost,      \* the largest of them
    Thresholds,   \* alert thresholds in percent: 50, 80, 95, 100
    CounterUnit,  \* of usage_counters.budget_used_usd, numeric(12,6): 100
    AlertUnit,    \* of spend_at_trigger, numeric(12,4): 10000
    MaxMonth,     \* bound on the calendar
    MaxBlocked    \* where the counters of blocked requests saturate

ASSUME GateAssumption ==
    /\ IsFiniteSet(Calls) /\ Calls # {}
    /\ Budgets \subseteq Nat \ {0} /\ Budgets # {}
    /\ MaxCost \in Nat /\ Costs \subseteq 0..MaxCost
    /\ Thresholds \subseteq Nat \ {0}
    /\ CounterUnit \in Nat \ {0} /\ AlertUnit \in Nat \ {0}
    /\ MaxMonth \in Nat /\ MaxBlocked \in Nat

VARIABLES
    month,          \* the calendar month
    suspended,      \* workspaces.is_suspended
    budget,         \* workspaces.monthly_budget_usd
    linked,         \* users whose quota row has this workspace_id
    spend,          \* workspace_monthly_usage.total_cost_usd, by month
    requests,       \* workspace_monthly_usage.total_requests, by month
    blocked,        \* workspace_monthly_usage.blocked_requests, by month
    alerts,         \* workspace_budget_alerts
    user_spend,     \* usage_counters.budget_used_usd that these calls added,
                    \* of all users together, by month
    pc,             \* how far a call got
    v,              \* the local variables of a call
    highest,        \* history: the highest budget so far
    frozen          \* history: per month, spend plus exposure at suspension,
                    \* while it lasts

workspaceVars == <<suspended, budget, linked>>
usageVars == <<spend, requests, blocked, alerts, user_spend>>
callVars == <<pc, v>>
history == <<highest, frozen>>
vars == <<month, workspaceVars, usageVars, callVars, history>>

Months == 0..MaxMonth

\* started   knows its workspace          gated    holds the row of its user
\* active    saw an active workspace      writing  holds the aggregate row too
\* admitted  passed the budget cap
Phases == {"idle", "started", "active", "admitted", "gated", "writing"}

Local == [user : Users, cost : Costs, month : Months, budget : Budgets,
          spend : Nat, user_month : Months, allowed : BOOLEAN]
Alert == [month : Months, threshold_pct : Thresholds,
          spend_at_trigger : Nat, budget_usd : Budgets]

Nothing == [idle |-> TRUE]   \* the local variables of an idle call

Init ==
    /\ month = 0
    /\ suspended = FALSE
    /\ budget \in Budgets
    /\ linked = {}
    /\ spend = [m \in Months |-> 0]
    /\ requests = [m \in Months |-> 0]
    /\ blocked = [m \in Months |-> 0]
    /\ alerts = {}
    /\ user_spend = [m \in Months |-> 0]
    /\ pc = [c \in Calls |-> "idle"]
    /\ v = [c \in Calls |-> Nothing]
    /\ highest = budget
    /\ frozen = [m \in Months |-> 0]

-----------------------------------------------------------------------------
(* The call reads, without locks.                                          *)

\* The clock is sampled in DECLARE; the user's row says which workspace.  A
\* call of a user without one never touches the state of this module.
Start(c, u, cost) ==
    /\ pc[c] = "idle"
    /\ u \in linked
    /\ pc' = [pc EXCEPT ![c] = "started"]
    /\ v' = [v EXCEPT ![c] =
               [user |-> u, cost |-> cost, month |-> month, budget |-> budget,
                spend |-> 0, user_month |-> month, allowed |-> FALSE]]
    /\ UNCHANGED <<month, workspaceVars, usageVars, history>>

Return(c) ==
    /\ pc' = [pc EXCEPT ![c] = "idle"]
    /\ v' = [v EXCEPT ![c] = Nothing]

\* Seeded fault: the WHERE clause forgets is_suspended.
MayCall_anyWorkspace == TRUE

MayCall == ~suspended

ReadWorkspace(c) ==
    /\ pc[c] = "started"
    /\ MayCall
    /\ pc' = [pc EXCEPT ![c] = "active"]
    /\ v' = [v EXCEPT ![c].budget = budget]
    /\ UNCHANGED <<month, workspaceVars, usageVars, history>>

WorkspaceSuspended(c) ==
    /\ pc[c] = "started"
    /\ ~MayCall
    /\ Return(c)
    /\ UNCHANGED <<month, workspaceVars, usageVars, history>>

\* Seeded fault: the cap compares what was spent and forgets this request.
OverCap_spentOnly(c) == spend[v[c].month] > v[c].budget

OverCap(c) == spend[v[c].month] + v[c].cost > v[c].budget

\* The user gate samples its own clock as it begins, before it waits.
ReadSpend(c) ==
    /\ pc[c] = "active"
    /\ ~OverCap(c)
    /\ pc' = [pc EXCEPT ![c] = "admitted"]
    /\ v' = [v EXCEPT ![c].spend = spend[v[c].month],
                      ![c].user_month = month]
    /\ UNCHANGED <<month, workspaceVars, usageVars, history>>

-----------------------------------------------------------------------------
(* The call writes, under row locks that it keeps until it commits.        *)

Saturated(n) == IF n < MaxBlocked THEN n + 1 ELSE n

\* Row locks: the quota row of a user, the aggregate row of a month.
UserFree(u) ==
    \A d \in Calls : pc[d] \in {"gated", "writing"} => v[d].user # u

AggregateFree(m) == \A d \in Calls : pc[d] = "writing" => v[d].month # m

\* workspace_budget_exceeded: count the request and return.
CapBlocked(c) ==
    /\ pc[c] = "active"
    /\ OverCap(c)
    /\ AggregateFree(v[c].month)
    /\ blocked' = [blocked EXCEPT ![v[c].month] = Saturated(@)]
    /\ Return(c)
    /\ UNCHANGED <<month, workspaceVars, spend, requests, alerts, user_spend,
                   history>>

\* check_and_consume_ai_usage locks the user's row and decides.
UserGate(c) ==
    /\ pc[c] = "admitted"
    /\ UserFree(v[c].user)
    /\ pc' = [pc EXCEPT ![c] = "gated"]
    /\ \E allowed \in BOOLEAN : v' = [v EXCEPT ![c].allowed = allowed]
    /\ UNCHANGED <<month, workspaceVars, usageVars, history>>

\* INSERT ... ON CONFLICT DO UPDATE waits for the row of the month.
LockAggregate(c) ==
    /\ pc[c] = "gated"
    /\ AggregateFree(v[c].month)
    /\ pc' = [pc EXCEPT ![c] = "writing"]
    /\ UNCHANGED <<month, workspaceVars, usageVars, v, history>>

\* Seeded fault: the new total is computed from the spend read at the check.
Charged_fromSnapshot(c) ==
    [spend EXCEPT ![v[c].month] = v[c].spend + v[c].cost]

Charged(c) == [spend EXCEPT ![v[c].month] = @ + v[c].cost]

\* Seeded fault: the alerts see the spend before this request.
Reported_before(c) == v[c].spend

\* v_ws_spend + p_estimated_cost: the spend of the check, not of the row.
Reported(c) == v[c].spend + v[c].cost

\* Seeded faults: without its UNIQUE constraint a threshold is reported again;
\* the alert is dated by the time it is raised, not by the month it is about.
FiredAlerts_again(c) ==
    { a \in [month : {v[c].month}, threshold_pct : Thresholds,
             spend_at_trigger : {Rounded(Reported(c), AlertUnit)},
             budget_usd : {v[c].budget}] :
        100 * Reported(c) >= a.threshold_pct * v[c].budget }

FiredAlerts_dated(c) ==
    { a \in [month : {month}, threshold_pct : Thresholds,
             spend_at_trigger : {Rounded(Reported(c), AlertUnit)},
             budget_usd : {v[c].budget}] :
        /\ 100 * Reported(c) >= a.threshold_pct * v[c].budget
        /\ \A b \in alerts : b.month = a.month => b.threshold_pct # a.threshold_pct }

\* _fire_budget_alerts: ON CONFLICT DO NOTHING keeps the first of each.
FiredAlerts(c) ==
    { a \in [month : {v[c].month}, threshold_pct : Thresholds,
             spend_at_trigger : {Rounded(Reported(c), AlertUnit)},
             budget_usd : {v[c].budget}] :
        /\ 100 * Reported(c) >= a.threshold_pct * v[c].budget
        /\ \A b \in alerts : b.month = a.month => b.threshold_pct # a.threshold_pct }

CommitAllowed(c) ==
    /\ pc[c] = "writing"
    /\ v[c].allowed
    /\ spend' = Charged(c)
    /\ requests' = [requests EXCEPT ![v[c].month] = @ + 1]
    /\ alerts' = alerts \cup FiredAlerts(c)
    /\ user_spend' = [user_spend EXCEPT ![v[c].user_month] =
                       @ + Rounded(v[c].cost, CounterUnit)]
    /\ Return(c)
    /\ UNCHANGED <<month, workspaceVars, blocked, history>>

CommitDenied(c) ==
    /\ pc[c] = "writing"
    /\ ~v[c].allowed
    /\ blocked' = [blocked EXCEPT ![v[c].month] = Saturated(@)]
    /\ Return(c)
    /\ UNCHANGED <<month, workspaceVars, spend, requests, alerts, user_spend,
                   history>>

\* Seeded fault: the handler gives back a charge that was never committed.
Undone_refunds(c) ==
    user_spend' = [user_spend EXCEPT ![v[c].user_month] =
                     @ - Rounded(v[c].cost, CounterUnit)]

Undone(c) == user_spend' = user_spend

\* An error at any moment, WHEN OTHERS or a lost connection: what the call
\* wrote, the charge of the user gate above all, goes with it.
Abort(c) ==
    /\ pc[c] # "idle"
    /\ Undone(c)
    /\ Return(c)
    /\ UNCHANGED <<month, workspaceVars, spend, requests, blocked, alerts,
                   history>>

-----------------------------------------------------------------------------
(* Administrators and the calendar.                                        *)

\* Calls that saw the workspace active and may still charge month m.
InFlight(m) ==
    { c \in Calls : /\ pc[c] \in {"active", "admitted", "gated", "writing"}
                    /\ v[c].month = m }

Suspend ==
    /\ ~suspended
    /\ suspended' = TRUE
    /\ frozen' = [m \in Months |-> spend[m] + MaxCost * Cardinality(InFlight(m))]
    /\ UNCHANGED <<month, budget, linked, usageVars, callVars, highest>>

Unsuspend ==
    /\ suspended
    /\ suspended' = FALSE
    /\ frozen' = [m \in Months |-> 0]
    /\ UNCHANGED <<month, budget, linked, usageVars, callVars, highest>>

UpdateBudget(b) ==
    /\ b # budget
    /\ budget' = b
    /\ highest' = IF b > highest THEN b ELSE highest
    /\ UNCHANGED <<month, suspended, linked, usageVars, callVars, frozen>>

\* add_member and remove_member UPDATE the user's quota row: they wait for it.
Link(u) ==
    /\ UserFree(u)
    /\ linked' = linked \cup {u}
    /\ UNCHANGED <<month, suspended, budget, usageVars, callVars, history>>

Unlink(u) ==
    /\ UserFree(u)
    /\ linked' = linked \ {u}
    /\ UNCHANGED <<month, suspended, budget, usageVars, callVars, history>>

NextMonth ==
    /\ month < MaxMonth
    /\ month' = month + 1
    /\ UNCHANGED <<workspaceVars, usageVars, callVars, history>>

Proceed(c) ==
    \/ ReadWorkspace(c) \/ WorkspaceSuspended(c) \/ ReadSpend(c)
    \/ CapBlocked(c) \/ UserGate(c) \/ LockAggregate(c)
    \/ CommitAllowed(c) \/ CommitDenied(c)

Admin ==
    \/ Suspend \/ Unsuspend
    \/ \E b \in Budgets : UpdateBudget(b)
    \/ \E u \in Users : Link(u) \/ Unlink(u)

Next ==
    \/ \E c \in Calls :
         \/ \E u \in Users, cost \in Costs : Start(c, u, cost)
         \/ Proceed(c)
         \/ Abort(c)
    \/ Admin
    \/ NextMonth

Spec == Init /\ [][Next]_vars

-----------------------------------------------------------------------------
(* Properties                                                              *)

\* Every row and every local variable keeps its type: no total of money ever
\* becomes negative, an undone charge included.
TypeOK ==
    /\ month \in Months
    /\ suspended \in BOOLEAN
    /\ budget \in Budgets
    /\ linked \subseteq Users
    /\ spend \in [Months -> Nat]
    /\ requests \in [Months -> Nat]
    /\ blocked \in [Months -> Nat]
    /\ alerts \subseteq Alert
    /\ user_spend \in [Months -> Nat]
    /\ pc \in [Calls -> Phases]
    /\ v \in [Calls -> Local \cup {Nothing}]
    /\ \A c \in Calls : pc[c] # "idle" => v[c] \in Local
    /\ highest \in Budgets /\ budget <= highest
    /\ frozen \in [Months -> Nat]

\* The cap is read without a lock, so it can be passed, but by no more than
\* what the other calls in flight can cost.  "This bounds over-spend to at
\* most (concurrency x max_request_cost)" (016_workspace_quota_rpc.sql:26-27),
\* less one request; of the highest budget, where it is changed under them.
BoundedOverspend ==
    \A m \in Months : spend[m] <= highest + MaxCost * (Cardinality(Calls) - 1)

\* What the workspace was charged, minus what its members were, in all months
\* together.
Drift ==
    MapThenSumSet(LAMBDA m : spend[m], Months)
      - MapThenSumSet(LAMBDA m : user_spend[m], Months)

\* No charge is lost or made twice: workspace and members drift apart by the
\* rounding of the counters alone, at most half their unit for each request.
Reconciles ==
    LET rounding == CounterUnit * MapThenSumSet(LAMBDA m : requests[m], Months)
    IN  -rounding <= 2 * Drift /\ 2 * Drift <= rounding

\* An alert never cries wolf: the spend it names was really reached, and is
\* at least its share of the budget of that time; both up to the rounding of
\* the figure it stores.
AlertsTrue ==
    \A a \in alerts :
      /\ 2 * a.spend_at_trigger <= 2 * spend[a.month] + AlertUnit
      /\ 100 * (2 * a.spend_at_trigger + AlertUnit)
           >= 2 * a.threshold_pct * a.budget_usd

\* An alert comes late by no more than what the other calls in flight cost:
\* had each of them been charged after the threshold, it would be there.
AlertLag ==
    \A m \in Months, t \in Thresholds :
      100 * (spend[m] - MaxCost * (Cardinality(Calls) - 1)) >= t * highest
        => \E a \in alerts : a.month = m /\ a.threshold_pct = t

\* Suspension drains: no call that begins after it is charged, and the calls
\* it found in flight are charged at most once each.
SuspensionDrains ==
    suspended =>
      \A m \in Months :
        spend[m] + MaxCost * Cardinality(InFlight(m)) <= frozen[m]

\* Whatever calls do unlocked, late and at once, they write a ledger: one entry
\* for a call, with the workspace, its user and the alerts in one step.
Ledger == INSTANCE BudgetLedger WITH ceiling <- highest

ImplementsLedger == Ledger!Spec
=============================================================================
