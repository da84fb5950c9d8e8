------------------------- MODULE WorkspaceGateProofs -------------------------
(***************************************************************************)
(* What the workspace gate promises without a lock on its check, for any   *)
(* number of calls, users, months and budgets: over-spend is bounded, no   *)
(* alert is false or very late, the books reconcile up to rounding, and    *)
(* suspension drains; and what the reports that run beside it say of them. *)
(***************************************************************************)
EXTENDS Reports, Sums, FiniteSetTheorems, TLAPS

-----------------------------------------------------------------------------
(* Type correctness.                                                       *)

LEMMA InitTypeOK == Init => TypeOK
<1> SUFFICES ASSUME Init
             PROVE  TypeOK
  OBVIOUS
<1> USE GateAssumption
<1>1. month \in Months /\ suspended \in BOOLEAN /\ linked \subseteq Users
  <2>1. MaxMonth \in Nat
    OBVIOUS
  <2>2. month = 0 /\ suspended = FALSE /\ linked = {}
    BY DEF Init
  <2> QED
    BY <2>1, <2>2, 0 \in 0..MaxMonth DEF Months
<1>2. budget \in Budgets /\ highest \in Budgets /\ budget <= highest
  BY DEF Init
<1>3. /\ spend \in [Months -> Nat] /\ blocked \in [Months -> Nat]
      /\ requests \in [Months -> Nat]
      /\ frozen \in [Months -> Nat]
      /\ user_spend \in [Months -> Nat]
      /\ alerts \subseteq Alert
  BY DEF Init
<1>4. /\ pc \in [Calls -> Phases] /\ v \in [Calls -> Local \cup {Nothing}]
      /\ \A c \in Calls : pc[c] = "idle"
  BY DEF Init, Phases
<1> QED
  BY <1>1, <1>2, <1>3, <1>4 DEF TypeOK

LEMMA LocalFields ==
    ASSUME TypeOK, NEW c \in Calls, pc[c] # "idle"
    PROVE  /\ v[c] \in Local
           /\ v[c].user \in Users /\ v[c].cost \in Costs /\ v[c].cost \in Nat
           /\ v[c].cost <= MaxCost
           /\ v[c].month \in Months /\ v[c].user_month \in Months
           /\ v[c].budget \in Budgets /\ v[c].budget \in Nat
           /\ v[c].spend \in Nat /\ v[c].allowed \in BOOLEAN
<1>1. v[c] \in Local
  BY DEF TypeOK
<1>2. v[c].cost \in Costs /\ v[c].budget \in Budgets
  BY <1>1 DEF Local
<1>3. v[c].cost \in Nat /\ v[c].cost <= MaxCost /\ v[c].budget \in Nat
  <2>1. Costs \subseteq 0..MaxCost /\ Budgets \subseteq Nat /\ MaxCost \in Nat
    BY GateAssumption
  <2>2. v[c].cost \in 0..MaxCost /\ v[c].budget \in Nat
    BY <1>2, <2>1, Zenon
  <2> QED
    BY <2>1, <2>2
<1> QED
  BY <1>1, <1>2, <1>3 DEF Local

\* What a step does to its own call, and to no other.
LEMMA CallStepTypes ==
    ASSUME TypeOK, NEW c \in Calls, NEW phase \in Phases,
           NEW local \in Local \cup {Nothing},
           phase # "idle" => local \in Local,
           pc' = [pc EXCEPT ![c] = phase], v' = [v EXCEPT ![c] = local]
    PROVE  /\ pc' \in [Calls -> Phases]
           /\ v' \in [Calls -> Local \cup {Nothing}]
           /\ \A d \in Calls : pc'[d] # "idle" => v'[d] \in Local
BY DEF TypeOK

LEMMA ReturnTypes ==
    ASSUME TypeOK, NEW c \in Calls, Return(c)
    PROVE  /\ pc' \in [Calls -> Phases]
           /\ v' \in [Calls -> Local \cup {Nothing}]
           /\ \A d \in Calls : pc'[d] # "idle" => v'[d] \in Local
BY CallStepTypes DEF Return, Phases

LEMMA CommitTypes ==
    ASSUME TypeOK, NEW c \in Calls, CommitAllowed(c)
    PROVE  /\ spend' \in [Months -> Nat] /\ requests' \in [Months -> Nat]
           /\ alerts' \subseteq Alert
           /\ user_spend' \in [Months -> Nat]
<1>1. pc[c] # "idle"
  BY DEF CommitAllowed
<1>2. Reported(c) \in Nat
  BY <1>1, LocalFields DEF Reported
<1>3. spend' \in [Months -> Nat] /\ requests' \in [Months -> Nat]
  BY <1>1, LocalFields DEF CommitAllowed, Charged, TypeOK
<1>4. FiredAlerts(c) \subseteq Alert
  <2>1. Rounded(Reported(c), AlertUnit) \in Nat
    BY <1>2, GateAssumption, RoundedNear
  <2> QED
    BY <1>1, <2>1, LocalFields DEF FiredAlerts, Alert
<1>5. user_spend' \in [Months -> Nat]
  <2>1. Rounded(v[c].cost, CounterUnit) \in Nat
    BY <1>1, LocalFields, GateAssumption, RoundedNear
  <2> QED
    BY <1>1, <2>1, LocalFields DEF CommitAllowed, TypeOK
<1> QED
  BY <1>3, <1>4, <1>5 DEF CommitAllowed, TypeOK

LEMMA NextTypeOK == TypeOK /\ [Next]_vars => TypeOK'
<1> SUFFICES ASSUME TypeOK, [Next]_vars
             PROVE  TypeOK'
  OBVIOUS
<1> USE GateAssumption
<1>1. ASSUME NEW c \in Calls, NEW u \in Users, NEW cost \in Costs,
             Start(c, u, cost)
      PROVE  TypeOK'
  <2> DEFINE local == [user |-> u, cost |-> cost, month |-> month,
                       budget |-> budget, spend |-> 0,
                       user_month |-> month, allowed |-> FALSE]
  <2>1. local \in Local
    BY DEF Local, TypeOK
  <2>2. pc' = [pc EXCEPT ![c] = "started"] /\ v' = [v EXCEPT ![c] = local]
    BY <1>1 DEF Start
  <2> QED
    BY <1>1, <2>1, <2>2, CallStepTypes
    DEF Start, TypeOK, Phases, workspaceVars, usageVars, history
<1>2. ASSUME NEW c \in Calls, ReadWorkspace(c)
      PROVE  TypeOK'
  <2> DEFINE local == [v[c] EXCEPT !.budget = budget]
  <2>1. local \in Local
    BY <1>2, LocalFields DEF ReadWorkspace, Local, TypeOK
  <2>2. pc' = [pc EXCEPT ![c] = "active"] /\ v' = [v EXCEPT ![c] = local]
    BY <1>2 DEF ReadWorkspace
  <2> QED
    BY <1>2, <2>1, <2>2, CallStepTypes
    DEF ReadWorkspace, TypeOK, Phases, workspaceVars, usageVars, history
<1>3. ASSUME NEW c \in Calls, WorkspaceSuspended(c)
      PROVE  TypeOK'
  BY <1>3, ReturnTypes
  DEF WorkspaceSuspended, TypeOK, workspaceVars, usageVars, history
<1>4. ASSUME NEW c \in Calls, ReadSpend(c)
      PROVE  TypeOK'
  <2> DEFINE local == [v[c] EXCEPT !.spend = spend[v[c].month],
                                   !.user_month = month]
  <2>1. local \in Local
    BY <1>4, LocalFields DEF ReadSpend, Local, TypeOK
  <2>2. pc' = [pc EXCEPT ![c] = "admitted"] /\ v' = [v EXCEPT ![c] = local]
    BY <1>4 DEF ReadSpend
  <2> QED
    BY <1>4, <2>1, <2>2, CallStepTypes
    DEF ReadSpend, TypeOK, Phases, workspaceVars, usageVars, history
<1>5. ASSUME NEW c \in Calls, CapBlocked(c)
      PROVE  TypeOK'
  <2>1. v[c].month \in Months
    BY <1>5, LocalFields DEF CapBlocked
  <2>2. \A n \in Nat : Saturated(n) \in Nat
    BY DEF Saturated
  <2>3. blocked' \in [Months -> Nat]
    BY <1>5, <2>1, <2>2 DEF CapBlocked, TypeOK
  <2> QED
    BY <1>5, <2>3, ReturnTypes DEF CapBlocked, TypeOK, workspaceVars, history
<1>6. ASSUME NEW c \in Calls, UserGate(c)
      PROVE  TypeOK'
  <2>1. PICK allowed \in BOOLEAN : v' = [v EXCEPT ![c].allowed = allowed]
    BY <1>6 DEF UserGate
  <2> DEFINE local == [v[c] EXCEPT !.allowed = allowed]
  <2>2. local \in Local
    BY <1>6, LocalFields DEF UserGate, Local, TypeOK
  <2>3. pc' = [pc EXCEPT ![c] = "gated"] /\ v' = [v EXCEPT ![c] = local]
    BY <1>6, <2>1 DEF UserGate
  <2> QED
    BY <1>6, <2>2, <2>3, CallStepTypes
    DEF UserGate, TypeOK, Phases, workspaceVars, usageVars, history
<1>7. ASSUME NEW c \in Calls, LockAggregate(c)
      PROVE  TypeOK'
  <2>1. v[c] \in Local
    BY <1>7, LocalFields DEF LockAggregate
  <2>2. pc' = [pc EXCEPT ![c] = "writing"] /\ v' = [v EXCEPT ![c] = v[c]]
    BY <1>7 DEF LockAggregate, TypeOK
  <2> QED
    BY <1>7, <2>1, <2>2, CallStepTypes
    DEF LockAggregate, TypeOK, Phases, workspaceVars, usageVars, history
<1>8. ASSUME NEW c \in Calls, CommitAllowed(c)
      PROVE  TypeOK'
  BY <1>8, ReturnTypes, CommitTypes
  DEF CommitAllowed, TypeOK, workspaceVars, history
<1>9. ASSUME NEW c \in Calls, CommitDenied(c)
      PROVE  TypeOK'
  <2>1. v[c].month \in Months
    BY <1>9, LocalFields DEF CommitDenied
  <2>2. \A n \in Nat : Saturated(n) \in Nat
    BY DEF Saturated
  <2>3. blocked' \in [Months -> Nat]
    BY <1>9, <2>1, <2>2 DEF CommitDenied, TypeOK
  <2> QED
    BY <1>9, <2>3, ReturnTypes DEF CommitDenied, TypeOK, workspaceVars, history
<1>10. ASSUME NEW c \in Calls, Abort(c)
       PROVE  TypeOK'
  BY <1>10, ReturnTypes DEF Abort, Undone, TypeOK, workspaceVars, history
<1>11. CASE Suspend
  <2>1. \A m \in Months : MaxCost * Cardinality(InFlight(m)) \in Nat
    <3>1. \A m \in Months : IsFiniteSet(InFlight(m))
      <4>1. IsFiniteSet(Calls) /\ \A m \in Months : InFlight(m) \subseteq Calls
        BY DEF InFlight
      <4> QED
        BY <4>1, FS_Subset
    <3>2. \A m \in Months : Cardinality(InFlight(m)) \in Nat
      BY <3>1, FS_CardinalityType
    <3> QED
      BY <3>2
  <2>2. frozen' \in [Months -> Nat]
    BY <1>11, <2>1 DEF Suspend, TypeOK
  <2> QED
    BY <1>11, <2>2 DEF Suspend, TypeOK, usageVars, callVars
<1>12. CASE Unsuspend
  BY <1>12 DEF Unsuspend, TypeOK, usageVars, callVars, history
<1>13. ASSUME NEW b \in Budgets, UpdateBudget(b)
       PROVE  TypeOK'
  BY <1>13 DEF UpdateBudget, TypeOK, usageVars, callVars
<1>14. ASSUME NEW u \in Users, Link(u) \/ Unlink(u)
       PROVE  TypeOK'
  BY <1>14 DEF Link, Unlink, TypeOK, usageVars, callVars, history
<1>15. CASE NextMonth
  <2>1. month' \in Months
    <3>1. MaxMonth \in Nat /\ month \in 0..MaxMonth
      BY DEF TypeOK, Months
    <3> QED
      BY <1>15, <3>1 DEF NextMonth, Months
  <2> QED
    BY <1>15, <2>1 DEF NextMonth, TypeOK, workspaceVars, usageVars, callVars, history
<1>16. CASE UNCHANGED vars
  BY <1>16 DEF vars, TypeOK, workspaceVars, usageVars, callVars, history
<1> QED
  BY <1>1, <1>2, <1>3, <1>4, <1>5, <1>6, <1>7, <1>8, <1>9, <1>10, <1>11, <1>12,
     <1>13, <1>14, <1>15, <1>16
  DEF Next, Proceed, Admin

\* Every row and every local variable of a call keeps its type; no total of
\* money becomes negative, and the budget in force is at most the highest.
THEOREM TypeCorrect == Spec => []TypeOK
BY InitTypeOK, NextTypeOK, PTL DEF Spec

-----------------------------------------------------------------------------
(* What a step does to the calls that passed the cap and may still charge. *)

Late == {"admitted", "gated", "writing"}
Admitted(m) == { c \in Calls : pc[c] \in Late /\ v[c].month = m }

\* A call is as far as it was: past the cap or not, with the same figures.
Stays(d) ==
    /\ pc'[d] \in Late <=> pc[d] \in Late
    /\ pc[d] \in Late => /\ v'[d].month = v[d].month
                         /\ v'[d].cost = v[d].cost
                         /\ v'[d].spend = v[d].spend
                         /\ v'[d].budget = v[d].budget

Quiet ==
    /\ spend' = spend
    /\ alerts' = alerts
    /\ \A d \in Calls : Stays(d)

Joins(c) ==
    /\ spend' = spend
    /\ alerts' = alerts
    /\ pc[c] = "active" /\ ~OverCap(c)
    /\ pc'[c] \in Late
    /\ v'[c].month = v[c].month
    /\ v'[c].cost = v[c].cost
    /\ v'[c].spend = spend[v[c].month]
    /\ v'[c].budget = v[c].budget
    /\ \A d \in Calls \ {c} : Stays(d)

Leaves(c) ==
    /\ pc[c] \in Late
    /\ pc'[c] \notin Late
    /\ \/ spend' = spend /\ alerts' = alerts
       \/ spend' = Charged(c) /\ alerts' = alerts \cup FiredAlerts(c)
    /\ \A d \in Calls \ {c} : Stays(d)

LEMMA StepShape ==
    ASSUME TypeOK, [Next]_vars
    PROVE  Quiet \/ \E c \in Calls : Joins(c) \/ Leaves(c)
<1>1. ASSUME NEW c \in Calls, NEW u \in Users, NEW cost \in Costs,
             Start(c, u, cost)
      PROVE  Quiet
  BY <1>1 DEF Start, Quiet, Stays, Late, usageVars, TypeOK
<1>2. ASSUME NEW c \in Calls, ReadWorkspace(c)
      PROVE  Quiet
  BY <1>2 DEF ReadWorkspace, Quiet, Stays, Late, usageVars, TypeOK
<1>3. ASSUME NEW c \in Calls, WorkspaceSuspended(c) \/ CapBlocked(c)
      PROVE  Quiet
  BY <1>3 DEF WorkspaceSuspended, CapBlocked, Return, Quiet, Stays, Late,
              usageVars, TypeOK
<1>4. ASSUME NEW c \in Calls, ReadSpend(c)
      PROVE  Joins(c)
  <2>1. v[c] \in Local
    BY <1>4, LocalFields DEF ReadSpend
  <2>2. v'[c] = [v[c] EXCEPT !.spend = spend[v[c].month], !.user_month = month]
    BY <1>4 DEF ReadSpend, TypeOK
  <2>3. /\ v'[c].month = v[c].month /\ v'[c].cost = v[c].cost
        /\ v'[c].spend = spend[v[c].month] /\ v'[c].budget = v[c].budget
    BY <2>1, <2>2 DEF Local
  <2> QED
    BY <1>4, <2>3 DEF ReadSpend, Joins, Stays, Late, usageVars, TypeOK
<1>5. ASSUME NEW c \in Calls, UserGate(c)
      PROVE  Quiet
  <2>1. v[c] \in Local
    BY <1>5, LocalFields DEF UserGate
  <2>2. PICK allowed \in BOOLEAN : v' = [v EXCEPT ![c].allowed = allowed]
    BY <1>5 DEF UserGate
  <2>3. v'[c] = [v[c] EXCEPT !.allowed = allowed]
    BY <2>2 DEF TypeOK
  <2>4. /\ v'[c].month = v[c].month /\ v'[c].cost = v[c].cost
        /\ v'[c].spend = v[c].spend /\ v'[c].budget = v[c].budget
    BY <2>1, <2>3 DEF Local
  <2>5. Stays(c)
    BY <1>5, <2>4 DEF UserGate, Stays, Late, TypeOK
  <2>6. \A d \in Calls \ {c} : Stays(d)
    BY <1>5, <2>2 DEF UserGate, Stays, TypeOK
  <2> QED
    BY <1>5, <2>5, <2>6 DEF UserGate, Quiet, usageVars
<1>6. ASSUME NEW c \in Calls, LockAggregate(c)
      PROVE  Quiet
  BY <1>6 DEF LockAggregate, Quiet, Stays, Late, usageVars, TypeOK
<1>7. ASSUME NEW c \in Calls, CommitAllowed(c) \/ CommitDenied(c)
      PROVE  Leaves(c)
  BY <1>7 DEF CommitAllowed, CommitDenied, Return, Leaves, Stays, Late, TypeOK
<1>10. ASSUME NEW c \in Calls, Abort(c), pc[c] \in Late
       PROVE  Leaves(c)
  BY <1>10 DEF Abort, Return, Leaves, Stays, Late, TypeOK
<1>11. ASSUME NEW c \in Calls, Abort(c), pc[c] \notin Late
       PROVE  Quiet
  BY <1>11 DEF Abort, Return, Quiet, Stays, Late, TypeOK
<1>8. CASE Admin \/ NextMonth
  BY <1>8 DEF Admin, Suspend, Unsuspend, UpdateBudget, Link, Unlink, NextMonth,
              Quiet, Stays, usageVars, callVars
<1>9. CASE UNCHANGED vars
  BY <1>9 DEF vars, Quiet, Stays, usageVars, callVars
<1> QED
  BY <1>1, <1>2, <1>3, <1>4, <1>5, <1>6, <1>7, <1>8, <1>9, <1>10, <1>11
  DEF Next, Proceed

-----------------------------------------------------------------------------
(* Alerts.                                                                 *)

\* Spend only grows, so what a call read is not above what there is.
SnapshotInv ==
    \A c \in Calls : pc[c] \in Late => v[c].spend <= spend[v[c].month]

LEMMA SpendGrows ==
    ASSUME TypeOK, TypeOK', [Next]_vars
    PROVE  \A m \in Months : spend[m] <= spend'[m]
<1>1. CASE Quiet \/ \E c \in Calls : Joins(c)
  BY <1>1 DEF Quiet, Joins, TypeOK
<1>2. ASSUME NEW c \in Calls, Leaves(c)
      PROVE  \A m \in Months : spend[m] <= spend'[m]
  <2>1. v[c].cost \in Nat /\ v[c].month \in Months
    BY <1>2, LocalFields DEF Leaves, Late
  <2>2. spend \in [Months -> Nat]
    BY DEF TypeOK
  <2> QED
    BY <1>2, <2>1, <2>2 DEF Leaves, Charged
<1> QED
  BY <1>1, <1>2, StepShape

LEMMA SnapshotStep ==
    ASSUME TypeOK, TypeOK', SnapshotInv, [Next]_vars
    PROVE  SnapshotInv'
<1> SUFFICES ASSUME NEW d \in Calls, pc'[d] \in Late
             PROVE  v'[d].spend <= spend'[v'[d].month]
  BY DEF SnapshotInv
<1>1. ASSUME Stays(d)
      PROVE  v'[d].spend <= spend'[v'[d].month]
  <2>1. /\ pc[d] \in Late /\ v'[d].month = v[d].month
        /\ v'[d].spend = v[d].spend
    BY <1>1 DEF Stays
  <2>2. v[d].spend \in Nat /\ v[d].month \in Months
    BY <2>1, LocalFields DEF Late
  <2>3. v[d].spend <= spend[v[d].month]
    BY <2>1 DEF SnapshotInv
  <2>4. spend[v[d].month] <= spend'[v[d].month]
    BY <2>2, SpendGrows
  <2>5. spend[v[d].month] \in Nat /\ spend'[v[d].month] \in Nat
    BY <2>2 DEF TypeOK
  <2> QED
    BY <2>1, <2>2, <2>3, <2>4, <2>5
<1>2. ASSUME Joins(d)
      PROVE  v'[d].spend <= spend'[v'[d].month]
  <2>1. v[d].month \in Months
    BY <1>2, LocalFields DEF Joins
  <2>2. spend[v[d].month] \in Nat
    BY <2>1 DEF TypeOK
  <2> QED
    BY <1>2, <2>2 DEF Joins
<1> QED
  BY <1>1, <1>2, StepShape DEF Quiet, Joins, Leaves

LEMMA AlertsStep ==
    ASSUME TypeOK, TypeOK', SnapshotInv, AlertsTrue, [Next]_vars
    PROVE  AlertsTrue'
<1> DEFINE Fits(a) ==
      /\ 2 * a.spend_at_trigger <= 2 * spend'[a.month] + AlertUnit
      /\ 100 * (2 * a.spend_at_trigger + AlertUnit)
           >= 2 * a.threshold_pct * a.budget_usd
<1>0. AlertUnit \in Nat \ {0}
  BY GateAssumption
<1>1. ASSUME NEW a \in alerts
      PROVE  Fits(a)
  <2>1. a.month \in Months /\ a.spend_at_trigger \in Nat
    BY DEF TypeOK, Alert
  <2>2. /\ 2 * a.spend_at_trigger <= 2 * spend[a.month] + AlertUnit
        /\ 100 * (2 * a.spend_at_trigger + AlertUnit)
             >= 2 * a.threshold_pct * a.budget_usd
    BY DEF AlertsTrue
  <2>3. spend[a.month] <= spend'[a.month]
    BY <2>1, SpendGrows
  <2>4. spend[a.month] \in Nat /\ spend'[a.month] \in Nat
    BY <2>1 DEF TypeOK
  <2> QED
    BY <1>0, <2>1, <2>2, <2>3, <2>4
<1>2. CASE alerts' = alerts
  BY <1>1, <1>2 DEF AlertsTrue
<1>3. ASSUME NEW c \in Calls, pc[c] \in Late, spend' = Charged(c),
             alerts' = alerts \cup FiredAlerts(c)
      PROVE  AlertsTrue'
  <2>1. ASSUME NEW a \in FiredAlerts(c)
        PROVE  Fits(a)
    <3>1. /\ a.month = v[c].month
          /\ a.spend_at_trigger = Rounded(Reported(c), AlertUnit)
          /\ a.budget_usd = v[c].budget /\ a.threshold_pct \in Thresholds
          /\ 100 * Reported(c) >= a.threshold_pct * v[c].budget
      BY DEF FiredAlerts
    <3>2. /\ v[c].spend \in Nat /\ v[c].cost \in Nat /\ v[c].month \in Months
          /\ v[c].budget \in Nat /\ spend[v[c].month] \in Nat
      BY <1>3, LocalFields DEF Late, TypeOK
    <3>3. v[c].spend <= spend[v[c].month]
      BY <1>3 DEF SnapshotInv
    <3>4. spend'[v[c].month] = spend[v[c].month] + v[c].cost
      BY <1>3, <3>2 DEF Charged, TypeOK
    <3>5. Reported(c) \in Nat /\ Reported(c) <= spend'[v[c].month]
      BY <3>2, <3>3, <3>4 DEF Reported
    <3>6. /\ a.spend_at_trigger \in Nat
          /\ 2 * a.spend_at_trigger <= 2 * Reported(c) + AlertUnit
          /\ 2 * a.spend_at_trigger >= 2 * Reported(c) - AlertUnit
      BY <1>0, <3>1, <3>5, RoundedNear
    <3>7. a.threshold_pct \in Nat
      BY <3>1, GateAssumption
    <3>8. 2 * a.threshold_pct * v[c].budget = 2 * (a.threshold_pct * v[c].budget)
      BY <3>2, <3>7
    <3>9. a.threshold_pct * v[c].budget \in Nat
      BY <3>2, <3>7
    <3>10. 2 * a.spend_at_trigger <= 2 * spend'[a.month] + AlertUnit
      BY <1>0, <3>1, <3>2, <3>4, <3>5, <3>6
    <3>11. 100 * (2 * a.spend_at_trigger + AlertUnit) >= 2 * (100 * Reported(c))
      BY <1>0, <3>5, <3>6
    <3>12. 2 * (100 * Reported(c)) >= 2 * (a.threshold_pct * v[c].budget)
      BY <3>1, <3>5, <3>9
    <3>13. 100 * (2 * a.spend_at_trigger + AlertUnit)
             >= 2 * a.threshold_pct * a.budget_usd
      BY <1>0, <3>1, <3>5, <3>6, <3>8, <3>9, <3>11, <3>12
    <3> QED
      BY <3>10, <3>13
  <2> QED
    BY <1>1, <1>3, <2>1 DEF AlertsTrue
<1> QED
  BY <1>2, <1>3, StepShape DEF Quiet, Joins, Leaves

\* No alert is false: the spend it names was reached in its month, and is its
\* share of the budget the call had read, up to the rounding of the figure.
THEOREM AlertsAreTrue == Spec => []AlertsTrue
<1> DEFINE IInv == TypeOK /\ SnapshotInv /\ AlertsTrue
<1>1. Init => IInv
  BY InitTypeOK DEF Init, SnapshotInv, AlertsTrue, Late
<1>2. IInv /\ [Next]_vars => IInv'
  BY NextTypeOK, SnapshotStep, AlertsStep
<1>3. IInv => AlertsTrue
  OBVIOUS
<1> QED
  BY <1>1, <1>2, <1>3, PTL DEF Spec

-----------------------------------------------------------------------------
(* Over-spend.                                                             *)

LEMMA TimesLess ==
    ASSUME NEW k \in Nat, NEW n \in Int
    PROVE  k * (n - 1) = k * n - k /\ k * n \in Int
OBVIOUS

LEMMA TimesMonotone ==
    ASSUME NEW k \in Nat, NEW a \in Int, NEW b \in Int, a <= b
    PROVE  k * a <= k * b
<1>1. b - a \in Nat
  OBVIOUS
<1>2. k * (b - a) >= 0
  BY <1>1
<1>3. k * (b - a) = k * b - k * a
  OBVIOUS
<1> QED
  BY <1>2, <1>3

LEMMA CallsFinite ==
    ASSUME NEW S, S \subseteq Calls
    PROVE  /\ IsFiniteSet(S)
           /\ Cardinality(S) \in Nat
           /\ Cardinality(S) <= Cardinality(Calls)
           /\ Cardinality(Calls) \in Nat
           /\ \A c \in S : /\ IsFiniteSet(S \ {c})
                           /\ Cardinality(S \ {c}) = Cardinality(S) - 1
<1>1. IsFiniteSet(Calls)
  BY GateAssumption
<1>2. IsFiniteSet(S) /\ Cardinality(S) <= Cardinality(Calls)
  BY <1>1, FS_Subset
<1>3. Cardinality(S) \in Nat /\ Cardinality(Calls) \in Nat
  BY <1>1, <1>2, FS_CardinalityType
<1>4. \A c \in S : /\ IsFiniteSet(S \ {c})
                  /\ Cardinality(S \ {c}) = Cardinality(S) - 1
  BY <1>2, FS_RemoveElement
<1> QED
  BY <1>2, <1>3, <1>4

LEMMA CallsSomeone == Cardinality(Calls) >= 1
<1>1. PICK c : c \in Calls
  BY GateAssumption
<1>2. Cardinality(Calls \ {c}) = Cardinality(Calls) - 1
  BY <1>1, CallsFinite
<1>3. Cardinality(Calls \ {c}) \in Nat /\ Cardinality(Calls) \in Nat
  BY CallsFinite
<1> QED
  BY <1>2, <1>3

\* A call's copy of the budget is a budget there was.
BudgetInv == \A c \in Calls : pc[c] # "idle" => v[c].budget <= highest

\* The bound, less what the admitted calls may still cost.  All of them may
\* cost the maximum, or one of them, the last to read the spend, was admitted
\* with its own cost counted.
Ceiling == highest + MaxCost * (Cardinality(Calls) - 1)
ExposureInv ==
    \A m \in Months :
      \/ spend[m] + MaxCost * Cardinality(Admitted(m)) <= Ceiling
      \/ \E r \in Admitted(m) :
           spend[m] + v[r].cost + MaxCost * (Cardinality(Admitted(m)) - 1)
             <= Ceiling

LEMMA BudgetStep ==
    ASSUME TypeOK, TypeOK', BudgetInv, [Next]_vars
    PROVE  BudgetInv' /\ highest <= highest'
<1> USE DEF BudgetInv
<1>1. /\ highest \in Nat /\ highest' \in Nat /\ budget \in Nat
      /\ budget <= highest /\ budget' <= highest'
  BY GateAssumption DEF TypeOK
<1>2. ASSUME NEW c \in Calls, NEW u \in Users, NEW cost \in Costs,
             Start(c, u, cost)
      PROVE  BudgetInv' /\ highest <= highest'
  BY <1>1, <1>2 DEF Start, TypeOK, history
<1>3. ASSUME NEW c \in Calls, ReadWorkspace(c)
      PROVE  BudgetInv' /\ highest <= highest'
  <2>1. v'[c] = [v[c] EXCEPT !.budget = budget] /\ v[c] \in Local
    BY <1>3, LocalFields DEF ReadWorkspace, TypeOK
  <2>2. v'[c].budget = budget
    BY <2>1 DEF Local
  <2> QED
    BY <1>1, <1>3, <2>2 DEF ReadWorkspace, TypeOK, history
<1>4. ASSUME NEW c \in Calls, ReadSpend(c)
      PROVE  BudgetInv' /\ highest <= highest'
  <2>1. /\ v'[c] = [v[c] EXCEPT !.spend = spend[v[c].month], !.user_month = month]
        /\ v[c] \in Local
    BY <1>4, LocalFields DEF ReadSpend, TypeOK
  <2>2. v'[c].budget = v[c].budget
    BY <2>1 DEF Local
  <2> QED
    BY <1>1, <1>4, <2>2 DEF ReadSpend, TypeOK, history
<1>5. ASSUME NEW c \in Calls, UserGate(c)
      PROVE  BudgetInv' /\ highest <= highest'
  <2>1. PICK allowed \in BOOLEAN : v' = [v EXCEPT ![c].allowed = allowed]
    BY <1>5 DEF UserGate
  <2>2. v'[c] = [v[c] EXCEPT !.allowed = allowed] /\ v[c] \in Local
    BY <1>5, <2>1, LocalFields DEF UserGate, TypeOK
  <2>3. v'[c].budget = v[c].budget
    BY <2>2 DEF Local
  <2> QED
    BY <1>1, <1>5, <2>1, <2>3 DEF UserGate, TypeOK, history
<1>6. ASSUME NEW c \in Calls, LockAggregate(c)
      PROVE  BudgetInv' /\ highest <= highest'
  BY <1>1, <1>6 DEF LockAggregate, TypeOK, history
<1>7. ASSUME NEW c \in Calls, Return(c), highest' = highest
      PROVE  BudgetInv' /\ highest <= highest'
  BY <1>1, <1>7 DEF Return, TypeOK
<1>8. ASSUME NEW b \in Budgets, UpdateBudget(b)
      PROVE  BudgetInv' /\ highest <= highest'
  <2>1. b \in Nat
    BY GateAssumption
  <2>2. highest <= highest'
    BY <1>1, <1>8, <2>1 DEF UpdateBudget
  <2>3. \A c \in Calls : pc[c] # "idle" => v[c].budget \in Nat
    BY LocalFields
  <2> QED
    BY <1>1, <1>8, <2>2, <2>3 DEF UpdateBudget, callVars
<1>9. CASE UNCHANGED <<pc, v, highest>>
  BY <1>1, <1>9
<1> QED
  BY <1>2, <1>3, <1>4, <1>5, <1>6, <1>7, <1>8, <1>9
  DEF Next, Proceed, Admin, WorkspaceSuspended, CapBlocked, CommitAllowed,
      CommitDenied, Abort, Suspend, Unsuspend, Link, Unlink, NextMonth, vars,
      history, callVars

LEMMA StaysAdmitted ==
    ASSUME NEW d \in Calls, Stays(d), NEW m
    PROVE  /\ d \in Admitted(m)' <=> d \in Admitted(m)
           /\ d \in Admitted(m) => v'[d].cost = v[d].cost
BY DEF Stays, Admitted

\* The exposure of one month, whatever happened to the calls of the others.
LEMMA ExposureStep ==
    ASSUME TypeOK, TypeOK', BudgetInv, ExposureInv, [Next]_vars
    PROVE  ExposureInv'
<1> SUFFICES ASSUME NEW m \in Months
             PROVE  \/ spend'[m] + MaxCost * Cardinality(Admitted(m)') <= Ceiling'
                    \/ \E r \in Admitted(m)' :
                         spend'[m] + v'[r].cost
                           + MaxCost * (Cardinality(Admitted(m)') - 1) <= Ceiling'
  BY DEF ExposureInv
<1> DEFINE A == Admitted(m)
           B == Admitted(m)'
           n == Cardinality(A)
           top == MaxCost * (Cardinality(Calls) - 1)
<1>1. /\ MaxCost \in Nat /\ highest \in Nat /\ highest' \in Nat
      /\ spend[m] \in Nat /\ spend'[m] \in Nat
  BY GateAssumption DEF TypeOK
<1>2. highest <= highest'
  BY BudgetStep
<1>3. A \subseteq Calls /\ B \subseteq Calls
  BY DEF Admitted
<1>4. /\ n \in Nat /\ Cardinality(Calls) \in Nat /\ n <= Cardinality(Calls)
      /\ \A c \in A : Cardinality(A \ {c}) = n - 1
      /\ Cardinality(B) \in Nat
      /\ \A c \in B : Cardinality(B \ {c}) = Cardinality(B) - 1
  BY <1>3, CallsFinite
<1>5. /\ top \in Nat /\ Ceiling = highest + top /\ Ceiling' = highest' + top
      /\ MaxCost * n \in Nat /\ MaxCost * (n - 1) = MaxCost * n - MaxCost
  <2>1. Cardinality(Calls) - 1 \in Nat
    BY <1>4, CallsSomeone
  <2>2. top \in Nat
    BY <1>1, <2>1
  <2>3. MaxCost * n \in Nat /\ MaxCost * (n - 1) = MaxCost * n - MaxCost
    BY <1>1, <1>4, TimesLess
  <2> QED
    BY <2>2, <2>3 DEF Ceiling
<1>6. \A r \in A : v[r].cost \in Nat /\ v[r].cost <= MaxCost
  BY LocalFields DEF Admitted, Late
<1>7. \/ spend[m] + MaxCost * n <= highest + top
      \/ \E r \in A : spend[m] + v[r].cost + MaxCost * (n - 1) <= highest + top
  BY <1>5 DEF ExposureInv
<1>8. CASE spend'[m] = spend[m] /\ B = A /\ \A r \in A : v'[r].cost = v[r].cost
  BY <1>1, <1>2, <1>5, <1>6, <1>7, <1>8
<1>9. CASE Quiet
  <2>1. B = A /\ \A r \in A : v'[r].cost = v[r].cost
    BY <1>3, <1>9, StaysAdmitted DEF Quiet
  <2> QED
    BY <1>8, <1>9, <2>1 DEF Quiet
<1>10. ASSUME NEW c \in Calls, Joins(c)
       PROVE  \/ spend'[m] + MaxCost * Cardinality(B) <= Ceiling'
              \/ \E r \in B : spend'[m] + v'[r].cost
                                + MaxCost * (Cardinality(B) - 1) <= Ceiling'
  <2>1. c \notin A /\ spend'[m] = spend[m]
    BY <1>10 DEF Joins, Admitted, Late
  <2>2. B \ {c} = A /\ \A r \in A : v'[r].cost = v[r].cost
    BY <1>3, <1>10, <2>1, StaysAdmitted DEF Joins
  <2>3. CASE v[c].month # m
    <3>1. c \notin B
      BY <1>10, <2>3 DEF Joins, Admitted
    <3> QED
      BY <1>8, <2>1, <2>2, <3>1
  <2>4. CASE v[c].month = m
    <3>1. c \in B
      BY <1>10, <2>4 DEF Joins, Admitted
    <3>2. Cardinality(B) - 1 = n /\ n <= Cardinality(Calls) - 1
      <4>1. Cardinality(B) <= Cardinality(Calls)
        BY <1>3, CallsFinite
      <4>2. Cardinality(B) - 1 = n
        BY <1>4, <2>2, <3>1
      <4> QED
        BY <1>4, <4>1, <4>2
    <3>3. MaxCost * n <= top
      BY <1>1, <1>4, <3>2, TimesMonotone
    <3>4. v'[c].cost = v[c].cost /\ v[c].cost \in Nat /\ v[c].budget \in Nat
      BY <1>10, LocalFields DEF Joins
    <3>5. spend[m] + v[c].cost <= v[c].budget
      BY <1>1, <1>10, <2>4, <3>4 DEF Joins, OverCap
    <3>6. v[c].budget <= highest
      BY <1>10 DEF Joins, BudgetInv
    <3>7. spend'[m] + v'[c].cost + MaxCost * (Cardinality(B) - 1) <= Ceiling'
      BY <1>1, <1>2, <1>5, <2>1, <3>2, <3>3, <3>4, <3>5, <3>6
    <3> QED
      BY <3>1, <3>7
  <2> QED
    BY <2>3, <2>4
<1>11. ASSUME NEW c \in Calls, Leaves(c)
       PROVE  \/ spend'[m] + MaxCost * Cardinality(B) <= Ceiling'
              \/ \E r \in B : spend'[m] + v'[r].cost
                                + MaxCost * (Cardinality(B) - 1) <= Ceiling'
  <2>1. c \notin B
    BY <1>11 DEF Leaves, Admitted
  <2>2. B = A \ {c} /\ \A r \in A \ {c} : v'[r].cost = v[r].cost
    BY <1>3, <1>11, <2>1, StaysAdmitted DEF Leaves
  <2>3. v[c].cost \in Nat /\ v[c].month \in Months
    BY <1>11, LocalFields DEF Leaves, Late
  <2>4. CASE v[c].month # m
    <3>1. c \notin A
      BY <2>4 DEF Admitted
    <3>2. spend'[m] = spend[m]
      BY <1>11, <2>3, <2>4 DEF Leaves, Charged, TypeOK
    <3> QED
      BY <1>8, <2>2, <3>1, <3>2
  <2>5. CASE v[c].month = m
    <3>1. c \in A
      BY <1>11, <2>5 DEF Leaves, Admitted
    <3>2. Cardinality(B) = n - 1
      BY <1>4, <2>2, <3>1
    <3>3. spend'[m] <= spend[m] + v[c].cost
      BY <1>1, <1>11, <2>3, <2>5 DEF Leaves, Charged, TypeOK
    <3>4. v[c].cost <= MaxCost
      BY <1>6, <3>1
    <3>5. MaxCost * (Cardinality(B) - 1) = MaxCost * (n - 1) - MaxCost
      BY <1>1, <1>4, <3>2, TimesLess
    <3>6. CASE spend[m] + MaxCost * n <= highest + top
      BY <1>1, <1>2, <1>5, <2>3, <3>2, <3>3, <3>4, <3>6
    <3>7. ASSUME NEW r \in A,
                 spend[m] + v[r].cost + MaxCost * (n - 1) <= highest + top
          PROVE  \/ spend'[m] + MaxCost * Cardinality(B) <= Ceiling'
                 \/ \E q \in B : spend'[m] + v'[q].cost
                                   + MaxCost * (Cardinality(B) - 1) <= Ceiling'
      <4>1. CASE r = c
        BY <1>1, <1>2, <1>5, <2>3, <3>2, <3>3, <3>7, <4>1
      <4>2. CASE r # c
        <5>1. r \in B /\ v'[r].cost = v[r].cost /\ v[r].cost \in Nat
          BY <1>6, <2>2, <4>2
        <5>2. spend'[m] + v'[r].cost + MaxCost * (Cardinality(B) - 1) <= Ceiling'
          BY <1>1, <1>2, <1>5, <2>3, <3>3, <3>4, <3>5, <3>7, <5>1
        <5> QED
          BY <5>1, <5>2
      <4> QED
        BY <4>1, <4>2
    <3> QED
      BY <1>7, <3>6, <3>7
  <2> QED
    BY <2>4, <2>5
<1> QED
  BY <1>9, <1>10, <1>11, StepShape

LEMMA ExposureBounds ==
    ASSUME TypeOK, ExposureInv
    PROVE  BoundedOverspend
<1> SUFFICES ASSUME NEW m \in Months
             PROVE  spend[m] <= Ceiling
  BY DEF BoundedOverspend, Ceiling
<1>1. MaxCost \in Nat /\ spend[m] \in Nat /\ highest \in Nat
  BY GateAssumption DEF TypeOK
<1>2. Admitted(m) \subseteq Calls
  BY DEF Admitted
<1>3. /\ Cardinality(Admitted(m)) \in Nat /\ Cardinality(Calls) \in Nat
      /\ \A r \in Admitted(m) : Cardinality(Admitted(m) \ {r})
                                 = Cardinality(Admitted(m)) - 1
  BY <1>2, CallsFinite
<1>4. Ceiling \in Int
  BY <1>1, <1>3, TimesLess DEF Ceiling
<1>5. CASE spend[m] + MaxCost * Cardinality(Admitted(m)) <= Ceiling
  <2>1. MaxCost * Cardinality(Admitted(m)) \in Nat
    BY <1>1, <1>3
  <2> QED
    BY <1>1, <1>4, <1>5, <2>1
<1>6. ASSUME NEW r \in Admitted(m),
             spend[m] + v[r].cost + MaxCost * (Cardinality(Admitted(m)) - 1)
               <= Ceiling
      PROVE  spend[m] <= Ceiling
  <2>1. Cardinality(Admitted(m)) - 1 \in Nat
    <3>1. Cardinality(Admitted(m) \ {r}) \in Nat
      BY <1>2, CallsFinite
    <3> QED
      BY <1>3, <3>1
  <2>2. MaxCost * (Cardinality(Admitted(m)) - 1) \in Nat
    BY <1>1, <2>1
  <2>3. v[r].cost \in Nat
    BY LocalFields DEF Admitted, Late
  <2> QED
    BY <1>1, <1>4, <1>6, <2>2, <2>3
<1> QED
  BY <1>5, <1>6 DEF ExposureInv

LEMMA InitExposure == Init => BudgetInv /\ ExposureInv
<1> SUFFICES ASSUME Init, NEW m \in Months
             PROVE  spend[m] + MaxCost * Cardinality(Admitted(m)) <= Ceiling
  BY DEF Init, BudgetInv, ExposureInv
<1>1. MaxCost \in Nat /\ highest \in Nat /\ spend[m] = 0
  BY GateAssumption DEF Init
<1>2. Admitted(m) = {}
  BY DEF Init, Admitted, Late
<1>3. Cardinality(Admitted(m)) = 0
  BY <1>2, FS_EmptySet
<1>4. Cardinality(Calls) - 1 \in Nat
  BY CallsSomeone, CallsFinite
<1>5. MaxCost * (Cardinality(Calls) - 1) \in Nat
  BY <1>1, <1>4
<1>6. MaxCost * Cardinality(Admitted(m)) = 0
  BY <1>1, <1>3
<1> QED
  BY <1>1, <1>5, <1>6 DEF Ceiling

\* Over-spend is bounded by what the other calls in flight can cost, although
\* the check of the cap reads the spend without a lock.
THEOREM OverspendBounded == Spec => []BoundedOverspend
<1> DEFINE IInv == TypeOK /\ BudgetInv /\ ExposureInv
<1>1. Init => IInv
  BY InitTypeOK, InitExposure
<1>2. IInv /\ [Next]_vars => IInv'
  BY NextTypeOK, BudgetStep, ExposureStep
<1>3. IInv => BoundedOverspend
  BY ExposureBounds
<1> QED
  BY <1>1, <1>2, <1>3, PTL DEF Spec

-----------------------------------------------------------------------------
(* How late an alert can be.                                               *)

Slack == MaxCost * (Cardinality(Calls) - 1)
Share(t) == t * highest

\* So much spend is below the threshold, give or take the calls in flight.
Below(x, t) == 100 * (x - Slack) < Share(t)

Fired(m, t) == \E a \in alerts : a.month = m /\ a.threshold_pct = t

\* The admitted calls whose commit would fire no alert of this threshold: they
\* read the spend while it was still below.
Silent(m, t) == {c \in Admitted(m) : ~(100 * Reported(c) >= t * v[c].budget)}

\* Without an alert, spend is below the threshold even if all silent calls are
\* charged the maximum, or if one of them, the last to read the spend, is
\* charged its own cost.
LagInv ==
    \A m \in Months, t \in Thresholds :
      ~Fired(m, t) =>
        \/ Below(spend[m] + MaxCost * Cardinality(Silent(m, t)), t)
        \/ \E r \in Silent(m, t) :
             Below(spend[m] + v[r].cost + MaxCost * (Cardinality(Silent(m, t)) - 1), t)

LEMMA SlackType == Slack \in Nat
<1>1. Cardinality(Calls) - 1 \in Nat
  BY CallsSomeone, CallsFinite
<1> QED
  BY <1>1, GateAssumption DEF Slack

LEMMA ShareType ==
    ASSUME TypeOK, NEW t \in Thresholds
    PROVE  Share(t) \in Nat
BY GateAssumption DEF Share, TypeOK

LEMMA Scales ==
    ASSUME NEW t \in Nat, NEW a \in Nat, NEW b \in Nat, a <= b
    PROVE  t * a \in Nat /\ t * b \in Nat /\ t * a <= t * b
BY TimesMonotone

LEMMA ShareGrows ==
    ASSUME TypeOK, TypeOK', highest <= highest', NEW t \in Thresholds
    PROVE  Share(t) \in Nat /\ Share(t)' \in Nat /\ Share(t) <= Share(t)'
<1>1. t \in Nat /\ highest \in Nat /\ highest' \in Nat
  BY GateAssumption DEF TypeOK
<1>2. t * highest \in Nat /\ t * highest' \in Nat /\ t * highest <= t * highest'
  BY <1>1, Scales, Zenon
<1> QED
  BY <1>2, Zenon DEF Share

LEMMA StaysSilent ==
    ASSUME NEW d \in Calls, Stays(d), NEW m, NEW t
    PROVE  /\ d \in Silent(m, t)' <=> d \in Silent(m, t)
           /\ d \in Silent(m, t) => v'[d].cost = v[d].cost
BY DEF Stays, Silent, Admitted, Reported

LEMMA LagStep ==
    ASSUME TypeOK, TypeOK', BudgetInv, LagInv, [Next]_vars
    PROVE  LagInv'
<1>0. Slack' = Slack
  BY DEF Slack
<1> SUFFICES ASSUME NEW m \in Months, NEW t \in Thresholds, ~Fired(m, t)'
             PROVE  (\/ Below(spend[m] + MaxCost * Cardinality(Silent(m, t)), t)
                     \/ \E r \in Silent(m, t) :
                          Below(spend[m] + v[r].cost
                                  + MaxCost * (Cardinality(Silent(m, t)) - 1), t))'
  BY DEF LagInv
<1> DEFINE Under(x) == 100 * (x - Slack) < Share(t)'
           S == Silent(m, t)
           T == Silent(m, t)'
           n == Cardinality(S)
           below == \/ Under(spend'[m] + MaxCost * Cardinality(T))
                    \/ \E r \in T :
                         Under(spend'[m] + v'[r].cost + MaxCost * (Cardinality(T) - 1))
<1> SUFFICES below
  BY <1>0 DEF Below
<1>1. /\ MaxCost \in Nat /\ Slack \in Nat
      /\ spend[m] \in Nat /\ spend'[m] \in Nat
  BY GateAssumption, SlackType DEF TypeOK
<1>2. Share(t) \in Nat /\ Share(t)' \in Nat /\ Share(t) <= Share(t)'
  BY BudgetStep, ShareGrows
<1>3. ASSUME NEW x \in Int, NEW y \in Int, y <= x, Below(x, t)
      PROVE  Under(y)
  BY <1>1, <1>2, <1>3 DEF Below
<1> HIDE DEF Under
<1>4. S \subseteq Calls /\ T \subseteq Calls
  BY DEF Silent, Admitted
<1>5. /\ n \in Nat /\ Cardinality(T) \in Nat /\ Cardinality(Calls) \in Nat
      /\ Cardinality(T) <= Cardinality(Calls)
      /\ \A c \in S : Cardinality(S \ {c}) = n - 1
      /\ \A c \in T : Cardinality(T \ {c}) = Cardinality(T) - 1
  BY <1>4, CallsFinite
<1>6. /\ MaxCost * n \in Int /\ MaxCost * (n - 1) = MaxCost * n - MaxCost
      /\ MaxCost * ((n - 1) - 1) = MaxCost * (n - 1) - MaxCost
      /\ MaxCost * (n - 1) \in Int /\ MaxCost * ((n - 1) - 1) \in Int
  BY <1>1, <1>5, TimesLess
<1>7. \A r \in S : v[r].cost \in Nat /\ v[r].cost <= MaxCost
  BY LocalFields DEF Silent, Admitted, Late
<1>8. ~Fired(m, t) =>
        \/ Below(spend[m] + MaxCost * n, t)
        \/ \E r \in S : Below(spend[m] + v[r].cost + MaxCost * (n - 1), t)
  BY DEF LagInv
<1>9. ASSUME NEW r \in T,
             Under(spend'[m] + v'[r].cost + MaxCost * (Cardinality(T) - 1))
      PROVE  below
  BY <1>9
<1>10. ASSUME Under(spend'[m] + MaxCost * Cardinality(T))
       PROVE  below
  BY <1>10
<1>11. ASSUME ~Fired(m, t), spend'[m] = spend[m], T = S,
              \A r \in S : v'[r].cost = v[r].cost
       PROVE  below
  <2>1. CASE Below(spend[m] + MaxCost * n, t)
    <3>1. PICK x \in Int : x = spend[m] + MaxCost * n
      BY <1>1, <1>6
    <3>2. Under(x)
      BY <1>3, <2>1, <3>1
    <3> QED
      BY <1>10, <1>11, <3>1, <3>2
  <2>2. ASSUME NEW r \in S, Below(spend[m] + v[r].cost + MaxCost * (n - 1), t)
        PROVE  below
    <3>1. PICK x \in Int : x = spend[m] + v[r].cost + MaxCost * (n - 1)
      BY <1>1, <1>6, <1>7
    <3>2. Under(x)
      BY <1>3, <2>2, <3>1
    <3> QED
      BY <1>9, <1>11, <3>1, <3>2
  <2> QED
    BY <1>8, <1>11, <2>1, <2>2
<1>12. CASE Quiet
  <2>1. T = S /\ \A r \in S : v'[r].cost = v[r].cost
    BY <1>4, <1>12, StaysSilent DEF Quiet
  <2> QED
    BY <1>11, <1>12, <2>1 DEF Quiet, Fired
<1>13. ASSUME NEW c \in Calls, Joins(c)
       PROVE  below
  <2>1. c \notin S /\ spend'[m] = spend[m] /\ ~Fired(m, t)
    BY <1>13 DEF Joins, Silent, Admitted, Late, Fired
  <2>2. T \ {c} = S /\ \A r \in S : v'[r].cost = v[r].cost
    BY <1>4, <1>13, <2>1, StaysSilent DEF Joins
  <2>3. CASE c \notin T
    BY <1>11, <2>1, <2>2, <2>3
  <2>4. CASE c \in T
    <3>1. /\ v'[c].cost \in Nat /\ v'[c].spend \in Nat /\ v'[c].budget \in Nat
          /\ v'[c].budget = v[c].budget /\ pc[c] # "idle"
          /\ v'[c].spend = spend[m]
      <4>1. /\ v[c].cost \in Nat /\ v[c].budget \in Nat /\ v[c].month \in Months
        BY <1>13, LocalFields DEF Joins
      <4>2. v[c].month = m
        BY <1>13, <2>4 DEF Joins, Silent, Admitted
      <4> QED
        BY <1>1, <1>13, <4>1, <4>2 DEF Joins
    <3>2. 100 * (spend[m] + v'[c].cost) < t * v'[c].budget
      <4>1. ~(100 * (v'[c].spend + v'[c].cost) >= t * v'[c].budget)
        BY <2>4 DEF Silent, Reported
      <4>2. t * v'[c].budget \in Int
        BY <3>1, GateAssumption
      <4> QED
        BY <3>1, <4>1, <4>2
    <3>3. t * v'[c].budget \in Int /\ t * v'[c].budget <= Share(t)
      <4>1. v[c].budget <= highest /\ highest \in Nat /\ t \in Nat
        BY <3>1, GateAssumption DEF BudgetInv, TypeOK
      <4> QED
        BY <3>1, <4>1, TimesMonotone DEF Share
    <3>4. Cardinality(T) - 1 = n /\ n <= Cardinality(Calls) - 1
      BY <1>5, <2>2, <2>4
    <3>5. MaxCost * n <= Slack
      BY <1>1, <1>5, <3>4, TimesMonotone DEF Slack
    <3>6. Under(spend[m] + v'[c].cost + MaxCost * n)
      <4>1. 100 * (spend[m] + v'[c].cost + MaxCost * n - Slack)
              <= 100 * (spend[m] + v'[c].cost)
        BY <1>1, <1>6, <3>1, <3>5
      <4> QED
        BY <1>1, <1>2, <1>6, <3>1, <3>2, <3>3, <4>1 DEF Under
    <3> QED
      BY <1>9, <2>1, <2>4, <3>4, <3>6
  <2> QED
    BY <2>3, <2>4
<1>14. ASSUME NEW c \in Calls, Leaves(c)
       PROVE  below
  <2>1. c \notin T
    BY <1>14 DEF Leaves, Silent, Admitted
  <2>2. T = S \ {c} /\ \A r \in S \ {c} : v'[r].cost = v[r].cost
    BY <1>4, <1>14, <2>1, StaysSilent DEF Leaves
  <2>3. v[c].cost \in Nat /\ v[c].cost <= MaxCost /\ v[c].month \in Months
    BY <1>14, LocalFields DEF Leaves, Late
  <2>4. ~Fired(m, t)
    BY <1>14 DEF Leaves, Fired
  <2>5. /\ spend'[m] = spend[m] \/ c \in S
        /\ spend[m] <= spend'[m] /\ spend'[m] <= spend[m] + v[c].cost
    <3>1. CASE spend' = spend
      BY <1>1, <2>3, <3>1
    <3>2. CASE v[c].month # m /\ spend' = Charged(c)
      <4>1. spend'[m] = spend[m]
        BY <2>3, <3>2 DEF Charged, TypeOK
      <4> QED
        BY <1>1, <2>3, <4>1
    <3>3. CASE /\ v[c].month = m /\ spend' = Charged(c)
               /\ alerts' = alerts \cup FiredAlerts(c)
      <4>1. spend'[m] = spend[m] + v[c].cost
        BY <3>3 DEF Charged, TypeOK
      <4>2. ~(100 * Reported(c) >= t * v[c].budget)
        <5> SUFFICES ASSUME 100 * Reported(c) >= t * v[c].budget PROVE FALSE
          OBVIOUS
        <5> DEFINE a == [month |-> m, threshold_pct |-> t,
                         spend_at_trigger |-> Rounded(Reported(c), AlertUnit),
                         budget_usd |-> v[c].budget]
        <5>1. a.month = m /\ a.threshold_pct = t
          OBVIOUS
        <5>2. \A b \in alerts : b.month = m => b.threshold_pct # t
          BY <2>4 DEF Fired
        <5>3. a \in FiredAlerts(c)
          BY <3>3, <5>2 DEF FiredAlerts
        <5> HIDE DEF a
        <5> QED
          BY <3>3, <5>1, <5>3 DEF Fired
      <4>3. c \in S
        BY <1>14, <3>3, <4>2 DEF Leaves, Silent, Admitted
      <4> QED
        BY <1>1, <2>3, <4>1, <4>3
    <3> QED
      BY <1>14, <3>1, <3>2, <3>3 DEF Leaves
  <2>6. CASE c \notin S
    BY <1>11, <2>2, <2>4, <2>5, <2>6
  <2>7. CASE c \in S
    <3>1. Cardinality(T) = n - 1
      BY <1>5, <2>2, <2>7
    <3>2. ASSUME NEW x \in Int, Below(x, t), spend[m] + v[c].cost + MaxCost * (n - 1) <= x
          PROVE  below
      <4>1. PICK y \in Int : y = spend'[m] + MaxCost * (n - 1)
        BY <1>1, <1>6
      <4>2. y <= x
        BY <1>1, <1>6, <2>3, <2>5, <3>2, <4>1
      <4>3. Under(y)
        BY <1>3, <3>2, <4>2
      <4> QED
        BY <1>10, <3>1, <4>1, <4>3
    <3>3. CASE Below(spend[m] + MaxCost * n, t)
      <4>1. /\ spend[m] + MaxCost * n \in Int
            /\ spend[m] + v[c].cost + MaxCost * (n - 1) <= spend[m] + MaxCost * n
        BY <1>1, <1>6, <2>3
      <4> QED
        BY <3>2, <3>3, <4>1
    <3>4. CASE Below(spend[m] + v[c].cost + MaxCost * (n - 1), t)
      <4>1. spend[m] + v[c].cost + MaxCost * (n - 1) \in Int
        BY <1>1, <1>6, <2>3
      <4> QED
        BY <3>2, <3>4, <4>1
    <3>5. ASSUME NEW r \in S \ {c}, Below(spend[m] + v[r].cost + MaxCost * (n - 1), t)
          PROVE  below
      <4>1. r \in T /\ v'[r].cost = v[r].cost /\ v[r].cost \in Nat
        BY <1>7, <2>2
      <4>2. PICK x \in Int : x = spend[m] + v[r].cost + MaxCost * (n - 1)
        BY <1>1, <1>6, <4>1
      <4>3. PICK y \in Int : y = spend'[m] + v[r].cost + MaxCost * ((n - 1) - 1)
        BY <1>1, <1>6, <4>1
      <4>4. y <= x
        BY <1>1, <1>6, <2>3, <2>5, <4>1, <4>2, <4>3
      <4>5. Under(y)
        BY <1>3, <3>5, <4>2, <4>4
      <4> QED
        BY <1>9, <3>1, <4>1, <4>3, <4>5
    <3> QED
      BY <1>8, <2>4, <3>3, <3>4, <3>5
  <2> QED
    BY <2>6, <2>7
<1> QED
  BY <1>12, <1>13, <1>14, StepShape

LEMMA InitLag == Init => LagInv
<1> SUFFICES ASSUME Init, NEW m \in Months, NEW t \in Thresholds
             PROVE  Below(spend[m] + MaxCost * Cardinality(Silent(m, t)), t)
  BY DEF LagInv
<1>1. MaxCost \in Nat /\ Slack \in Nat /\ spend[m] = 0
  BY GateAssumption, SlackType DEF Init
<1>2. Silent(m, t) = {}
  BY DEF Init, Silent, Admitted, Late
<1>3. MaxCost * Cardinality(Silent(m, t)) = 0
  BY <1>1, <1>2, FS_EmptySet
<1>4. Share(t) >= 1 /\ Share(t) \in Nat
  <2>1. t \in Nat \ {0} /\ highest \in Nat \ {0}
    BY GateAssumption DEF Init
  <2>2. t * 1 <= t * highest
    BY <2>1, TimesMonotone
  <2> QED
    BY <2>1, <2>2 DEF Share
<1> QED
  BY <1>1, <1>3, <1>4 DEF Below

LEMMA LagBounds ==
    ASSUME TypeOK, LagInv
    PROVE  AlertLag
<1> SUFFICES ASSUME NEW m \in Months, NEW t \in Thresholds, ~Fired(m, t)
             PROVE  ~(100 * (spend[m] - Slack) >= Share(t))
  BY DEF AlertLag, Fired, Slack, Share
<1>1. MaxCost \in Nat /\ Slack \in Nat /\ spend[m] \in Nat /\ Share(t) \in Nat
  BY GateAssumption, SlackType, ShareType DEF TypeOK
<1>2. ASSUME NEW x \in Nat, Below(spend[m] + x, t)
      PROVE  ~(100 * (spend[m] - Slack) >= Share(t))
  BY <1>1, <1>2 DEF Below
<1>3. Silent(m, t) \subseteq Calls
  BY DEF Silent, Admitted
<1>4. /\ Cardinality(Silent(m, t)) \in Nat
      /\ \A r \in Silent(m, t) : Cardinality(Silent(m, t)) - 1 \in Nat
  BY <1>3, CallsFinite
<1>5. CASE Below(spend[m] + MaxCost * Cardinality(Silent(m, t)), t)
  <2>1. MaxCost * Cardinality(Silent(m, t)) \in Nat
    BY <1>1, <1>4
  <2> QED
    BY <1>2, <1>5, <2>1
<1>6. ASSUME NEW r \in Silent(m, t),
             Below(spend[m] + v[r].cost + MaxCost * (Cardinality(Silent(m, t)) - 1), t)
      PROVE  ~(100 * (spend[m] - Slack) >= Share(t))
  <2>1. v[r].cost \in Nat
    BY LocalFields DEF Silent, Admitted, Late
  <2>2. MaxCost * (Cardinality(Silent(m, t)) - 1) \in Nat
    BY <1>1, <1>4
  <2>3. spend[m] + (v[r].cost + MaxCost * (Cardinality(Silent(m, t)) - 1))
          = spend[m] + v[r].cost + MaxCost * (Cardinality(Silent(m, t)) - 1)
    BY <1>1, <2>1, <2>2
  <2> QED
    BY <1>2, <1>6, <2>1, <2>2, <2>3
<1> QED
  BY <1>5, <1>6 DEF LagInv

\* An alert comes late by no more than what the other calls in flight cost.
THEOREM AlertsLagLittle == Spec => []AlertLag
<1> DEFINE IInv == TypeOK /\ BudgetInv /\ LagInv
<1>1. Init => IInv
  BY InitTypeOK, InitExposure, InitLag
<1>2. IInv /\ [Next]_vars => IInv'
  BY NextTypeOK, BudgetStep, LagStep
<1>3. IInv => AlertLag
  BY LagBounds
<1> QED
  BY <1>1, <1>2, <1>3, PTL DEF Spec

-----------------------------------------------------------------------------
(* Suspension.                                                             *)

\* A call that is not committing neither enters the exposure nor charges.
Idles(c) ==
    /\ spend' = spend
    /\ \A m \in Months : InFlight(m)' \subseteq InFlight(m)

LEMMA SuspendedShape ==
    ASSUME TypeOK, [Next]_vars, suspended'
    PROVE  \/ Suspend
           \/ /\ suspended
              /\ frozen' = frozen
              /\ \E c \in Calls : Idles(c) \/ CommitAllowed(c)
<1>0. PICK anyone : anyone \in Calls
  BY GateAssumption
<1>1. ASSUME NEW c \in Calls, NEW u \in Users, NEW cost \in Costs,
             Start(c, u, cost)
      PROVE  suspended /\ frozen' = frozen /\ Idles(c)
  BY <1>1 DEF Start, Idles, InFlight, workspaceVars, usageVars, history, TypeOK
<1>2. ASSUME NEW c \in Calls, ReadWorkspace(c)
      PROVE  FALSE
  BY <1>2 DEF ReadWorkspace, MayCall, workspaceVars
<1>3. ASSUME NEW c \in Calls,
             WorkspaceSuspended(c) \/ CapBlocked(c) \/ CommitDenied(c) \/ Abort(c)
      PROVE  suspended /\ frozen' = frozen /\ Idles(c)
  BY <1>3 DEF WorkspaceSuspended, CapBlocked, CommitDenied, Abort, Return, Idles,
              InFlight, workspaceVars, usageVars, history, TypeOK
<1>4. ASSUME NEW c \in Calls, ReadSpend(c)
      PROVE  suspended /\ frozen' = frozen /\ Idles(c)
  <2>1. /\ v'[c] = [v[c] EXCEPT !.spend = spend[v[c].month], !.user_month = month]
        /\ v[c] \in Local
    BY <1>4, LocalFields DEF ReadSpend, TypeOK
  <2>2. v'[c].month = v[c].month
    BY <2>1 DEF Local
  <2> QED
    BY <1>4, <2>2 DEF ReadSpend, Idles, InFlight, workspaceVars, usageVars,
                      history, TypeOK
<1>5. ASSUME NEW c \in Calls, UserGate(c)
      PROVE  suspended /\ frozen' = frozen /\ Idles(c)
  <2>1. PICK allowed \in BOOLEAN : v' = [v EXCEPT ![c].allowed = allowed]
    BY <1>5 DEF UserGate
  <2>2. v'[c] = [v[c] EXCEPT !.allowed = allowed] /\ v[c] \in Local
    BY <1>5, <2>1, LocalFields DEF UserGate, TypeOK
  <2>3. v'[c].month = v[c].month
    BY <2>2 DEF Local
  <2>4. \A m \in Months : InFlight(m)' \subseteq InFlight(m)
    BY <1>5, <2>1, <2>3 DEF UserGate, InFlight, TypeOK
  <2> QED
    BY <1>5, <2>4 DEF UserGate, Idles, workspaceVars, usageVars, history
<1>6. ASSUME NEW c \in Calls, LockAggregate(c)
      PROVE  suspended /\ frozen' = frozen /\ Idles(c)
  BY <1>6 DEF LockAggregate, Idles, InFlight, workspaceVars, usageVars, history,
              TypeOK
<1>7. ASSUME NEW c \in Calls, CommitAllowed(c)
      PROVE  suspended /\ frozen' = frozen
  BY <1>7 DEF CommitAllowed, workspaceVars, history
<1>8. CASE Unsuspend
  BY <1>8 DEF Unsuspend
<1>9. CASE \/ \E b \in Budgets : UpdateBudget(b)
           \/ \E u \in Users : Link(u) \/ Unlink(u)
           \/ NextMonth \/ UNCHANGED vars
  <2>1. UNCHANGED <<spend, suspended, frozen, pc, v>>
    BY <1>9 DEF UpdateBudget, Link, Unlink, NextMonth, vars, workspaceVars,
                usageVars, callVars, history
  <2>2. Idles(anyone)
    BY <2>1 DEF Idles, InFlight
  <2> QED
    BY <1>0, <2>1, <2>2
<1> QED
  BY <1>1, <1>2, <1>3, <1>4, <1>5, <1>6, <1>7, <1>8, <1>9
  DEF Next, Proceed, Admin

LEMMA DrainStep ==
    ASSUME TypeOK, TypeOK', SuspensionDrains, [Next]_vars
    PROVE  SuspensionDrains'
<1> SUFFICES ASSUME suspended', NEW m \in Months
             PROVE  spend'[m] + MaxCost * Cardinality(InFlight(m)') <= frozen'[m]
  BY DEF SuspensionDrains
<1>1. /\ MaxCost \in Nat /\ spend[m] \in Nat /\ spend'[m] \in Nat
      /\ frozen[m] \in Nat /\ frozen'[m] \in Nat
  BY GateAssumption DEF TypeOK
<1>2. /\ InFlight(m) \subseteq Calls /\ InFlight(m)' \subseteq Calls
      /\ IsFiniteSet(InFlight(m))
      /\ Cardinality(InFlight(m)) \in Nat /\ Cardinality(InFlight(m)') \in Nat
  <2>1. InFlight(m) \subseteq Calls /\ InFlight(m)' \subseteq Calls
    BY DEF InFlight
  <2> QED
    BY <2>1, CallsFinite
<1>3. CASE Suspend
  <2>1. InFlight(m)' = InFlight(m) /\ spend' = spend
    BY <1>3 DEF Suspend, InFlight, callVars, usageVars
  <2>2. frozen'[m] = spend[m] + MaxCost * Cardinality(InFlight(m))
    BY <1>3 DEF Suspend
  <2> QED
    BY <1>1, <2>1, <2>2
<1>4. ASSUME suspended, frozen' = frozen, NEW c \in Calls, Idles(c)
      PROVE  spend'[m] + MaxCost * Cardinality(InFlight(m)') <= frozen'[m]
  <2>1. spend' = spend /\ InFlight(m)' \subseteq InFlight(m)
    BY <1>4 DEF Idles
  <2>2. Cardinality(InFlight(m)') <= Cardinality(InFlight(m))
    BY <1>2, <2>1, FS_Subset
  <2>3. MaxCost * Cardinality(InFlight(m)') <= MaxCost * Cardinality(InFlight(m))
    BY <1>1, <1>2, <2>2, TimesMonotone
  <2>4. spend[m] + MaxCost * Cardinality(InFlight(m)) <= frozen[m]
    BY <1>4 DEF SuspensionDrains
  <2>5. /\ MaxCost * Cardinality(InFlight(m)) \in Int
        /\ MaxCost * Cardinality(InFlight(m)') \in Int
    BY <1>1, <1>2, TimesLess
  <2> QED
    BY <1>1, <1>4, <2>1, <2>3, <2>4, <2>5
<1>5. ASSUME suspended, frozen' = frozen, NEW c \in Calls, CommitAllowed(c)
      PROVE  spend'[m] + MaxCost * Cardinality(InFlight(m)') <= frozen'[m]
  <2>1. /\ v[c].cost \in Nat /\ v[c].cost <= MaxCost /\ v[c].month \in Months
        /\ pc[c] = "writing"
    BY <1>5, LocalFields DEF CommitAllowed
  <2>2. InFlight(m)' = InFlight(m) \ {c}
    BY <1>5 DEF CommitAllowed, Return, InFlight, TypeOK
  <2>3. spend[m] + MaxCost * Cardinality(InFlight(m)) <= frozen[m]
    BY <1>5 DEF SuspensionDrains
  <2>4. CASE v[c].month = m
    <3>1. c \in InFlight(m)
      BY <2>1, <2>4 DEF InFlight
    <3>2. Cardinality(InFlight(m)') = Cardinality(InFlight(m)) - 1
      BY <1>2, <2>2, <3>1, CallsFinite
    <3>3. /\ MaxCost * Cardinality(InFlight(m)')
               = MaxCost * Cardinality(InFlight(m)) - MaxCost
          /\ MaxCost * Cardinality(InFlight(m)) \in Int
      BY <1>1, <1>2, <3>2, TimesLess
    <3>4. spend'[m] = spend[m] + v[c].cost
      BY <1>5, <2>4 DEF CommitAllowed, Charged, TypeOK
    <3> QED
      BY <1>1, <1>5, <2>1, <2>3, <3>3, <3>4
  <2>5. CASE v[c].month # m
    <3>1. InFlight(m)' = InFlight(m)
      BY <2>2, <2>5 DEF InFlight
    <3>2. spend'[m] = spend[m]
      BY <1>5, <2>1, <2>5 DEF CommitAllowed, Charged, TypeOK
    <3> QED
      BY <1>5, <2>3, <3>1, <3>2
  <2> QED
    BY <2>4, <2>5
<1> QED
  BY <1>3, <1>4, <1>5, SuspendedShape

\* While a workspace is suspended nothing is charged but the calls that were
\* in flight when it was.
THEOREM SuspensionIsFinal == Spec => []SuspensionDrains
<1> DEFINE IInv == TypeOK /\ SuspensionDrains
<1>1. Init => IInv
  BY InitTypeOK DEF Init, SuspensionDrains
<1>2. IInv /\ [Next]_vars => IInv'
  BY NextTypeOK, DrainStep
<1>3. IInv => SuspensionDrains
  OBVIOUS
<1> QED
  BY <1>1, <1>2, <1>3, PTL DEF Spec

-----------------------------------------------------------------------------
(* Books that agree.                                                       *)

LEMMA ReconciledSums ==
    /\ Drift = Total(spend, Months) - Total(user_spend, Months)
    /\ Drift' = Total(spend', Months) - Total(user_spend', Months)
    /\ MapThenSumSet(LAMBDA m : requests[m], Months) = Total(requests, Months)
    /\ MapThenSumSet(LAMBDA m : requests[m], Months)' = Total(requests', Months)
BY DEF Drift, Total, MapThenSumSet, MapThenFoldSet

\* What one month gets, the sum over all months gets.
LEMMA MonthAdds ==
    ASSUME NEW f, NEW g, NEW m \in Months,
           \A n \in Months : f[n] \in Int /\ g[n] \in Int,
           \A n \in Months \ {m} : g[n] = f[n]
    PROVE  /\ Total(f, Months) \in Int
           /\ Total(g, Months) = Total(f, Months) + (g[m] - f[m])
<1>1. IsFiniteSet(Months)
  BY GateAssumption, FS_Interval DEF Months
<1> QED
  BY <1>1, TotalType, TotalChange

\* A commit charges the month of the workspace with the cost and that of the
\* user, which may be another, with the cost rounded, and counts one request;
\* no other step moves any of them.
LEMMA ReconcilesStep ==
    ASSUME TypeOK, Reconciles, [Next]_vars
    PROVE  Reconciles'
<1> DEFINE W == Total(spend, Months)
           U == Total(user_spend, Months)
           N == Total(requests, Months)
<1>0. /\ -(CounterUnit * N) <= 2 * (W - U) /\ 2 * (W - U) <= CounterUnit * N
      /\ CounterUnit \in Nat \ {0}
  BY ReconciledSums, GateAssumption DEF Reconciles
<1>1. ASSUME NEW c \in Calls, CommitAllowed(c)
      PROVE  Reconciles'
  <2> DEFINE cost == v[c].cost
             paid == Rounded(v[c].cost, CounterUnit)
  <2>1. /\ cost \in Nat /\ v[c].month \in Months
        /\ v[c].user_month \in Months
    BY <1>1, LocalFields DEF CommitAllowed
  <2>2. /\ paid \in Nat
        /\ 2 * paid <= 2 * cost + CounterUnit
        /\ 2 * paid >= 2 * cost - CounterUnit
    BY <2>1, GateAssumption, RoundedNear
  <2>3. /\ \A m \in Months : spend[m] \in Int /\ spend'[m] \in Int
        /\ \A m \in Months : user_spend[m] \in Int /\ user_spend'[m] \in Int
        /\ \A m \in Months : requests[m] \in Int /\ requests'[m] \in Int
    BY <1>1, CommitTypes DEF TypeOK
  <2> HIDE DEF cost, paid
  <2>4. /\ spend'[v[c].month] - spend[v[c].month] = cost
        /\ \A m \in Months \ {v[c].month} : spend'[m] = spend[m]
    BY <1>1, <2>1 DEF CommitAllowed, Charged, TypeOK, cost
  <2>5. /\ requests'[v[c].month] - requests[v[c].month] = 1
        /\ \A m \in Months \ {v[c].month} : requests'[m] = requests[m]
    BY <1>1, <2>1 DEF CommitAllowed, TypeOK
  <2>6. /\ user_spend'[v[c].user_month] - user_spend[v[c].user_month] = paid
        /\ \A m \in Months \ {v[c].user_month} : user_spend'[m] = user_spend[m]
    BY <1>1, <2>1, <2>2 DEF CommitAllowed, TypeOK, paid
  <2>7. W \in Int /\ Total(spend', Months) = W + cost
    <3>1. /\ Total(spend, Months) \in Int
          /\ Total(spend', Months)
               = Total(spend, Months) + (spend'[v[c].month] - spend[v[c].month])
      BY ONLY <2>1, <2>3, <2>4, MonthAdds
    <3> QED
      BY <2>4, <3>1
  <2>8. N \in Int /\ Total(requests', Months) = N + 1
    <3>1. /\ Total(requests, Months) \in Int
          /\ Total(requests', Months)
               = Total(requests, Months)
                   + (requests'[v[c].month] - requests[v[c].month])
      BY ONLY <2>1, <2>3, <2>5, MonthAdds
    <3> QED
      BY <2>5, <3>1
  <2>9. U \in Int /\ Total(user_spend', Months) = U + paid
    <3>1. /\ Total(user_spend, Months) \in Int
          /\ Total(user_spend', Months)
               = Total(user_spend, Months)
                   + (user_spend'[v[c].user_month] - user_spend[v[c].user_month])
      BY ONLY <2>1, <2>3, <2>6, MonthAdds
    <3> QED
      BY <2>6, <3>1
  <2> HIDE DEF W, U, N
  <2>10. /\ CounterUnit * (N + 1) = CounterUnit * N + CounterUnit
         /\ CounterUnit * N \in Int
    BY <1>0, <2>8
  <2>11. /\ -(CounterUnit * (N + 1)) <= 2 * ((W + cost) - (U + paid))
         /\ 2 * ((W + cost) - (U + paid)) <= CounterUnit * (N + 1)
    BY <1>0, <2>1, <2>2, <2>7, <2>8, <2>9, <2>10
  <2>12. /\ Drift' = (W + cost) - (U + paid)
         /\ MapThenSumSet(LAMBDA m : requests[m], Months)' = N + 1
    BY <2>7, <2>8, <2>9, ReconciledSums
  <2> QED
    BY <2>11, <2>12 DEF Reconciles
<1>2. ASSUME spend' = spend, user_spend' = user_spend, requests' = requests
      PROVE  Reconciles'
  <2>1. /\ Drift' = Drift
        /\ MapThenSumSet(LAMBDA m : requests[m], Months)'
             = MapThenSumSet(LAMBDA m : requests[m], Months)
    BY <1>2, ReconciledSums
  <2> QED
    BY <2>1 DEF Reconciles
<1>3. ASSUME NEW c \in Calls, NEW u \in Users, NEW cost \in Costs,
             Start(c, u, cost)
      PROVE  Reconciles'
  BY <1>2, <1>3 DEF Start, usageVars
<1>4. ASSUME NEW c \in Calls,
             ReadWorkspace(c) \/ WorkspaceSuspended(c) \/ ReadSpend(c) \/ CommitDenied(c)
      PROVE  Reconciles'
  BY <1>2, <1>4
  DEF ReadWorkspace, WorkspaceSuspended, ReadSpend, CommitDenied, usageVars
<1>5. ASSUME NEW c \in Calls,
             UserGate(c) \/ LockAggregate(c) \/ CapBlocked(c) \/ Abort(c)
      PROVE  Reconciles'
  BY <1>2, <1>5 DEF UserGate, LockAggregate, CapBlocked, Abort, Undone, usageVars
<1>6. CASE Admin \/ NextMonth \/ UNCHANGED vars
  BY <1>2, <1>6 DEF Admin, Suspend, Unsuspend, UpdateBudget, Link, Unlink,
                    NextMonth, vars, usageVars
<1> QED
  BY <1>1, <1>3, <1>4, <1>5, <1>6 DEF Next, Proceed

LEMMA InitReconciles == Init => Reconciles
<1> SUFFICES ASSUME Init PROVE Reconciles
  OBVIOUS
<1>1. IsFiniteSet(Months)
  BY GateAssumption, FS_Interval DEF Months
<1>2. spend = user_spend /\ requests = spend /\ \A m \in Months : spend[m] = 0
  BY DEF Init
<1>3. PICK f : f = spend
  OBVIOUS
<1>4. \A m \in Months : f[m] \in Int /\ f[m] = 0
  BY <1>2, <1>3
<1>5. Total(f, Months) = 0
  <2>1. {} \subseteq Months /\ \A m \in Months \ {} : f[m] = 0
    BY <1>4
  <2>2. Total(f, Months) = Total(f, {})
    BY ONLY <1>1, <1>4, <2>1, TotalWithin
  <2> QED
    BY <2>2, TotalEmpty
<1>6. Drift = 0 /\ MapThenSumSet(LAMBDA m : requests[m], Months) = 0
  BY <1>2, <1>3, <1>5, ReconciledSums
<1> QED
  BY <1>6, GateAssumption DEF Reconciles

\* No charge is lost, made twice or left behind by a call that failed: what
\* sets the workspace apart from its members is rounding, bounded by half a
\* unit of the counters for each request.
THEOREM BooksReconcile == Spec => []Reconciles
<1>1. TypeOK /\ Reconciles /\ [Next]_vars => TypeOK' /\ Reconciles'
  BY NextTypeOK, ReconcilesStep
<1> QED
  BY InitTypeOK, InitReconciles, <1>1, PTL DEF Spec

-----------------------------------------------------------------------------
(* The ledger.  A commit is an entry, and no other step writes: what the   *)
(* call read is still true enough, and its months are in order.            *)

\* A call's months are in order and not to come, and by what it read it is
\* within the budget.
Entitled(c) ==
    /\ pc[c] # "idle" => v[c].month <= month
    /\ pc[c] \in Late => /\ v[c].month <= v[c].user_month
                         /\ v[c].user_month <= month
                         /\ v[c].spend + v[c].cost <= v[c].budget

LedgerInv == \A c \in Calls : Entitled(c)

LEMMA MonthForward ==
    ASSUME TypeOK, TypeOK', [Next]_vars
    PROVE  /\ month \in Int /\ month' \in Int /\ month <= month'
           /\ \A c \in Calls : pc[c] # "idle" =>
                v[c].month \in Int /\ v[c].user_month \in Int
<1>1. Months \subseteq Int
  BY GateAssumption DEF Months
<1>2. month' = month \/ month' = month + 1
  BY DEF Next, Start, Proceed, ReadWorkspace, WorkspaceSuspended, ReadSpend,
         CapBlocked, UserGate, LockAggregate, CommitAllowed, CommitDenied, Abort,
         Admin, Suspend, Unsuspend, UpdateBudget, Link, Unlink, NextMonth, vars
<1>3. month \in Int /\ month' \in Int
  BY <1>1 DEF TypeOK
<1>4. \A c \in Calls : pc[c] # "idle" => v[c].month \in Int /\ v[c].user_month \in Int
  BY <1>1, LocalFields
<1> QED
  BY <1>2, <1>3, <1>4

\* A call that does not step, while the calendar may.
LEMMA EntitledKept ==
    ASSUME TypeOK, TypeOK', [Next]_vars, NEW d \in Calls, Entitled(d),
           pc'[d] = pc[d], v'[d] = v[d]
    PROVE  Entitled(d)'
BY MonthForward DEF Entitled, Late

LEMMA EntitledReturn ==
    ASSUME TypeOK, NEW c \in Calls, Return(c)
    PROVE  /\ Entitled(c)'
           /\ \A d \in Calls \ {c} : pc'[d] = pc[d] /\ v'[d] = v[d]
BY DEF Return, Entitled, Late, TypeOK

LEMMA LedgerStep ==
    ASSUME TypeOK, TypeOK', LedgerInv, [Next]_vars
    PROVE  LedgerInv'
<1>1. ASSUME NEW c \in Calls, Entitled(c)',
             \A d \in Calls \ {c} : pc'[d] = pc[d] /\ v'[d] = v[d]
      PROVE  LedgerInv'
  BY <1>1, EntitledKept DEF LedgerInv
<1>2. ASSUME NEW c \in Calls, NEW u \in Users, NEW cost \in Costs,
             Start(c, u, cost)
      PROVE  LedgerInv'
  <2>1. /\ pc'[c] = "started" /\ v'[c].month = month /\ month' = month
        /\ \A d \in Calls \ {c} : pc'[d] = pc[d] /\ v'[d] = v[d]
    BY <1>2 DEF Start, TypeOK
  <2>2. Entitled(c)'
    BY <2>1, MonthForward DEF Entitled, Late
  <2> QED
    BY <1>1, <2>1, <2>2
<1>3. ASSUME NEW c \in Calls, ReadWorkspace(c)
      PROVE  LedgerInv'
  <2>1. /\ pc[c] = "started" /\ pc'[c] = "active" /\ month' = month
        /\ v'[c] = [v[c] EXCEPT !.budget = budget] /\ v[c] \in Local
        /\ \A d \in Calls \ {c} : pc'[d] = pc[d] /\ v'[d] = v[d]
    BY <1>3, LocalFields DEF ReadWorkspace, TypeOK
  <2>2. v'[c].month = v[c].month
    BY <2>1 DEF Local
  <2>3. Entitled(c)'
    BY <2>1, <2>2 DEF LedgerInv, Entitled, Late
  <2> QED
    BY <1>1, <2>1, <2>3
<1>4. ASSUME NEW c \in Calls, ReadSpend(c)
      PROVE  LedgerInv'
  <2>1. /\ pc[c] = "active" /\ ~OverCap(c) /\ month' = month /\ v[c] \in Local
        /\ v'[c] = [v[c] EXCEPT !.spend = spend[v[c].month], !.user_month = month]
        /\ \A d \in Calls \ {c} : pc'[d] = pc[d] /\ v'[d] = v[d]
    BY <1>4, LocalFields DEF ReadSpend, TypeOK
  <2>2. /\ v'[c].month = v[c].month /\ v'[c].user_month = month
        /\ v'[c].spend = spend[v[c].month]
        /\ v'[c].cost = v[c].cost /\ v'[c].budget = v[c].budget
    BY <2>1 DEF Local
  <2>3. /\ spend[v[c].month] \in Nat /\ v[c].cost \in Nat /\ v[c].budget \in Nat
    BY <2>1, LocalFields DEF TypeOK
  <2>4. spend[v[c].month] + v[c].cost <= v[c].budget
    BY <2>1, <2>3 DEF OverCap
  <2>5. v[c].month <= month
    BY <2>1 DEF LedgerInv, Entitled
  <2>6. Entitled(c)'
    BY <2>1, <2>2, <2>4, <2>5, MonthForward DEF Entitled
  <2> QED
    BY <1>1, <2>1, <2>6
<1>5. ASSUME NEW c \in Calls, UserGate(c) \/ LockAggregate(c)
      PROVE  LedgerInv'
  <2>1. /\ pc[c] \in Late /\ month' = month /\ v[c] \in Local
        /\ \A d \in Calls \ {c} : pc'[d] = pc[d] /\ v'[d] = v[d]
    BY <1>5, LocalFields DEF UserGate, LockAggregate, Late, TypeOK
  <2>2. v'[c] = v[c] \/ \E allowed \in BOOLEAN : v'[c] = [v[c] EXCEPT !.allowed = allowed]
    BY <1>5 DEF UserGate, LockAggregate, TypeOK
  <2>3. /\ v'[c].month = v[c].month /\ v'[c].user_month = v[c].user_month
        /\ v'[c].spend = v[c].spend
        /\ v'[c].cost = v[c].cost /\ v'[c].budget = v[c].budget
    BY <2>1, <2>2 DEF Local
  <2>4. Entitled(c)'
    BY <2>1, <2>3 DEF LedgerInv, Entitled, Late
  <2> QED
    BY <1>1, <2>1, <2>4
<1>6. ASSUME NEW c \in Calls, Return(c)
      PROVE  LedgerInv'
  BY <1>1, <1>6, EntitledReturn
<1>7. CASE UNCHANGED <<pc, v>>
  BY <1>7, EntitledKept DEF LedgerInv
<1> QED
  BY <1>2, <1>3, <1>4, <1>5, <1>6, <1>7
  DEF Next, Proceed, Admin, WorkspaceSuspended, CapBlocked, CommitAllowed,
      CommitDenied, Abort, Suspend, Unsuspend, UpdateBudget, Link, Unlink,
      NextMonth, vars, callVars

\* A commit enters its charge and its alerts at once.
LEMMA CommitEnters ==
    ASSUME TypeOK, SnapshotInv, BudgetInv, LedgerInv, NEW c \in Calls,
           CommitAllowed(c)
    PROVE  \E m, n \in Months, cost \in Costs : Ledger!Enter(m, n, cost)
<1>1. pc[c] \in Late /\ pc[c] # "idle"
  BY DEF CommitAllowed, Late
<1>2. /\ v[c].month \in Months /\ v[c].user_month \in Months
      /\ v[c].cost \in Costs /\ v[c].budget \in Budgets
      /\ v[c].spend \in Nat /\ v[c].cost \in Nat /\ spend[v[c].month] \in Nat
  BY <1>1, LocalFields DEF TypeOK
<1>3. v[c].spend \in 0..spend[v[c].month]
  BY <1>1, <1>2 DEF SnapshotInv
<1>4. /\ v[c].month <= v[c].user_month /\ v[c].user_month <= month
      /\ v[c].spend + v[c].cost <= v[c].budget /\ v[c].budget <= highest
  BY <1>1 DEF LedgerInv, Entitled, BudgetInv
<1>5. FiredAlerts(c)
        = Ledger!Raised(v[c].month, v[c].spend + v[c].cost, v[c].budget)
  BY DEF FiredAlerts, Reported, Rounded, Ledger!Raised, Ledger!Rounded
<1>6. \E b \in Budgets, seen \in 0..spend[v[c].month] :
         /\ b <= highest
         /\ seen + v[c].cost <= b
         /\ alerts' = alerts \cup Ledger!Raised(v[c].month, seen + v[c].cost, b)
  BY <1>2, <1>3, <1>4, <1>5 DEF CommitAllowed
<1>7. Ledger!Enter(v[c].month, v[c].user_month, v[c].cost)
  BY <1>4, <1>6
  DEF Ledger!Enter, CommitAllowed, Charged, Rounded, Ledger!Rounded,
      workspaceVars, history
<1> QED
  BY <1>2, <1>7

\* The gate, with its stale reads, waits and failures, implements the ledger.
THEOREM RefinesLedger == Spec => ImplementsLedger
<1> DEFINE IInv == TypeOK /\ SnapshotInv /\ BudgetInv /\ LedgerInv
           ledgerVars == <<month, highest, spend, user_spend, alerts>>
<1>1. Init => IInv
  BY InitTypeOK DEF Init, SnapshotInv, BudgetInv, LedgerInv, Entitled, Late
<1>2. IInv /\ [Next]_vars => IInv'
  BY NextTypeOK, SnapshotStep, BudgetStep, LedgerStep
<1>3. Init => Ledger!Init
  BY DEF Init, Ledger!Init
<1>4. IInv /\ IInv' /\ [Next]_vars => [Ledger!Next]_ledgerVars
  <2> SUFFICES ASSUME IInv, IInv', [Next]_vars
               PROVE  [Ledger!Next]_ledgerVars
    OBVIOUS
  <2>1. ASSUME NEW c \in Calls, CommitAllowed(c)
        PROVE  Ledger!Next
    BY <2>1, CommitEnters DEF Ledger!Next
  <2>2. ASSUME NEW b \in Budgets, UpdateBudget(b)
        PROVE  [Ledger!Next]_ledgerVars
    <3>1. highest' = highest \/ (highest' \in Budgets /\ highest' > highest)
      BY <2>2 DEF UpdateBudget
    <3> QED
      BY <2>2, <3>1 DEF UpdateBudget, usageVars, Ledger!Next, Ledger!Raise
  <2>3. CASE NextMonth
    BY <2>3 DEF NextMonth, usageVars, history, Ledger!Next, Ledger!Turn
  <2>4. CASE UNCHANGED ledgerVars
    BY <2>4
  <2> HIDE DEF IInv
  <2> QED
    BY <2>1, <2>2, <2>3, <2>4
    DEF Next, Start, Proceed, ReadWorkspace, WorkspaceSuspended, ReadSpend,
        CapBlocked, UserGate, LockAggregate, CommitDenied, Abort, Undone, Admin,
        Suspend, Unsuspend, Link, Unlink, vars, usageVars, history
<1> QED
  BY <1>1, <1>2, <1>3, <1>4, PTL DEF Spec, ImplementsLedger, Ledger!Spec, Ledger!vars
-----------------------------------------------------------------------------
(***************************************************************************)
(* The reports.  They run beside the calls, so what is proved of the gate  *)
(* holds while they are made.  To it come the counters: in a month that no *)
(* call was charged across, those of this workspace's calls are its spend, *)
(* up to rounding.  What a report has found was true of the tables when it *)
(* was read, and bounds them still, since they only grow.                  *)
(***************************************************************************)

\* With reports or without them, a step is a step of the gate or leaves it
\* alone.
LEMMA GateSteps == [ReportsNext]_reportsVars => [Next]_vars
<1>1. ASSUME NEW c \in Calls, Charge(c) PROVE Next
  BY <1>1 DEF Charge, Next, Proceed
<1>2. GateStep => Next
  BY DEF GateStep, Next, Proceed
<1>3. ASSUME NEW u \in Users,
             Join(u) \/ Leave(u)
               \/ \E cost \in Costs, m \in Months : ChargeElsewhere(u, cost, m)
      PROVE  UNCHANGED vars
  BY <1>3 DEF Join, Leave, ChargeElsewhere
<1>4. ASSUME NEW kind \in Kinds, NEW m \in Months, Ask(kind, m)
      PROVE  UNCHANGED vars
  BY <1>4 DEF Ask
<1>5. ASSUME NEW part \in Parts("invoice"), Select(part)
      PROVE  UNCHANGED vars
  BY <1>5 DEF Select
<1>6. UNCHANGED reportsVars => UNCHANGED vars
  BY DEF reportsVars
<1> QED
  BY <1>1, <1>2, <1>3, <1>4, <1>5, <1>6 DEF ReportsNext

GateInv == TypeOK /\ AlertsTrue /\ AlertLag

LEMMA GateGoesOn == ReportsSpec => []GateInv
<1>1. ReportsInit => Init
  BY DEF ReportsInit
<1>2. ReportsSpec => Spec
  BY <1>1, GateSteps, PTL DEF ReportsSpec, Spec
<1>3. Spec => []GateInv
  BY TypeCorrect, AlertsAreTrue, AlertsLagLittle, PTL DEF GateInv
<1> QED
  BY <1>2, <1>3, PTL

CountersTyped ==
    /\ members \subseteq Users
    /\ here \in [Users -> [Months -> Nat]]
    /\ elsewhere \in [Users -> [Months -> Nat]]
    /\ split \subseteq Months

\* What the calls of this workspace added to the counters of month m.
Column(m) == [u \in Users |-> here[u][m]]

\* So much paid for so much spend, by so many requests.
Pays(sum, cost, n) ==
    /\ sum \in Int /\ cost \in Nat /\ n \in Nat
    /\ 2 * sum + CounterUnit * n >= 2 * cost
    /\ 2 * sum - CounterUnit * n <= 2 * cost

CountersPay ==
    \A m \in Months \ split : Pays(Total(Column(m), Users), spend[m], requests[m])

-----------------------------------------------------------------------------
(* The counters.                                                           *)

\* A charge, seen in the tables.
LEMMA ChargeRows ==
    ASSUME TypeOK, CountersTyped, NEW c \in Calls, Charge(c)
    PROVE  LET u == v[c].user
               m == v[c].user_month
               paid == Rounded(v[c].cost, CounterUnit)
           IN  /\ u \in Users /\ m \in Months /\ v[c].month \in Months
               /\ v[c].cost \in Nat /\ paid \in Nat
               /\ here' \in [Users -> [Months -> Nat]]
               /\ here'[u][m] = here[u][m] + paid
               /\ \A w \in Users, n \in Months :
                    w # u \/ n # m => here'[w][n] = here[w][n]
               /\ spend' = [spend EXCEPT ![v[c].month] = @ + v[c].cost]
               /\ requests' = [requests EXCEPT ![v[c].month] = @ + 1]
<1>1. CommitAllowed(c)
  BY DEF Charge
<1>2. /\ v[c].user \in Users /\ v[c].user_month \in Months /\ v[c].month \in Months
      /\ v[c].cost \in Nat
  BY <1>1, LocalFields DEF CommitAllowed
<1>3. PICK paid : paid = Rounded(v[c].cost, CounterUnit)
  OBVIOUS
<1>4. paid \in Nat
  BY <1>2, <1>3, GateAssumption, RoundedNear
<1>5. PICK u : u = v[c].user
  OBVIOUS
<1>6. PICK m : m = v[c].user_month
  OBVIOUS
<1>7. here' = [here EXCEPT ![u][m] = @ + paid]
  BY <1>3, <1>5, <1>6 DEF Charge
<1>8. /\ here' \in [Users -> [Months -> Nat]]
      /\ here'[u][m] = here[u][m] + paid
      /\ \A w \in Users, n \in Months : w # u \/ n # m => here'[w][n] = here[w][n]
  BY <1>2, <1>4, <1>5, <1>6, <1>7 DEF CountersTyped
<1>9. /\ spend' = [spend EXCEPT ![v[c].month] = @ + v[c].cost]
      /\ requests' = [requests EXCEPT ![v[c].month] = @ + 1]
  BY <1>1 DEF CommitAllowed, Charged
<1> QED
  BY <1>2, <1>3, <1>4, <1>5, <1>6, <1>8, <1>9

LEMMA ElsewhereRow ==
    ASSUME CountersTyped, NEW u \in Users, NEW cost \in Costs, NEW m \in Months,
           ChargeElsewhere(u, cost, m)
    PROVE  elsewhere' \in [Users -> [Months -> Nat]]
<1>1. cost \in Nat /\ CounterUnit \in Nat \ {0}
  BY GateAssumption
<1>2. PICK paid \in Nat : paid = Rounded(cost, CounterUnit)
  BY <1>1, RoundedNear
<1>3. elsewhere' = [elsewhere EXCEPT ![u][m] = @ + paid]
  BY <1>2 DEF ChargeElsewhere
<1> QED
  BY <1>3 DEF CountersTyped

\* Steps that charge nothing to the workspace.
LEMMA NoCharge ==
    ASSUME [ReportsNext]_reportsVars, \A c \in Calls : ~Charge(c)
    PROVE  spend' = spend /\ requests' = requests /\ here' = here /\ split' = split
<1>1. CASE GateStep
  <2>1. here' = here /\ split' = split
    BY <1>1 DEF GateStep, counters
  <2>2. ASSUME NEW c \in Calls, NEW u \in Users, NEW cost \in Costs, Start(c, u, cost)
        PROVE  spend' = spend /\ requests' = requests
    BY <2>2 DEF Start, usageVars
  <2>3. ASSUME NEW c \in Calls,
               \/ ReadWorkspace(c) \/ WorkspaceSuspended(c) \/ ReadSpend(c)
               \/ CapBlocked(c) \/ UserGate(c) \/ LockAggregate(c)
               \/ CommitDenied(c) \/ Abort(c)
        PROVE  spend' = spend /\ requests' = requests
    BY <2>3 DEF ReadWorkspace, WorkspaceSuspended, ReadSpend, CapBlocked, UserGate,
                LockAggregate, CommitDenied, Abort, usageVars
  <2>4. Admin \/ NextMonth => spend' = spend /\ requests' = requests
    BY DEF Admin, Suspend, Unsuspend, UpdateBudget, Link, Unlink, NextMonth, usageVars
  <2> QED
    BY <1>1, <2>1, <2>2, <2>3, <2>4 DEF GateStep
<1>2. CASE UNCHANGED <<vars, here, split>>
  BY <1>2 DEF vars, usageVars
<1> QED
  BY <1>1, <1>2 DEF ReportsNext, ChargeElsewhere, Join, Leave, Ask, Select, reportsVars,
                    counters

LEMMA CountersTypedStep ==
    ASSUME TypeOK, CountersTyped, [ReportsNext]_reportsVars
    PROVE  CountersTyped'
<1>1. ASSUME NEW c \in Calls, Charge(c) PROVE CountersTyped'
  <2>1. here' \in [Users -> [Months -> Nat]]
    BY <1>1, ChargeRows
  <2>2. split' \subseteq Months
    <3>1. v[c].month \in Months /\ v[c].user_month \in Months
      BY <1>1, ChargeRows
    <3>2. split' = split \/ split' = split \union {v[c].month, v[c].user_month}
      BY <1>1 DEF Charge
    <3> QED
      BY <3>1, <3>2 DEF CountersTyped
  <2> QED
    BY <1>1, <2>1, <2>2 DEF Charge, CountersTyped
<1>2. CASE UNCHANGED <<members, counters>>
  BY <1>2 DEF CountersTyped, counters
<1>3. ASSUME NEW u \in Users, NEW cost \in Costs, NEW m \in Months,
             ChargeElsewhere(u, cost, m)
      PROVE  CountersTyped'
  BY <1>3, ElsewhereRow DEF ChargeElsewhere, CountersTyped
<1>4. ASSUME NEW u \in Users, Join(u) \/ Leave(u) PROVE CountersTyped'
  BY <1>4 DEF Join, Leave, CountersTyped, counters
<1> QED
  BY <1>1, <1>2, <1>3, <1>4 DEF ReportsNext, GateStep, Ask, Select, reportsVars

LEMMA ColumnsAreNumbers ==
    ASSUME CountersTyped, NEW m \in Months
    PROVE  \A u \in Users : Column(m)[u] \in Int
BY DEF Column, CountersTyped

LEMMA CountersPayStep ==
    ASSUME TypeOK, CountersTyped, CountersPay, [ReportsNext]_reportsVars
    PROVE  CountersPay'
<1> SUFFICES ASSUME NEW m \in Months, m \notin split'
             PROVE  Pays(Total(Column(m)', Users), spend'[m], requests'[m])
  BY DEF CountersPay, Pays
<1>1. ASSUME NEW c \in Calls, Charge(c)
      PROVE  Pays(Total(Column(m)', Users), spend'[m], requests'[m])
  <2>1. PICK u : u = v[c].user
    OBVIOUS
  <2>2. PICK paid : paid = Rounded(v[c].cost, CounterUnit)
    OBVIOUS
  <2>3. PICK cost : cost = v[c].cost
    OBVIOUS
  <2>4. /\ u \in Users /\ v[c].month \in Months /\ v[c].user_month \in Months
        /\ cost \in Nat /\ paid \in Nat
        /\ here' \in [Users -> [Months -> Nat]]
        /\ here'[u][v[c].user_month] = here[u][v[c].user_month] + paid
        /\ \A w \in Users, n \in Months :
             w # u \/ n # v[c].user_month => here'[w][n] = here[w][n]
        /\ spend' = [spend EXCEPT ![v[c].month] = @ + cost]
        /\ requests' = [requests EXCEPT ![v[c].month] = @ + 1]
    BY <1>1, <2>1, <2>2, <2>3, ChargeRows
  <2>5. m \notin split
    BY <1>1 DEF Charge
  <2>6. Pays(Total(Column(m), Users), spend[m], requests[m])
    BY <2>5 DEF CountersPay
  <2>7. m = v[c].month <=> m = v[c].user_month
    BY <1>1 DEF Charge
  <2>8. CASE m # v[c].month
    <3>1. Column(m)' = Column(m)
      BY <2>4, <2>7, <2>8 DEF Column
    <3>2. spend'[m] = spend[m] /\ requests'[m] = requests[m]
      BY <2>4, <2>8 DEF TypeOK
    <3> QED
      BY <2>6, <3>1, <3>2
  <2>9. CASE m = v[c].month
    <3>1. PICK f : f = Column(m)
      OBVIOUS
    <3>2. PICK g : g = Column(m)'
      OBVIOUS
    <3>3. /\ f[u] \in Nat /\ g[u] = f[u] + paid
          /\ \A x \in Users \ {u} : g[x] = f[x]
      BY <2>4, <2>7, <2>9, <3>1, <3>2 DEF Column, CountersTyped
    <3>4. \A x \in Users : f[x] \in Int /\ g[x] \in Int
      <4>1. \A x \in Users : f[x] \in Int
        BY <3>1, ColumnsAreNumbers
      <4> QED
        BY <2>4, <3>3, <4>1
    <3>5. Total(g, Users) = Total(f, Users) + (g[u] - f[u])
      <4>1. IsFiniteSet(Users)
        BY ReportsAssumption
      <4> QED
        BY ONLY <2>4, <3>3, <3>4, <4>1, TotalChange
    <3>6. PICK sum : sum = Total(f, Users)
      OBVIOUS
    <3>7. Pays(sum, spend[m], requests[m])
      BY <2>6, <3>1, <3>6
    <3>8. sum \in Int /\ Total(g, Users) = sum + paid
      BY <2>4, <3>3, <3>5, <3>6, <3>7 DEF Pays
    <3>9. spend'[m] = spend[m] + cost /\ requests'[m] = requests[m] + 1
      BY <2>4, <2>9 DEF TypeOK
    <3>10. Pays(sum + paid, spend[m] + cost, requests[m] + 1)
      <4>1. PICK n : n = requests[m]
        OBVIOUS
      <4>2. PICK s : s = spend[m]
        OBVIOUS
      <4>3. /\ 2 * paid <= 2 * cost + CounterUnit
            /\ 2 * paid >= 2 * cost - CounterUnit
        BY <2>2, <2>3, <2>4, GateAssumption, RoundedNear
      <4>4. CounterUnit \in Nat
        BY GateAssumption
      <4>5. Pays(sum, s, n)
        BY <3>7, <4>1, <4>2
      <4>6. n \in Nat /\ CounterUnit * (n + 1) = CounterUnit * n + CounterUnit
            /\ CounterUnit * n \in Int
        BY <4>4, <4>5 DEF Pays
      <4>7. Pays(sum + paid, s + cost, n + 1)
        BY <2>4, <3>8, <4>3, <4>4, <4>5, <4>6 DEF Pays
      <4> QED
        BY <4>1, <4>2, <4>7
    <3> QED
      BY <3>2, <3>8, <3>9, <3>10
  <2> QED
    BY <2>8, <2>9
<1>2. CASE \A c \in Calls : ~Charge(c)
  <2>1. spend' = spend /\ requests' = requests /\ here' = here /\ split' = split
    BY <1>2, NoCharge
  <2>2. Column(m)' = Column(m)
    BY <2>1 DEF Column
  <2> QED
    BY <2>1, <2>2 DEF CountersPay
<1> QED
  BY <1>1, <1>2

\* Totals only grow.
LEMMA TotalsGrow ==
    ASSUME TypeOK, TypeOK', [ReportsNext]_reportsVars
    PROVE  /\ highest \in Nat /\ highest' \in Nat /\ highest <= highest'
           /\ split \subseteq split'
           /\ \A m \in Months :
                /\ spend[m] \in Nat /\ spend'[m] \in Nat /\ spend[m] <= spend'[m]
                /\ requests[m] \in Nat /\ requests'[m] \in Nat
                /\ requests[m] <= requests'[m]
<1>1. \A m \in Months : spend[m] <= spend'[m]
  BY GateSteps, SpendGrows
<1>2. \A m \in Months : /\ spend[m] \in Nat /\ spend'[m] \in Nat
                        /\ requests[m] \in Nat /\ requests'[m] \in Nat
  BY DEF TypeOK
<1>3. highest \in Nat /\ highest' \in Nat
  BY GateAssumption DEF TypeOK
<1>4. highest <= highest'
  <2>1. CASE \E b \in Budgets : UpdateBudget(b)
    <3>1. PICK b \in Budgets : UpdateBudget(b)
      BY <2>1
    <3>2. b \in Nat
      BY GateAssumption
    <3> QED
      BY <1>3, <3>1, <3>2 DEF UpdateBudget
  <2>2. CASE UNCHANGED highest
    BY <1>3, <2>2
  <2>3. ASSUME NEW c \in Calls,
               \/ Proceed(c) \/ Abort(c)
               \/ \E u \in Users, cost \in Costs : Start(c, u, cost)
        PROVE  UNCHANGED highest
    BY <2>3 DEF Proceed, Start, ReadWorkspace, WorkspaceSuspended, ReadSpend, CapBlocked,
                UserGate, LockAggregate, CommitAllowed, CommitDenied, Abort, history
  <2>4. Suspend \/ Unsuspend \/ NextMonth \/ (\E u \in Users : Link(u) \/ Unlink(u))
          => UNCHANGED highest
    BY DEF Suspend, Unsuspend, NextMonth, Link, Unlink, history
  <2>5. UNCHANGED vars => UNCHANGED highest
    BY DEF vars, history
  <2> QED
    BY <2>1, <2>2, <2>3, <2>4, <2>5, GateSteps DEF Next, Admin
<1>5. /\ split \subseteq split'
      /\ \A m \in Months : requests[m] <= requests'[m]
  <2>1. ASSUME NEW c \in Calls, Charge(c)
        PROVE  /\ split \subseteq split'
               /\ \A m \in Months : requests[m] <= requests'[m]
    <3>1. split \subseteq split'
      BY <2>1 DEF Charge
    <3>2. requests' = [requests EXCEPT ![v[c].month] = @ + 1]
      BY <2>1 DEF Charge, CommitAllowed
    <3>3. \A m \in Months : requests'[m] = requests[m] \/ requests'[m] = requests[m] + 1
      BY <3>2 DEF TypeOK
    <3> QED
      BY <1>2, <3>1, <3>3
  <2>2. CASE \A c \in Calls : ~Charge(c)
    BY <1>2, <2>2, NoCharge
  <2> QED
    BY <2>1, <2>2
<1> QED
  BY <1>1, <1>2, <1>3, <1>4, <1>5

-----------------------------------------------------------------------------
(* The reports.                                                            *)

LEMMA TheSelects ==
    /\ Kinds = {"invoice", "status"}
    /\ Parts("invoice") = {"usage", "members", "alerts"}
    /\ Parts("status") = {"usage", "alerts"}
    /\ Earlier("invoice", "members") = {"usage"}
    /\ Earlier("invoice", "alerts") = {"usage", "members"}
<1>1. Kinds = {"invoice", "status"}
  BY DEF Kinds, Selects
<1>2. /\ Selects["invoice"] = <<"usage", "members", "alerts">>
      /\ Selects["status"] = <<"usage", "alerts">>
  BY DEF Selects
<1>3. Parts("invoice") = {"usage", "members", "alerts"}
  BY <1>2 DEF Parts, Range
<1>4. Parts("status") = {"usage", "alerts"}
  BY <1>2 DEF Parts, Range
<1>5. Earlier("invoice", "members") = {"usage"}
  BY <1>2 DEF Earlier
<1>6. Earlier("invoice", "alerts") = {"usage", "members"}
  BY <1>2 DEF Earlier
<1> QED
  BY <1>1, <1>3, <1>4, <1>5, <1>6

\* No alert of the list is ahead of the spend of its month.
Within(listed, cost) ==
    \A a \in listed : 2 * a.spend_at_trigger <= 2 * cost + AlertUnit

\* The list has every alert that such a spend must have fired.
Covers(listed, cost, top) ==
    \A p \in Thresholds :
      100 * (cost - Slack) >= p * top => \E a \in listed : a.threshold_pct = p

\* What a report has found, if by now the month has cost that much, by n
\* requests, and top is the highest budget.
Shape(r) ==
    /\ DOMAIN r = {"kind", "month", "got", "loyal"}
    /\ r.kind \in {"invoice", "status"} /\ r.month \in Months
    /\ r.kind = "status" => DOMAIN r.got \subseteq {"usage", "alerts"}
    /\ DOMAIN r.got \subseteq {"usage", "members", "alerts"}
    /\ r.kind = "invoice" /\ "alerts" \in DOMAIN r.got => "usage" \in DOMAIN r.got
    /\ "members" \in DOMAIN r.got => "usage" \in DOMAIN r.got

UsageFits(r, cost) ==
    "usage" \in DOMAIN r.got /\ r.kind = "invoice"
      => r.got["usage"] \in Nat /\ r.got["usage"] <= cost

AlertsFit(r, cost, top) ==
    "alerts" \in DOMAIN r.got /\ (r.kind = "invoice" \/ r.got["alerts"] # Missing)
      => /\ r.got["alerts"] \in SUBSET Alert
         /\ Within(r.got["alerts"], cost)
         /\ r.kind = "invoice" => Covers(r.got["alerts"], r.got["usage"], top)

MembersFit(r, cost, n) ==
    "members" \in DOMAIN r.got /\ r.loyal
      => LET sum == Total(r.got["members"], DOMAIN r.got["members"])
         IN  /\ sum \in Int
             /\ 2 * sum + CounterUnit * n >= 2 * r.got["usage"]
             /\ 2 * sum - CounterUnit * n <= 2 * cost

Fits(r, cost, n, top, whole) ==
    /\ Shape(r)
    /\ UsageFits(r, cost)
    /\ AlertsFit(r, cost, top)
    /\ whole => MembersFit(r, cost, n)

ReportFits ==
    report # NoReport =>
      Fits(report, spend[report.month], requests[report.month], highest,
           report.month \notin split)

LEMMA WithinGrows ==
    ASSUME NEW L \in SUBSET Alert, NEW a \in Nat, NEW b \in Nat, a <= b, Within(L, a)
    PROVE  Within(L, b)
<1>1. AlertUnit \in Nat
  BY GateAssumption
<1> QED
  BY <1>1 DEF Within, Alert

\* A smaller spend and a larger budget ask for no more alerts.
LEMMA CoversLess ==
    ASSUME NEW L, NEW a \in Nat, NEW b \in Nat, a <= b,
           NEW low \in Nat, NEW high \in Nat, low <= high, Covers(L, b, low)
    PROVE  Covers(L, a, high)
<1> SUFFICES ASSUME NEW p \in Thresholds, 100 * (a - Slack) >= p * high
             PROVE  \E x \in L : x.threshold_pct = p
  BY DEF Covers
<1>1. p \in Nat
  BY GateAssumption
<1>2. p * low \in Nat /\ p * high \in Nat /\ p * low <= p * high
  BY <1>1, Scales, Zenon
<1>3. PICK less : less = p * low
  OBVIOUS
<1>4. PICK more : more = p * high
  OBVIOUS
<1>5. 100 * (b - Slack) >= less
  BY <1>2, <1>3, <1>4, SlackType
<1> QED
  BY <1>3, <1>5 DEF Covers

LEMMA FitsGrows ==
    ASSUME NEW r, NEW a \in Nat, NEW b \in Nat, a <= b,
           NEW n \in Nat, NEW k \in Nat, n <= k,
           NEW low \in Nat, NEW high \in Nat, low <= high,
           NEW before, NEW after, after => before, Fits(r, a, n, low, before)
    PROVE  Fits(r, b, k, high, after)
<1>1. Shape(r)
  BY DEF Fits
<1>2. UsageFits(r, b)
  BY DEF Fits, UsageFits
<1>3. AlertsFit(r, b, high)
  <2> SUFFICES ASSUME "alerts" \in DOMAIN r.got,
                      r.kind = "invoice" \/ r.got["alerts"] # Missing
               PROVE  /\ r.got["alerts"] \in SUBSET Alert
                      /\ Within(r.got["alerts"], b)
                      /\ r.kind = "invoice" => Covers(r.got["alerts"], r.got["usage"], high)
    BY DEF AlertsFit
  <2>1. /\ r.got["alerts"] \in SUBSET Alert
        /\ Within(r.got["alerts"], a)
        /\ r.kind = "invoice" => Covers(r.got["alerts"], r.got["usage"], low)
    BY DEF Fits, AlertsFit
  <2>2. Within(r.got["alerts"], b)
    BY <2>1, WithinGrows
  <2>3. ASSUME r.kind = "invoice" PROVE Covers(r.got["alerts"], r.got["usage"], high)
    <3>1. PICK x : x = r.got["usage"]
      OBVIOUS
    <3>2. x \in Nat
      BY <1>1, <2>3, <3>1 DEF Shape, Fits, UsageFits
    <3>3. Covers(r.got["alerts"], x, low) /\ x <= x
      BY <2>1, <2>3, <3>1, <3>2
    <3> QED
      BY <3>1, <3>2, <3>3, CoversLess
  <2> QED
    BY <2>1, <2>2, <2>3
<1>4. ASSUME after PROVE MembersFit(r, b, k)
  <2> SUFFICES ASSUME "members" \in DOMAIN r.got, r.loyal
               PROVE  LET sum == Total(r.got["members"], DOMAIN r.got["members"])
                      IN  /\ sum \in Int
                          /\ 2 * sum + CounterUnit * k >= 2 * r.got["usage"]
                          /\ 2 * sum - CounterUnit * k <= 2 * b
    BY DEF MembersFit
  <2>1. PICK sum : sum = Total(r.got["members"], DOMAIN r.got["members"])
    OBVIOUS
  <2>2. PICK x : x = r.got["usage"]
    OBVIOUS
  <2>3. /\ sum \in Int
        /\ 2 * sum + CounterUnit * n >= 2 * x
        /\ 2 * sum - CounterUnit * n <= 2 * a
    BY <1>4, <2>1, <2>2 DEF Fits, MembersFit
  <2>4. x \in Nat
    BY <1>1, <2>2 DEF Fits, UsageFits, Shape
  <2>5. /\ CounterUnit * n \in Nat /\ CounterUnit * k \in Nat
        /\ CounterUnit * n <= CounterUnit * k
    BY GateAssumption, Scales, Zenon
  <2>6. /\ 2 * sum + CounterUnit * k >= 2 * x
        /\ 2 * sum - CounterUnit * k <= 2 * b
    BY <2>3, <2>4, <2>5
  <2> QED
    BY <2>1, <2>2, <2>3, <2>6
<1> QED
  BY <1>1, <1>2, <1>3, <1>4 DEF Fits

\* The counters that an invoice lists for loyal members are the column.
LEMMA BreakdownIsColumn ==
    ASSUME CountersTyped, NEW m \in Months, Loyal(m)
    PROVE  Total(member_breakdown(m), DOMAIN member_breakdown(m))
             = Total(Column(m), Users)
<1>1. PICK f : f = Column(m)
  OBVIOUS
<1>2. PICK g : g = member_breakdown(m)
  OBVIOUS
<1>3. DOMAIN g = members /\ members \subseteq Users /\ IsFiniteSet(Users)
  BY <1>2, ReportsAssumption DEF member_breakdown, CountersTyped
<1>4. /\ \A u \in Users : f[u] \in Int
      /\ \A u \in Users \ members : f[u] = 0
      /\ \A u \in members : f[u] = g[u]
  <2>1. \A u \in Users : f[u] \in Int
    BY <1>1, ColumnsAreNumbers
  <2>2. \A u \in Users \ members : f[u] = 0
    BY <1>1 DEF Column, Loyal
  <2>3. \A u \in members : f[u] = g[u]
    <3> SUFFICES ASSUME NEW u \in members PROVE f[u] = g[u]
      OBVIOUS
    <3>1. u \in Users /\ elsewhere[u][m] = 0 /\ here[u][m] \in Nat
      BY <1>3 DEF Loyal, CountersTyped
    <3>2. f[u] = here[u][m] /\ g[u] = here[u][m] + elsewhere[u][m]
      BY <1>1, <1>2, <3>1 DEF Column, member_breakdown
    <3> QED
      BY <3>1, <3>2
  <2> QED
    BY <2>1, <2>2, <2>3
<1>5. Total(f, Users) = Total(f, members)
  BY ONLY <1>3, <1>4, TotalWithin
<1>6. IsFiniteSet(members)
  BY <1>3, FS_Subset
<1>7. Total(f, members) = Total(g, members)
  BY ONLY <1>3, <1>4, <1>6, TotalSame
<1> QED
  BY <1>1, <1>2, <1>3, <1>5, <1>7

\* The alerts of a month are true of it and cover what its spend has passed.
LEMMA AlertsOfMonth ==
    ASSUME GateInv, NEW m \in Months
    PROVE  LET listed == {a \in alerts : a.month = m}
           IN  /\ listed \in SUBSET Alert
               /\ Within(listed, spend[m])
               /\ Covers(listed, spend[m], highest)
<1>1. PICK listed : listed = {a \in alerts : a.month = m}
  OBVIOUS
<1>2. listed \in SUBSET Alert
  BY <1>1 DEF GateInv, TypeOK
<1>3. Within(listed, spend[m])
  BY <1>1 DEF GateInv, AlertsTrue, Within
<1>4. Covers(listed, spend[m], highest)
  BY <1>1 DEF GateInv, AlertLag, Covers, Slack
<1> QED
  BY <1>1, <1>2, <1>3, <1>4

LEMMA SelectFits ==
    ASSUME GateInv, CountersTyped, CountersPay, ReportFits,
           NEW part \in Parts("invoice"), Select(part)
    PROVE  ReportFits'
<1>1. report # NoReport /\ part \in Parts(report.kind) \ DOMAIN report.got
      /\ Earlier(report.kind, part) \subseteq DOMAIN report.got
  BY DEF Select, Due
<1>2. PICK m : m = report.month
  OBVIOUS
<1>3. PICK cost : cost = spend[m]
  OBVIOUS
<1>4. PICK n : n = requests[m]
  OBVIOUS
<1>5. Fits(report, cost, n, highest, m \notin split) /\ Shape(report)
  BY <1>1, <1>2, <1>3, <1>4 DEF ReportFits, Fits
<1>6. spend' = spend /\ requests' = requests /\ highest' = highest /\ split' = split
  BY DEF Select, vars, usageVars, history, counters
<1>7. m \in Months /\ cost \in Nat /\ n \in Nat /\ highest \in Nat
  <2>1. m \in Months
    BY <1>2, <1>5 DEF Shape
  <2> QED
    BY <1>3, <1>4, <2>1, GateAssumption DEF GateInv, TypeOK
<1>8. ASSUME NEW found, Got(part, found),
             \/ found = Found(part, m)
             \/ report.kind = "status" /\ found = Missing
      PROVE  ReportFits'
  <2>1. /\ DOMAIN report' = DOMAIN report
        /\ report'.kind = report.kind /\ report'.month = m
        /\ DOMAIN report'.got = {part} \union DOMAIN report.got
        /\ report'.got[part] = found
        /\ \A p \in DOMAIN report.got : report'.got[p] = report.got[p]
        /\ report'.loyal = IF part = "members" THEN Loyal(m) ELSE report.loyal
    BY <1>1, <1>2, <1>5, <1>8 DEF Got, Shape
  <2>2. SUFFICES Fits(report', cost, n, highest, m \notin split)
    BY <1>3, <1>4, <1>6, <2>1 DEF ReportFits
  <2>3. part \in {"usage", "members", "alerts"}
    BY TheSelects
  <2>4. Shape(report')
    BY <1>1, <1>2, <1>5, <1>7, <2>1, <2>3, TheSelects DEF Shape
  <2>5. UsageFits(report', cost)
    <3>1. CASE part = "usage"
      <4>1. report.kind = "invoice" => found = cost
        BY <1>3, <1>8, <3>1 DEF Found
      <4> QED
        BY <1>7, <2>1, <3>1, <4>1 DEF UsageFits
    <3>2. CASE part # "usage"
      <4>1. "usage" \in DOMAIN report'.got => "usage" \in DOMAIN report.got
        BY <2>1, <3>2
      <4> QED
        BY <1>5, <2>1, <4>1 DEF Fits, UsageFits
    <3> QED
      BY <3>1, <3>2
  <2>6. AlertsFit(report', cost, highest)
    <3>1. CASE part = "alerts"
      <4>1. report.kind = "invoice" => "usage" \in DOMAIN report.got
        BY <1>1, <3>1, TheSelects
      <4>2. report.kind = "invoice" => report.got["usage"] \in Nat
                                        /\ report.got["usage"] <= cost
        BY <1>5, <4>1 DEF Fits, UsageFits
      <4>3. CASE found = {a \in alerts : a.month = m}
        <5>1. /\ found \in SUBSET Alert /\ Within(found, cost)
              /\ Covers(found, cost, highest)
          BY <1>3, <1>7, <4>3, AlertsOfMonth
        <5>2. report.kind = "invoice" => Covers(found, report.got["usage"], highest)
          <6>1. PICK x : x = report.got["usage"]
            OBVIOUS
          <6>2. ASSUME x \in Nat, x <= cost PROVE Covers(found, x, highest)
            BY <1>7, <5>1, <6>2, CoversLess
          <6> QED
            BY <4>2, <6>1, <6>2
        <5> QED
          BY <2>1, <3>1, <4>1, <5>1, <5>2 DEF AlertsFit
      <4>4. CASE report.kind = "status" /\ found = Missing
        BY <2>1, <3>1, <4>4 DEF AlertsFit
      <4> QED
        BY <1>8, <3>1, <4>3, <4>4 DEF Found
    <3>2. CASE part # "alerts"
      <4>1. "alerts" \in DOMAIN report'.got => "alerts" \in DOMAIN report.got
        BY <2>1, <3>2
      <4>2. report.kind = "invoice" /\ "alerts" \in DOMAIN report.got
              => "usage" \in DOMAIN report.got
        BY <1>5 DEF Shape
      <4> QED
        BY <1>5, <2>1, <4>1, <4>2 DEF Fits, AlertsFit
    <3> QED
      BY <3>1, <3>2
  <2>7. ASSUME m \notin split PROVE MembersFit(report', cost, n)
    <3>1. CASE part = "members"
      <4>1. report.kind = "invoice"
        BY <1>1, <1>5, <3>1, TheSelects DEF Shape
      <4>2. "usage" \in DOMAIN report.got
        BY <1>1, <3>1, <4>1, TheSelects
      <4>3. PICK x : x = report.got["usage"]
        OBVIOUS
      <4>4. x \in Nat /\ x <= cost
        BY <1>5, <4>1, <4>2, <4>3 DEF Fits, UsageFits
      <4>5. found = member_breakdown(m) /\ report'.loyal = Loyal(m)
        BY <1>8, <2>1, <3>1, <4>1 DEF Found
      <4>6. ASSUME Loyal(m)
            PROVE  /\ Total(found, DOMAIN found) \in Int
                   /\ 2 * Total(found, DOMAIN found) + CounterUnit * n >= 2 * x
                   /\ 2 * Total(found, DOMAIN found) - CounterUnit * n <= 2 * cost
        <5>1. PICK sum : sum = Total(Column(m), Users)
          OBVIOUS
        <5>2. Total(found, DOMAIN found) = sum
          BY <1>7, <4>5, <4>6, <5>1, BreakdownIsColumn
        <5>3. Pays(sum, cost, n)
          BY <1>3, <1>4, <1>7, <2>7, <5>1 DEF CountersPay
        <5>4. CounterUnit * n \in Int
          BY <1>7, GateAssumption
        <5> QED
          BY <4>4, <5>2, <5>3, <5>4 DEF Pays
      <4>7. report'.got["members"] = found /\ report'.got["usage"] = x
        BY <2>1, <3>1, <4>2, <4>3
      <4> QED
        BY <4>5, <4>6, <4>7 DEF MembersFit
    <3>2. CASE part # "members"
      <4>1. MembersFit(report, cost, n)
        BY <1>5, <2>7 DEF Fits
      <4>2. "members" \in DOMAIN report'.got => "members" \in DOMAIN report.got
                                                /\ "usage" \in DOMAIN report.got
        BY <1>5, <2>1, <3>2 DEF Shape
      <4> QED
        BY <2>1, <3>2, <4>1, <4>2 DEF MembersFit
    <3> QED
      BY <3>1, <3>2
  <2> QED
    BY <2>4, <2>5, <2>6, <2>7 DEF Fits
<1>9. CASE report' = NoReport
  BY <1>9 DEF ReportFits
<1> QED
  BY <1>2, <1>8, <1>9 DEF Select

LEMMA ReportFitsStep ==
    ASSUME GateInv, TypeOK', CountersTyped, CountersPay, ReportFits,
           [ReportsNext]_reportsVars
    PROVE  ReportFits'
<1>1. CASE UNCHANGED report
  <2> SUFFICES ASSUME report # NoReport
               PROVE  Fits(report, spend'[report.month], requests'[report.month],
                           highest', report.month \notin split')
    BY <1>1 DEF ReportFits
  <2>1. Fits(report, spend[report.month], requests[report.month], highest,
             report.month \notin split)
    BY DEF ReportFits
  <2>2. PICK m : m = report.month
    OBVIOUS
  <2>3. m \in Months
    BY <2>1, <2>2 DEF Fits, Shape
  <2>4. /\ spend[m] \in Nat /\ spend'[m] \in Nat /\ spend[m] <= spend'[m]
        /\ requests[m] \in Nat /\ requests'[m] \in Nat /\ requests[m] <= requests'[m]
        /\ highest \in Nat /\ highest' \in Nat /\ highest <= highest'
        /\ m \notin split' => m \notin split
    BY <2>3, TotalsGrow DEF GateInv
  <2>5. Fits(report, spend[m], requests[m], highest, m \notin split)
    BY <2>1, <2>2
  <2>6. Fits(report, spend'[m], requests'[m], highest', m \notin split')
    <3>1. PICK a \in Nat : a = spend[m]
      BY <2>4
    <3>2. PICK b \in Nat : b = spend'[m]
      BY <2>4
    <3>3. PICK n \in Nat : n = requests[m]
      BY <2>4
    <3>4. PICK k \in Nat : k = requests'[m]
      BY <2>4
    <3>5. PICK low \in Nat : low = highest
      BY <2>4
    <3>6. PICK high \in Nat : high = highest'
      BY <2>4
    <3>7. Fits(report, a, n, low, m \notin split)
      BY <2>5, <3>1, <3>3, <3>5
    <3>8. a <= b /\ n <= k /\ low <= high
      BY <2>4, <3>1, <3>2, <3>3, <3>4, <3>5, <3>6
    <3>9. Fits(report, b, k, high, m \notin split')
      BY <2>4, <3>7, <3>8, FitsGrows
    <3> QED
      BY <3>2, <3>4, <3>6, <3>9
  <2> QED
    BY <2>2, <2>6
<1>2. ASSUME NEW kind \in Kinds, NEW m \in Months, Ask(kind, m)
      PROVE  ReportFits'
  <2>1. report' = [kind |-> kind, month |-> m, got |-> << >>, loyal |-> FALSE]
    BY <1>2 DEF Ask
  <2>2. DOMAIN << >> = {}
    OBVIOUS
  <2>3. DOMAIN report'.got = {}
    BY <2>1, <2>2
  <2>4. Shape(report')
    BY <2>1, <2>3, TheSelects DEF Shape
  <2>5. \A x, y, z : UsageFits(report', x) /\ AlertsFit(report', x, y)
                      /\ MembersFit(report', x, z)
    BY <2>3 DEF UsageFits, AlertsFit, MembersFit
  <2> QED
    BY <2>4, <2>5 DEF ReportFits, Fits
<1>3. ASSUME NEW part \in Parts("invoice"), Select(part) PROVE ReportFits'
  BY <1>3, SelectFits
<1> QED
  BY <1>1, <1>2, <1>3
  DEF ReportsNext, Charge, GateStep, ChargeElsewhere, Join, Leave, reportsVars

-----------------------------------------------------------------------------
(* The invariant.                                                          *)

ReportsInv == CountersTyped /\ CountersPay /\ ReportFits

LEMMA ReportsStart == ReportsInit => ReportsInv
<1> SUFFICES ASSUME ReportsInit PROVE ReportsInv
  OBVIOUS
<1>1. CountersTyped
  BY DEF ReportsInit, NoUse, CountersTyped
<1>2. CountersPay
  <2> SUFFICES ASSUME NEW m \in Months
               PROVE  Pays(Total(Column(m), Users), 0, 0)
    BY DEF CountersPay, ReportsInit, Init
  <2>1. PICK f : f = Column(m)
    OBVIOUS
  <2>2. \A u \in Users : f[u] \in Int /\ f[u] = 0
    BY <2>1 DEF Column, ReportsInit, NoUse
  <2>3. IsFiniteSet(Users) /\ {} \subseteq Users
    BY ReportsAssumption
  <2>4. Total(f, Users) = Total(f, {})
    BY ONLY <2>2, <2>3, TotalWithin
  <2>5. Pays(0, 0, 0)
    BY GateAssumption DEF Pays
  <2> QED
    BY <2>1, <2>4, <2>5, TotalEmpty
<1>3. ReportFits
  BY DEF ReportsInit, ReportFits
<1> QED
  BY <1>1, <1>2, <1>3 DEF ReportsInv

LEMMA ReportsInvariant == ReportsSpec => []ReportsInv
<1>1. GateInv /\ GateInv' /\ ReportsInv /\ [ReportsNext]_reportsVars => ReportsInv'
  BY CountersTypedStep, CountersPayStep, ReportFitsStep DEF ReportsInv, GateInv
<1> QED
  BY <1>1, ReportsStart, GateGoesOn, PTL DEF ReportsSpec

\* However the SELECTs of a report fall between the steps of any number of
\* calls, the alerts it lists are true of its month, and an invoice misses
\* none that its total has reached and the calls in flight cannot account for.
THEOREM AlertsOfReportsFit == ReportsSpec => []AlertsFitSpend
<1>1. ReportsInv => AlertsFitSpend
  <2> SUFFICES ASSUME ReportsInv, report # NoReport, Complete,
                      report.got["alerts"] # Missing
               PROVE  /\ \A a \in report.got["alerts"] :
                           2 * a.spend_at_trigger <= 2 * spend[report.month] + AlertUnit
                      /\ report.kind = "invoice" =>
                           \A p \in Thresholds :
                             100 * (report.got["usage"]
                                      - MaxCost * (Cardinality(Calls) - 1)) >= p * highest
                               => \E a \in report.got["alerts"] : a.threshold_pct = p
    BY DEF AlertsFitSpend
  <2>1. Fits(report, spend[report.month], requests[report.month], highest,
             report.month \notin split)
    BY DEF ReportsInv, ReportFits
  <2>2. "alerts" \in DOMAIN report.got
    BY <2>1, TheSelects DEF Complete, Fits, Shape
  <2> QED
    BY <2>1, <2>2 DEF Fits, AlertsFit, Within, Covers, Slack
<1> QED
  BY <1>1, ReportsInvariant, PTL

\* Whatever calls are charged while an invoice is made, for any users and
\* costs, the members' shares lie between its total and the month's, up to
\* the rounding of the counters.
THEOREM InvoiceAddsUp == ReportsSpec => []BreakdownAddsUp
<1>1. ReportsInv => BreakdownAddsUp
  <2> SUFFICES ASSUME ReportsInv, Ready("invoice"), report.loyal,
                      report.month \notin split
               PROVE  /\ 2 * BreakdownSum + CounterUnit * requests[report.month]
                           >= 2 * report.got["usage"]
                      /\ 2 * BreakdownSum - CounterUnit * requests[report.month]
                           <= 2 * spend[report.month]
    BY DEF BreakdownAddsUp
  <2>1. Fits(report, spend[report.month], requests[report.month], highest, TRUE)
    BY DEF ReportsInv, ReportFits, Ready, Fits
  <2>2. "members" \in DOMAIN report.got
    BY TheSelects DEF Complete, Ready
  <2>3. BreakdownSum = Total(report.got["members"], DOMAIN report.got["members"])
    BY DEF BreakdownSum, Total, MapThenSumSet, MapThenFoldSet
  <2> QED
    BY <2>1, <2>2, <2>3 DEF Fits, MembersFit
<1> QED
  BY <1>1, ReportsInvariant, PTL

-----------------------------------------------------------------------------
(* The usage trend: sorting, limiting and sorting again.                   *)

Increasing(t) == \A i, j \in DOMAIN t : i < j => t[i] < t[j]

\* Every finite set of numbers can be listed in ascending order.
LEMMA AscendingExists ==
    ASSUME NEW S, IsFiniteSet(S), S \subseteq Int
    PROVE  \E t \in [1..Cardinality(S) -> S] : Increasing(t)
<1> DEFINE Listed(T) == \E t \in [1..Cardinality(T) -> T] : Increasing(t)
           Bad == {T \in SUBSET S : ~Listed(T)}
<1>1. Bad = {}
  <2> SUFFICES ASSUME Bad # {} PROVE FALSE
    OBVIOUS
  <2>1. Bad \subseteq SUBSET S
    OBVIOUS
  <2>2. \E T \in Bad : \A W \in Bad : W \subseteq T => W = T
    <3> HIDE DEF Bad
    <3> QED
      BY ONLY IsFiniteSet(S), Bad # {}, <2>1, Smallest
  <2>3. PICK T \in Bad : \A W \in Bad : W \subseteq T => W = T
    BY <2>2
  <2>4. IsFiniteSet(T) /\ T \subseteq Int /\ ~Listed(T) /\ T \subseteq S
    BY <2>3, FS_Subset
  <2>5. T # {}
    <3>1. Cardinality({}) = 0
      BY FS_EmptySet
    <3>2. [i \in 1..0 |-> 0] \in [1..0 -> {}] /\ Increasing([i \in 1..0 |-> 0])
      BY DEF Increasing
    <3>3. Listed({})
      BY <3>1, <3>2
    <3> HIDE DEF Listed
    <3> QED
      BY <2>4, <3>3
  <2>6. PICK y \in T : \A x \in T : x <= y
    <3>1. Max(T) \in T /\ \A x \in T : x <= Max(T)
      BY <2>4, <2>5, MaxIsLargest
    <3> HIDE DEF Max
    <3> QED
      BY <3>1
  <2> DEFINE V == T \ {y}
             n == Cardinality(V)
  <2>7. n \in Nat /\ Cardinality(T) = n + 1
    <3>1. IsFiniteSet(V) /\ Cardinality(V) = Cardinality(T) - 1
      BY <2>4, <2>6, FS_RemoveElement
    <3>2. Cardinality(V) \in Nat /\ Cardinality(T) \in Nat
      BY <2>4, <3>1, FS_CardinalityType
    <3> HIDE DEF V
    <3> QED
      BY <3>1, <3>2
  <2>8. Listed(V)
    <3>1. V \in SUBSET S /\ V \subseteq T /\ V # T
      BY <2>4, <2>6
    <3>2. V \notin Bad
      <4> HIDE DEF V, Bad
      <4> QED
        BY <2>3, <3>1
    <3> HIDE DEF V, Listed
    <3> QED
      BY <3>1, <3>2
  <2>9. PICK t \in [1..n -> V] : Increasing(t)
    BY <2>8
  <2> DEFINE e == [i \in 1..n + 1 |-> IF i = n + 1 THEN y ELSE t[i]]
  <2>10. e \in [1..n + 1 -> T]
    <3>1. \A i \in 1..n + 1 : i # n + 1 => i \in 1..n
      <4> HIDE DEF n
      <4> QED
        BY <2>7
    <3>2. \A i \in 1..n : t[i] \in T
      BY <2>9
    <3> HIDE DEF n
    <3> QED
      BY <2>6, <3>1, <3>2
  <2>11. Increasing(e)
    <3>1. \A i \in 1..n : t[i] \in V
      BY <2>9
    <3>2. \A x \in V : x < y
      BY <2>4, <2>6
    <3>3. DOMAIN t = 1..n
      BY <2>9
    <3>4. \A i, j \in 1..n : i < j => t[i] < t[j]
      BY <2>9, <3>3 DEF Increasing
    <3> HIDE DEF n, V
    <3>5. ASSUME NEW i \in 1..n + 1, NEW j \in 1..n + 1, i < j
          PROVE  e[i] < e[j]
      <4>1. i \in 1..n /\ e[i] = t[i]
        BY <2>7, <3>5
      <4>2. CASE j = n + 1
        BY <3>1, <3>2, <4>1, <4>2
      <4>3. CASE j # n + 1
        <5>1. j \in 1..n /\ e[j] = t[j]
          BY <2>7, <4>3
        <5> QED
          BY <3>4, <3>5, <4>1, <5>1
      <4> QED
        BY <4>2, <4>3
    <3>6. DOMAIN e = 1..n + 1
      OBVIOUS
    <3> HIDE DEF e
    <3> QED
      BY <3>5, <3>6 DEF Increasing
  <2>12. Listed(T)
    <3> HIDE DEF e, n
    <3> QED
      BY <2>7, <2>10, <2>11
  <2> HIDE DEF Listed
  <2> QED
    BY <2>4, <2>12
<1>2. Listed(S)
  <2> HIDE DEF Listed
  <2> QED
    BY <1>1
<1> QED
  BY <1>2

\* What Ascending returns.
LEMMA AscendingList ==
    ASSUME NEW S, IsFiniteSet(S), S \subseteq Int
    PROVE  /\ Cardinality(S) \in Nat
           /\ Ascending(S) \in [1..Cardinality(S) -> S]
           /\ Increasing(Ascending(S))
           /\ \A x \in S : \E i \in 1..Cardinality(S) : Ascending(S)[i] = x
<1> DEFINE n == Cardinality(S)
           t == Ascending(S)
<1>1. n \in Nat
  BY FS_CardinalityType
<1>2. t \in [1..n -> S] /\ Increasing(t)
  BY AscendingExists DEF Ascending, Increasing
<1>3. \A i \in 1..n : t[i] \in Int
  BY <1>2
<1>4. \A i, j \in 1..n : i < j => t[i] < t[j]
  BY <1>2 DEF Increasing
<1> HIDE DEF n, t
<1>5. ASSUME NEW i \in 1..n, NEW j \in 1..n, t[i] = t[j] PROVE i = j
  BY <1>1, <1>3, <1>4, <1>5
<1>6. t \in Injection(1..n, S)
  BY <1>2, <1>5 DEF Injection, IsInjective
<1>7. IsFiniteSet(1..n) /\ Cardinality(1..n) = n
  BY <1>1, FS_Interval
<1>8. t \in Surjection(1..n, S)
  <2>1. Cardinality(1..n) = Cardinality(S)
    BY <1>7 DEF n
  <2> QED
    BY <1>6, <2>1, FS_Injection
<1>9. \A x \in S : \E i \in 1..n : t[i] = x
  BY <1>8 DEF Surjection
<1> QED
  BY <1>1, <1>2, <1>9 DEF n, t

LEMMA SmallerOfTwo ==
    ASSUME NEW a \in Nat, NEW b \in Nat
    PROVE  Min({a, b}) \in Nat /\ Min({a, b}) <= a /\ Min({a, b}) <= b
<1>1. \E x \in {a, b} : \A y \in {a, b} : x <= y
  <2>1. CASE a <= b
    BY <2>1
  <2>2. CASE b <= a
    BY <2>2
  <2> QED
    BY <2>1, <2>2
<1> QED
  BY <1>1 DEF Min

\* The n latest of some months, ascending.
LEMMA LatestMonths ==
    ASSUME NEW S, IsFiniteSet(S), S \subseteq Nat, NEW n \in Nat
    PROVE  LET t == Ascending(ToSet(Limited(LatestFirst(S), n)))
           IN  /\ Len(t) = Min({n, Cardinality(S)})
               /\ \A i, j \in DOMAIN t : i < j => t[i] < t[j]
               /\ \A m \in S \ ToSet(t) : \A i \in DOMAIN t : m < t[i]
<1>1. PICK total : total = Cardinality(S)
  OBVIOUS
<1>2. PICK all : all = Ascending(S)
  OBVIOUS
<1>3. total \in Nat /\ all \in [1..total -> S] /\ Increasing(all)
      /\ \A x \in S : \E i \in 1..total : all[i] = x
  <2>1. S \subseteq Int
    OBVIOUS
  <2> QED
    BY <1>1, <1>2, <2>1, AscendingList
<1>4. PICK k : k = Min({n, total})
  OBVIOUS
<1>5. k \in Nat /\ k <= total /\ k <= n
  BY <1>3, <1>4, SmallerOfTwo
<1>6. \A i, j \in 1..total : i < j => all[i] < all[j]
  BY <1>3 DEF Increasing
<1>7. PICK first : first = LatestFirst(S)
  OBVIOUS
<1>8. first \in [1..total -> S] /\ \A i \in 1..total : first[i] = all[(total - i) + 1]
  <2>1. Len(all) = total
    BY <1>3
  <2>2. first = [i \in 1..total |-> all[(total - i) + 1]]
    BY <1>2, <1>7, <2>1 DEF LatestFirst, Reverse
  <2>3. \A i \in 1..total : (total - i) + 1 \in 1..total
    BY <1>3
  <2> QED
    BY <1>3, <2>2, <2>3
<1>9. PICK some : some = Limited(first, n)
  OBVIOUS
<1>10. some \in [1..k -> S] /\ \A i \in 1..k : some[i] = all[(total - i) + 1]
  <2>1. Len(first) = total /\ first \in Seq(S)
    BY <1>3, <1>8
  <2>2. some = SubSeq(first, 1, k)
    BY <1>4, <1>9, <2>1 DEF Limited
  <2>3. some = [i \in 1..k |-> first[i]]
    BY <1>3, <1>5, <2>1, <2>2
  <2>4. \A i \in 1..k : i \in 1..total
    BY <1>3, <1>5
  <2> QED
    BY <1>8, <2>3, <2>4
<1>11. PICK L : L = ToSet(some)
  OBVIOUS
<1>12. \A x : x \in L <=> \E j \in 1..total : j > total - k /\ x = all[j]
  <2>1. L = {some[i] : i \in 1..k}
    BY <1>10, <1>11 DEF ToSet
  <2>2. ASSUME NEW x \in L PROVE \E j \in 1..total : j > total - k /\ x = all[j]
    <3>1. PICK i \in 1..k : x = all[(total - i) + 1]
      BY <1>10, <2>1
    <3>2. (total - i) + 1 \in 1..total /\ (total - i) + 1 > total - k
      BY <1>3, <1>5
    <3> QED
      BY <3>1, <3>2
  <2>3. ASSUME NEW j \in 1..total, j > total - k PROVE all[j] \in L
    <3>1. (total - j) + 1 \in 1..k /\ (total - ((total - j) + 1)) + 1 = j
      BY <1>3, <1>5, <2>3
    <3>2. some[(total - j) + 1] = all[j]
      BY <1>10, <3>1
    <3> QED
      BY <2>1, <3>1, <3>2
  <2> QED
    BY <2>2, <2>3
<1>13. L \subseteq S
  BY <1>3, <1>12
<1>14. IsFiniteSet(L) /\ Cardinality(L) = k
  <2>1. some \in [1..k -> L]
    BY <1>10, <1>11 DEF ToSet
  <2>2. ASSUME NEW i \in 1..k, NEW j \in 1..k, some[i] = some[j] PROVE i = j
    <3>1. PICK a : a = (total - i) + 1
      OBVIOUS
    <3>2. PICK b : b = (total - j) + 1
      OBVIOUS
    <3>3. a \in 1..total /\ b \in 1..total /\ (i < j => b < a) /\ (j < i => a < b)
      BY <1>3, <1>5, <3>1, <3>2
    <3>4. all[a] = all[b]
      BY <1>10, <2>2, <3>1, <3>2
    <3>5. all[a] \in Int /\ all[b] \in Int
      <4>1. \A i1 \in 1..total : all[i1] \in S
        BY <1>3
      <4>2. \A x \in S : x \in Int
        OBVIOUS
      <4> QED
        BY ONLY <3>3, <4>1, <4>2, Zenon
    <3>6. ~(i < j) /\ ~(j < i)
      BY <1>6, <3>3, <3>4, <3>5
    <3> QED
      BY <1>5, <3>6
  <2>3. some \in Injection(1..k, L)
    BY <2>1, <2>2 DEF Injection, IsInjective
  <2>4. some \in Surjection(1..k, L)
    BY <1>10, <1>11, <2>1 DEF Surjection, ToSet
  <2>5. IsFiniteSet(1..k) /\ Cardinality(1..k) = k
    BY <1>5, FS_Interval
  <2> QED
    BY <2>3, <2>4, <2>5, FS_Surjection
<1>15. PICK t : t = Ascending(L)
  OBVIOUS
<1>16. t \in [1..k -> L] /\ Increasing(t) /\ \A x \in L : \E i \in 1..k : t[i] = x
  <2>1. L \subseteq Int
    BY <1>13
  <2> QED
    BY <1>14, <1>15, <2>1, AscendingList
<1>17. Len(t) = k
  BY <1>5, <1>16
<1>18. \A i, j \in DOMAIN t : i < j => t[i] < t[j]
  BY <1>16 DEF Increasing
<1>19. ASSUME NEW m \in S \ ToSet(t), NEW i \in DOMAIN t PROVE m < t[i]
  <2>1. m \notin L
    BY <1>16 DEF ToSet
  <2>2. PICK a \in 1..total : m = all[a]
    BY <1>3
  <2>3. PICK b \in 1..total : b > total - k /\ t[i] = all[b]
    BY <1>12, <1>16
  <2>4. ~(a > total - k)
    BY <1>12, <2>1, <2>2
  <2>5. a < b
    BY <1>3, <1>5, <2>3, <2>4
  <2> QED
    BY <1>6, <2>2, <2>3, <2>5
<1>20. t = Ascending(ToSet(Limited(LatestFirst(S), n)))
  BY <1>7, <1>9, <1>11, <1>15
<1>21. Len(t) = Min({n, Cardinality(S)})
  BY <1>1, <1>4, <1>17
<1> HIDE DEF Min, Ascending, ToSet, Limited, LatestFirst
<1> QED
  BY <1>18, <1>19, <1>20, <1>21

\* For any number of months, the trend shows the latest, and in order.
THEOREM TrendShowsLatest == ReportsSpec => []TrendIsLatest
<1>1. TrendIsLatest
  <2> SUFFICES ASSUME NEW n \in 1..Cardinality(Months)
               PROVE  LET t == trend(n)
                      IN  /\ Len(t) = Min({n, Cardinality(Stored)})
                          /\ \A i, j \in DOMAIN t : i < j => t[i] < t[j]
                          /\ \A m \in Stored \ ToSet(t) : \A i \in DOMAIN t : m < t[i]
    BY DEF TrendIsLatest
  <2>1. PICK S : S = Stored
    OBVIOUS
  <2>2. IsFiniteSet(S) /\ S \subseteq Nat /\ Cardinality(Months) \in Nat
    <3>1. IsFiniteSet(Months) /\ Months \subseteq Nat
      BY GateAssumption, FS_Interval DEF Months
    <3>2. S \subseteq Months
      BY <2>1 DEF Stored
    <3> QED
      BY <3>1, <3>2, FS_Subset, FS_CardinalityType
  <2>3. n \in Nat
    BY <2>2
  <2>4. PICK t : t = trend(n)
    OBVIOUS
  <2>5. t = Ascending(ToSet(Limited(LatestFirst(S), n)))
    BY <2>1, <2>4 DEF trend
  <2>6. /\ Len(t) = Min({n, Cardinality(S)})
        /\ \A i, j \in DOMAIN t : i < j => t[i] < t[j]
        /\ \A m \in S \ ToSet(t) : \A i \in DOMAIN t : m < t[i]
    BY <2>2, <2>3, <2>5, LatestMonths
  <2> QED
    BY <2>1, <2>4, <2>6
<1> QED
  BY <1>1, PTL
=============================================================================
