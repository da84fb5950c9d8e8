------------------------------ MODULE Reports ------------------------------
(***************************************************************************)
(* What the invoice, the budget status and the usage trend say of the      *)
(* months of one workspace                                                 *)
(* (database/migrations/017_workspace_analytics_rpc.sql and                *)
(* backend/app/services/budget_alert.py), while the calls of WorkspaceGate *)
(* are at work on its tables.                                              *)
(*                                                                         *)
(* The trend is one SELECT and sees one state of the database: an operator *)
(* here.  The other two are put together from several SELECTs, each of     *)
(* which sees what is committed when it runs.  This module adds the tables *)
(* they read beside those of the workspace: who is a member, which may     *)
(* differ from whose quota row is linked (Membership), and the counters of *)
(* the users, which calls of other workspaces charge too.                  *)
(***************************************************************************)
EXTENDS WorkspaceGate, SequencesExt

CONSTANTS
    Missing,        \* what a SELECT that failed has found
    NoReport,
    MaxElsewhere    \* bound of the model: what other workspaces charge a user

ASSUME ReportsAssumption == IsFiniteSet(Users) /\ MaxElsewhere \in Nat

VARIABLES
    members,        \* users with a row in workspace_members
    here,           \* usage_counters.budget_used_usd of [user][month], as two
    elsewhere,      \*   parts: what calls of this workspace added, and others
    split,          \* history: months of the two clocks of a charge, when they
                    \* differed
    report          \* the report that is being put together, or the latest

counters == <<here, elsewhere, split>>
reportsVars == <<vars, members, counters, report>>

NoUse == [u \in Users |-> [m \in Months |-> 0]]

ReportsInit ==
    /\ Init
    /\ members \in SUBSET Users
    /\ here = NoUse /\ elsewhere = NoUse /\ split = {}
    /\ report = NoReport

-----------------------------------------------------------------------------
(* The tables that reports read.                                           *)

\* The RPC of the workspace reads the clock, then that of the user.
Charge(c) ==
    /\ CommitAllowed(c)
    /\ here' = [here EXCEPT ![v[c].user][v[c].user_month] =
                  @ + Rounded(v[c].cost, CounterUnit)]
    /\ split' = IF v[c].month = v[c].user_month THEN split
                ELSE split \union {v[c].month, v[c].user_month}
    /\ UNCHANGED <<members, elsewhere, report>>

\* Every other step of the calls, the administrators and the calendar.
GateStep ==
    /\ \/ \E c \in Calls :
            \/ \E u \in Users, cost \in Costs : Start(c, u, cost)
            \/ ReadWorkspace(c) \/ WorkspaceSuspended(c) \/ ReadSpend(c)
            \/ CapBlocked(c) \/ UserGate(c) \/ LockAggregate(c)
            \/ CommitDenied(c) \/ Abort(c)
       \/ Admin
       \/ NextMonth
    /\ UNCHANGED <<members, counters, report>>

\* A user without a workspace or linked to another one, now or when the call
\* began: the counter is the same, and its row is locked in the same way.
ChargeElsewhere(u, cost, m) ==
    /\ UserFree(u)
    /\ m <= month
    /\ elsewhere[u][m] + Rounded(cost, CounterUnit) <= MaxElsewhere
    /\ elsewhere' = [elsewhere EXCEPT ![u][m] = @ + Rounded(cost, CounterUnit)]
    /\ UNCHANGED <<vars, members, here, split, report>>

\* The first statements of add_member and remove_member; the second ones are
\* Link and Unlink, which may come late, fail, or be those of another
\* workspace.
Join(u) ==
    /\ members' = members \union {u}
    /\ UNCHANGED <<vars, counters, report>>

Leave(u) ==
    /\ members' = members \ {u}
    /\ UNCHANGED <<vars, counters, report>>

-----------------------------------------------------------------------------
(* Reports that take several SELECTs.                                      *)

\* Seeded fault: the counters of the current month.
member_breakdown_now(m) ==
    [u \in members |-> here[u][month] + elsewhere[u][month]]

\* The counters of those who are members now.
member_breakdown(m) == [u \in members |-> here[u][m] + elsewhere[u][m]]

\* Nobody who is listed was charged elsewhere, nobody who was charged is
\* missing from the list.
Loyal(m) ==
    \A u \in Users : IF u \in members THEN elsewhere[u][m] = 0
                                      ELSE here[u][m] = 0

\* The SELECTs of the SQL function run one after the other, those of
\* get_budget_status at once.  That of the budget is left out.
Selects == [invoice |-> <<"usage", "members", "alerts">>,
            status  |-> <<"usage", "alerts">>]

Kinds == DOMAIN Selects

Parts(kind) == Range(Selects[kind])

Earlier(kind, part) ==
    IF kind = "status" THEN {}
    ELSE LET order == Selects[kind]
         IN {order[i] : i \in {i \in DOMAIN order :
                                 \E j \in DOMAIN order : i < j /\ order[j] = part}}

\* Seeded fault: the alerts of all months.
Found_anyMonth(part, m) ==
    CASE part = "usage"   -> spend[m]
      [] part = "members" -> member_breakdown(m)
      [] part = "alerts"  -> alerts

Found(part, m) ==
    CASE part = "usage"   -> spend[m]
      [] part = "members" -> member_breakdown(m)
      [] part = "alerts"  -> {a \in alerts : a.month = m}

Complete == DOMAIN report.got = Parts(report.kind)

\* The month of an invoice is given, that of a status is the current one.
Ask(kind, m) ==
    /\ report # NoReport => Complete
    /\ m <= month /\ (kind = "status" => m = month)
    /\ report' = [kind |-> kind, month |-> m, got |-> << >>, loyal |-> FALSE]
    /\ UNCHANGED <<vars, members, counters>>

Due(part) ==
    /\ report # NoReport
    /\ part \in Parts(report.kind) \ DOMAIN report.got
    /\ Earlier(report.kind, part) \subseteq DOMAIN report.got

Got(part, found) ==
    report' = [report EXCEPT
      !.got = [p \in {part} \union DOMAIN report.got |->
                 IF p = part THEN found ELSE report.got[p]],
      !.loyal = IF part = "members" THEN Loyal(report.month) ELSE @]

\* A SELECT that fails counts as zero or none in a status; the invoice fails
\* with it.
Select(part) ==
    /\ Due(part)
    /\ \/ Got(part, Found(part, report.month))
       \/ report.kind = "status" /\ Got(part, Missing)
       \/ report.kind = "invoice" /\ report' = NoReport
    /\ UNCHANGED <<vars, members, counters>>

ReportsNext ==
    \/ \E c \in Calls : Charge(c)
    \/ GateStep
    \/ \E u \in Users :
         \/ \E cost \in Costs, m \in Months : ChargeElsewhere(u, cost, m)
         \/ Join(u) \/ Leave(u)
    \/ \E kind \in Kinds, m \in Months : Ask(kind, m)
    \/ \E part \in Parts("invoice") : Select(part)

ReportsSpec == ReportsInit /\ [][ReportsNext]_reportsVars

-----------------------------------------------------------------------------
(* The usage trend.                                                        *)

\* ORDER BY ... ASC.
Ascending(ms) ==
    CHOOSE t \in [1..Cardinality(ms) -> ms] :
      \A i, j \in DOMAIN t : i < j => t[i] < t[j]

\* get_workspace_usage_trend: ORDER BY ... DESC LIMIT n, then ascending.
LatestFirst(ms) == Reverse(Ascending(ms))

\* Seeded fault: the limit is applied to the ascending order.
Limited_oldest(s, n) == SubSeq(Reverse(s), 1, Min({n, Len(s)}))

Limited(s, n) == SubSeq(s, 1, Min({n, Len(s)}))

\* The months with a row: a call was charged or blocked.
Stored == {m \in Months : requests[m] > 0 \/ blocked[m] > 0}

trend(n) == Ascending(ToSet(Limited(LatestFirst(Stored), n)))

-----------------------------------------------------------------------------
Ready(kind) == report # NoReport /\ report.kind = kind /\ Complete

BreakdownSum ==
    LET shares == report.got["members"]
    IN  MapThenSumSet(LAMBDA u : shares[u], DOMAIN shares)

(* The members' shares on an invoice add up to at least its total and to   *)
(* no more than what is charged by the time it is complete, up to half a   *)
(* unit of the counters for each request: the SELECTs of the function see  *)
(* different states (017_workspace_analytics_rpc.sql:34-55).  This is said *)
(* of months in which no call was charged across the turn of the month,    *)
(* and of a workspace whose members were charged nowhere else and which    *)
(* charged nobody else, as the SELECT of the members found them.           *)
BreakdownAddsUp ==
    Ready("invoice") /\ report.loyal /\ report.month \notin split =>
      LET rounding == CounterUnit * requests[report.month]
      IN  /\ 2 * BreakdownSum + rounding >= 2 * report.got["usage"]
          /\ 2 * BreakdownSum - rounding <= 2 * spend[report.month]

(* An alert that a status or an invoice lists was true of its month: it    *)
(* passes the spend shown beside it, which may have been read before, by   *)
(* no more than was charged by the time of the alert's SELECT.  An invoice,*)
(* which reads the alerts last, misses none that its total has reached and *)
(* the other calls in flight can no longer account for.  This includes     *)
(* alerts decided on a spend other calls had passed, budgets that changed, *)
(* and a status that is asked for before the turn of the month and read    *)
(* after it (budget_alert.py:95-99, 017_workspace_analytics_rpc.sql:37-75).*)
AlertsFitSpend ==
    report # NoReport /\ Complete /\ report.got["alerts"] # Missing =>
      LET listed == report.got["alerts"]
          certain == report.got["usage"] - MaxCost * (Cardinality(Calls) - 1)
      IN  /\ \A a \in listed :
               2 * a.spend_at_trigger <= 2 * spend[report.month] + AlertUnit
          /\ report.kind = "invoice" =>
               \A p \in Thresholds :
                 100 * certain >= p * highest =>
                   \E a \in listed : a.threshold_pct = p

(* A trend of n months is in chronological order and leaves out no month   *)
(* later than one it shows, however many months have a row                 *)
(* (017_workspace_analytics_rpc.sql:116-133).                              *)
TrendIsLatest ==
    \A n \in 1..Cardinality(Months) :
      LET t == trend(n)
      IN  /\ Len(t) = Min({n, Cardinality(Stored)})
          /\ \A i, j \in DOMAIN t : i < j => t[i] < t[j]
          /\ \A m \in Stored \ ToSet(t) : \A i \in DOMAIN t : m < t[i]
=============================================================================
