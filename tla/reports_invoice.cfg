SPECIFICATION ReportsSpec
CONSTANTS
    Calls = {c1, c2}
    Users = {u1}
    Budgets = {3}
    Costs = {3}
    MaxCost = 3
    Thresholds = {50}
    CounterUnit = 2
    AlertUnit = 2
    MaxMonth = 1
    MaxBlocked = 0
    Missing = Missing
    NoReport = NoReport
    MaxElsewhere = 4
SYMMETRY Symmetry
INVARIANTS
    BreakdownAddsUp
    AlertsFitSpend
    TrendIsLatest
