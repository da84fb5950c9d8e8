SPECIFICATION Spec
CONSTANTS
    Calls = {c1, c2}
    Users = {u1, u2}
    Budgets = {3, 6}
    Costs = {3}
    MaxCost = 3
    Thresholds = {50, 100}
    CounterUnit = 2
    AlertUnit = 2
    MaxMonth = 1
    MaxBlocked = 0
SYMMETRY Symmetry
INVARIANTS
    TypeOK
    BoundedOverspend
    AlertsTrue
    AlertLag
    Reconciles
    SuspensionDrains
PROPERTIES
    ImplementsLedger
