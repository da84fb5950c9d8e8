SPECIFICATION Spec
CONSTANTS
    Calls = {c1, c2}
    Kinds = {"leak", "consume"}
    MaxTokens = 2
    RefillRate = 1
    MonthlyTokenBudget = 2
    MessageLimit = 2
    BudgetUsd = 3
    TokenCosts = {1, 2}
    UsdCosts = {0, 2}
    MaxTime = 2
    MaxMonth = 1
SYMMETRY Symmetry
INVARIANTS
    TypeOK
    RateBound
    MeterWithinLimits
    LongRunCeiling
PROPERTIES
    NoFreeTokens
