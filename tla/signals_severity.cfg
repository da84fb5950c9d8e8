SPECIFICATION SignalsSpec
CONSTANTS
    DaysInMonth = 31
    Budget = 30
    MinDaily = 1
    SpikeMultiplier = 3
    TrajectoryPct = 120
    Histories <- MCHistories
    Amounts = {1, 3}
    MaxAmount = 3
    Overlap = 2
    MaxSpend = 40
CHECK_DEADLOCK FALSE
INVARIANTS
    ExhaustionForeseen
PROPERTIES
    SpendingNeverSoothes
