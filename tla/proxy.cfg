SPECIFICATION Spec
CONSTANTS
    Requests = {r1, r2}
    Conversations <- MCConversations
    MaxTokens = {1}
    CharsPerToken = 4
    TokenMaxCost = 11
    InputRate = 1
    OutputRate = 16
    CostUnit = 2
    CounterUnit = 10
    MessageLimit = 2
    BudgetUsd = 50
    InputCounts = {5, 14}
    MaxBilled = 60
SYMMETRY Symmetry
INVARIANTS
    TypeOK
    NeverUncharged
    BillIsBounded
