SPECIFICATION Spec
CONSTANTS
    Deliveries = {d1}
    Users = {u1}
    Tiers = {1, 2}
    FreeTier = 1
    NoRow = NoRow
    NoUser = NoUser
    Faults = {}
    MaxEvents = 2
    MaxFaults = 0
INVARIANTS
    InSync
CHECK_DEADLOCK FALSE
