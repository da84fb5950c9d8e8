SPECIFICATION FairSpec
CONSTANTS
    Deliveries = {d1, d2}
    Users = {u1}
    Tiers = {1, 2}
    FreeTier = 1
    NoRow = NoRow
    NoUser = NoUser
    Faults = {"statement", "crash", "lost reply", "no client"}
    MaxEvents = 2
    MaxFaults = 2
INVARIANTS
    ProcessedIsApplied
    AcknowledgedIsSettled
PROPERTIES
    Settles
CHECK_DEADLOCK FALSE
