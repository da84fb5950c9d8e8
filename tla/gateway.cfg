SPECIFICATION FairGatewaySpec
CONSTANTS
    Callers = {c1, c2}
    Users = {u1}
    FailureThreshold = 2
    RecoveryTimeout = 1
    HalfOpenMax = 1
    NegativeTTL = 2
    RpcTimeout = 1
INVARIANTS
    BlockIsRecent
    FailsClosed
PROPERTIES
    OutageIsNoticed
    Unblocked
