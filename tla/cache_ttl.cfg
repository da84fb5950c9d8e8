SPECIFICATION ProbeSpec
CONSTANTS
    Keys = {b1, q1, o1}
    Values = {low, high, Denied, Degraded}
    Ttls = {1, 2}
    MaxEntries = 2
    Prefixes = {{q1, o1}, {b1}}
    Requests = {r1, r2}
    Blocked = b1
    Quota = q1
    NegativeTTL = 1
    DefaultTTL = 2
    RpcTimeout = 1
    Levels = {low, high}
    Denied = Denied
    Degraded = Degraded
    None = None
SYMMETRY Symmetry
INVARIANTS
    TypeOK
    GuessIsRecent
PROPERTIES
    ImplementsTtlMap
