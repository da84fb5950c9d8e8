SPECIFICATION Spec
CONSTANTS
    Workspaces = {w1, w2}
    Users = {u1, u2}
    Granted = {"owner", "member"}
    Requests = {r1, r2}
    None = None
    Idle = Idle
    MaxUnderWay = 2
SYMMETRY Symmetry
PROPERTIES
    AloneSettles
    AbandonedForGood
CHECK_DEADLOCK FALSE
