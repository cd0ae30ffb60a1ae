SPECIFICATION Spec
CONSTANTS
    Agent = {a1, a2}
    Run = {r1, r2}
    Claim = {c1, c2}
    MaxRestarts = 1
    None = None
SYMMETRY Symmetry
CHECK_DEADLOCK FALSE
INVARIANTS
    TypeOK
    BoundUnderOwnLabel
    LeasedNotDeleting
    LockHeldWhileClaiming
