SPECIFICATION OneRunFairSpec
CONSTANTS
    Agent = {a1}
    Run = {r1, r2}
    Claim = {c1, c2}
    MaxRestarts = 1
    None = None
CHECK_DEADLOCK FALSE
INVARIANTS
    ClaimsAccountedFor
    BoundFlagIsTrue
PROPERTIES
    RefinesLeases
    TurnsEnd
