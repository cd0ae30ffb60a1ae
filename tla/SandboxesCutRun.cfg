SPECIFICATION Spec
CONSTANTS
    Agent = {a1}
    Run = {r1}
    Claim = {c1, c2}
    MaxRestarts = 0
    None = None
SYMMETRY Symmetry
CHECK_DEADLOCK FALSE
INVARIANTS
    EndedRunHoldsNothing
