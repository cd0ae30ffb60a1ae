SPECIFICATION Spec
CONSTANTS
    Attendee = {a1, a2}
    Word <- MCWord
    TurnLimit = 2
    MaxRuns = 2
    MaxEntries = 1
    None = None
SYMMETRY Symmetry
CHECK_DEADLOCK FALSE
INVARIANT
    SpokenOnce
