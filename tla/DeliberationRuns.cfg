SPECIFICATION FairSpec
CONSTANTS
    Attendee = {a1, a2}
    Word <- MCWord
    TurnLimit = 2
    MaxRuns = 2
    MaxEntries = 1
    None = None
CHECK_DEADLOCK FALSE
INVARIANTS
    TypeOK
    TurnsInOrder
    RecordIsWhatWasHeard
    EveryoneHeardFirst
PROPERTIES
    RefinesMinutes
    RecordedNotReinvoked
    RunEnds
