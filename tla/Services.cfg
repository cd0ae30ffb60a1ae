SPECIFICATION MCSpec
CONSTANTS
    d1 = d1
    q1 = q1
    Upload = {d1, d2}
    Query = {q1}
    Setup = {s1, s2}
    Sample = {n1}
    OtherName = other
    None = None
    PersonaCount = 2
    Indexed = 2
    MaxRoles = 1
    MaxRestarts = 1
    Reader = {r1, r2}
    Updater = {u1, u2}
    MaxUpdates = 2
    NoRow = NoRow
INVARIANTS
    LibTypeOK
    RefusedOnlyMet
    SeededOnce
    OpTellsTruth
    StaleAccountedFor
    RefusedOnlyRaced
CHECK_DEADLOCK FALSE
PROPERTIES
    UploadsSettle
    SetupReported
    RefinesShelf
