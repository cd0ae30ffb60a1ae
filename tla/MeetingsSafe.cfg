SPECIFICATION Spec
CONSTANTS
    Meeting = {m1, m2}
    Socket = {s1, s2}
    Task = {t1, t2}
    Rules = {"keep", "purge"}
    MaxRestarts = 1
    None = None
SYMMETRY Symmetry
CHECK_DEADLOCK FALSE
INVARIANTS
    TypeOK
    RegistryAccurate
    ActiveRowExplained
PROPERTIES
    RefinesRecord
