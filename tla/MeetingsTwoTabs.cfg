SPECIFICATION Spec
CONSTANTS
    Meeting = {m1}
    Socket = {s1, s2}
    Task = {t1, t2}
    Rules = {"keep"}
    MaxRestarts = 0
    None = None
CHECK_DEADLOCK FALSE
PROPERTIES
    StopIsFinal
