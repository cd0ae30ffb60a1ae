SPECIFICATION OneTabFairSpec
CONSTANTS
    Meeting = {m1}
    Socket = {s1, s2}
    Task = {t1, t2, t3}
    Rules = {"keep", "purge"}
    MaxRestarts = 1
    None = None
CHECK_DEADLOCK FALSE
INVARIANTS
    OneTaskPerMeeting
    CompletedHasTranscript
PROPERTIES
    StopIsFinal
    ActiveRowSettles
