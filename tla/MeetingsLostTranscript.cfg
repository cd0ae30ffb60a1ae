SPECIFICATION FairSpec
CONSTANTS
    Meeting = {m1}
    Socket = {s1}
    Task = {t1}
    Rules = {"keep"}
    MaxRestarts = 0
    None = None
CHECK_DEADLOCK FALSE
PROPERTIES
    TranscriptSurvivesDisconnect
