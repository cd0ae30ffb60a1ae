SPECIFICATION FairSpec
CONSTANTS
    quant = quant
    unbound = unbound
    analyst = analyst
    Call = {c1, c2}
    Caller <- MCCaller
    DefaultTools <- MCDefaultTools
    RoleBinding <- MCRoleBinding
    Name = {n1}
    ExecTimeout = 1
    MaxWall = 2
    MaxFiles = 1
    MaxUid = 2
    None = None
INVARIANTS
    TypeOK
    JobInOwnSandbox
    EndedReleased
    OnlyGrantedRun
    PromptJobsSpared
PROPERTIES
    RefinesCalls
    ClaimsEnd
    CallsEnd
CHECK_DEADLOCK FALSE
