SPECIFICATION FairSpec
CONSTANTS
    r1 = r1
    r2 = r2
    r3 = r3
    None = None
    Requests = {r1, r2, r3}
    Kinds <- AllKinds
    MaxSpeakers = 2
    MaxMessages = 9
    MaxCuts = 1
CHECK_DEADLOCK FALSE
INVARIANTS
    SessionIsSound
    AbortedStaysSilent
    SceneOfBranch
PROPERTIES
    TurnsExtendTheBranch
    LockIsFreed
