SPECIFICATION FairSpec
CONSTANTS
    s1 = s1
    s2 = s2
    w1 = w1
    Streams = {s1, s2}
    Workers = {w1}
    home <- MCHome
    None = None
    Lease = 1
    MaxTime = 1
    MaxMoves = 1
    MaxOther = 1
    MaxCrashes = 1
    MaxDrops = 1
CHECK_DEADLOCK FALSE
INVARIANTS
    TypeOK
    OneRequest
    OutcomeMatchesDispatch
    ToldIsStored
PROPERTIES
    DispatchSettlesOnce
    LateAnswersLose
    NarrationIsFinal
    NarrationCompletes
