SPECIFICATION Spec
CONSTANTS
    s1 = s1
    s2 = s2
    w1 = w1
    Streams = {s1, s2}
    Workers = {w1}
    home <- MCHome
    None = None
    Lease = 1
    MaxTime = 1
    MaxMoves = 0
    MaxOther = 0
    MaxCrashes = 0
    MaxDrops = 0
CHECK_DEADLOCK FALSE
INVARIANTS
    HookFiresOnce
