SPECIFICATION Spec
CONSTANTS
    Proposals = {p1, p2}
    Calls = {}
    Keys = {k1}
    None = None
    Ttl = 1
    MaxTime = 1
    MaxOutside = 1
    MaxEvents = 4
CHECK_DEADLOCK FALSE
INVARIANT AwaitingIsDecidable
