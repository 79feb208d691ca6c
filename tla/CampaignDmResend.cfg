SPECIFICATION Spec
CONSTANTS
    r1 = r1
    r2 = r2
    w1 = w1
    w2 = w2
    Runs = {r1, r2}
    Workers = {w1, w2}
    LastRound = 1
    MaxEffects = 2
    MaxAttempts = 2
    MaxWorld = 1
    MaxRevision = 1
    MaxCrashes = 1
    Limits <- MCLimits
INVARIANTS
    AmbiguousNeverRetried
