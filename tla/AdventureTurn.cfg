SPECIFICATION FairSpec
CONSTANTS
    Proposals = {p1, p2}
    Calls = {c1}
    Keys = {k1, k2}
    None = None
    Ttl = 1
    MaxTime = 2
    MaxOutside = 1
    MaxEvents = 4
CHECK_DEADLOCK FALSE
INVARIANTS
    TypeOK
    ConsentIsRespected
    NarratesOnlyEvidence
    MechanicsAreAccounted
    RowFollowsEvent
    DecisionsHold
PROPERTIES
    ConsentBeatsExpiry
    TerminalIsFinal
    KeepsPromise
    ConfirmationResolves
