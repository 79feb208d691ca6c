SPECIFICATION PlanningSpec
CONSTANTS
    w1 = w1
    w2 = w2
    Workers = {w1, w2}
    MaxRounds = 3
    Deadline = 1
    MaxTime = 1
    MaxMoves = 1
    MaxCrashes = 1
    Limits <- MCLimits
    p1 = p1
    c1 = c1
    c2 = c2
    c3 = c3
    Processes = {p1}
    Calls = {c1, c2, c3}
    PromptEstimates = {1, 2}
    CompletionLimit = 1
    Usages <- MCUsages
    MaxTotalTokens = 5
    PromptPrice = 1
    CompletionPrice = 2
    MaxCost = 7
    MaxConcurrent = 2
    MaxLosses = 2
CHECK_DEADLOCK FALSE
INVARIANTS
    RoundsAreSound
    BudgetIsSound
PROPERTIES
    SettlementsAreSound
    ClaimsAreSettled
    OverageStopsDispatches
