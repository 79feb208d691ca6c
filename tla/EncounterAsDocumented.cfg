SPECIFICATION Spec
CONSTANTS
    ana = ana
    bo = bo
    goblin = goblin
    None = None
    Actors = {ana, bo}
    Templates = {goblin}
    Assignments <- Parties
    Damages = {0, 1, 4}
    Heals = {1}
    MaxHp = 2
    MaxLevels = 1
CHECK_DEADLOCK FALSE
INVARIANT
    CombatAsDocumented
