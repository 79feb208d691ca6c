SPECIFICATION FairSpec
CONSTANTS
    r1 = r1
    r2 = r2
    quest = quest
    inn = inn
    lore = lore
    Requests = {r1, r2}
    Keys = {"a", "b"}
    Packs = {"b"}
    Artifacts = {quest, inn, lore}
    Candidates <- MCCandidates
    MaxAttempts = 3
    MaxChanges = 1
    MaxCrashes = 1
INVARIANTS
    DraftsAreSound
PROPERTIES
    RecordsStand
    KeyIsFreed
