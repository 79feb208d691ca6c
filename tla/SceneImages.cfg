SPECIFICATION FairSpec
CONSTANTS
    batch = batch
    auto = auto
    dawn = dawn
    dusk = dusk
    None = None
    Requests = {auto, batch}
    Pictures = {dawn, dusk}
    Ask <- MCAsk
    Scenes = {"lane"}
    MaxPerTick = 2
    HistoryLimit = 1
    AssetLimit = 1
    AutoLimit = 2
    MaxJobs = 2
    MaxAssets = 2
    MaxCrashes = 1
CHECK_DEADLOCK FALSE
INVARIANTS
    QueueIsSound
PROPERTIES
    SettledIsFinal
    QueueDrains
