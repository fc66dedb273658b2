CONSTANTS
    NoMine = NoMine
    Pids = {1, 2}
    MaxMiner = 2
    MaxOutput = 2
    InitAct = 1
    Cold = TRUE
    Patient = TRUE
    MaxUses = 1
    MaxUpdates = 1
    StrokeAt = {0}
    MaxRestarts = 1
SPECIFICATION FairMineSpec
INVARIANTS
    MineTypeOK
    CountMatches
    MarkedIsListed
    OutputIsPaid
PROPERTIES
    OfflineIsKicked
CHECK_DEADLOCK FALSE
