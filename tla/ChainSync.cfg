CONSTANTS
    First = 13
    Last = 18
    Kind <- MCKind
    MaxBatch = 3
    MaxTries = 2
    MaxFaults = 2
    MaxOutages = 1
SPECIFICATION FairSpec
INVARIANTS
    NothingSkipped
    RecordedIsApplied
    OrderKept
    OnceButForFaults
PROPERTIES
    KeepsFeed
    Delivered
CHECK_DEADLOCK FALSE
