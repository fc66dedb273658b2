CONSTANTS
    s1 = s1
    s2 = s2
    out = out
    worldA = worldA
    worldB = worldB
    NoService = NoService
    Sids = {s1}
    OutGame <- MCOutGame
    World <- MCWorld
    Entry <- MCEntry
    Home <- MCHome
    Unmapped = {}
    MaxMsgs = 4
SPECIFICATION FairSpec
PROPERTIES
    ChangeArrives
    DroppedIsForgotten
CHECK_DEADLOCK FALSE
