CONSTANTS
    s1 = s1
    s2 = s2
    out = out
    worldA = worldA
    worldB = worldB
    NoService = NoService
    Sids = {s1, s2}
    OutGame <- MCOutGame
    World <- MCWorld
    Entry <- MCEntry
    Home <- MCHome
    Unmapped = {s2}
    MaxMsgs = 3
SPECIFICATION Spec
INVARIANTS
    RoutedOnce
    Agreement
    WaitRemoveFinish
PROPERTIES
    KeepsCustody
CHECK_DEADLOCK FALSE
