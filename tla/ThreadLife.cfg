CONSTANTS
    w1 = w1
    w2 = w2
    u1 = u1
    u2 = u2
    Workers = {w1, w2}
    Users = {u1, u2}
    Entry <- MCEntry
    NoUser = NoUser
    MaxSid = 2
    MaxEnds = 1
    MaxDeaths = 1
SPECIFICATION FairSpec
INVARIANTS
    BoundIsPresent
    ToldIsClosed
PROPERTIES
    Settles
    Frees
CHECK_DEADLOCK FALSE
