CONSTANTS
    a1 = a1
    a2 = a2
    b1 = b1
    ann = ann
    bob = bob
    w0 = w0
    w1 = w1
    Out = Out
    NoSid = NoSid
    NoMap = 0
    Users = {ann, bob}
    Sids = {a1, a2, b1}
    UserOf <- MCUserOf
    Maps = {1, 2, 4}
    Workers = {w0, w1}
    WorkerOf <- MCWorkerOf
    FirstMap <- MCFirstMap
    Overtaken = FALSE
    MaxVer <- MCMaxVer
    MaxExits = 1
SPECIFICATION Spec
INVARIANTS
    NothingLost
    OnTheirMap
    ZoneIsSeen
PROPERTIES
    NeverOlder
CHECK_DEADLOCK FALSE
