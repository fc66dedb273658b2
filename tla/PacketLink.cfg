CONSTANTS
    c1 = c1
    c2 = c2
    short = short
    zip = zip
    huge = huge
    odd = odd
    NoBody = NoBody
    Byte = 3
    ZipAbove = 10
    Bodies <- MCBodies
    Size <- MCSize
    Deflated <- MCDeflated
    Registered <- MCRegistered
    Clients = {c1, c2}
    Ahead <- MCAhead
    PingTm = 1
    TickLimit = 2
    Packets <- MCPackets
    Prompt = TRUE
    MaxTime = 2
    MaxSays = 1
    MaxEnds = 1
SPECIFICATION Spec
INVARIANTS
    TypeOK
    ArrivesWhole
    ClockIsBehind
PROPERTIES
    Answered
CHECK_DEADLOCK FALSE
