CONSTANTS
    s1 = s1
    s2 = s2
    s3 = s3
    old = old
    new = new
    Nobody = Nobody
    NoSid = NoSid
    Sids = {s1, s2, s3}
    Uids = {old, new}
    Stored <- MCStored
    LastId = 1
    Patient = TRUE
    MaxCalls <- MCAllTwo
SPECIFICATION Spec
INVARIANTS
    Authenticated
    UniquePlayerId
    
CHECK_DEADLOCK FALSE
