CONSTANTS
    w1 = w1
    w2 = w2
    i1 = i1
    i2 = i2
    Wallets = {w1, w2}
    LastMint = 3
    To <- MCTo
    NoWallet = NoWallet
    NoBase = NoBase
    MaxAsks = 2
    Posts = {i1, i2}
    MaxEnds = 1
SYMMETRY Alike
SPECIFICATION Spec
INVARIANTS
    Owned
    SignedIn
    SameUser
    Minted
CHECK_DEADLOCK FALSE
