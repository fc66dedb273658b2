CONSTANTS
    h1 = h1
    p1 = p1
    ore = ore
    wood = wood
    tool = tool
    Heroes = {h1}
    Pets = {p1}
    NoNft = NoNft
    Inputs = {ore, wood}
    Products = {tool}
    NoProduct = NoProduct
    NoData = NoData
    Cost <- MCCost
    TimeS <- MCTimeS
    NLines = 2
    Counts = {1, 2}
    MaxEarned = 4
    Times = {1, 2, 1002}
    MaxCrashes = 1
SPECIFICATION Spec
INVARIANT LastOutputIsPast
CHECK_DEADLOCK FALSE
