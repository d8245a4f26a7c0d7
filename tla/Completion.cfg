CONSTANTS
    Hash = {h1}
    Identity = {i1}
    Provider = {p1, p2}
    Worker = {w1}
    Foreign = {f1}
    InclusionWindow = 1
    MaxInclusionWindow = 2
    LastBlock = 3
    EonStart = {}
SPECIFICATION FairSpec
PROPERTIES
    KeyTakesEffect
    OnChainIsFinalised
