CONSTANTS
    Hash = {h1}
    Identity = {i1}
    Provider = {p1}
    Worker = {w1}
    Foreign = {}
    InclusionWindow = 1
    MaxInclusionWindow = 1
    LastBlock = 2
    EonStart = {}
SPECIFICATION FairSpec
PROPERTY FinalisedIsFinal
