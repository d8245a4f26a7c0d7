CONSTANTS
    Hash = {h1}
    Identity = {i1}
    Provider = {p1}
    Worker = {w1}
    Foreign = {}
    InclusionWindow = 1
    MaxInclusionWindow = 2
    LastBlock = 2
    EonStart = {2}
SPECIFICATION Spec
INVARIANT EonIsOfInclusion
