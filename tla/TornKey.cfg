CONSTANTS
    Hash = {h1}
    Identity = {i1}
    Provider = {p1}
    Worker = {w1}
    Foreign = {}
    Call = {c1}
    Query = {q1}
    InclusionWindow = 1
    MaxInclusionWindow = 1
    LastBlock = 1
    EonStart = {}
SPECIFICATION DetailedSpec
INVARIANT NoTornRead
CHECK_DEADLOCK FALSE
