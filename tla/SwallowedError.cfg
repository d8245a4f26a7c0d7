CONSTANTS
    Hash = {h1}
    Identity = {i1}
    Provider = {p1}
    Worker = {}
    Foreign = {}
    Call = {c1}
    Query = {}
    InclusionWindow = 1
    MaxInclusionWindow = 1
    LastBlock = 1
    EonStart = {}
SPECIFICATION DetailedSpec
INVARIANT NoErrorIsSwallowed
CHECK_DEADLOCK FALSE
