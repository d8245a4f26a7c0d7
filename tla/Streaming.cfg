CONSTANTS
    Hash = {h1}
    Identity = {i1}
    Provider = {p1, p2}
    Worker = {}
    Foreign = {}
    Call = {c1, c2}
    Query = {}
    InclusionWindow = 1
    MaxInclusionWindow = 1
    LastBlock = 0
    EonStart = {}
SPECIFICATION StreamFairSpec
INVARIANTS
    DetailedInductive
    NothingLeftBehind
    StreamIsRecorded
PROPERTIES
    CallReturns
    ReceiverEnds
CHECK_DEADLOCK FALSE
