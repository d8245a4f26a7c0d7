CONSTANTS
    Hash = {h1, h2}
    Identity = {i1, i2}
    Provider = {p1, p2}
    Worker = {w1}
    Foreign = {}
    InclusionWindow = 1
    MaxInclusionWindow = 1
    LastBlock = 1
    EonStart = {}
SYMMETRY Symmetry
SPECIFICATION Spec
INVARIANTS
    BlocksInHand
    PromisesHold
PROPERTIES
    ImplementsTxLifecycle
    OnlyWaitingIsBid
    CommitmentIsFixed
    CommittedIsKept
    PassesEnd
    PromisesStand
