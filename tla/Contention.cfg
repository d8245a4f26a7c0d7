CONSTANTS
    Hash = {h1}
    Identity = {i1, i2, i3}
    Provider = {p1}
    Worker = {w1, w2}
    Foreign = {f1}
    InclusionWindow = 1
    MaxInclusionWindow = 1
    LastBlock = 2
    EonStart = {}
SYMMETRY Symmetry
SPECIFICATION Spec
INVARIANTS
    GossipedFindable
    ReplyIsKept
    DecryptedIsVerifiable
    FinalisedIsOnChain
    VerifierListIsCurrent
PROPERTY KeyIsHandled
