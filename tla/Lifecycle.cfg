CONSTANTS
    Hash = {h1, h2}
    Identity = {i1, i2}
    Provider = {p1}
    Worker = {w1}
    Foreign = {}
    InclusionWindow = 1
    MaxInclusionWindow = 2
    LastBlock = 3
    EonStart = {3}
SYMMETRY Symmetry
SPECIFICATION Spec
INVARIANTS
    TypeOK
    NoStrandedBid
    GossipedNeverRebid
    GossipedFindable
    ReplyIsKept
    DecryptedIsVerifiable
    CommittedWithinWindow
    FinalisedIsOnChain
    VerifierListIsCurrent
    EonIsNotPast
    KeyIsFollowed
    StrongInductive
