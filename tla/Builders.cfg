CONSTANTS
    Hash = {h1}
    Identity = {i1}
    Provider = {p1}
    Worker = {w1, w2}
    Foreign = {}
    Call = {c1}
    Query = {q1, q2}
    InclusionWindow = 1
    MaxInclusionWindow = 1
    LastBlock = 1
    EonStart = {}
SYMMETRY Symmetry
SPECIFICATION DetailedSpec
INVARIANTS
    DetailedInductive
    DecryptedIsReadable
    PlainOnlyIfCommitted
PROPERTIES
    PlainStays
    DecryptedIsAnswered
    ImplementsSequencer
CHECK_DEADLOCK FALSE
