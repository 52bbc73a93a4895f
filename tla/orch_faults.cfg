SPECIFICATION Spec
CONSTANTS
    Job = {j1}
    IdemKey = {k1}
    NoKey = NoKey
    MaxAttempt = 3
    Worker = {w1, w2}
    NoWorker = NoWorker
    Request = {r1, r2, r3}
    NoId = NoId
    MaxFaults = 2
SYMMETRY Symmetry
INVARIANTS
    TypeOK
    ClaimedOnce
    StaleNeedsCancel
    OpenAttemptNeedsCancel
PROPERTIES
    ImplementsStore
