SPECIFICATION Spec
CONSTANTS
    Job = {j1}
    IdemKey = {}
    NoKey = NoKey
    MaxAttempt = 3
    Worker = {w1}
    NoWorker = NoWorker
    Request = {r1, r2, r3}
    NoId = NoId
    MaxFaults = 0
SYMMETRY Symmetry
INVARIANTS
    QueuedReachable
