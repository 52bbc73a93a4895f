SPECIFICATION SerialSpec
CONSTANTS
    Job = {j1}
    IdemKey = {}
    NoKey = NoKey
    MaxAttempt = 2
    Worker = {w1, w2}
    NoWorker = NoWorker
    Request = {r1, r2}
    NoId = NoId
    MaxFaults = 0
INVARIANTS
    QueuedReachable
