SPECIFICATION SerialSpec
CONSTANTS
    Job = {j1}
    IdemKey = {}
    NoKey = NoKey
    MaxAttempt = 4
    Worker = {w1}
    NoWorker = NoWorker
    Request = {r1, r2, r3}
    NoId = NoId
    MaxFaults = 1
INVARIANTS
    QueuedReachable
    NoDuplicateEntries
PROPERTIES
    JobsSettle
    RetryRecovers
