SPECIFICATION FairSpec
CONSTANTS
    Job = {j1}
    IdemKey = {}
    NoKey = NoKey
    MaxAttempt = 3
    Worker = {w1, w2}
    NoWorker = NoWorker
    Request = {r1, r2, r3}
    NoId = NoId
    MaxFaults = 0
INVARIANTS
    RunningHasWorker
    LeaseNotLeaked
    BeatIsCurrent
    FirstRunReachable
PROPERTIES
    AttemptsEnd
