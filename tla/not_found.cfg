SPECIFICATION Spec
CONSTANTS
    Job = {j1}
    id = j1
    IdemKey = {}
    NoKey = NoKey
    MaxAttempt = 1
    Timer = {t1}
    Click = {b1}
    Form = {}
    NoArg = NoArg
    MaxFaults = 1
INVARIANTS
    NotFoundIsTrue
