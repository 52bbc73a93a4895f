SPECIFICATION FairSpec
CONSTANTS
    Job = {j1}
    id = j1
    IdemKey = {}
    NoKey = NoKey
    MaxAttempt = 2
    Timer = {t1}
    Click = {b1}
    Form = {}
    NoArg = NoArg
    MaxFaults = 1
INVARIANTS
    TypeOK
    AnswersPast
    ShownPast
    TimelineTellsStatus
    BusyIsAction
PROPERTIES
    PageCatchesUp
