SPECIFICATION FairSpec
CONSTANTS
    Job = {j1}
    IdemKey = {k1}
    NoKey = NoKey
    MaxAttempt = 1
    Timer = {t1}
    Click = {b1}
    Form = {f1}
    NoArg = NoArg
    MaxFaults = 1
INVARIANTS
    TypeOK
    ShownPast
    FlagsHaveCall
PROPERTIES
    ActionsEnd
    ListCatchesUp
