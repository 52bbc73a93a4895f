SPECIFICATION StoreSpec
CONSTANTS
    Job = {j1, j2}
    IdemKey = {k1}
    NoKey = NoKey
    MaxAttempt = 2
SYMMETRY Symmetry
INVARIANTS
    StoreTypeOK
    OneJobPerKey
    OutcomeRecorded
    RowsMatchCounter
    SuccessIsLast
    DatesMatchStatus
PROPERTIES
    ClosedAttemptKept
    SuccessIsFinal
    ImplementsLedger
