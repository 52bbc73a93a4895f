SPECIFICATION Spec
CONSTANTS
    Job <- RunningAndWaiting
INVARIANTS
    TypeOK
    RowsConsistent
