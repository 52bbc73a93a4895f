SPECIFICATION FairPagesSpec
CONSTANTS
    Job <- OneOfEach
INVARIANTS
    BudgetKept
    FeedTellsStatus
PROPERTIES
    RetriesReturn
    Drains
