\* Launches over two months and three days: chunks end, block, raise or exceed
\* the deadline, and the process may be killed.
SPECIFICATION FairSpec
CONSTANTS
    LastDay = 3
    Months <- Calendar
    MaxMissing = 1
    Attempts = 2
    Passes = 1
    Deadline = TRUE
    MaxKills = 1
INVARIANTS
    CompleteMeansNothingMissing
    NoMonthPassedOver
    CleanUnlessAbandoned
PROPERTY ArchiveCompletes
CHECK_DEADLOCK FALSE
