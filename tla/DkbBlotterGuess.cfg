\* Blotters whose totals labels stand before the table.
SPECIFICATION FairSpec
CONSTANTS
    Doc <- LabelsFirstDocs
    Breaks = {3}
    SkipLimit = 3
    Tol = 1
INVARIANT NeverGuessed
CHECK_DEADLOCK FALSE
