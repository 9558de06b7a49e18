\* The cron job and the daily report overlap while filings and prices arrive.
SPECIFICATION FairSpec
CONSTANTS
    a = a
    b = b
    c = c
    cron = cron
    report = report
    Insider = {a, b, c}
    Window = 2
    MinCount = 2
    Filing <- Filings
    Archive <- Filed
    FirstDay = 5
    LastDay = 6
    Session = {3, 4, 5, 6}
    Halted = {3}
    LoadFrom = {0, 9}
    Horizon = {1}
    MaxGap = 3
    Need = 1
    Job = {cron, report}
    Mode <- Modes
INVARIANTS
    NoLookAhead
    ClustersAreReal
    LegsInOrder
PROPERTIES
    CatchesUp
CHECK_DEADLOCK FALSE
