\* Six days with a weekend, two tickers, failures on two of the days.
SPECIFICATION FairSpec
CONSTANTS
    ali = ali
    eda = eda
    can = can
    oya = oya
    Insider = {ali, eda, can, oya}
    Window = 4
    MinCount = 2
    Ticker = {1, 2}
    Filing <- SomeFilings
    LastDay = 6
    Workday <- FromThursday
    LastHours = 3
    Seniority <- Roster
    FullCount = 3
    Threshold = 50
    MaxBad = 2
INVARIANTS
    OnlyFailuresSkip
    InsidersFlagged
PROPERTIES
    QuietWhenUnchanged
    ClustersReported
CHECK_DEADLOCK FALSE
