\* The bulletin and yfinance loads overlap, drop tickers and die while days pass.
SPECIFICATION FairSpec
CONSTANTS
    paid = paid
    old = old
    huge = huge
    Ticker = {paid, old, huge}
    LastDay = 3
    Month <- Months
    Raw <- Prints
    Ret <- Returns
    Misprint <- Misprints
    Unstated <- NotStated
    Listed = {paid, old}
    Served = {paid, old, huge}
    Symbol <- Symbols
    Place <- Places
    Refused = {huge}
    Starts = {1, 2}
    Backs = {1, 3}
    MaxRatio = 1
INVARIANTS
    SameSourceReturns
PROPERTIES
    OfficialStays
    RetryHealsBatch
    ArchiveArrives
CHECK_DEADLOCK FALSE
