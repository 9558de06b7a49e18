\* Two runs one after the other over two disclosures, under the fairness of
\* the event loop.
SPECIFICATION FairSpec
CONSTANTS
    r1 = r1
    r2 = r2
    d1 = d1
    d2 = d2
    k1 = k1
    k2 = k2
    k3 = k3
    Run = {r1, r2}
    Disc = {d1, d2}
    NoDisc = NoDisc
    MaxVer = 1
    Key = {k1, k2}
    Trades <- TradesPlain
    NoPdf <- None
    Unreadable <- None
    Fixable <- None
    ListFlagsChange = FALSE
    Overlap = FALSE
INVARIANTS
    SuccessMeansStored
    AuditAddsUp
PROPERTY RunsEnd
CHECK_DEADLOCK FALSE
