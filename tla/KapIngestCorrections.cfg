\* One disclosure, corrected between two runs, with list items as KAP sends
\* them: modifyStatus tells a correction, not the fields _ingest_one reads.
SPECIFICATION Spec
CONSTANTS
    r1 = r1
    r2 = r2
    d1 = d1
    d2 = d2
    k1 = k1
    k2 = k2
    k3 = k3
    Run = {r1, r2}
    Disc = {d1}
    NoDisc = NoDisc
    MaxVer = 2
    Key = {k1, k2, k3}
    Trades <- TradesCorrected
    NoPdf <- None
    Unreadable <- None
    Fixable <- None
    ListFlagsChange = FALSE
    Overlap = FALSE
INVARIANT CorrectionTaken
CHECK_DEADLOCK FALSE
