\* Two overlapping runs and the repair process over one disclosure, which is
\* corrected once and whose versions the first parser cannot read.
SPECIFICATION Spec
CONSTANTS
    r1 = r1
    r2 = r2
    d1 = d1
    d2 = d2
    k1 = k1
    k2 = k2
    k3 = k3
    Run = {r1, r2}
    Disc = {d1}
    NoDisc = NoDisc
    MaxVer = 2
    Key = {k1, k2, k3}
    Trades <- TradesCorrected
    NoPdf <- None
    Unreadable <- UnreadableCorrected
    Fixable <- FixableCorrected
    ListFlagsChange = TRUE
    Overlap = TRUE
SYMMETRY Interchangeable
INVARIANTS
    TypeOK
    NothingCountedTwice
    EvidenceKept
PROPERTY AuditedSpec
CHECK_DEADLOCK FALSE
