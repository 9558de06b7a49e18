\* Tables of one and two rows with breaks of up to four words, and blotters.
SPECIFICATION FairSpec
CONSTANTS
    Doc <- Docs
    Breaks = {3, 4}
    SkipLimit = 3
    Tol = 1
INVARIANTS
    
    IntactIsRead
PROPERTY CallReturns
CHECK_DEADLOCK FALSE
