\* Four days, some of them at and over the cap.
SPECIFICATION FetchSpec
CONSTANTS
    Today = 4
    Cap = 2
    MaxPerDay = 3
    ErrorBody = FALSE
INVARIANTS
    LossIsLogged
    RequestsBounded
CHECK_DEADLOCK FALSE
