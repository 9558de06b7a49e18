\* Two overlapping runs of up to two names, two chambers, one report.
SPECIFICATION Spec
CONSTANTS
    r1 = r1
    r2 = r2
    Runner = {r1, r2}
    Actors <- MCActors
    TooShort <- MCTooShort
    Chambers = 2
    Answer <- MCAnswer
    Block <- MCBlock
    Score <- MCScore
    Person = {"Riza", "Ayse"}
    Top = {"Ayse"}
    Beside = 1
    Known0 = {"Riza"}
    Alike <- MCAlike
INVARIANTS
    RolesOfTheirCompany
    CountsMatchRows
    NoForeignRows
    TotalsCoverActors
    NotOwnAssociate
SYMMETRY Interchangeable
CHECK_DEADLOCK FALSE
