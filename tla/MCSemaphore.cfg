CONSTANTS
    Callers = {c1, c2, c3, c4, c5}
    Limit = 2

SPECIFICATION FairSpec

INVARIANTS
    PermitsConserved

PROPERTIES
    NoOvertaking
    WaitersSettle
