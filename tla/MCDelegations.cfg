SPECIFICATION Spec
CONSTANTS
    w1 = w1
    w2 = w2
    w3 = w3
    Workers <- MCWorkers
    IdRank <- MCIdRank
    Scenarios <- MCScenarios
    Paths <- MCPaths
    Ends <- MCEnds
    MaxWrites = 2
INVARIANTS
    AuthorityOnlyNarrows
    LocalRunsAreConsented
    PatchWithinAuthority
    MatcherAgrees
    HistoryOnlyReorders
    FailureIsNotRewarded
    SparseEvidenceIsWeak
    AttemptsAreJustified
    RouteIsRecordable
CHECK_DEADLOCK FALSE
