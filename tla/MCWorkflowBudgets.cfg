CONSTANTS
    c1 = c1
    c2 = c2
    p1 = p1
    p2 = p2
    NoCall = NoCall
    Calls = {c1}
    Processes = {p1}
    ProcessOf <- SharedProcess
    Definitions <- Pipelines
    Outcomes <- AllOutcomes
    TestsMayRevert = FALSE

SPECIFICATION Spec

INVARIANTS
    TypeOK
    BudgetsAccounted
    JournalBounded
    CandidateHasOneSource
    DependenciesFirst
    JournalAgrees
    RunSettles
