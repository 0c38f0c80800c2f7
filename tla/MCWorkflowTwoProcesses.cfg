CONSTANTS
    c1 = c1
    c2 = c2
    p1 = p1
    p2 = p2
    NoCall = NoCall
    Calls = {c1, c2}
    Processes = {p1, p2}
    ProcessOf <- OwnProcesses
    Definitions <- JustRepairable
    Outcomes <- FewOutcomes
    TestsMayRevert = FALSE

SPECIFICATION Spec

INVARIANTS
    WorkerOwnsExecution
    CompletedAsApproved

PROPERTY
    ImplementsLifecycle
