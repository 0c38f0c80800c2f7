CONSTANTS
    c1 = c1
    c2 = c2
    p1 = p1
    p2 = p2
    NoCall = NoCall
    Calls = {c1}
    Processes = {p1}
    ProcessOf <- SharedProcess
    Definitions <- JustTested
    Outcomes <- AllOutcomes
    TestsMayRevert = TRUE

SPECIFICATION Spec

INVARIANT
    RunSettles
