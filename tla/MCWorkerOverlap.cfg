SPECIFICATION Spec
CONSTANTS
    w1 = w1
    w2 = w2
    Workers <- MCWorkers
    Tasks <- MCStrictTask
    Reviews <- MCOverlap
    MaxIterations = 2
    MaxTurnTools = 1
    MaxTotalToolCalls = 1
    MaxFiles = 1
    MaxFaults = 0
    MaxApplies = 2
INVARIANT FailedEvaluationIsRecorded
CHECK_DEADLOCK FALSE
