SPECIFICATION FairSpec
CONSTANTS
    w1 = w1
    w2 = w2
    Workers <- MCWorkers
    Tasks <- MCTasks
    Reviews <- MCReviews
    MaxIterations = 2
    MaxTurnTools = 1
    MaxTotalToolCalls = 2
    MaxFiles = 1
    MaxFaults = 1
    MaxApplies = 2
INVARIANTS
    TypeOK
    AsksAllowedEvents
    ReturnedRunIsLinked
    AppliedRunPassed
    HistoryIsTrue
    LateRunIsNotApplicable
    WorktreesAreCleaned
    OutcomesAsAssumed
PROPERTIES
    LinkedForGood
    LeaseIsReleased
CHECK_DEADLOCK FALSE
