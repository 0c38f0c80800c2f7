CONSTANTS
    Attempts = {a1, a2}
    MaxClaims = 6
    MaxPasses = 4
    Nobody = Nobody

SPECIFICATION FairSpec

INVARIANTS
    OneHolder
    AnswerIsTrue

PROPERTIES
    ImplementsExclusiveJournal
    DeadLeaseIsReclaimed
    InvalidFailsClosed

CHECK_DEADLOCK FALSE
