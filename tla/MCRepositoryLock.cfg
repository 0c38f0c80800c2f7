CONSTANTS
    Attempts = {a1, a2, a3}
    Remote = {a3}
    Slow = {a1, a2, a3}
    MaxTries = 2
    Nobody = Nobody

SPECIFICATION FairSpec

PROPERTY
    DeadLockIsReclaimed

CHECK_DEADLOCK FALSE
