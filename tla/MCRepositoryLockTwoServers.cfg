CONSTANTS
    Attempts = {a1, a2, a3}
    Remote = {}
    Slow = {}
    MaxTries = 5
    Nobody = Nobody

SPECIFICATION Spec

INVARIANT
    OneRepositoryHolder

SYMMETRY Interchangeable

CHECK_DEADLOCK FALSE
