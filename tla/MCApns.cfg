SPECIFICATION Spec
CONSTANTS
    Notes = {n1, n2, n3, n4}
    Malformed = {n4}
    SentCapacity = 3
    IdModulus = 5
    MaxConnections = 4
    None = None
CHECK_DEADLOCK FALSE
INVARIANTS
    RestIsReenqueued
    SettledIsNotResent
