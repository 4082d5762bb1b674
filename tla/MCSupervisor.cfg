SPECIFICATION SupervisorFairSpec
CONSTANTS
    Starts = {p1, p2}
    GiveUpAfter = 2
    MaxSignals = 2
    None = None
CHECK_DEADLOCK FALSE
INVARIANTS
    NoOrphan
PROPERTIES
    StopIsCarriedOut
