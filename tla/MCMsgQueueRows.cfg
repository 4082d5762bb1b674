SPECIFICATION Spec
CONSTANTS
    Ids = {i1, i2}
    BounceIds = {}
    Senders = {s1}
    NullPath = {}
    Recipients = 2
    Copies = {c1, c2}
    QueueRunMax = 1
    MaxThreads = 2
    MaxRestarts = 0
    DiskFills = TRUE
    AnswersLost = FALSE
    Commands = {"delete", "mark"}
    None = None
SYMMETRY Symmetry
INVARIANTS
    InFlightOnce
    AllOrNothing
    QueueBounded
