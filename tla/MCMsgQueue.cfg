SPECIFICATION Spec
CONSTANTS
    Ids = {i1, b1}
    BounceIds = {b1}
    Senders = {s1}
    NullPath = {}
    Recipients = 1
    Copies = {c1, c2}
    QueueRunMax = 1
    MaxThreads = 1
    MaxRestarts = 1
    DiskFills = FALSE
    AnswersLost = TRUE
    Commands = {"delete", "flush", "clear"}
    None = None
SYMMETRY Symmetry
INVARIANTS
    NeverLost
    AcceptedHasFile
    ActiveIsInFlight
    DeliveredOnceUnlessUnrecorded
PROPERTIES
    CleanStop
    KeepsPromise
