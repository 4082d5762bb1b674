SPECIFICATION FairSpec
CONSTANTS
    Ids = {i1}
    BounceIds = {}
    Senders = {s1}
    NullPath = {}
    Recipients = 1
    Copies = {c1, c2}
    QueueRunMax = 1
    MaxThreads = 1
    MaxRestarts = 2
    DiskFills = TRUE
    AnswersLost = FALSE
    Commands = {"clear"}
    None = None
PROPERTIES
    AcceptedLeaves
