SPECIFICATION FairSpec
CONSTANTS
    ApnsEnabled = TRUE
    QueueRunMax = 1
    MaxThreads = 1
    UIntValues = 16
    MaxRows = 2
CHECK_DEADLOCK FALSE
INVARIANTS
    GoneMeansAlone
    NoLostNotification
PROPERTIES
    StopsOnceUp
    ControlEndsDaemon
    LoopServes
