\* One static thread, two dynamic slots, four items; fair scheduling.
SPECIFICATION FairSpec
CONSTANTS
    Static = {s1}
    Dynamic = {d1, d2}
    Jobs = {j1, j2, j3, j4}
    NoJob = NoJob
INVARIANTS
    EachItemOnce
    PoolAccounting
PROPERTIES
    IsWorkPool
    StopReturns
    SleepingDynamicRescues
