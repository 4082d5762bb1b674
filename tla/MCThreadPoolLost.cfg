\* A pool without dynamic threads; fair scheduling.
SPECIFICATION FairSpec
CONSTANTS
    Static = {s1, s2}
    Dynamic = {}
    Jobs = {j1, j2}
    NoJob = NoJob
PROPERTIES
    QueuedItemIsTaken
