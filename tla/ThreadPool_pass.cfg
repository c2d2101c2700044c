SPECIFICATION FairSpec
CONSTANTS
    Threads = {t1, t2}
    Size = 2
    Adders = {a1}
    MaxJobs = 3
    MaxStarts = 2
    Nobody = Nobody
PROPERTIES
    ImplementsJobPool
    AddWakesSleepers
    JoinReturnsIfHeard
CHECK_DEADLOCK FALSE
