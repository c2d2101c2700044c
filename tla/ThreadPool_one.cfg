SPECIFICATION FairSpec
CONSTANTS
    Threads = {t1}
    Size = 1
    Adders = {a1}
    MaxJobs = 2
    MaxStarts = 1
    Nobody = Nobody
PROPERTY NextJobLookedFor
CHECK_DEADLOCK FALSE
