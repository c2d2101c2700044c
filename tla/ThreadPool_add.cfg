SPECIFICATION Spec
CONSTANTS
    Threads = {t1, t2}
    Size = 2
    Adders = {a1}
    MaxJobs = 2
    MaxStarts = 1
    Nobody = Nobody
PROPERTY TrueMeansActive
CHECK_DEADLOCK FALSE
