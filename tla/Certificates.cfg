SPECIFICATION Spec
CONSTANTS
    Hosts <- MCHosts
    Whitelisted <- MCWhitelisted
    Slashed <- MCSlashed
    PoolSize = 2
    MaxChallenges = 2
    Nonces = {1, 2}
    Lifetime = 1
    MaxJobs = 3
    MaxStarts = 2
    MaxTime = 1
    Torn = Torn
    None = None
INVARIANTS
    ClientInUse
    ChallengesAgree
    WrittenSurvives
PROPERTY UnloadEnds
CHECK_DEADLOCK FALSE
