SPECIFICATION QuietFairSpec
CONSTANTS
    ThreadCount = 2
    Fds = {f1, f2}
    Addrs = {a1, a2}
    MaxId = 2
    Secure = TRUE
    None = None
PROPERTIES
    EveryFdTaken
