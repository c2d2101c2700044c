SPECIFICATION Spec
CONSTANTS
    ThreadCount = 2
    Fds = {f1, f2}
    Addrs = {a1, a2}
    MaxId = 2
    Secure = FALSE
    None = None
SYMMETRY Symmetry
INVARIANTS
    TypeOK
    TablesInverse
    IdsPartitioned
    MappedFdsOpen
    NoTableFault
    ReadyComplete
    SendTargetAlive
    CloseStillTriggered
