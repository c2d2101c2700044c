SPECIFICATION Spec
CONSTANTS
    Modulus = 16
    FewElements = 2
    Junk = Junk
    None = None
    Torn = Torn
    Gone = Gone
    Mistyped = Mistyped
    OwnAnswer = OwnAnswer
    Instances = {"a", "f", "g", "d", "l", "r"}
    Kind <- MCKind
    Hosts <- MCHosts
    Outside = {"f"}
    Deployments <- MCDeployments
    Traffic <- MCTraffic
    FileSize = 6
    Contents <- MCContents
    Options <- MCOptions
INVARIANTS
    ChainsMatch
    OneAnswer
    AuthHolds
    RangesExact
PROPERTIES
    EditsTakeEffect
CHECK_DEADLOCK FALSE
