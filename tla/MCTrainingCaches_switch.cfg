SPECIFICATION Spec
CONSTANTS
    Policies <- MCTwoPolicies
    NBuckets = 2
    MayIgnore = FALSE
    MaxVersions = 1
    MaxBuilds = 1
    MaxStops = 0
INVARIANTS FreshOutputs
CHECK_DEADLOCK FALSE
