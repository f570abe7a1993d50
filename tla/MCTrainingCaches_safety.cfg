SPECIFICATION Spec
CONSTANTS
    Policies <- MCOnePolicy
    NBuckets = 2
    MayIgnore = TRUE
    MaxVersions = 3
    MaxBuilds = 4
    MaxStops = 2
INVARIANTS FreshOutputs NoUsableDebris
PROPERTIES NothingRebuilt
CHECK_DEADLOCK FALSE
