SPECIFICATION Spec
CONSTANTS
    Bets <- MCTwoBets
    Games <- MCOneGame
    GameOf <- MCOneGameOf
    PayoutLags <- MCNoLag
    AvailDelay = 1
    Grid = 2
    Holdback = 2
    ZoneSkew = 99
    Lookback = 9
    EnqueueMayFail = FALSE
    RefetchMayFail = FALSE
    MaxTime = 5
    MaxVersions = 2
    MaxCrashes = 1
INVARIANTS HoldbackHonoured
CHECK_DEADLOCK FALSE
