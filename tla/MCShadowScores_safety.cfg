SPECIFICATION ShadowSpec
CONSTANTS
    Bets <- MCTwoBets
    Games <- MCOneGame
    GameOf <- MCOneGameOf
    PayoutLags <- MCLags
    AvailDelay = 1
    Grid = 2
    Holdback = 2
    ZoneSkew = 0
    Lookback = 3
    EnqueueMayFail = FALSE
    RefetchMayFail = TRUE
    MissableGames <- MCOneGame
    FailNum = 1
    FailDen = 2
    ShadowMayFail = TRUE
    MaxTime = 5
    MaxVersions = 2
    MaxCrashes = 1
INVARIANTS TypeOK HoldbackHonoured NoVisibleBetMissed NotLateIsRight
INVARIANTS ScoresBacked RepresentativeScored
PROPERTIES ImplementsLifecycle
CHECK_DEADLOCK FALSE
