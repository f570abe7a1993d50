SPECIFICATION FairSpec
CONSTANTS
    Bets <- MCTwoBets
    MayAlert <- MCTwoBets
    Players <- MCTwoPlayers
    Placeholder = "none"
    Lags <- MCNoLag
    Gap = 2
    Horizon = 1
    Lookahead = 3
    Buffer = 0
    ExtendedWait = 1
    Finality = 4
    PreContext = 1
    MaxLookback = 5
    RetryLimit = 1
    RetryWindow = 8
    FinalizeOnHorizon = FALSE
    PlayerMayDrift = TRUE
    ReadMayFail = FALSE
    LastDrift = 2
    MaxTime = 5
    MaxFailures = 1
INVARIANTS ProcessedHasVerdict
PROPERTIES EventuallyProcessed
CHECK_DEADLOCK FALSE
