SPECIFICATION Spec
CONSTANTS
    Bets <- MCThreeBets
    MayAlert <- MCTwoBets
    Players <- MCOnePlayer
    Placeholder = "none"
    Lags <- MCLags
    Gap = 2
    Horizon = 1
    Lookahead = 3
    Buffer = 0
    ExtendedWait = 1
    Finality = 4
    PreContext = 1
    MaxLookback = 5
    RetryLimit = 50
    RetryWindow = 8
    FinalizeOnHorizon = TRUE
    PlayerMayDrift = FALSE
    ReadMayFail = FALSE
    LastDrift = 0
    MaxTime = 6
    MaxFailures = 1
INVARIANTS TypeOK MatchSawNoReturn MissHasReturn
PROPERTIES ImplementsBook
CHECK_DEADLOCK FALSE
