SPECIFICATION FairSpec
CONSTANTS
    Bets <- MCBets
    Players <- MCPlayers
    Placeholder = "none"
    Owner <- MCOwner
    Lags <- MCLags
    Gap = 1
    Horizon = 1
    Lookahead = 2
    Buffer = 0
    ExtendedWait = 1
    Finality = 3
    FinalizeOnHorizon = FALSE
    MaxRows = 1
    Retention = 1
    RetryLimit = 1
    RetryWindow = 3
    MayDrift <- MCFirst
    LastPayout = 2
    LastDrift = 2
    MaxCycleTime = 1
    MaxTime = 5
    MaxFailures = 1
INVARIANTS MatchSawNoReturn
PROPERTIES ImplementsBook BacklogClears
CHECK_DEADLOCK FALSE
