SPECIFICATION FairSpec
CONSTANTS
    Bets <- MCThreeBets
    Players <- MCPlayers
    Games <- MCGames
    Owner <- MCThreeOwner
    Game <- MCThreeGame
    Allowlist <- MCAllowP1
    HighAdtOnly = TRUE
    Cap = 1
    AvailDelay = 1
    Lookback = 9
    Cooldown = 2
    FailNum = 1
    FailDen = 1
    MissablePlayers <- MCAllowP1
    LogMayFail = FALSE
    PayoutLags <- MCNoLag
    InOrder = TRUE
    MaxTime = 4
    MaxVersions = 1
    MaxCrashes = 1
INVARIANTS NothingPassedOver ScoredRowsAreLogged
PROPERTIES EventuallyScored
CHECK_DEADLOCK FALSE
