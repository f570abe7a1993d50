SPECIFICATION Spec
CONSTANTS
    Bets <- MCTwoBets
    Players <- MCPlayers
    Games <- MCGames
    Owner <- MCTwoOwner
    Game <- MCTwoGame
    Allowlist <- MCPlayers
    HighAdtOnly = FALSE
    Cap = 2
    AvailDelay = 0
    Lookback = 2
    Cooldown = 2
    FailNum = 1
    FailDen = 2
    MissablePlayers <- MCAllowP1
    LogMayFail = TRUE
    PayoutLags <- MCNoLag
    InOrder = FALSE
    MaxTime = 3
    MaxVersions = 2
    MaxCrashes = 1
INVARIANTS TypeOK CooldownSpacing MutedOnlyAfterDelivery ScoredOncePerIngest
PROPERTIES WatermarkMonotone ImplementsLedger
CHECK_DEADLOCK FALSE
