SPECIFICATION Spec
CONSTANTS
    Bets <- MCBets
    Players <- MCPlayers
    Gap = 2
    Horizon = 1
    Lookahead = 3
    Extension = 3
    MonthLen = 5
    MaxTime = 7
INVARIANTS SettledLabelIsTrue ShardsAgreeInside VerdictMeetsLabel
CHECK_DEADLOCK FALSE
