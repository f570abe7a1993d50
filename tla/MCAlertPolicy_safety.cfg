SPECIFICATION Spec
CONSTANTS
    Candidates <- MCCandidates
    Owner <- MCOwner
    Cooldown = 2
    MaxLag = 1
    Rounds = 5
    MaxTime = 3
    Scores <- MCScores
    Scale = 4
INVARIANTS ReplayBracketsServing ReplayAgreesAtOneLag AlertsFallWithThreshold SearchIsClosest
CHECK_DEADLOCK FALSE
