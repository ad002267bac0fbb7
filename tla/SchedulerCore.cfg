SPECIFICATION FairSpec
CONSTANTS
    Tasks = {t1, t2}
    Instances = {1, 2}
    Rank <- MCRank
    Predictions <- MCPredictions
    NoPrediction = NoPrediction
    ExecTimes = {1}
    ThresholdSq = 4
    Faults = {"unpredicted", "timeout", "duplicate", "restrategy"}
    MaxAttempts = 1
    MaxQueue = 3
    MaxHandlers = 2
INVARIANTS
    TypeOK
    PendingBacked
    CountBacked
    IdleErrorBounded
PROPERTIES
    PendingDrains
CHECK_DEADLOCK FALSE
