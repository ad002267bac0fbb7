SPECIFICATION FairSpec
CONSTANTS
    Tasks = {t1, t2}
    Instances = {1}
    Rank <- MCRank
    Predictions <- MCVague
    NoPrediction = NoPrediction
    ExecTimes = {1}
    ThresholdSq = 4
    Faults = {"lost", "timeout", "clear", "restrategy", "legacy"}
    MaxAttempts = 2
    MaxQueue = 3
    MaxHandlers = 2
INVARIANTS
    PendingBacked
PROPERTIES
    PendingDrains
    
CHECK_DEADLOCK FALSE
