SPECIFICATION Spec
CONSTANTS
    Tasks = {t1, t2}
    MaxStarts = 2
    MaxQueue = 1
    MaxRetries = 1
    MaxConnections = 1
INVARIANTS
    TypeOK
    SuccessDelivered
    CopiesBounded
    RunningHasWorker
SYMMETRY Symmetry
CHECK_DEADLOCK FALSE
