SPECIFICATION Spec
CONSTANTS
    Tasks = {t1, t2}
    Workers = {w1, w2}
    BatchSize = 2
    MaxQueue = 1
    RetryAttempts = 2
    Reporting = {t1}
    MaxReports = 1
INVARIANTS
    TypeOK
    TasksConserved
    OneCopyPerAttempt
    ScheduledTracked
PROPERTIES
    AcceptedEnds
    WorkersExit
CHECK_DEADLOCK FALSE
