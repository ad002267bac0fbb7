SPECIFICATION Spec
CONSTANTS
    Tasks = {t1, t2}
    Instances = {i1}
    NoInstance = NoInstance
    MaxHistory = 1
    HistoryDivisor = 10
    MaxSubmissions = 1
    MaxReports = 2
INVARIANTS
    ActiveCounted
    CompletedCovered
    ResultsForgotten
CHECK_DEADLOCK FALSE
