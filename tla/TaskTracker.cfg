SPECIFICATION Spec
CONSTANTS
    Tasks = {t1, t2, t3, t4}
    Times = {1, 2}
    MaxHistory = 2
    HistoryDivisor = 2
    MaxCount = 5
INVARIANTS
    TypeOK
    HistoryBounded
PROPERTIES
    HistoryKept
    ImplementsTracker
CHECK_DEADLOCK FALSE
