SPECIFICATION LockFairSpec
CONSTANTS
    LockThreads = {loop, worker, cleanup}
INVARIANTS
    LockTypeOK
    WritersExclusive
PROPERTY
    ReaderWakes
CHECK_DEADLOCK FALSE
