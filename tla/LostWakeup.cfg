SPECIFICATION LockFairSpec
CONSTANTS
    LockThreads = {loop, worker}
PROPERTY
    WriterWakes
CHECK_DEADLOCK FALSE
