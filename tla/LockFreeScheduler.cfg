SPECIFICATION Spec
CONSTANTS
    Items = {x1, x2, x3}
    Producers = {p1, p2}
    Consumers = {w1, w2}
    Capacity = 2
    BatchSize = 2
INVARIANTS
    TokensAccounted
    TasksCounted
PROPERTIES
    ImplementsQueue
    SubmittedEnds
CHECK_DEADLOCK FALSE
