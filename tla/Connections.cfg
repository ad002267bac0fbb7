SPECIFICATION Spec
CONSTANTS
    Instances = {i1, i2}
    MaxHandlers = 3
    MaxConnections = 1
    Clients = {c1, c2}
    Tasks = {t1}
    Asynchronous = {}
    MaxResults = 2
INVARIANTS
    TypeOK
    ConnectionsBounded
    AckedInformed
    PlacesServed
SYMMETRY Symmetry
CHECK_DEADLOCK FALSE
