SPECIFICATION Spec
CONSTANTS
    Instances = {i1}
    MaxHandlers = 2
    MaxConnections = 1
    Clients = {}
    Tasks = {}
    Asynchronous = {}
    MaxResults = 0
INVARIANT ServedRegistered
CHECK_DEADLOCK FALSE
