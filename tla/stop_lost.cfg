\* One process, one file and one request.
SPECIFICATION Spec
CONSTANTS
    o1 = o1
    o2 = o2
    i1 = i1
    i2 = i2
    Outgoing = {o1}
    Arriving = {}
    Raising = {}
    Hosts <- AnyHost
    Workers = 1
    MaxCrashes = 0
    MaxRequests = 1
PROPERTY EveryStopHeard
CHECK_DEADLOCK FALSE
