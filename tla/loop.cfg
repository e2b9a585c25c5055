\* Two files and two payloads, one of each raises whenever it is processed; three hosts, two
\* workers, a crash and two requests.
SPECIFICATION Spec
CONSTANTS
    o1 = o1
    o2 = o2
    i1 = i1
    i2 = i2
    Outgoing = {o1, o2}
    Arriving = {i1, i2}
    Raising = {o2, i2}
    Hosts <- AnyHost
    Workers = 2
    MaxCrashes = 1
    MaxRequests = 2
INVARIANTS
    TypeOK
    OnlyInterruptsCut
PROPERTIES
    StopHeard
    Reached
\* The process ends for good when it is asked to.
CHECK_DEADLOCK FALSE
