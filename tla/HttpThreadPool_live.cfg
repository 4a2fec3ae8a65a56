\* Three connections, so that one thread is not critical; no redirects.
SPECIFICATION FairSpec
CONSTANTS
    r1 = r1
    r2 = r2
    r3 = r3
    Requests = {r1, r2, r3}
    Redirects = {}
    MaxConnections = 3
    MaxThreads = 3
    MaxFailures = 0
INVARIANTS
    OneThreadPerObject
    CriticalKept
    ObjectsOutliveThreads
PROPERTIES
    RequestsServed
    ShutdownCompletes
    ExcessReaped
CHECK_DEADLOCK FALSE
