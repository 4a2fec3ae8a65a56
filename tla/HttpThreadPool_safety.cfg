\* More requests than connections: every thread busy when a request comes;
\* one thread that cannot be started.
SPECIFICATION Spec
CONSTANTS
    r1 = r1
    r2 = r2
    r3 = r3
    d1 = d1
    Requests = {r1, r2, r3, d1}
    Redirects = {d1}
    MaxConnections = 2
    MaxThreads = 4
    MaxFailures = 1
SYMMETRY Symmetry
INVARIANTS
    RequestOwned
    PoolInv
CHECK_DEADLOCK FALSE
