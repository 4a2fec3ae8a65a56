\* A mirrored document, two owners of which one is local, two aborts.
SPECIFICATION Spec
CONSTANTS
    r1 = r1
    r2 = r2
    d1 = d1
    w1 = w1
    w2 = w2
    u1 = u1
    u2 = u2
    o1 = o1
    o2 = o2
    None = None
    BadURL = BadURL
    Requests = {r1, r2, d1}
    Redirects = {d1}
    Prefetch = {}
    Posts = {}
    Streamed = {r1}
    Workers = {w1, w2}
    Owners = {o1, o2}
    LocalOwners = {o2}
    URLs = {u1, u2}
    Documents <- AnyDocument
    Mirrored = {u1}
    Mirror = u2
    Replies = {"error"}
    MaxConnections = 2
    MaxCloses = 1
SYMMETRY Symmetry
INVARIANTS
    EngineInv
    ListsApart
CHECK_DEADLOCK FALSE
