\* Three connections, so that two busy ones make a third worker pass over
\* the prefetch in the queue.
SPECIFICATION Spec
CONSTANTS
    r1 = r1
    r2 = r2
    r3 = r3
    p1 = p1
    w1 = w1
    w2 = w2
    w3 = w3
    u1 = u1
    u2 = u2
    u3 = u3
    u4 = u4
    o1 = o1
    None = None
    BadURL = BadURL
    Requests = {r1, r2, r3, p1}
    Redirects = {}
    Prefetch = {p1}
    Posts = {}
    Streamed = {}
    Workers = {w1, w2, w3}
    Owners = {o1}
    LocalOwners = {}
    URLs = {u1, u2, u3, u4}
    Documents <- OwnDocument
    Mirrored = {}
    Mirror = u1
    Replies = {}
    MaxConnections = 3
    MaxCloses = 0
SYMMETRY Symmetry
PROPERTIES
    PrefetchYields
CHECK_DEADLOCK FALSE
