\* One request becomes a duplicate of another that has just looked for duplicates.
SPECIFICATION Spec
CONSTANTS
    r1 = r1
    r2 = r2
    w1 = w1
    w2 = w2
    u1 = u1
    o1 = o1
    None = None
    BadURL = BadURL
    Requests = {r1, r2}
    Redirects = {}
    Prefetch = {}
    Posts = {}
    Streamed = {}
    Workers = {w1, w2}
    Owners = {o1}
    LocalOwners = {}
    URLs = {u1}
    Documents <- AnyDocument
    Mirrored = {}
    Mirror = u1
    Replies = {"raw"}
    MaxConnections = 2
    MaxCloses = 0
SYMMETRY Symmetry
INVARIANTS
    WaiterHasDownload
CHECK_DEADLOCK FALSE
