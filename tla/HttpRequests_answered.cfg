\* Every request for a document of its own: all are answered.
SPECIFICATION FairSpec
CONSTANTS
    r1 = r1
    p1 = p1
    w1 = w1
    w2 = w2
    u1 = u1
    u2 = u2
    o1 = o1
    None = None
    BadURL = BadURL
    Requests = {r1, p1}
    Redirects = {}
    Prefetch = {p1}
    Posts = {}
    Streamed = {r1}
    Workers = {w1, w2}
    Owners = {o1}
    LocalOwners = {}
    URLs = {u1, u2}
    Documents <- OwnDocument
    Mirrored = {}
    Mirror = u1
    Replies = {"document", "raw", "error"}
    MaxConnections = 2
    MaxCloses = 1
PROPERTIES
    AnswersAll
CHECK_DEADLOCK FALSE
