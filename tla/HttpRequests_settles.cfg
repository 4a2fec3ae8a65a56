\* Two requests and a redirect for two documents or a bad URL, one abort.
SPECIFICATION FairSpec
CONSTANTS
    r1 = r1
    r2 = r2
    d1 = d1
    w1 = w1
    w2 = w2
    u1 = u1
    u2 = u2
    o1 = o1
    None = None
    BadURL = BadURL
    Requests = {r1, r2, d1}
    Redirects = {d1}
    Prefetch = {}
    Posts = {r2}
    Streamed = {}
    Workers = {w1, w2}
    Owners = {o1}
    LocalOwners = {}
    URLs = {u1, u2}
    Documents <- AnyURL
    Mirrored = {}
    Mirror = u1
    Replies = {"raw", "unchanged", "moved"}
    MaxConnections = 2
    MaxCloses = 1
INVARIANTS
    OneDownloadPerURL
PROPERTIES
    SettledOrWaits
CHECK_DEADLOCK FALSE
