SPECIFICATION Spec
CONSTANTS
    u1 = u1  u2 = u2  k1 = k1  k2 = k2
    URLs = {u1, u2}
    Keys = {k1, k2}
    KeyOf <- OwnKey
    Names = {n1, n2}
    Jobs = {j1, j2}
    None = None
    Limit = 4
    MaxVersion = 2
    MaxCalls = 4
    MaxSessions = 2
SYMMETRY OwnKeySymmetry
INVARIANTS CacheInv ServedOwn NeverPart FreshThisSession DatesAreEarned
PROPERTIES EvictsUnusedFirst
CHECK_DEADLOCK FALSE
