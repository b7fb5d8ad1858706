SPECIFICATION Spec
CONSTANTS
    Requests = {r1, r2, r3}
    Proxies = {p1, p2}
    First = p1
    Keys = {k1}
    MaxConcurrent = 2
    MaxPerKey = 1
    None = None
SYMMETRY MCSymmetry
INVARIANT CacheReachesProxy
CHECK_DEADLOCK FALSE
