SPECIFICATION FairSpec
CONSTANTS
    Requests = {r1, r2}
    Proxies = {p1, p2}
    First = p1
    Keys = {k1, k2}
    MaxConcurrent = 1
    MaxPerKey = 1
    None = None
INVARIANTS TransportOutlivesRequests PermitsExact SessionsExact
PROPERTIES NoAddDuringWait TeardownCompletes
CHECK_DEADLOCK FALSE
