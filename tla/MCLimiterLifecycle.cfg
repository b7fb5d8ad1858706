SPECIFICATION Spec
CONSTANTS
    Requests = {r1, r2}
    Loops = {l1, l2}
    Reloader = Reloader
    Closer = Closer
    Clients = {a, b, c}
    NoClient = NoClient
    Configs <- MCConfigs
    StartConfigs <- MCExternalOnly
    Replication = TRUE
    MaxAttempts = 2
    MaxOutages = 1
    MaxReloads = 1
SYMMETRY MCSymmetry
INVARIANTS OneLoop  SoleOwner BorrowedFollowsLimiter
CHECK_DEADLOCK FALSE
