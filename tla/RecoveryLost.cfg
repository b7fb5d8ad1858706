SPECIFICATION Spec
CONSTANTS
    Requests = {r1, r2}
    Loops = {l1, l2}
    Reloader = Reloader
    Closer = Closer
    Clients = {a, b, c}
    NoClient = NoClient
    Configs <- MCStaticOnly
    StartConfigs <- MCStaticOnly
    Replication = FALSE
    MaxAttempts = 0
    MaxOutages = 2
    MaxReloads = 0
SYMMETRY MCSymmetry
INVARIANT RecoveryNotAbandoned
CHECK_DEADLOCK FALSE
