SPECIFICATION Spec
CONSTANTS
    Requests = {r1, r2}
    Creds = {c1, c2}
    Threshold = 2
    MaxCalls = 3
    MaxCancels = 1
    MaxPurges = 1
    Burst = 2
    Configs <- MCConfigs
    None = None
SYMMETRY Symmetry
CHECK_DEADLOCK FALSE
INVARIANTS  CancelsDoNotTrip  LimitSound 
