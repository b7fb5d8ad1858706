SPECIFICATION Spec
CONSTANTS
    Callers = {c1, c2}
    Sec = 2
    Caps <- MCCaps
    MaxCap <- MCMaxCap
    Cost <- MCCost
    TTL <- MCTTL
    MaxDelay = 1
    Start = 1
    Horizon = 10
    None = None
SYMMETRY MCSymmetry
INVARIANTS WindowBound
PROPERTIES  ExpiryInvisible
CHECK_DEADLOCK FALSE
