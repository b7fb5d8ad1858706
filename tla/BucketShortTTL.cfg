SPECIFICATION Spec
CONSTANTS
    Callers = {c1}
    Sec = 2
    Caps <- MCCaps1s
    MaxCap <- MCMaxCap1s
    Cost <- MCCost1s
    TTL <- MCTTL1s
    MaxDelay = 0
    Start = 1
    Horizon = 40
    None = None
SYMMETRY MCSymmetry
INVARIANT SustainedRate
CHECK_DEADLOCK FALSE
