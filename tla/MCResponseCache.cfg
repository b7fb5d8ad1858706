SPECIFICATION MCSpec
CONSTANTS
    Requests = {r1, r2}
    Callers = {c1, c2, c3}
    h1 = h1
    h2 = h2
    Headers = {h1, h2}
    Kinds <- MCKinds
    Responses <- MCResponses
    MaxTTL = 2
    MaxStores = 2
    None = None
SYMMETRY Symmetry
INVARIANTS  StoredShareable TagOutlivesEntry GaugeInStep
