SPECIFICATION LimitsSpec
CONSTANTS
    Requests = {r1, r2, r3}
    Keys = {k1}
    MaxConcurrent = 2
    MaxBreakers = 1
    Threshold = 2
    MaxCancels = 1
    Responses <- MCResponses
    Nil = Nil
SYMMETRY Symmetry
INVARIANTS FlightsExact CountCovers OpenStopsCalls 
 
