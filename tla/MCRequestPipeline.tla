------------------------- MODULE MCRequestPipeline -------------------------
EXTENDS RequestPipeline, TLC

Config(a, s, e, p, b) ==
    [auth |-> a, static |-> s, external |-> e, policy |-> p, bypass |-> b]

\* Each auth policy, each way to find the limits, each failure policy.
MCConfigs ==
    {Config("failclosed", FALSE, "off", "passthrough", TRUE),
     Config("failopen", TRUE, "off", "failclosed", FALSE),
     Config("off", TRUE, "off", "inmemoryfallback", FALSE),
     Config("off", TRUE, "off", "passthrough", FALSE),
     Config("off", TRUE, "failclosed", "passthrough", TRUE),
     Config("off", FALSE, "fallback", "inmemoryfallback", FALSE)}

Symmetry == Permutations(Requests) \cup Permutations(Creds)
=============================================================================
