------------------------- MODULE MCLimiterLifecycle -------------------------
EXTENDS LimiterLifecycle, TLC

Config(ep, avg, ext, dedicated) ==
    [ep |-> ep, avg |-> avg, ext |-> ext, dedicated |-> dedicated]

\* Static limits; external limits on other endpoints with a dedicated cache; no
\* limits at all.
MCStatic == Config(1, TRUE, FALSE, FALSE)
MCExternal == Config(2, FALSE, TRUE, TRUE)
MCOff == Config(1, FALSE, FALSE, FALSE)

MCConfigs == {MCStatic, MCExternal, MCOff}
MCExternalOnly == {MCExternal}
MCStaticOnly == {MCStatic}

MCSymmetry == Permutations(Clients) \cup Permutations(Requests) \cup Permutations(Loops)
=============================================================================
