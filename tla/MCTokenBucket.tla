--------------------------- MODULE MCTokenBucket ----------------------------
EXTENDS TokenBucket, TLC

\* rate_limit.static: average 4, burst 2, period "2s", no min_ttl; half-second
\* ticks, so a token is earned every tick and the TTL is 4 s.  Overrides carry
\* burst 0, which the code raises to 1.
MCAverage == 4
MCPeriod == 2 * Sec
MCCost == TicksPerToken(MCAverage, MCPeriod)
MCTTL == TTLSeconds(MCAverage, MCPeriod, 0)
MCCaps == {Burst(b) * MCCost : b \in {0, 2}}
MCMaxCap == CHOOSE m \in MCCaps : \A cap \in MCCaps : cap <= m

\* average 1, burst 4, period "1s" (the default): two ticks to the token, 8 to
\* refill the bucket, and a TTL of 2 s, which is 4.
MCPeriod1s == Sec
MCCost1s == TicksPerToken(1, MCPeriod1s)
MCTTL1s == TTLSeconds(1, MCPeriod1s, 0)
MCCaps1s == {Burst(4) * MCCost1s}
MCMaxCap1s == Burst(4) * MCCost1s

MCSymmetry == Permutations(Callers)
=============================================================================
