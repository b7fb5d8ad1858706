---------------------------- MODULE BucketParams ----------------------------
(***************************************************************************)
(* The derived parameters of a token bucket: what parseBucketParams in     *)
(* internal/middleware/chain.go computes from average, burst, period and   *)
(* min_ttl.  Durations are integers in ticks, Sec ticks to the second; a   *)
(* rate is kept as the fraction average * Sec / period (tokens a second).  *)
(***************************************************************************)
EXTENDS Integers

CONSTANT Sec    \* ticks in one second

ASSUME SecAssumption == Sec \in Nat \ {0}

\* 7 days, in seconds.
maxTTL == 7 * 24 * 3600

Least(a, b) == IF a <= b THEN a ELSE b
Greatest(a, b) == IF a >= b THEN a ELSE b

CeilDiv(a, b) == (a + b - 1) \div b

\* An absent, unparsable or non-positive period is one second.
Period(period) == IF period <= 0 THEN Sec ELSE period

Burst(burst) == Greatest(burst, 1)

\* Ticks in which one token is earned (average > 0): the inverse of the rate.
TicksPerToken(average, period) == Period(period) \div average

\* 0 < ratePerSecond < 1.
SlowRate(average, period) == average > 0 /\ average * Sec < Period(period)

\* The TTL of the Redis key, in seconds.  minTTL is in ticks, 0 when unset.
TTLSeconds(average, period, minTTL) ==
    LET base == IF SlowRate(average, period)
                THEN Least((Period(period) \div (average * Sec)) + 2, maxTTL)
                ELSE Greatest(2, 2 * CeilDiv(Period(period), Sec))
    IN  IF minTTL > 0 THEN Greatest(base, CeilDiv(minTTL, Sec)) ELSE base
=============================================================================
