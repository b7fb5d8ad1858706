---------------------------- MODULE TokenBucket -----------------------------
(***************************************************************************)
(* One rate-limit key: the Lua script of internal/ratelimit/limiter.go, run *)
(* atomically by Redis, and the callers (Limiter.Allow and                 *)
(* AllowWithOverrides, on any number of EdgeQuota instances with           *)
(* synchronised clocks) that stamp a request with their clock before they  *)
(* send it.  Between the stamp and the script lies the network, so scripts *)
(* run up to MaxDelay ticks late and in any order.                         *)
(*                                                                         *)
(* Units: time in ticks, Sec to the second.  `tokens' is kept as level =   *)
(* tokens * Cost, where Cost is the number of ticks in which one token is  *)
(* earned, so a refill adds one unit a tick and a request takes Cost.      *)
(***************************************************************************)
EXTENDS BucketParams

CONSTANTS
    Callers,    \* requests that may be in flight for this key at once
    Caps,       \* burst * Cost, for every burst a call may carry
    MaxCap,     \* the largest of them
    Cost,       \* ticks (and units) per token
    TTL,        \* the limiter's ttl, in seconds
    MaxDelay,   \* BOUND: ticks between a caller's stamp and the script
    Start,      \* the clock when the first request arrives
    Horizon,    \* BOUND: the clock stops here
    None        \* "no stamp", "no window", "no promise"

ASSUME BucketAssumption ==
    /\ Cost \in Nat \ {0}
    /\ MaxCap \in Nat
    /\ Caps \subseteq Nat
    /\ \A cap \in Caps : Cost <= cap /\ cap <= MaxCap
    /\ TTL \in Nat
    /\ MaxDelay \in Nat
    /\ Start \in Nat \ {0}
    /\ Horizon \in Nat
    /\ None \notin Int

VARIABLES
    now,        \* real time, which Redis's expiry and every caller's clock show
    stamp,      \* stamp[c]: ARGV[4] of c's call while it is under way
    level,      \* hash field tokens, in units
    last,       \* hash field last
    lastExpire, \* hash field last_expire
    expireAt,   \* the key's EXPIREAT (seconds); 0 when it was never written
    verdict,    \* what the latest call to finish returned
    promise,    \* history: when the latest Retry-After elapses, until a token goes
    window,     \* history: where the observed window starts
    spent,      \* history: units admitted since then
    drift       \* history: ticks by which `last' was moved back since then

key == <<level, last, lastExpire, expireAt>>
history == <<promise, window, spent, drift>>
vars == <<now, stamp, key, verdict, history>>

\* Redis still holds the key.
Live == now <= expireAt * Sec

-----------------------------------------------------------------------------
\* The fields the script works with: an absent key reads as a full bucket.

Since(t) == IF Live THEN (IF t < last THEN t ELSE last) ELSE 0

Refilled(t, cap) ==
    IF Live THEN Least(cap, level + (t - Since(t))) ELSE cap

\* Mutant: the expiry is renewed after the TTL instead of half of it.
NeedsExpireLate(t) == Live => t - lastExpire > TTL * Sec

\* last_expire of an absent key is 0, long ago by any clock.
NeedsExpire(t) == Live => 2 * (t - lastExpire) > TTL * Sec

ExpireAt(t) == (t \div Sec) + TTL

-----------------------------------------------------------------------------

Init ==
    /\ now = Start
    /\ stamp = [c \in Callers |-> None]
    /\ level = MaxCap /\ last = 0 /\ lastExpire = 0 /\ expireAt = 0
    /\ verdict = "none"
    /\ promise = None /\ window = None /\ spent = 0 /\ drift = 0

Tick ==
    /\ now < Horizon
    /\ \A c \in Callers : stamp[c] # None => now < stamp[c] + MaxDelay
    /\ now' = now + 1
    /\ UNCHANGED <<stamp, key, verdict, history>>

\* The caller reads its clock and sends the script.
Stamp(c) ==
    /\ stamp[c] = None
    /\ stamp' = [stamp EXCEPT ![c] = now]
    /\ UNCHANGED <<now, key, verdict, history>>

\* Mutant: `last' is not written back.
StoreKeepsLast(t, units) ==
    /\ level' = units
    /\ lastExpire' = IF NeedsExpire(t) THEN t ELSE lastExpire
    /\ expireAt' = IF NeedsExpire(t) THEN ExpireAt(t) ELSE expireAt
    /\ UNCHANGED last

\* Both branches of the script write last and tokens, and the expiry if due.
Store(t, units) ==
    /\ last' = t
    /\ level' = units
    /\ lastExpire' = IF NeedsExpire(t) THEN t ELSE lastExpire
    /\ expireAt' = IF NeedsExpire(t) THEN ExpireAt(t) ELSE expireAt

\* Mutant: floor instead of ceil.
RetryAfterFloor(units) == Cost - units - 1

\* retry_after of a denied call: ceil((1 - tokens) / rate), in ticks.
RetryAfter(units) == Cost - units

Answer(c, v) ==
    /\ stamp' = [stamp EXCEPT ![c] = None]
    /\ verdict' = v
    /\ UNCHANGED <<now, window>>

\* The script running for c's call with capacity cap.
Evaluate(c, cap) ==
    LET t     == stamp[c]
        units == Refilled(t, cap)
    IN  /\ t # None
        /\ drift' = IF window # None /\ Live /\ t < last
                    THEN drift + (last - t) ELSE drift
        /\ \/ /\ units >= Cost
              /\ Store(t, units - Cost)
              /\ spent' = IF window # None THEN spent + Cost ELSE spent
              /\ promise' = None
              /\ Answer(c, "allow")
           \/ /\ units < Cost
              /\ Store(t, units)
              /\ promise' = t + RetryAfter(units)
              /\ UNCHANGED spent
              /\ Answer(c, "deny")

\* rate <= 0: the script answers at once and touches nothing.
Unlimited(c) ==
    /\ stamp[c] # None
    /\ Answer(c, "allow")
    /\ UNCHANGED <<key, promise, spent, drift>>

\* The call fails before the script runs (connection refused, deadline).
Lost(c) ==
    /\ stamp[c] # None
    /\ Answer(c, "error")
    /\ UNCHANGED <<key, promise, spent, drift>>

\* An observer starts to count admissions, once, at any moment.
OpenWindow ==
    /\ window = None
    /\ window' = now
    /\ spent' = 0
    /\ drift' = 0
    /\ UNCHANGED <<now, stamp, key, verdict, promise>>

Next ==
    \/ Tick
    \/ OpenWindow
    \/ \E c \in Callers :
          \/ Stamp(c)
          \/ \E cap \in Caps : Evaluate(c, cap)
          \/ Unlimited(c)
          \/ Lost(c)

Spec == Init /\ [][Next]_vars
-----------------------------------------------------------------------------

TypeOK ==
    /\ now \in Nat
    /\ stamp \in [Callers -> Nat \cup {None}]
    /\ level \in 0..MaxCap
    /\ last \in Nat
    /\ lastExpire \in Nat
    /\ expireAt \in Nat
    /\ verdict \in {"none", "allow", "deny", "error"}
    /\ promise \in Nat \cup {None}
    /\ window \in Nat \cup {None}
    /\ spent \in Nat
    /\ drift \in Nat

\* In any window of time the script admits at most a full bucket plus what
\* the elapsed time earns, stretched by the one network delay at its start
\* and by exactly the time that late stamps moved `last' back (the script's
\* `if now < last then last = now').  Expiry of the key adds nothing.
WindowBound ==
    window # None => spent <= MaxCap + (now - window) + MaxDelay + drift

\* What the documentation promises of the rate: `burst' requests at once, then
\* `average' a period.  A key that expires before its bucket is refilled (a TTL
\* shorter than parseBucketParams' documented one) would break it.
SustainedRate ==
    window # None => spent <= MaxCap + (now - window) + MaxDelay

\* A caller that waits out the Retry-After of the latest denial, while nobody
\* takes a token, is not denied again, whatever expires or arrives late in
\* the meantime.
RetryAfterKept ==
    [][\A c \in Callers :
          /\ promise # None
          /\ stamp[c] # None /\ stamp[c] >= promise
          /\ stamp'[c] = None
          => verdict' # "deny"]_vars

\* The bucket whose keys never expire.
Ideal == INSTANCE IdealBucket WITH
            now <- now, stamp <- stamp, level <- level, last <- last, verdict <- verdict

\* Expiry is unobservable: with a TTL long enough to refill the bucket after
\* the latest EXPIREAT, the script answers as the bucket that forgets nothing.
ExpiryInvisible == Ideal!Spec

-----------------------------------------------------------------------------
(***************************************************************************)
(* The inductive invariant behind WindowBound and ExpiryInvisible.         *)
(***************************************************************************)

\* From the latest EXPIREAT, half the TTL may pass before it is renewed, one
\* second may be lost in rounding, and a stamp may be MaxDelay old: what is
\* left is enough to refill the largest bucket.
TTLCoversRefill == 2 * (MaxCap + MaxDelay + Sec - 2) <= TTL * Sec

\* Stamps are at most MaxDelay old, and nothing stored lies in the future.
Timely ==
    /\ now >= Start
    /\ last <= now
    /\ \A c \in Callers :
          stamp[c] # None => stamp[c] <= now /\ now <= stamp[c] + MaxDelay

\* The key was never written, or its expiry follows from last_expire, which
\* is at most half the TTL behind `last'.
ExpiryKept ==
    \/ level = MaxCap /\ last = 0 /\ expireAt = 0
    \/ /\ lastExpire + TTL * Sec < expireAt * Sec + Sec
       /\ 2 * (last - lastExpire) <= TTL * Sec

\* An expired bucket would have been full again for any stamp still under way.
RefilledWhenGone ==
    ~Live => \A c \in Callers :
                stamp[c] # None => MaxCap + last <= level + stamp[c]

\* Units spent in the window and units left came from the bucket's capacity,
\* from stamped time, and from stamps that moved `last' back.
Accounted ==
    window # None =>
        /\ window <= now
        /\ last < window - MaxDelay => spent = 0
        /\ last >= window - MaxDelay =>
              spent + level <= MaxCap + (last - (window - MaxDelay)) + drift

\* Until a token goes, the bucket earns its next one exactly at the promise.
Promised ==
    promise # None => level < Cost /\ promise = last + RetryAfter(level)

IInv ==
    /\ TTLCoversRefill
    /\ TypeOK /\ Timely /\ ExpiryKept /\ Accounted /\ Promised

=============================================================================
