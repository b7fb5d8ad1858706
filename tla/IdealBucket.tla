---------------------------- MODULE IdealBucket -----------------------------
(***************************************************************************)
(* What the Redis token bucket promises: a bucket whose state is never     *)
(* forgotten.  It is TokenBucket without the key's expiry, so showing that *)
(* TokenBucket implements it shows that EXPIREAT only collects garbage.    *)
(*                                                                         *)
(* Levels are counted in units earned one per tick; a request costs Cost   *)
(* units.  A caller stamps its request with the clock and the bucket       *)
(* evaluates it up to MaxDelay ticks later, in any order.                  *)
(***************************************************************************)
EXTENDS Integers

CONSTANTS
    Callers,    \* requests in flight against one key
    Caps,       \* capacities (burst * Cost) a call may carry
    Cost,       \* units a request costs
    MaxDelay,   \* ticks a stamped request may be under way
    None        \* "no stamp"

VARIABLES now, stamp, level, last, verdict

vars == <<now, stamp, level, last, verdict>>

Least(a, b) == IF a <= b THEN a ELSE b

\* The stored time never lies in the caller's future.
Since(t) == IF t < last THEN t ELSE last

\* Units in the bucket for a call stamped t with capacity cap.
Refilled(t, cap) == Least(cap, level + (t - Since(t)))

Init ==
    /\ now \in Nat
    /\ stamp = [c \in Callers |-> None]
    /\ \A cap \in Caps : level >= cap
    /\ level \in Nat
    /\ last = 0
    /\ verdict = "none"

Tick ==
    /\ \A c \in Callers : stamp[c] # None => now < stamp[c] + MaxDelay
    /\ now' = now + 1
    /\ UNCHANGED <<stamp, level, last, verdict>>

Stamp(c) ==
    /\ stamp[c] = None
    /\ stamp' = [stamp EXCEPT ![c] = now]
    /\ UNCHANGED <<now, level, last, verdict>>

Evaluate(c, cap) ==
    LET t     == stamp[c]
        units == Refilled(t, cap)
        ok    == units >= Cost
    IN  /\ t # None
        /\ stamp' = [stamp EXCEPT ![c] = None]
        /\ last' = t
        /\ level' = IF ok THEN units - Cost ELSE units
        /\ verdict' = IF ok THEN "allow" ELSE "deny"
        /\ UNCHANGED now

\* A request that never reaches the bucket, or is not limited at all.
Bypass(c, v) ==
    /\ stamp[c] # None
    /\ stamp' = [stamp EXCEPT ![c] = None]
    /\ verdict' = v
    /\ UNCHANGED <<now, level, last>>

Next ==
    \/ Tick
    \/ \E c \in Callers :
          \/ Stamp(c)
          \/ \E cap \in Caps : Evaluate(c, cap)
          \/ \E v \in {"allow", "error"} : Bypass(c, v)

Spec == Init /\ [][Next]_vars
=============================================================================
