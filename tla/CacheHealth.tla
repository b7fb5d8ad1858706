----------------------------- MODULE CacheHealth -----------------------------
(***************************************************************************)
(* Whether the response cache's Redis is reachable, as Store keeps it and  *)
(* the gauge shows it.  Every command of the store ends with noteRedis:    *)
(* success, a missing key included, notes TRUE, a connectivity error       *)
(* FALSE; a disconnected client or an error that Redis itself returned     *)
(* says nothing and is not noted.  The outcome depends on nothing here, so *)
(* any caller may note either value at any time.                           *)
(***************************************************************************)
CONSTANT Callers   \* goroutines that use the store

VARIABLES
    healthy,   \* Store.healthy, atomic
    gauge,     \* what OnHealthy last reported
    note       \* setHealthy of each caller: the value, and where it is

healthVars == <<healthy, gauge, note>>

HealthInit ==
    /\ healthy = TRUE /\ gauge = TRUE
    /\ note = [c \in Callers |-> [at |-> "idle", value |-> TRUE]]

Locked == \E c \in Callers : note[c].at = "locked"

\* The fast path: nothing to do when the outcome is what is known already.
Note(c) ==
    /\ note[c].at = "idle"
    /\ note' = [note EXCEPT ![c] = [at |-> "differs", value |-> ~healthy]]
    /\ UNCHANGED <<healthy, gauge>>

\* Mutant: the flip is not taken under healthMu.
FlipUnlocked(c) ==
    /\ note[c].at = "differs"
    /\ healthy' = note[c].value
    /\ note' = [note EXCEPT ![c].at = IF healthy = note[c].value THEN "idle" ELSE "locked"]
    /\ UNCHANGED gauge

\* Lock, look again, and store.
Flip(c) ==
    /\ note[c].at = "differs" /\ ~Locked
    /\ healthy' = note[c].value
    /\ note' = [note EXCEPT ![c].at = IF healthy = note[c].value THEN "idle" ELSE "locked"]
    /\ UNCHANGED gauge

\* OnHealthy, and unlock.
Report(c) ==
    /\ note[c].at = "locked"
    /\ gauge' = note[c].value
    /\ note' = [note EXCEPT ![c] = [at |-> "idle", value |-> TRUE]]
    /\ UNCHANGED healthy

HealthNext == \E c \in Callers : Note(c) \/ Flip(c) \/ Report(c)

HealthSpec == HealthInit /\ [][HealthNext]_healthVars

-----------------------------------------------------------------------------

\* The gauge never latches to the opposite of healthy: whenever no flip is
\* being reported they agree, however the outcomes of concurrent commands
\* interleave.
GaugeInStep == ~Locked => gauge = healthy
=============================================================================
