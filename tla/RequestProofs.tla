---------------------------- MODULE RequestProofs ---------------------------
(***************************************************************************)
(* Proofs about the requests, from their arrival to the shutdown that      *)
(* waits for them.                                                         *)
(*                                                                         *)
(* RequestPipeline, for any requests, credentials, configurations,         *)
(* thresholds and burst: what lets a request reach the backend, and what   *)
(* the in-memory limiter allows.                                           *)
(*                                                                         *)
(* ServerLifecycle, for any configuration of it: the order of shutdown.    *)
(***************************************************************************)
EXTENDS RequestPipeline, ServerLifecycle, TLAPS

(***************************************************************************)
(* The chain, from the authentication to the limits.                       *)
(***************************************************************************)

InAuth == {"auth", "check", "call", "succeeded", "failed", "aborted", "set", "index"}

Functions ==
    /\ DOMAIN at = Requests /\ DOMAIN cred = Requests /\ DOMAIN decision = Requests
    /\ DOMAIN limits = Requests /\ DOMAIN said = Requests
    /\ DOMAIN authCache = Creds
    /\ \A r \in Requests : at[r] # "idle" => cred[r] \in Creds

\* What an answer of the service, kept in a request or in the cache, says of a
\* credential is what the service has said of it.
AuthInv ==
    /\ \A c \in Creds : authCache[c] # None /\ authCache[c].allowed => c \in granted
    /\ \A r \in Requests : at[r] \in {"succeeded", "set", "index"} =>
          (decision[r].allowed => cred[r] \in granted)
    /\ cfg.auth = "failclosed" =>
          \A r \in Requests : at[r] \in PastAuth => cred[r] \in granted

\* The breaker's count is the count of genuine failures.
BreakerInv ==
    /\ cb \in [failures : 0..Threshold, open : BOOLEAN, hot : BOOLEAN]
    /\ genuine = cb.failures
    /\ cb.open => cb.failures = Threshold

Undecided == {"idle"} \cup InAuth \cup (PastAuth \ {"backend"})

LimitOK(r) ==
    /\ at[r] \in Undecided => said[r] = None
    /\ at[r] \in Undecided \cup {"backend"} => limits[r] # FailClosedLimits
    /\ at[r] = "backend" =>
          \/ Unlimited
          \/ said[r] = "allow"
          \/ said[r] = None /\ limits[r] # None /\ limits[r].policy = "passthrough"
          \/ /\ said[r] = None /\ cfg.policy = "passthrough"
             /\ limits[r] = None \/ limits[r].policy = None

LimitInv == \A r \in Requests : LimitOK(r)

\* A step of authentication moves one request, within authentication, to the
\* limits or to an answer, and touches nothing else of it but the decision.
LEMMA AuthMoves ==
    ASSUME NEW r \in Requests, DOMAIN at = Requests, AuthStep(r)
    PROVE  /\ at[r] \in InAuth
           /\ at' = [at EXCEPT ![r] = at'[r]]
           /\ at'[r] \in InAuth \cup {"limit", "answered"}
           /\ UNCHANGED <<cfg, cred>>
<1>1. CASE GetCached(r)
    BY <1>1 DEF GetCached, applyAuthResponse, To, InAuth, asking
<1>2. CASE CheckBreaker(r)
    BY <1>2 DEF CheckBreaker, OnError, To, InAuth, asking
<1>3. CASE Answer(r)
    BY <1>3 DEF Answer, Go, To, InAuth
<1>4. CASE Error(r)
    BY <1>4 DEF Error, Go, To, InAuth, asking
<1>5. CASE RecordFailure(r)
    BY <1>5 DEF RecordFailure, OnError, To, InAuth, asking
<1>6. CASE RecordSuccess(r)
    BY <1>6 DEF RecordSuccess, applyAuthResponse, To, InAuth, asking
<1>7. CASE SetCached(r)
    BY <1>7 DEF SetCached, Go, To, InAuth, asking
<1>8. CASE Index(r)
    BY <1>8 DEF Index, applyAuthResponse, To, InAuth, asking
<1> QED
    BY <1>1, <1>2, <1>3, <1>4, <1>5, <1>6, <1>7, <1>8 DEF AuthStep

\* The stages other than authentication.
Stage(r) ==
    \/ Arrive(r) \/ Route(r) \/ FetchLimits(r) \/ TryRedis(r) \/ ApplyPolicy(r)
    \/ FbGet(r) \/ FbStore(r) \/ FbSet(r) \/ FbDrop(r) \/ FbTake(r) \/ Leave(r)

\* They leave authentication alone, and a request passes it only through it, or
\* when there is none.
LEMMA StageMoves ==
    ASSUME NEW r \in Requests, Functions, Stage(r)
    PROVE  /\ at[r] \notin InAuth
           /\ at' = [at EXCEPT ![r] = at'[r]]
           /\ at'[r] \notin InAuth \ {"auth"}
           /\ at'[r] \in PastAuth =>
                 \/ at[r] \in PastAuth /\ cred'[r] = cred[r]
                 \/ cfg.auth = "off"
           /\ at'[r] # "idle" => cred'[r] \in Creds
           /\ DOMAIN cred' = Requests /\ DOMAIN decision' = Requests
           /\ \A q \in Requests \ {r} : cred'[q] = cred[q] /\ decision'[q] = decision[q]
           /\ UNCHANGED <<cfg, store, breaker, granted, purging>>
<1> USE DEF Functions, InAuth, PastAuth, To, Go, asking
<1>1. CASE Arrive(r)
    BY <1>1 DEF Arrive
<1>2. CASE Route(r)
    BY <1>2 DEF Route
<1>3. CASE FetchLimits(r)
    BY <1>3 DEF FetchLimits
<1>4. CASE TryRedis(r)
    BY <1>4 DEF TryRedis
<1>5. CASE ApplyPolicy(r)
    BY <1>5 DEF ApplyPolicy
<1>6. CASE FbGet(r)
    BY <1>6 DEF FbGet
<1>7. CASE FbStore(r)
    BY <1>7 DEF FbStore
<1>8. CASE FbSet(r)
    BY <1>8 DEF FbSet
<1>9. CASE FbDrop(r)
    BY <1>9 DEF FbDrop, Allow
<1>10. CASE FbTake(r)
    BY <1>10 DEF FbTake, Take, Allow
<1>11. CASE Leave(r)
    BY <1>11 DEF Leave
<1> HIDE DEF Functions, InAuth, PastAuth, To, Go, asking
<1> QED
    BY <1>1, <1>2, <1>3, <1>4, <1>5, <1>6, <1>7, <1>8, <1>9, <1>10, <1>11, Zenon DEF Stage

\* ristretto's own steps touch nothing but the in-memory limiter.
LEMMA FallbackAlone ==
    ASSUME FbApply \/ FbEvict \/ UNCHANGED vars
    PROVE  UNCHANGED <<cfg, authCache, tagged, lost, cb, genuine, at, cred, decision, granted,
                       limits, said>>
<1>1. UNCHANGED <<authVars, limits, said>>
    BY Zenon DEF FbApply, FbEvict, vars
<1> QED
    BY <1>1 DEF authVars, store, breaker, asking

\* The functions keep their domains.
LEMMA FunctionsInvariant == Spec => []Functions
<1>1. Init => Functions
    BY DEF Init, AuthInit, Functions
<1>2. Functions /\ [Next]_vars => Functions'
    <2> SUFFICES ASSUME Functions, [Next]_vars PROVE Functions'
        OBVIOUS
    <2>1. ASSUME NEW r \in Requests, AuthStep(r), UNCHANGED ServeVars PROVE Functions'
        <3>1. DOMAIN decision' = Requests /\ DOMAIN authCache' = Creds
            <4>1. CASE Answer(r)
                BY <4>1 DEF Answer, Functions, store
            <4>2. CASE SetCached(r)
                BY <4>2 DEF SetCached, Functions, asking
            <4>3. CASE UNCHANGED <<decision, authCache>>
                BY <4>3 DEF Functions
            <4>4. CASE RecordFailure(r) \/ RecordSuccess(r)
                BY <4>3, <4>4 DEF RecordFailure, RecordSuccess, asking, store
            <4> QED
                BY <2>1, <4>1, <4>2, <4>3, <4>4
                DEF AuthStep, GetCached, CheckBreaker, Error, Index, asking, store
        <3> QED
            BY <2>1, <3>1, AuthMoves DEF Functions, ServeVars, InAuth
    <2>2. ASSUME NEW r \in Requests, Stage(r) PROVE Functions'
        <3>1. DOMAIN limits' = Requests /\ DOMAIN said' = Requests
            BY <2>2 DEF Stage, Arrive, Route, FetchLimits, TryRedis, ApplyPolicy, FbGet, FbStore,
                        FbSet, FbDrop, FbTake, Take, Allow, Leave, Says, Functions, ServeVars
        <3> QED
            BY <2>2, <3>1, StageMoves DEF Functions, store
    <2>3. CASE Environment /\ UNCHANGED ServeVars
        BY <2>3 DEF Environment, Cancel, ExpireCached, Cool, PurgeMembers, PurgeEntries, PurgeTag,
                    Functions, ServeVars, asking, store
    <2>4. CASE FbApply \/ FbEvict \/ UNCHANGED vars
        BY <2>4, FallbackAlone DEF Functions
    <2> QED
        BY <2>1, <2>2, <2>3, <2>4 DEF Next, Serve, Stage
<1> QED
    BY <1>1, <1>2, PTL DEF Spec

\* Under failclosed nobody passes authentication whom the service has not
\* allowed (Chain.checkAuth).
THEOREM OnlyTheGrantedPass == Spec => []AuthSound
<1>1. Init => AuthInv
    BY DEF Init, AuthInit, AuthInv, PastAuth
<1>2. Functions /\ AuthInv /\ [Next]_vars => AuthInv'
    <2> SUFFICES ASSUME Functions, AuthInv, [Next]_vars PROVE AuthInv'
        OBVIOUS
    <2>1. ASSUME NEW r \in Requests, AuthStep(r) PROVE AuthInv'
        <3>0. /\ at[r] \in InAuth /\ at' = [at EXCEPT ![r] = at'[r]]
              /\ DOMAIN at = Requests /\ cred[r] \in Creds /\ UNCHANGED <<cfg, cred>>
            BY <2>1, AuthMoves DEF Functions, InAuth
        \* Enough that the decision taken, if any, is the service's.
        <3>1. ASSUME UNCHANGED <<authCache, decision, granted>>,
                     at'[r] \in {"succeeded", "set", "index"} => at[r] \in {"succeeded", "set", "index"},
                     cfg.auth = "failclosed" /\ at'[r] = "limit" => cred[r] \in granted,
                     at'[r] \in InAuth \cup {"limit", "answered"}
              PROVE  AuthInv'
            BY <3>0, <3>1 DEF AuthInv, PastAuth, InAuth
        <3>2. at'[r] \in InAuth \cup {"limit", "answered"}
            BY <2>1, AuthMoves DEF Functions
        <3>3. CASE GetCached(r)
            BY <3>0, <3>1, <3>2, <3>3 DEF GetCached, applyAuthResponse, To, AuthInv, store, asking
        <3>4. CASE CheckBreaker(r)
            BY <3>0, <3>1, <3>2, <3>4 DEF CheckBreaker, OnError, To, store, asking
        <3>5. CASE Answer(r)
            <4>1. /\ at'[r] = "succeeded" /\ granted \subseteq granted'
                  /\ \A q \in Requests \ {r} : decision'[q] = decision[q]
                  /\ decision'[r].allowed => cred[r] \in granted'
                  /\ UNCHANGED authCache
                BY <3>0, <3>5 DEF Answer, Go, To, store, Functions
            <4> QED
                BY <3>0, <4>1 DEF AuthInv, PastAuth
        <3>6. CASE Error(r)
            BY <3>0, <3>1, <3>2, <3>6 DEF Error, Go, To, store, asking
        <3>7. CASE RecordFailure(r)
            BY <3>0, <3>1, <3>2, <3>7 DEF RecordFailure, OnError, To, store, asking
        <3>8. CASE RecordSuccess(r)
            BY <3>0, <3>1, <3>2, <3>8
            DEF RecordSuccess, applyAuthResponse, To, store, asking, AuthInv
        <3>9. CASE SetCached(r)
            <4>1. /\ at[r] = "set" /\ at'[r] = "index" /\ UNCHANGED <<decision, granted>>
                  /\ \A c \in Creds : authCache'[c] = authCache[c] \/
                        (c = cred[r] /\ authCache'[c] = decision[r])
                BY <3>0, <3>9 DEF SetCached, Go, To, asking, Functions
            <4> QED
                BY <3>0, <4>1 DEF AuthInv, PastAuth
        <3>10. CASE Index(r)
            BY <3>0, <3>1, <3>2, <3>10 DEF Index, applyAuthResponse, To, asking, AuthInv
        <3> QED
            BY <2>1, <3>3, <3>4, <3>5, <3>6, <3>7, <3>8, <3>9, <3>10 DEF AuthStep
    <2>2. ASSUME NEW r \in Requests, Stage(r) PROVE AuthInv'
        BY <2>2, StageMoves DEF AuthInv, InAuth, store, Functions
    <2>3. CASE Environment /\ UNCHANGED ServeVars
        <3>1. /\ UNCHANGED <<cfg, at, cred, decision, granted>>
              /\ \A c \in Creds : authCache'[c] = authCache[c] \/ authCache'[c] = None
            BY <2>3 DEF Environment, Cancel, ExpireCached, Cool, PurgeMembers, PurgeEntries, PurgeTag,
                        Functions, asking, store
        <3> QED
            BY <3>1 DEF AuthInv
    <2>4. CASE FbApply \/ FbEvict \/ UNCHANGED vars
        BY <2>4, FallbackAlone DEF AuthInv
    <2> QED
        BY <2>1, <2>2, <2>3, <2>4 DEF Next, Serve, Stage
<1>3. AuthInv => AuthSound
    BY DEF AuthInv, AuthSound
<1> QED
    BY <1>1, <1>2, <1>3, FunctionsInvariant, PTL DEF Spec

\* Disconnecting clients never open the circuit (auth.Client.Check, IsCanceled).
THEOREM OnlyFailuresTrip == Spec => []CancelsDoNotTrip
<1>1. Init => BreakerInv
    <2> SUFFICES ASSUME Init PROVE BreakerInv
        OBVIOUS
    <2>1. cb = [failures |-> 0, open |-> FALSE, hot |-> FALSE] /\ genuine = 0
        BY DEF Init, AuthInit
    <2>2. cb \in [failures : 0..Threshold, open : BOOLEAN, hot : BOOLEAN]
        BY <2>1, AuthAssumption
    <2> QED
        BY <2>1, <2>2 DEF BreakerInv
<1>2. BreakerInv /\ [Next]_vars => BreakerInv'
    <2> SUFFICES ASSUME BreakerInv, [Next]_vars PROVE BreakerInv'
        OBVIOUS
    <2>0. CASE UNCHANGED breaker
        BY <2>0 DEF BreakerInv, breaker
    <2>1. ASSUME NEW r \in Requests, RecordFailure(r) PROVE BreakerInv'
        <3>1. cb.failures \in 0..Threshold /\ genuine = cb.failures /\ Threshold \in Nat
            BY AuthAssumption DEF BreakerInv
        <3>2. CASE ~Counts(r)
            BY <2>0, <2>1, <3>2 DEF RecordFailure, Counts, breaker
        <3>3. CASE Counts(r)
            <4>1. PICK n : /\ n = IF cb.failures < Threshold THEN cb.failures + 1 ELSE Threshold
                           /\ cb' = [failures |-> n, open |-> cb.open \/ n = Threshold,
                                     hot |-> cb.hot \/ n = Threshold]
                BY <2>1, <3>3 DEF RecordFailure
            <4>2. n \in 0..Threshold /\ genuine' = n
                BY <2>1, <3>1, <3>3, <4>1 DEF RecordFailure, Counts
            <4>3. (cb.open => n = Threshold)
                BY <3>1, <4>1 DEF BreakerInv
            <4>4. cb'.failures = n /\ cb'.open = (cb.open \/ n = Threshold)
                BY <4>1
            <4>5. cb' \in [failures : 0..Threshold, open : BOOLEAN, hot : BOOLEAN]
                BY <4>1, <4>2
            <4> QED
                BY <4>2, <4>3, <4>4, <4>5 DEF BreakerInv
        <3> QED
            BY <3>2, <3>3
    <2>2. ASSUME NEW r \in Requests, RecordSuccess(r) PROVE BreakerInv'
        <3>1. cb' = [failures |-> 0, open |-> FALSE, hot |-> FALSE] /\ genuine' = 0
            BY <2>2 DEF RecordSuccess
        <3>2. cb' \in [failures : 0..Threshold, open : BOOLEAN, hot : BOOLEAN]
            BY <3>1, AuthAssumption
        <3> QED
            BY <3>1, <3>2 DEF BreakerInv
    <2>3. CASE Cool
        <3>1. /\ cb' = [cb EXCEPT !.hot = FALSE] /\ genuine' = genuine
              /\ cb \in [failures : 0..Threshold, open : BOOLEAN, hot : BOOLEAN]
            BY <2>3 DEF Cool, BreakerInv
        <3>2. cb'.failures = cb.failures /\ cb'.open = cb.open
            BY <3>1
        <3>3. cb' \in [failures : 0..Threshold, open : BOOLEAN, hot : BOOLEAN]
            BY <3>1, Zenon
        <3> QED
            BY <3>1, <3>2, <3>3 DEF BreakerInv
    <2>4. ASSUME NEW r \in Requests, AuthStep(r) PROVE BreakerInv'
        <3>1. GetCached(r) \/ CheckBreaker(r) => UNCHANGED breaker
            BY DEF GetCached, CheckBreaker
        <3>2. Answer(r) \/ Error(r) => UNCHANGED breaker
            BY DEF Answer, Error
        <3>3. SetCached(r) \/ Index(r) => UNCHANGED breaker
            BY DEF SetCached, Index
        <3> QED
            BY <2>0, <2>1, <2>2, <2>4, <3>1, <3>2, <3>3 DEF AuthStep
    <2>5. ASSUME NEW r \in Requests, Stage(r) PROVE BreakerInv'
        <3>1. Arrive(r) \/ Route(r) \/ FetchLimits(r) => UNCHANGED breaker
            BY DEF Arrive, Route, FetchLimits
        <3>2. TryRedis(r) \/ ApplyPolicy(r) \/ FbGet(r) => UNCHANGED breaker
            BY DEF TryRedis, ApplyPolicy, FbGet
        <3>3. FbStore(r) \/ FbSet(r) \/ FbDrop(r) => UNCHANGED breaker
            BY DEF FbStore, FbSet, FbDrop
        <3>4. FbTake(r) \/ Leave(r) => UNCHANGED breaker
            BY DEF FbTake, Leave
        <3> QED
            BY <2>0, <2>5, <3>1, <3>2, <3>3, <3>4 DEF Stage
    <2>6. CASE Environment
        <3>1. (\E r \in Requests : Cancel(r)) \/ PurgeMembers => UNCHANGED breaker
            BY DEF Cancel, PurgeMembers
        <3>2. (\E c \in Creds : ExpireCached(c)) \/ PurgeEntries \/ PurgeTag => UNCHANGED breaker
            BY DEF ExpireCached, PurgeEntries, PurgeTag
        <3> QED
            BY <2>0, <2>3, <2>6, <3>1, <3>2 DEF Environment
    <2>7. CASE FbApply \/ FbEvict \/ UNCHANGED vars
        BY <2>0, <2>7, FallbackAlone DEF breaker
    <2> QED
        BY <2>4, <2>5, <2>6, <2>7 DEF Next, Serve, Stage
<1>3. BreakerInv => CancelsDoNotTrip
    BY AuthAssumption DEF BreakerInv, CancelsDoNotTrip
<1> QED
    BY <1>1, <1>2, <1>3, PTL DEF Spec

\* A cached decision is indexed, about to be, or known to be lost
\* (setAuthInCache, DeleteAuthByTag).
THEOREM DecisionsCanBePurged == Spec => []PurgeableOrLost
<1>1. Init => PurgeableOrLost
    BY DEF Init, AuthInit, PurgeableOrLost
<1>2. Functions /\ PurgeableOrLost /\ [Next]_vars => PurgeableOrLost'
    <2> SUFFICES ASSUME Functions, PurgeableOrLost, [Next]_vars PROVE PurgeableOrLost'
        OBVIOUS
    \* Redis stays, and nobody leaves the step between SET and SADD.
    <2>1. ASSUME NEW r \in Requests, UNCHANGED store, at[r] # "index",
                 \A q \in Requests \ {r} : at'[q] = at[q] /\ cred'[q] = cred[q]
          PROVE  PurgeableOrLost'
        BY <2>1 DEF PurgeableOrLost, store
    <2>2. ASSUME NEW r \in Requests, AuthStep(r) PROVE PurgeableOrLost'
        <3>0. /\ at' = [at EXCEPT ![r] = at'[r]] /\ UNCHANGED cred /\ DOMAIN at = Requests
            BY <2>2, AuthMoves DEF Functions
        <3>1. CASE SetCached(r)
            BY <3>0, <3>1 DEF SetCached, Go, To, PurgeableOrLost, Functions
        <3>2. CASE Index(r)
            BY <3>0, <3>2 DEF Index, PurgeableOrLost
        <3> QED
            <4>1. \A q \in Requests \ {r} : at'[q] = at[q] /\ cred'[q] = cred[q]
                BY <3>0
            <4>2. CASE GetCached(r) \/ CheckBreaker(r) \/ Error(r)
                BY <2>1, <4>1, <4>2 DEF GetCached, CheckBreaker, Error, Go
            <4>3. CASE Answer(r) \/ RecordFailure(r) \/ RecordSuccess(r)
                BY <2>1, <4>1, <4>3 DEF Answer, RecordFailure, RecordSuccess, Go
            <4> QED
                BY <2>2, <3>1, <3>2, <4>2, <4>3 DEF AuthStep
    <2>3. ASSUME NEW r \in Requests, Stage(r) PROVE PurgeableOrLost'
        BY <2>1, <2>3, StageMoves DEF InAuth, Functions
    <2>4. CASE Environment
        BY <2>4 DEF Environment, Cancel, ExpireCached, Cool, PurgeMembers, PurgeEntries, PurgeTag,
                    PurgeableOrLost, Functions, asking, store
    <2>5. CASE FbApply \/ FbEvict \/ UNCHANGED vars
        BY <2>5, FallbackAlone DEF PurgeableOrLost
    <2> QED
        BY <2>2, <2>3, <2>4, <2>5 DEF Next, Serve, Stage
<1> QED
    BY <1>1, <1>2, FunctionsInvariant, PTL DEF Spec

\* A limited request reaches the backend by the word of a limiter or of the
\* policy in force for it (Chain.ServeHTTP, handleRedisFailurePolicy).
THEOREM LimitsAreSound == Spec => []LimitSound
<1>0. FailClosedLimits # None
    BY PipelineAssumption DEF FailClosedLimits
<1>1. Init => LimitInv
    BY <1>0 DEF Init, AuthInit, LimitInv, LimitOK
<1>2. Functions /\ LimitInv /\ [Next]_vars => LimitInv'
    <2> SUFFICES ASSUME Functions, LimitInv, [Next]_vars PROVE LimitInv'
        OBVIOUS
    <2>1. ASSUME NEW r \in Requests, UNCHANGED cfg, LimitOK(r)',
                 \A q \in Requests \ {r} :
                    at'[q] = at[q] /\ said'[q] = said[q] /\ limits'[q] = limits[q]
          PROVE  LimitInv'
        BY <2>1 DEF LimitInv, LimitOK, Unlimited
    <2>2. ASSUME NEW r \in Requests, AuthStep(r), UNCHANGED ServeVars PROVE LimitInv'
        <3>1. /\ at[r] \in InAuth /\ at' = [at EXCEPT ![r] = at'[r]]
              /\ at'[r] \in InAuth \cup {"limit", "answered"} /\ UNCHANGED cfg
            BY <2>2, AuthMoves DEF Functions
        <3>2. LimitOK(r)'
            BY <2>2, <3>1 DEF LimitInv, LimitOK, ServeVars, Undecided, InAuth, PastAuth
        <3> QED
            BY <2>1, <2>2, <3>1, <3>2 DEF ServeVars, Functions
    <2>3. ASSUME NEW r \in Requests, Stage(r) PROVE LimitInv'
        <3>0. /\ UNCHANGED cfg /\ at' = [at EXCEPT ![r] = at'[r]]
              /\ \A q \in Requests \ {r} : said'[q] = said[q] /\ limits'[q] = limits[q]
            <4>1. UNCHANGED cfg /\ at' = [at EXCEPT ![r] = at'[r]]
                BY <2>3, StageMoves
            <4>2. \A q \in Requests \ {r} : said'[q] = said[q] /\ limits'[q] = limits[q]
                BY <2>3 DEF Stage, Arrive, Route, FetchLimits, TryRedis, ApplyPolicy, FbGet, FbStore,
                            FbSet, FbDrop, FbTake, Take, Allow, Leave, Says, Functions, ServeVars
            <4> QED
                BY <4>1, <4>2
        <3>1. LimitOK(r)
            BY DEF LimitInv
        <3>2. SUFFICES LimitOK(r)'
            BY <2>1, <3>0, <3>2 DEF Functions
        <3> USE <3>0, <3>1 DEF LimitOK, Undecided, InAuth, PastAuth, To, Go, Says, ServeVars,
                               Functions, Unlimited
        <3>3. CASE Arrive(r)
            BY <3>3 DEF Arrive
        <3>4. CASE Route(r)
            BY <3>4 DEF Route
        <3>5. CASE FetchLimits(r)
            <4>1. FailsClosed(FailClosedLimits)
                BY <1>0 DEF FailsClosed, FailClosedLimits
            <4> QED
                BY <3>5, <4>1 DEF FetchLimits
        <3>6. CASE TryRedis(r)
            BY <3>6 DEF TryRedis
        <3>7. CASE ApplyPolicy(r)
            BY <3>7 DEF ApplyPolicy, resolveFailurePolicy
        <3>8. CASE FbGet(r) \/ FbStore(r) \/ FbSet(r)
            BY <3>8 DEF FbGet, FbStore, FbSet
        <3>9. CASE FbDrop(r)
            BY <3>9 DEF FbDrop, Allow
        <3>10. CASE FbTake(r)
            BY <3>10 DEF FbTake, Take, Allow
        <3>11. CASE Leave(r)
            BY <1>0, <3>11 DEF Leave
        <3> HIDE DEF LimitOK, Undecided, InAuth, PastAuth, To, Go, Says, ServeVars,
                     Functions, Unlimited
        <3> QED
            BY <2>3, <3>3, <3>4, <3>5, <3>6, <3>7, <3>8, <3>9, <3>10, <3>11, Zenon DEF Stage
    <2>4. CASE Environment /\ UNCHANGED ServeVars
        BY <2>4 DEF Environment, Cancel, ExpireCached, Cool, PurgeMembers, PurgeEntries, PurgeTag,
                    LimitInv, LimitOK, ServeVars, Unlimited
    <2>5. CASE FbApply \/ FbEvict \/ UNCHANGED vars
        BY <2>5, FallbackAlone DEF LimitInv, LimitOK, Unlimited
    <2> QED
        BY <2>2, <2>3, <2>4, <2>5 DEF Next, Serve, Stage
<1>3. LimitInv => LimitSound
    BY DEF LimitInv, LimitOK, LimitSound
<1> QED
    BY <1>1, <1>2, <1>3, FunctionsInvariant, PTL DEF Spec

(***************************************************************************)
(* The in-memory limiter.                                                  *)
(***************************************************************************)

\* r has put its bucket into pending, and has yet to take it out.
Putting(r) == at[r] \in {"fbSet", "fbDrop"}

\* Every token of a bucket is in it, has been taken, or is the one its maker is
\* about to take; and the maker is the one request that holds the pending bucket.
FallbackInv ==
    /\ tokens \in Seq(Nat) /\ allowed \in Seq(Nat) /\ Len(allowed) = Len(tokens)
    /\ pending \in 0..Len(tokens) /\ visible \in 0..Len(tokens)
    /\ sets \subseteq 1..Len(tokens) /\ mine \in [Requests -> 0..Len(tokens)]
    /\ \A b \in 1..Len(tokens) :
          tokens[b] + allowed[b] + (IF b = pending THEN 1 ELSE 0) = Burst
    /\ \A r \in Requests : Putting(r) => mine[r] = pending /\ pending # 0
    /\ \A q, r \in Requests : Putting(q) /\ Putting(r) => q = r
    /\ \A r \in Requests : at[r] = "fbTake" => mine[r] # 0

\* A step that leaves the buckets alone, and makes no request hold one.
LEMMA FallbackFrame ==
    ASSUME FallbackInv, UNCHANGED fb,
           \A q \in Requests : Putting(q)' \/ at'[q] = "fbTake" => at'[q] = at[q]
    PROVE  FallbackInv'
BY DEF FallbackInv, Putting, fb

\* An allowed request takes the token that was its own, or one from the bucket.
LEMMA FallbackTakes ==
    ASSUME Functions, FallbackInv, NEW r \in Requests, FbDrop(r) \/ FbTake(r)
    PROVE  FallbackInv'
<1> DEFINE b == mine[r]
<1>0. /\ b \in 1..Len(tokens) /\ Len(tokens) \in Nat /\ Burst \in Nat
      /\ UNCHANGED <<sets, visible>> /\ mine' = [mine EXCEPT ![r] = 0]
      /\ \E p \in {"backend", "answered"} : at' = [at EXCEPT ![r] = p]
  BY PipelineAssumption DEF FbDrop, FbTake, Take, Allow, Hold, To, FallbackInv, Putting
<1>1. /\ mine' \in [Requests -> 0..Len(tokens)]
      /\ \A q \in Requests : Putting(q)' \/ at'[q] = "fbTake" =>
            q # r /\ at'[q] = at[q] /\ mine'[q] = mine[q]
  <2>1. mine \in [Requests -> 0..Len(tokens)] /\ 0 \in 0..Len(tokens)
    BY <1>0 DEF FallbackInv
  <2>2. ~(Putting(r)' \/ at'[r] = "fbTake")
    BY <1>0 DEF Functions, Putting
  <2>3. \A q \in Requests : q # r => at'[q] = at[q] /\ mine'[q] = mine[q]
    BY <1>0, <2>1 DEF Functions
  <2> QED
    BY <1>0, <2>1, <2>2, <2>3
<1>2. CASE FbDrop(r)
  <2>1. /\ b = pending /\ pending' = 0 /\ tokens' = tokens /\ Putting(r)
        /\ allowed' = [allowed EXCEPT ![b] = @ + 1]
    BY <1>2 DEF FbDrop, Allow, FallbackInv, Putting
  <2>2. allowed' \in Seq(Nat) /\ Len(allowed') = Len(tokens)
    BY <1>0, <2>1 DEF FallbackInv
  <2>3. \A c \in 1..Len(tokens) :
            tokens[c] + allowed'[c] + (IF c = 0 THEN 1 ELSE 0) = Burst
    BY <1>0, <2>1 DEF FallbackInv
  <2>4. \A q \in Requests : ~Putting(q)'
    BY <1>1, <2>1 DEF FallbackInv, Putting
  <2> QED
    BY <1>0, <1>1, <2>1, <2>2, <2>3, <2>4 DEF FallbackInv
<1>3. CASE FbTake(r) /\ tokens[b] >= 1 /\ Take(r)
  <2>1. /\ pending' = pending /\ at[r] = "fbTake"
        /\ tokens' = [tokens EXCEPT ![b] = @ - 1] /\ allowed' = [allowed EXCEPT ![b] = @ + 1]
    BY <1>3 DEF FbTake, Take, Allow
  <2>2. /\ allowed' \in Seq(Nat) /\ tokens' \in Seq(Nat)
        /\ Len(allowed') = Len(tokens) /\ Len(tokens') = Len(tokens)
    BY <1>0, <1>3, <2>1 DEF FallbackInv
  <2>3. \A c \in 1..Len(tokens) :
            tokens'[c] + allowed'[c] + (IF c = pending THEN 1 ELSE 0) = Burst
    <3> SUFFICES ASSUME NEW c \in 1..Len(tokens)
                 PROVE  tokens'[c] + allowed'[c] + (IF c = pending THEN 1 ELSE 0) = Burst
      OBVIOUS
    <3>1. /\ tokens[c] \in Nat /\ allowed[c] \in Nat
          /\ tokens[c] + allowed[c] + (IF c = pending THEN 1 ELSE 0) = Burst
      BY DEF FallbackInv
    <3>2. CASE c = b
      <4>1. tokens'[c] = tokens[c] - 1 /\ allowed'[c] = allowed[c] + 1
        BY <1>0, <2>1, <3>2 DEF FallbackInv
      <4> QED
        BY <3>1, <4>1
    <3>3. CASE c # b
      <4>1. tokens'[c] = tokens[c] /\ allowed'[c] = allowed[c]
        BY <1>0, <2>1, <3>3 DEF FallbackInv
      <4> QED
        BY <3>1, <4>1
    <3> QED
      BY <3>2, <3>3
  <2> QED
    BY <1>0, <1>1, <2>1, <2>2, <2>3 DEF FallbackInv, Putting
<1>4. CASE FbTake(r) /\ UNCHANGED <<tokens, allowed>>
  <2>1. UNCHANGED <<tokens, allowed, pending>>
    BY <1>4 DEF FbTake
  <2> QED
    BY <1>0, <1>1, <2>1 DEF FallbackInv, Putting
<1> QED
  BY <1>2, <1>3, <1>4 DEF FbTake

\* FallbackInv is inductive.
LEMMA FallbackInductive ==
    ASSUME Functions, FallbackInv, [Next]_vars
    PROVE  FallbackInv'
<1>1. ASSUME NEW r \in Requests, AuthStep(r), UNCHANGED ServeVars PROVE FallbackInv'
  <2>1. /\ at' = [at EXCEPT ![r] = at'[r]] /\ at'[r] \in InAuth \cup {"limit", "answered"}
        /\ UNCHANGED fb
    BY <1>1, AuthMoves DEF Functions, ServeVars
  <2> QED
    BY <2>1, FallbackFrame DEF Functions, Putting, InAuth
<1>2. ASSUME NEW r \in Requests,
             \/ Arrive(r) \/ Route(r) \/ FetchLimits(r) \/ TryRedis(r) \/ ApplyPolicy(r) \/ Leave(r)
      PROVE  FallbackInv'
  <2>1. UNCHANGED fb
    BY <1>2 DEF Arrive, Route, FetchLimits, TryRedis, ApplyPolicy, Leave, ServeVars
  <2>2. \E p \in {"idle", "auth", "preflight", "limit", "external", "redis", "policy",
                 "fbGet", "backend", "answered"} : at' = [at EXCEPT ![r] = p]
    <3>1. CASE Arrive(r)
      BY <3>1 DEF Arrive, To, Go
    <3>2. CASE Route(r) \/ Leave(r)
      BY <3>2 DEF Route, Leave, To
    <3>3. CASE FetchLimits(r)
      BY <3>3 DEF FetchLimits, To
    <3>4. CASE TryRedis(r)
      BY <3>4 DEF TryRedis, To
    <3>5. CASE ApplyPolicy(r)
      BY <3>5 DEF ApplyPolicy, To
    <3> QED
      BY <1>2, <3>1, <3>2, <3>3, <3>4, <3>5
  <2> QED
    BY <2>1, <2>2, FallbackFrame DEF Functions, Putting
<1>3. ASSUME NEW r \in Requests, FbGet(r) PROVE FallbackInv'
  BY <1>3 DEF FbGet, Go, To, Hold, Functions, FallbackInv, Putting
<1>4. ASSUME NEW r \in Requests, FbStore(r), pending # 0 PROVE FallbackInv'
  BY <1>4 DEF FbStore, Go, To, Hold, Functions, FallbackInv, Putting
<1>5. ASSUME NEW r \in Requests, FbStore(r), pending = 0 PROVE FallbackInv'
  <2> DEFINE n == Len(tokens) + 1
  <2>1. /\ tokens' = Append(tokens, Burst - 1) /\ allowed' = Append(allowed, 0)
        /\ pending' = n /\ mine' = [mine EXCEPT ![r] = n] /\ UNCHANGED <<sets, visible>>
        /\ at' = [at EXCEPT ![r] = "fbSet"]
    BY <1>5 DEF FbStore, Go, To, Hold
  <2>2. /\ tokens' \in Seq(Nat) /\ allowed' \in Seq(Nat) /\ Len(tokens') = n /\ Len(allowed') = n
        /\ Len(tokens) \in Nat /\ Burst \in Nat
    BY <2>1, PipelineAssumption DEF FallbackInv
  <2>3. \A b \in 1..n : tokens'[b] + allowed'[b] + (IF b = n THEN 1 ELSE 0) = Burst
    BY <1>5, <2>1, <2>2 DEF FallbackInv
  <2>4. \A q \in Requests : ~Putting(q)
    BY <1>5 DEF FallbackInv
  <2>5. mine' \in [Requests -> 0..n] /\ n # 0 /\ n \in 0..n
    BY <2>1, <2>2 DEF FallbackInv
  <2>6. \A q \in Requests : q # r => at'[q] = at[q] /\ mine'[q] = mine[q] /\ ~Putting(q)'
    BY <2>1, <2>4 DEF FallbackInv, Functions, Putting
  <2>7. at'[r] = "fbSet" /\ mine'[r] = n
    BY <2>1 DEF FallbackInv, Functions
  <2>8. visible' \in 0..n /\ sets' \subseteq 1..n
    BY <2>1, <2>2 DEF FallbackInv
  <2> HIDE DEF n
  <2> QED
    BY <2>1, <2>2, <2>3, <2>5, <2>6, <2>7, <2>8 DEF FallbackInv
<1>6. ASSUME NEW r \in Requests, FbSet(r) PROVE FallbackInv'
  <2>1. mine[r] \in 1..Len(tokens)
    BY <1>6 DEF FbSet, Go, FallbackInv, Putting
  <2> QED
    BY <1>6, <2>1 DEF FbSet, Go, To, Functions, FallbackInv, Putting
<1>7. CASE FbApply \/ FbEvict
  <2>1. /\ UNCHANGED <<at, tokens, allowed, pending, mine>>
        /\ visible' \in 0..Len(tokens) /\ sets' \subseteq sets
    <3>1. CASE FbApply
      BY <3>1 DEF FbApply, authVars, FallbackInv
    <3>2. CASE FbEvict
      BY <3>2 DEF FbEvict, authVars, FallbackInv
    <3> QED
      BY <1>7, <3>1, <3>2
  <2> QED
    BY <2>1 DEF FallbackInv, Putting
<1>8. CASE (Environment /\ UNCHANGED ServeVars) \/ UNCHANGED vars
  <2>1. at' = at /\ UNCHANGED fb
    BY <1>8 DEF Environment, Cancel, ExpireCached, Cool, PurgeMembers, PurgeEntries, PurgeTag,
                ServeVars, vars, authVars
  <2> QED
    BY <2>1, FallbackFrame
<1> QED
  BY <1>1, <1>2, <1>3, <1>4, <1>5, <1>6, <1>7, <1>8, FallbackTakes, Zenon DEF Next, Serve

\* No bucket of the in-memory limiter allows more than its burst in an instant,
\* and one request at a time puts one in (InMemoryLimiter.Allow).
THEOREM FallbackIsBounded == Spec => []FallbackBound
<1>1. Init => FallbackInv
  BY DEF Init, AuthInit, FallbackInv, Putting
<1>2. FallbackInv => FallbackBound
  <2> SUFFICES ASSUME FallbackInv PROVE FallbackBound
    OBVIOUS
  <2>1. DOMAIN allowed = 1..Len(tokens) /\ Burst \in Nat
    BY PipelineAssumption DEF FallbackInv
  <2>2. ASSUME NEW b \in 1..Len(tokens) PROVE allowed[b] <= Burst
    <3>1. tokens[b] \in Nat /\ allowed[b] \in Nat
      BY DEF FallbackInv
    <3> QED
      BY <2>1, <3>1 DEF FallbackInv
  <2> QED
    BY <2>1, <2>2 DEF FallbackInv, FallbackBound, Putting
<1> QED
  BY <1>1, <1>2, FunctionsInvariant, FallbackInductive, PTL DEF Spec

(***************************************************************************)
(* Shutdown.                                                               *)
(***************************************************************************)

Elements(q) == {q[i] : i \in 1..Len(q)}
Remaining == Elements(left)

\* While shutdown goes through the servers, each is still to be shut down, or is
\* closed and has no request left, unless the timeout has passed; the chain is
\* closed after all of them.
DrainInv ==
    /\ left \in Seq(Servers(config))
    /\ DOMAIN listener = Servers(config)
    /\ busy \subseteq Servers(config) /\ deadline \in BOOLEAN
    /\ run \in {"setup", "wait", "serve", "drain", "telemetry", "exited"}
    /\ chain = "closed" => run \in {"telemetry", "exited"}
    /\ run = "drain" \/ chain = "closed" =>
          \A s \in Servers(config) :
              \/ s \in Remaining /\ chain # "closed"
              \/ listener[s] = "closed" /\ (s \notin busy \/ deadline)

\* A concatenation has the elements of both.
LEMMA ConcatElements ==
    ASSUME NEW S, NEW q \in Seq(S), NEW r \in Seq(S)
    PROVE  q \o r \in Seq(S) /\ Elements(q \o r) = Elements(q) \cup Elements(r)
<1>1. /\ q \o r \in Seq(S) /\ Len(q \o r) = Len(q) + Len(r)
      /\ Len(q) \in Nat /\ Len(r) \in Nat
      /\ \A i \in 1..Len(q \o r) :
            (q \o r)[i] = IF i <= Len(q) THEN q[i] ELSE r[i - Len(q)]
  OBVIOUS
<1>2. ASSUME NEW i \in 1..Len(q \o r) PROVE (q \o r)[i] \in Elements(q) \cup Elements(r)
  <2>1. CASE i <= Len(q)
    BY <1>1, <2>1 DEF Elements
  <2>2. CASE ~(i <= Len(q))
    <3>1. i - Len(q) \in 1..Len(r) /\ (q \o r)[i] = r[i - Len(q)]
      BY <1>1, <2>2
    <3> QED BY <3>1 DEF Elements
  <2> QED BY <2>1, <2>2
<1>3. ASSUME NEW i \in 1..Len(q) PROVE q[i] \in Elements(q \o r)
  <2>1. i \in 1..Len(q \o r) /\ (q \o r)[i] = q[i]
    BY <1>1
  <2> QED BY <2>1 DEF Elements
<1>4. ASSUME NEW i \in 1..Len(r) PROVE r[i] \in Elements(q \o r)
  <2>1. i + Len(q) \in 1..Len(q \o r) /\ (q \o r)[i + Len(q)] = r[i]
    BY <1>1
  <2> QED BY <2>1 DEF Elements
<1> QED BY <1>1, <1>2, <1>3, <1>4 DEF Elements

\* shutdown leaves no server out.
LEMMA OrderComplete ==
    ASSUME NEW c
    PROVE  /\ ShutdownOrder(c) \in Seq(Servers(c))
           /\ Elements(ShutdownOrder(c)) = Servers(c)
<1> DEFINE http3 == IF c.http3 THEN <<"http3">> ELSE <<>>
           main == <<"main">>
           mtls == IF c.mtls THEN <<"mtls">> ELSE <<>>
           admin == <<"admin">>
           S == Servers(c)
<1>1. ASSUME NEW s \in S PROVE <<s>> \in Seq(S) /\ Elements(<<s>>) = {s}
  BY <1>1 DEF Elements
<1>2. <<>> \in Seq(S) /\ Elements(<<>>) = {}
  BY DEF Elements
<1>3. /\ "main" \in S /\ "admin" \in S
      /\ c.http3 => "http3" \in S
      /\ c.mtls => "mtls" \in S
  BY DEF Servers
<1>4. /\ main \in Seq(S) /\ Elements(main) = {"main"}
      /\ admin \in Seq(S) /\ Elements(admin) = {"admin"}
  BY <1>1, <1>3
<1>5. http3 \in Seq(S) /\ Elements(http3) = IF c.http3 THEN {"http3"} ELSE {}
  BY <1>1, <1>2, <1>3
<1>6. mtls \in Seq(S) /\ Elements(mtls) = IF c.mtls THEN {"mtls"} ELSE {}
  BY <1>1, <1>2, <1>3
<1>7. S = {"admin", "main"} \cup (IF c.http3 THEN {"http3"} ELSE {})
                            \cup (IF c.mtls THEN {"mtls"} ELSE {})
  BY DEF Servers
<1> DEFINE two == http3 \o main
           three == two \o mtls
           four == three \o admin
<1>8. ShutdownOrder(c) = four
  BY DEF ShutdownOrder
<1> HIDE DEF http3, main, mtls, admin, S
<1>9. two \in Seq(S) /\ Elements(two) = Elements(http3) \cup Elements(main)
  BY <1>4, <1>5, ConcatElements
<1> HIDE DEF two
<1>10. three \in Seq(S) /\ Elements(three) = Elements(two) \cup Elements(mtls)
  BY <1>6, <1>9, ConcatElements
<1> HIDE DEF three
<1>11. four \in Seq(S) /\ Elements(four) = Elements(three) \cup Elements(admin)
  BY <1>4, <1>10, ConcatElements
<1> HIDE DEF four
<1>12. Elements(ShutdownOrder(c)) = S
  BY <1>4, <1>5, <1>6, <1>7, <1>8, <1>9, <1>10, <1>11
<1> QED BY <1>8, <1>11, <1>12 DEF S

\* Taking the head off a sequence leaves out at most the head.
LEMMA TailKeeps ==
    ASSUME NEW S, NEW q \in Seq(S), q # <<>>
    PROVE  /\ Tail(q) \in Seq(S) /\ Head(q) \in S
           /\ \A s \in Elements(q) : s = Head(q) \/ s \in Elements(Tail(q))
<1>1. Tail(q) \in Seq(S) /\ Head(q) \in S /\ Len(Tail(q)) = Len(q) - 1 /\ Len(q) \in Nat \ {0}
  OBVIOUS
<1>2. ASSUME NEW i \in 1..Len(q)
      PROVE  q[i] = Head(q) \/ q[i] \in Elements(Tail(q))
  <2>1. CASE i = 1
    BY <2>1
  <2>2. CASE i # 1
    <3>1. i - 1 \in 1..Len(Tail(q)) /\ Tail(q)[i - 1] = q[i]
      BY <1>1, <2>2
    <3> QED BY <3>1 DEF Elements
  <2> QED BY <2>1, <2>2
<1> QED BY <1>1, <1>2 DEF Elements

LEMMA DrainInductive ==
    ASSUME DrainInv, [RunNext]_runVars
    PROVE  DrainInv'
<1> USE DEF DrainInv
<1>1. CASE Setup
  <2>1. Remaining' = Remaining
    BY <1>1 DEF Setup, Remaining
  <2> QED BY <1>1, <2>1 DEF Setup
<1>2. CASE BecomeReady \/ Fail \/ Exit \/ Signal \/ UNCHANGED runVars
  <2>1. /\ UNCHANGED <<config, listener, left, deadline, busy, chain>>
        /\ run' # "drain" \/ run' = run
        /\ chain = "closed" => run' \in {"telemetry", "exited"}
        /\ run' \in {"setup", "wait", "serve", "drain", "telemetry", "exited"}
    BY <1>2 DEF BecomeReady, Fail, Exit, Signal, runVars, rest
  <2>2. Remaining' = Remaining
    BY <2>1 DEF Remaining
  <2> QED BY <2>1, <2>2
<1>3. CASE Drain
  <2>1. left' = ShutdownOrder(config) /\ chain # "closed"
    BY <1>3 DEF Drain
  <2>2. Remaining' = Servers(config) /\ left' \in Seq(Servers(config))
    BY <2>1, OrderComplete DEF Remaining
  <2> QED BY <1>3, <2>1, <2>2 DEF Drain
<1>4. CASE StopListening
  <2>1. /\ UNCHANGED <<config, run, left, deadline, busy, chain>> /\ run = "drain"
        /\ listener' = [listener EXCEPT ![Head(left)] = "closed"]
    BY <1>4 DEF StopListening, rest
  <2>2. Remaining' = Remaining
    BY <2>1 DEF Remaining
  <2>3. DOMAIN listener' = Servers(config)
    BY <2>1
  <2>4. \A s \in Servers(config) : listener[s] = "closed" => listener'[s] = "closed"
    BY <2>1
  <2> QED BY <2>1, <2>2, <2>3, <2>4
<1>5. CASE Drained
  <2>1. /\ UNCHANGED <<config, run, listener, deadline, busy, chain>>
        /\ run = "drain" /\ left # <<>> /\ left' = Tail(left)
        /\ listener[Head(left)] = "closed" /\ (Head(left) \notin busy \/ deadline)
    BY <1>5 DEF Drained
  <2>2. /\ left' \in Seq(Servers(config))
        /\ \A s \in Remaining : s = Head(left) \/ s \in Remaining'
    BY <2>1, TailKeeps DEF Remaining
  <2> QED BY <2>1, <2>2
<1>6. CASE DrainTimeout
  <2>1. Remaining' = Remaining
    BY <1>6 DEF DrainTimeout, Remaining
  <2> QED BY <1>6, <2>1 DEF DrainTimeout
<1>7. CASE CloseChain
  <2>1. Remaining = {}
    BY <1>7 DEF CloseChain, Remaining, Elements
  <2> QED BY <1>7, <2>1 DEF CloseChain
<1>8. ASSUME NEW s \in Servers(config), Listen(s) \/ ListenFails(s) \/ ServeFails(s)
      PROVE  DrainInv'
  <2>1. /\ UNCHANGED <<config, run, left, deadline, busy, chain>> /\ listener[s] # "closed"
        /\ \E v : listener' = [listener EXCEPT ![s] = v]
    BY <1>8 DEF Listen, ListenFails, ServeFails, rest
  <2>2. Remaining' = Remaining
    BY <2>1 DEF Remaining
  <2>3. DOMAIN listener' = Servers(config)
    BY <2>1
  <2>4. \A t \in Servers(config) : listener[t] = "closed" => listener'[t] = "closed"
    BY <2>1
  <2> QED BY <2>1, <2>2, <2>3, <2>4
<1>9. ASSUME NEW s \in Servers(config), Accept(s) \/ Respond(s) PROVE DrainInv'
  <2>1. /\ UNCHANGED <<config, run, listener, left, deadline, chain>>
        /\ busy' \subseteq Servers(config)
        /\ \A t \in Servers(config) : listener[t] = "closed" /\ t \in busy' => t \in busy
    BY <1>9 DEF Accept, Respond
  <2>2. Remaining' = Remaining
    BY <2>1 DEF Remaining
  <2> QED BY <2>1, <2>2
<1> QED
  BY <1>1, <1>2, <1>3, <1>4, <1>5, <1>6, <1>7, <1>8, <1>9 DEF RunNext, Steps

\* shutdown closes the middleware chain only when every server is shut down
\* and has no request left, unless the drain timeout has passed.
THEOREM ChainOutlivesRequests == RunSpec => []DrainBeforeClose
<1>1. RunInit => DrainInv
  <2> SUFFICES ASSUME RunInit PROVE DrainInv
    OBVIOUS
  <2>1. left \in Seq(Servers(config)) /\ DOMAIN listener = Servers(config)
    BY DEF RunInit
  <2> QED BY <2>1 DEF RunInit, DrainInv
<1>2. DrainInv => DrainBeforeClose
  BY DEF DrainInv, DrainBeforeClose
<1> QED
  BY <1>1, <1>2, DrainInductive, PTL DEF RunSpec
=============================================================================
