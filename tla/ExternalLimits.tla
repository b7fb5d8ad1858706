--------------------------- MODULE ExternalLimits ---------------------------
(***************************************************************************)
(* The client of the external rate-limit service (ExternalClient):         *)
(* GetLimits with its Redis cache and stale copies, the semaphore in front *)
(* of the singleflight group, the per-key circuit breakers with their cap, *)
(* and the goroutine that evicts idle breakers.                            *)
(*                                                                         *)
(* One step is one Redis command, one operation on a sync.Map or an atomic *)
(* counter, or one critical section.  A Load that finds a breaker is one   *)
(* step with the method called on it: if the breaker is evicted between    *)
(* the two, the method might as well have run just before the eviction.    *)
(***************************************************************************)
EXTENDS Integers, FiniteSets

CONSTANTS
    Requests,       \* BOUND: requests in GetLimits at once
    Keys,           \* lookup keys
    MaxConcurrent,  \* external.max_concurrent_requests
    MaxBreakers,    \* external.max_circuit_breakers
    Threshold,      \* external.circuit_breaker.threshold
    Responses,      \* the service's answers, as far as caching goes
    MaxCancels,     \* BOUND: clients that disconnect
    Nil

Breakers ==
    [failures : 0..Threshold, open : BOOLEAN, hot : BOOLEAN, idle : BOOLEAN]

ASSUME ExternalAssumption ==
    /\ IsFiniteSet(Requests)
    /\ MaxConcurrent \in Nat \ {0}
    /\ MaxBreakers \in Nat \ {0}
    /\ Threshold \in Nat \ {0}
    /\ MaxCancels \in Nat
    /\ Nil \notin Requests /\ Nil \notin Keys /\ Nil \notin Breakers
    /\ Nil # "error"

VARIABLES
    cache,         \* keys with a fresh copy in Redis
    stale,         \* keys with a stale copy in Redis
    breakers,      \* the sync.Map: a breaker or Nil
    breakerCount,
    permits,       \* taken from fetchSem
    flight,        \* the singleflight group: the leader, or Nil
    at, lk,        \* where each request is, and its lookup key
    op,            \* what getOrCreateCB was called for
    cacheable,     \* the answer it fetched may be cached (ttl > 0)
    result,        \* what GetLimits is about to return
    canceled,      \* its context is done: the client has gone
    cancels,       \* how many have
    evictor,       \* the key evictStaleBreakers deletes, or counts off; Nil
    deleted,       \* it is counting it off
    exempt         \* HISTORY: see OpenStopsCalls

store == <<cache, stale>>
breaking == <<breakers, breakerCount, exempt>>
evicting == <<evictor, deleted>>
context == <<canceled, cancels>>
call == <<lk, op, cacheable, result>>
limitsVars == <<store, breaking, permits, flight, at, call, context, evicting>>

LimitsInit ==
    /\ cache = {} /\ stale = {}
    /\ breakers = [k \in Keys |-> Nil] /\ breakerCount = 0
    /\ exempt = [k \in Keys |-> {}]
    /\ permits = 0
    /\ flight = [k \in Keys |-> Nil]
    /\ at = [r \in Requests |-> "idle"]
    /\ lk = [r \in Requests |-> Nil]
    /\ op = [r \in Requests |-> "isOpen"]
    /\ cacheable = [r \in Requests |-> FALSE]
    /\ result = [r \in Requests |-> Nil]
    /\ canceled = [r \in Requests |-> FALSE] /\ cancels = 0
    /\ evictor = Nil /\ deleted = FALSE

Go(r, from, to) == at[r] = from /\ at' = [at EXCEPT ![r] = to]
Yield(r, v) == result' = [result EXCEPT ![r] = v]

(***************************************************************************)
(* Time and clients.                                                       *)
(***************************************************************************)

\* A copy reaches the end of its lifetime.
Expire(k) ==
    /\ \/ k \in cache /\ cache' = cache \ {k} /\ UNCHANGED stale
       \/ k \in stale /\ stale' = stale \ {k} /\ UNCHANGED cache
    /\ UNCHANGED <<breaking, permits, flight, at, call, context, evicting>>

\* openUntil passes; two reset timeouts pass without an access (the last
\* failure was one, so openUntil has passed before).  REAL TIME: that is longer
\* than getOrCreateCB takes to count a breaker it has stored.
Age(k) ==
    /\ breakers[k] # Nil
    /\ \/ /\ breakers[k].hot
          /\ breakers' = [breakers EXCEPT ![k].hot = FALSE]
          /\ exempt' = [exempt EXCEPT ![k] = {}]
       \/ /\ ~breakers[k].hot /\ ~breakers[k].idle
          /\ \A r \in Requests : ~(at[r] = "count" /\ lk[r] = k)
          /\ breakers' = [breakers EXCEPT ![k].idle = TRUE]
          /\ UNCHANGED exempt
    /\ UNCHANGED <<store, breakerCount, permits, flight, at, call, context, evicting>>

Cancel(r) ==
    /\ at[r] # "idle" /\ ~canceled[r]
    /\ cancels < MaxCancels
    /\ canceled' = [canceled EXCEPT ![r] = TRUE]
    /\ cancels' = cancels + 1
    /\ UNCHANGED <<store, breaking, permits, flight, at, call, evicting>>

(***************************************************************************)
(* GetLimits, up to the circuit breaker.                                   *)
(***************************************************************************)

\* A read of Redis finds nothing when the context is done.
Cached(r) == lk[r] \in cache /\ ~canceled[r]
StaleCopy(r) == lk[r] \in stale /\ ~canceled[r]

\* A call that finds a fresh copy returns it, and changes nothing.
Begin(r, k) ==
    /\ Go(r, "idle", "breaker")
    /\ k \notin cache
    /\ lk' = [lk EXCEPT ![r] = k]
    /\ UNCHANGED <<store, breaking, permits, flight, op, cacheable, result,
                   context, evicting>>

(***************************************************************************)
(* getOrCreateCB and the three methods it is called for.                   *)
(***************************************************************************)

NewBreaker == [failures |-> 0, open |-> FALSE, hot |-> FALSE, idle |-> FALSE]

IsOpen(b) == b.open /\ b.hot

\* BOUND: failures stop counting at the threshold, where they stop mattering.
RecordFailure(b) ==
    LET n == IF b.failures < Threshold THEN b.failures + 1 ELSE Threshold IN
    [failures |-> n, open |-> b.open \/ n = Threshold,
     hot |-> b.hot \/ n = Threshold, idle |-> FALSE]

RecordSuccess(b) == [b EXCEPT !.failures = 0, !.open = FALSE, !.hot = FALSE,
                              !.idle = FALSE]

Method(o, b) ==
    CASE o = "failure" -> RecordFailure(b)
      [] o = "success" -> RecordSuccess(b)
      [] OTHER -> [b EXCEPT !.idle = FALSE]

\* Requests for k that isOpen has let through, or that hold the stub or a
\* breaker no longer in the map, and have not fetched.
PastCheck(k) ==
    {r \in Requests : lk[r] = k /\ at[r] \in {"cap", "count", "acquire", "join",
                                              "recheck", "fetch"}}

\* The breaker of r's key becomes b.
Becomes(r, b) ==
    /\ breakers' = [breakers EXCEPT ![lk[r]] = b]
    /\ exempt' = IF b # Nil /\ IsOpen(b)
                    /\ ~(breakers[lk[r]] # Nil /\ IsOpen(breakers[lk[r]]))
                 THEN [exempt EXCEPT ![lk[r]] = PastCheck(lk[r])]
                 ELSE IF b # Nil /\ IsOpen(b) THEN exempt
                 ELSE [exempt EXCEPT ![lk[r]] = {}]

\* Mutant: the answer of isOpen is not used.
ContinueAnyway(r, open) ==
    at' = [at EXCEPT ![r] = CASE op[r] = "failure" -> "fallback"
                              [] op[r] = "success" -> "store"
                              [] OTHER -> "acquire"]

\* Where the method's caller goes on, told whether the circuit is open.
Continue(r, open) ==
    at' = [at EXCEPT ![r] = CASE op[r] = "failure" -> "fallback"
                              [] op[r] = "success" -> "store"
                              [] op[r] = "isOpen" /\ open -> "fallback"
                              [] OTHER -> "acquire"]

Apply(r, b) == Becomes(r, Method(op[r], b)) /\ Continue(r, IsOpen(b))

\* breakers.Load.
LoadBreaker(r) ==
    /\ at[r] = "breaker"
    /\ IF breakers[lk[r]] # Nil
       THEN Apply(r, breakers[lk[r]])
       ELSE at' = [at EXCEPT ![r] = "cap"] /\ UNCHANGED <<breakers, exempt>>
    /\ UNCHANGED <<store, breakerCount, permits, flight, call, context, evicting>>

\* At the cap the shared stub is used: never open, and what it counts never
\* reaches its threshold.
CheckCap(r) ==
    /\ at[r] = "cap"
    /\ IF breakerCount >= MaxBreakers THEN Continue(r, FALSE)
       ELSE at' = [at EXCEPT ![r] = "create"]
    /\ UNCHANGED <<store, breaking, permits, flight, call, context, evicting>>

\* Mutant: loaded is taken for stored.
LoadOrStoreInverted(r) ==
    /\ at[r] = "create"
    /\ IF breakers[lk[r]] # Nil
       THEN at' = [at EXCEPT ![r] = "count"] /\ UNCHANGED <<breakers, exempt>>
       ELSE Apply(r, NewBreaker)
    /\ UNCHANGED <<store, breakerCount, permits, flight, call, context, evicting>>

\* breakers.LoadOrStore.
LoadOrStore(r) ==
    /\ at[r] = "create"
    /\ IF breakers[lk[r]] # Nil
       THEN Apply(r, breakers[lk[r]])
       ELSE at' = [at EXCEPT ![r] = "count"] /\ Becomes(r, NewBreaker)
    /\ UNCHANGED <<store, breakerCount, permits, flight, call, context, evicting>>

\* breakerCount.Add(1), and the method on the new breaker.
CountBreaker(r) ==
    /\ at[r] = "count"
    /\ breakerCount' = breakerCount + 1
    /\ IF breakers[lk[r]] # Nil THEN Apply(r, breakers[lk[r]])
       ELSE Continue(r, FALSE) /\ UNCHANGED <<breakers, exempt>>
    /\ UNCHANGED <<store, permits, flight, call, context, evicting>>

(***************************************************************************)
(* GetLimits, past the circuit breaker.                                    *)
(***************************************************************************)

\* Mutant: with the circuit open the stale copy is not tried.
FallbackFails(r) ==
    /\ Go(r, "fallback", IF op[r] = "failure" THEN "finish" ELSE "return")
    /\ Yield(r, IF op[r] = "failure" /\ StaleCopy(r) THEN "stale" ELSE "error")
    /\ UNCHANGED <<store, breaking, permits, flight, lk, op, cacheable, context,
                   evicting>>

\* The circuit is open, the semaphore is full, or (for a leader) the fetch has
\* failed: the stale copy, or an error.
Fallback(r) ==
    /\ Go(r, "fallback", IF op[r] = "failure" THEN "finish" ELSE "return")
    /\ Yield(r, IF StaleCopy(r) THEN "stale" ELSE "error")
    /\ UNCHANGED <<store, breaking, permits, flight, lk, op, cacheable, context,
                   evicting>>

Acquire(r) ==
    /\ IF permits < MaxConcurrent
       THEN Go(r, "acquire", "join") /\ permits' = permits + 1
       ELSE Go(r, "acquire", "fallback") /\ UNCHANGED permits
    /\ UNCHANGED <<store, breaking, flight, call, context, evicting>>

\* Mutant: every request is its own leader.
JoinAlone(r) ==
    /\ Go(r, "join", "recheck")
    /\ flight' = [flight EXCEPT ![lk[r]] = r]
    /\ UNCHANGED <<store, breaking, permits, call, context, evicting>>

\* sfGroup.Do: the first one leads, the others wait for it.
Join(r) ==
    /\ at[r] = "join"
    /\ IF flight[lk[r]] = Nil
       THEN Go(r, "join", "recheck") /\ flight' = [flight EXCEPT ![lk[r]] = r]
       ELSE Go(r, "join", "wait") /\ UNCHANGED flight
    /\ UNCHANGED <<store, breaking, permits, call, context, evicting>>

Recheck(r) ==
    /\ IF Cached(r)
       THEN Go(r, "recheck", "finish") /\ Yield(r, "limits")
       ELSE Go(r, "recheck", "fetch") /\ UNCHANGED result
    /\ UNCHANGED <<store, breaking, permits, flight, lk, op, cacheable, context,
                   evicting>>

resolveBodyCacheTTL(h) == IF h.bodyNoStore THEN 0 ELSE h.bodyMaxAge

\* max-age beats no-store; then Expires; then the body.
resolveHTTPCacheTTL(h) ==
    CASE h.maxAge > 0 -> h.maxAge
      [] h.maxAge = 0 /\ h.noStore -> 0
      [] h.maxAge = 0 /\ ~h.noStore /\ h.expires # Nil -> h.expires
      [] OTHER -> resolveBodyCacheTTL(h)

\* The lifetime of an answer, by the transport it came over: gRPC has no headers.
getLimitsHTTP(h) == resolveHTTPCacheTTL(h)
getLimitsGRPC(h) == resolveBodyCacheTTL(h)

\* fetchFromService with the leader's context: an answer, or an error (of the
\* service, of the latency budget, or because the leader's client has gone).
Fetch(r) ==
    /\ Go(r, "fetch", "breaker")
    /\ \/ /\ ~canceled[r]
          /\ op' = [op EXCEPT ![r] = "success"]
          /\ \E h \in Responses : \E ttl \in {getLimitsHTTP(h), getLimitsGRPC(h)} :
               cacheable' = [cacheable EXCEPT ![r] = ttl > 0]
       \/ /\ op' = [op EXCEPT ![r] = "failure"]
          /\ UNCHANGED cacheable
    /\ UNCHANGED <<store, breaking, permits, flight, lk, result, context, evicting>>

\* setInCache and setStaleInCache; a Set whose context is done stores nothing.
StoreAnswer(r) ==
    /\ Go(r, "store", "finish")
    /\ cache' = IF cacheable[r] /\ ~canceled[r] THEN cache \cup {lk[r]} ELSE cache
    /\ stale' = IF ~canceled[r] THEN stale \cup {lk[r]} ELSE stale
    /\ cacheable' = [cacheable EXCEPT ![r] = FALSE]
    /\ Yield(r, "limits")
    /\ UNCHANGED <<breaking, permits, flight, lk, op, context, evicting>>

Waiters(k) == {r \in Requests : at[r] = "wait" /\ lk[r] = k}

\* Mutant: the group forgets the key, and the waiters are not woken.
FinishAlone(r) ==
    /\ Go(r, "finish", "release")
    /\ flight' = [flight EXCEPT ![lk[r]] = Nil]
    /\ UNCHANGED <<store, breaking, permits, call, context, evicting>>

\* Do returns, to the leader and to everyone who waited for it.
Finish(r) ==
    /\ at[r] = "finish"
    /\ flight' = [flight EXCEPT ![lk[r]] = Nil]
    /\ at' = [q \in Requests |->
                 IF q = r \/ q \in Waiters(lk[r]) THEN "release" ELSE at[q]]
    /\ result' = [q \in Requests |->
                     IF q \in Waiters(lk[r]) THEN result[r] ELSE result[q]]
    /\ UNCHANGED <<store, breaking, permits, lk, op, cacheable, context, evicting>>

\* GetLimits returns, after the deferred Release if it holds a permit.
Return(r) ==
    /\ at[r] \in {"release", "return"}
    /\ at' = [at EXCEPT ![r] = "idle"]
    /\ permits' = IF at[r] = "release" THEN permits - 1 ELSE permits
    /\ lk' = [lk EXCEPT ![r] = Nil]
    /\ op' = [op EXCEPT ![r] = "isOpen"]
    /\ Yield(r, Nil)
    /\ canceled' = [canceled EXCEPT ![r] = FALSE]
    /\ exempt' = [exempt EXCEPT ![lk[r]] = @ \ {r}]
    /\ UNCHANGED <<store, breakers, breakerCount, flight, cacheable, cancels, evicting>>

(***************************************************************************)
(* evictStaleBreakers.                                                     *)
(***************************************************************************)

FindIdle(k) ==
    /\ evictor = Nil
    /\ breakers[k] # Nil /\ breakers[k].idle
    /\ evictor' = k
    /\ UNCHANGED <<store, breaking, permits, flight, at, call, context, deleted>>

DeleteBreaker ==
    /\ evictor # Nil /\ ~deleted
    /\ breakers' = [breakers EXCEPT ![evictor] = Nil]
    /\ deleted' = TRUE
    /\ UNCHANGED <<store, breakerCount, exempt, permits, flight, at, call, context,
                   evictor>>

\* The CAS loop, with its floor of 0.
CountOff ==
    /\ deleted
    /\ breakerCount' = IF breakerCount > 0 THEN breakerCount - 1 ELSE 0
    /\ evictor' = Nil /\ deleted' = FALSE
    /\ UNCHANGED <<store, breakers, exempt, permits, flight, at, call, context>>

-----------------------------------------------------------------------------

Step(r) ==
    \/ LoadBreaker(r) \/ CheckCap(r) \/ LoadOrStore(r) \/ CountBreaker(r)
    \/ Fallback(r) \/ Acquire(r) \/ Join(r) \/ Recheck(r) \/ Fetch(r)
    \/ StoreAnswer(r) \/ Finish(r) \/ Return(r)

LimitsNext ==
    \/ \E r \in Requests : Step(r) \/ Cancel(r) \/ \E k \in Keys : Begin(r, k)
    \/ \E k \in Keys : Expire(k) \/ Age(k) \/ FindIdle(k)
    \/ DeleteBreaker \/ CountOff

LimitsSpec == LimitsInit /\ [][LimitsNext]_limitsVars

-----------------------------------------------------------------------------

Leading == {"recheck", "fetch", "store", "finish"}
Leads(r) ==
    \/ at[r] \in Leading
    \/ /\ at[r] \in {"breaker", "cap", "create", "count", "fallback"}
       /\ op[r] # "isOpen"

\* The semaphore and the singleflight group are exact: the permits taken are
\* those of the requests between TryAcquire and the deferred Release, never
\* more than configured; and a key has a leader exactly while one request, and
\* only one, is in the function passed to Do.
FlightsExact ==
    /\ permits = Cardinality({r \in Requests :
                    Leads(r) \/ at[r] \in {"join", "wait", "release"}})
    /\ permits <= MaxConcurrent
    /\ \A r \in Requests : Leads(r) <=> lk[r] # Nil /\ flight[lk[r]] = r

\* The counter behind the cap never falls below the number of breakers in the
\* map, but for the ones just stored and about to be counted: neither the race
\* of LoadOrStore with the eviction nor the floor of 0 lets the map outgrow it.
CountCovers ==
    Cardinality({k \in Keys : breakers[k] # Nil})
        <= breakerCount + Cardinality({r \in Requests : at[r] = "count"})

\* While a breaker is open, the only calls to the service for its key are those
\* of requests that had looked their breaker up, and been let through or given
\* another one, before it opened.
OpenStopsCalls ==
    \A r \in Requests :
        at[r] \in {"acquire", "join", "recheck", "fetch"}
        /\ breakers[lk[r]] # Nil /\ IsOpen(breakers[lk[r]])
            => r \in exempt[lk[r]]

\* GetLimits returns an error only when there is no stale copy, or when the
\* context of the request whose Redis read it shares is done: its own, or its
\* singleflight leader's.
ErrorNeedsNoCopy ==
    [][\A r \in Requests :
          result'[r] = "error" /\ result[r] # "error" =>
              \/ lk[r] \notin stale
              \/ canceled[r]
              \/ \E l \in Requests : flight[lk[r]] = l /\ result[l] = "error"]_limitsVars

\* No one waits for nobody: a request blocked in sfGroup.Do has a leader that
\* will wake it, whatever became of the leader's client.
WaitersHaveLeader ==
    \A r \in Requests : at[r] = "wait" => flight[lk[r]] # Nil
=============================================================================
