------------------------------ MODULE AuthGate ------------------------------
(***************************************************************************)
(* Authentication of a request (Chain.checkAuth and auth.Client.Check):    *)
(* the decision cached in Redis and its surrogate-key index, the circuit   *)
(* breaker, the call to the auth service, the failure policy, and the      *)
(* purge of the cached decisions by an administrator (DeleteAuthByTag).    *)
(* One step is one Redis command, one critical section of the breaker, or  *)
(* the call to the service.                                                *)
(*                                                                         *)
(* RequestPipeline extends this module with the stages that follow.        *)
(***************************************************************************)
EXTENDS Integers, FiniteSets

CONSTANTS
    Requests,    \* BOUND: requests in ServeHTTP at once
    Creds,       \* requests as the auth service sees them (authCacheKey)
    Threshold,   \* auth.circuit_breaker.threshold
    MaxCalls,    \* BOUND: requests in all
    MaxCancels,  \* BOUND: clients that disconnect
    MaxPurges,   \* BOUND: purges
    None

ASSUME AuthAssumption ==
    /\ Threshold \in Nat \ {0}
    /\ {MaxCalls, MaxCancels, MaxPurges} \subseteq Nat
    /\ None \notin Requests \cup Creds

VARIABLES
    cfg,        \* the configuration (see RequestPipeline)
    authCache,  \* Redis: the cached decision per credential, or None
    tagged,     \* Redis: the members of the tag's set
    cb,         \* the circuit breaker
    at, cred,   \* where each request is, and its credential
    decision,   \* the service's answer: allowed, and may it be cached
    canceled, cancels, calls,
    purge, members, purges,  \* DeleteAuthByTag, what SMEMBERS returned
    granted,    \* HISTORY: credentials the service has allowed
    genuine,    \* HISTORY: the service's failures since its last success
    lost        \* HISTORY: cached decisions whose index entry was lost

store == <<authCache, tagged, lost>>
breaker == <<cb, genuine>>
asking == <<cred, decision, granted>>
context == <<canceled, cancels, calls>>
purging == <<purge, members, purges>>
authVars == <<cfg, store, breaker, at, asking, context, purging>>

AuthInit ==
    /\ authCache = [c \in Creds |-> None] /\ tagged = {} /\ lost = {}
    /\ cb = [failures |-> 0, open |-> FALSE, hot |-> FALSE] /\ genuine = 0
    /\ at = [r \in Requests |-> "idle"]
    /\ cred = [r \in Requests |-> None]
    /\ decision = [r \in Requests |-> None]
    /\ canceled = [r \in Requests |-> FALSE] /\ cancels = 0 /\ calls = 0
    /\ purge = "idle" /\ members = {} /\ purges = 0
    /\ granted = {}

To(r, place) == at' = [at EXCEPT ![r] = place]
Go(r, from, to) == at[r] = from /\ To(r, to)

Cancel(r) ==
    /\ at[r] # "idle" /\ ~canceled[r]
    /\ cancels < MaxCancels
    /\ canceled' = [canceled EXCEPT ![r] = TRUE] /\ cancels' = cancels + 1
    /\ UNCHANGED <<cfg, store, breaker, at, asking, calls, purging>>

(***************************************************************************)
(* checkAuth.                                                              *)
(***************************************************************************)

\* applyAuthResponse: on to the limits, or the denial is written.
applyAuthResponse(r, d) == To(r, IF d.allowed THEN "limit" ELSE "answered")

\* getAuthFromCache; with the context done it finds nothing.
GetCached(r) ==
    /\ at[r] = "auth"
    /\ IF authCache[cred[r]] # None /\ ~canceled[r]
       THEN applyAuthResponse(r, authCache[cred[r]])
       ELSE To(r, "check")
    /\ UNCHANGED <<cfg, store, breaker, asking, context, purging>>

\* Mutant: only a request that was refused for an open circuit is rejected.
OnErrorAllows(r) ==
    To(r, IF cfg.auth = "failopen" \/ ~cb.open THEN "limit" ELSE "answered")

\* The failure policy, whatever the error was.
OnError(r) == To(r, IF cfg.auth = "failopen" THEN "limit" ELSE "answered")

\* isOpen; ErrCircuitOpen is an error like any other.
CheckBreaker(r) ==
    /\ at[r] = "check"
    /\ IF cb.open /\ cb.hot THEN OnError(r) ELSE To(r, "call")
    /\ UNCHANGED <<cfg, store, breaker, asking, context, purging>>

ResolveCacheTTL(b) == ~b.noStore /\ b.maxAge

\* resolveHTTPCacheTTL: max-age, then no-store, then Expires, then the body.
resolveHTTPCacheTTL(h, b) ==
    CASE h.maxAge -> TRUE
      [] ~h.maxAge /\ h.noStore -> FALSE
      [] ~h.maxAge /\ ~h.noStore /\ h.expires # None -> h.expires = "future"
      [] OTHER -> ResolveCacheTTL(b)

Headers == [maxAge : BOOLEAN, noStore : BOOLEAN, expires : {None, "past", "future"}]
Bodies == [maxAge : BOOLEAN, noStore : BOOLEAN]

\* The cacheability of the answers there are (status 200, or a parsed refusal)
\* over either transport: gRPC has no headers.
checkHTTP == {resolveHTTPCacheTTL(h, b) : h \in Headers, b \in Bodies}
checkGRPC == {ResolveCacheTTL(b) : b \in Bodies}
Lifetimes == checkHTTP \cup checkGRPC

\* The service answers: it allows, it refuses, or it sends a status that is
\* neither, which is taken for a refusal that is not cached.
Answer(r) ==
    /\ Go(r, "call", "succeeded")
    /\ ~canceled[r]
    /\ \E d \in {[allowed |-> a, ttl |-> t] : a \in BOOLEAN, t \in Lifetimes}
             \cup {[allowed |-> FALSE, ttl |-> FALSE]} :
          /\ decision' = [decision EXCEPT ![r] = d]
          /\ granted' = IF d.allowed THEN granted \cup {cred[r]} ELSE granted
    /\ UNCHANGED <<cfg, store, breaker, cred, context, purging>>

\* It does not: unreachable, or the timeout, or the client has gone.
Error(r) ==
    /\ Go(r, "call", IF canceled[r] THEN "aborted" ELSE "failed")
    /\ UNCHANGED <<cfg, store, breaker, asking, context, purging>>

\* Mutant: a disconnect counts as a failure of the service.
CountsAborted(r) == at[r] \in {"failed", "aborted"}

\* !IsCanceled(err)
Counts(r) == at[r] = "failed"

\* BOUND: failures stop counting at the threshold, where they stop mattering.
RecordFailure(r) ==
    /\ at[r] \in {"failed", "aborted"}
    /\ IF Counts(r)
       THEN LET n == IF cb.failures < Threshold THEN cb.failures + 1 ELSE Threshold IN
            cb' = [failures |-> n, open |-> cb.open \/ n = Threshold,
                   hot |-> cb.hot \/ n = Threshold]
       ELSE UNCHANGED cb
    /\ genuine' = IF at[r] = "failed" /\ genuine < Threshold THEN genuine + 1 ELSE genuine
    /\ OnError(r)
    /\ UNCHANGED <<cfg, store, asking, context, purging>>

RecordSuccess(r) ==
    /\ at[r] = "succeeded"
    /\ cb' = [failures |-> 0, open |-> FALSE, hot |-> FALSE]
    /\ genuine' = 0
    /\ IF decision[r].ttl THEN To(r, "set") ELSE applyAuthResponse(r, decision[r])
    /\ UNCHANGED <<cfg, store, asking, context, purging>>

\* setAuthInCache: SET, then SADD for the tag; each does nothing when the
\* context is done.
SetCached(r) ==
    /\ Go(r, "set", "index")
    /\ authCache' = IF canceled[r] THEN authCache
                    ELSE [authCache EXCEPT ![cred[r]] = decision[r]]
    /\ UNCHANGED <<cfg, tagged, lost, breaker, asking, context, purging>>

\* Mutant: the entry is not indexed.
IndexSkipped(r) ==
    /\ at[r] = "index"
    /\ applyAuthResponse(r, decision[r])
    /\ lost' = IF canceled[r] THEN lost \cup {cred[r]} ELSE lost
    /\ UNCHANGED <<cfg, authCache, tagged, breaker, asking, context, purging>>

Index(r) ==
    /\ at[r] = "index"
    /\ applyAuthResponse(r, decision[r])
    /\ IF canceled[r]
       THEN lost' = lost \cup {cred[r]} /\ UNCHANGED tagged
       ELSE tagged' = tagged \cup {cred[r]} /\ UNCHANGED lost
    /\ UNCHANGED <<cfg, authCache, breaker, asking, context, purging>>

AuthStep(r) ==
    \/ GetCached(r) \/ CheckBreaker(r) \/ Answer(r) \/ Error(r)
    \/ RecordFailure(r) \/ RecordSuccess(r) \/ SetCached(r) \/ Index(r)

(***************************************************************************)
(* Time, and the administrator.                                            *)
(***************************************************************************)

\* openUntil passes.
Cool ==
    /\ cb.hot /\ cb' = [cb EXCEPT !.hot = FALSE]
    /\ UNCHANGED <<cfg, store, genuine, at, asking, context, purging>>

ExpireCached(c) ==
    /\ authCache[c] # None
    /\ authCache' = [authCache EXCEPT ![c] = None]
    /\ lost' = lost \ {c}
    /\ UNCHANGED <<cfg, tagged, breaker, at, asking, context, purging>>

\* DeleteAuthByTag: SMEMBERS, DEL of the members, DEL of the set.
PurgeMembers ==
    /\ purge = "idle" /\ purges < MaxPurges
    /\ purges' = purges + 1
    /\ members' = tagged
    /\ purge' = IF tagged = {} THEN "idle" ELSE "entries"
    /\ UNCHANGED <<cfg, store, breaker, at, asking, context>>

PurgeEntries ==
    /\ purge = "entries"
    /\ authCache' = [c \in Creds |-> IF c \in members THEN None ELSE authCache[c]]
    /\ lost' = lost \ members
    /\ purge' = "tag"
    /\ UNCHANGED <<cfg, tagged, breaker, at, asking, context, members, purges>>

\* What was indexed since SMEMBERS is forgotten with the rest.
PurgeTag ==
    /\ purge = "tag"
    /\ lost' = lost \cup {c \in tagged : authCache[c] # None}
    /\ tagged' = {} /\ members' = {} /\ purge' = "idle"
    /\ UNCHANGED <<cfg, authCache, breaker, at, asking, context, purges>>

Environment ==
    \/ \E r \in Requests : Cancel(r)
    \/ \E c \in Creds : ExpireCached(c)
    \/ Cool \/ PurgeMembers \/ PurgeEntries \/ PurgeTag

-----------------------------------------------------------------------------

\* The circuit opens only on Threshold failures of the service in a row:
\* clients that disconnect in the middle of a check, however many, never trip
\* it (auth.Client.Check).
CancelsDoNotTrip == cb.open => genuine >= Threshold

\* A cached decision can be purged by its tag, or is about to be: the only ones
\* that cannot are those whose client disconnected between SET and SADD, or
\* that were stored while a purge was running.
PurgeableOrLost ==
    \A c \in Creds : authCache[c] # None =>
        \/ c \in tagged \cup lost
        \/ \E r \in Requests : at[r] = "index" /\ cred[r] = c
=============================================================================
