--------------------------- MODULE RequestPipeline ---------------------------
(***************************************************************************)
(* What Chain.ServeHTTP decides for a request: preflight bypass, auth (see *)
(* AuthGate), the limits of the external service or the static ones, the   *)
(* Redis limiter, and, without Redis, the failure policy with the          *)
(* in-memory limiter (InMemoryLimiter.Allow on a ristretto cache, whose    *)
(* Set takes effect later).                                                *)
(***************************************************************************)
EXTENDS AuthGate, Sequences

CONSTANTS
    Configs,  \* the configurations to start from
    Burst     \* burst of the in-memory limiter

Policies == {"passthrough", "failclosed", "inmemoryfallback"}

\* What validateAuth, validateRateLimit and validateExternalRL let through, as
\* far as the pipeline tells configurations apart.
Validated ==
    [auth : {"off", "failclosed", "failopen"},
     static : BOOLEAN,                           \* static.average > 0
     external : {"off", "failclosed", "fallback"},
     policy : Policies,
     bypass : BOOLEAN]                           \* bypass_preflight_auth

ASSUME PipelineAssumption ==
    /\ Configs \subseteq Validated
    /\ Burst \in Nat \ {0}
    /\ None \notin [average : Int, policy : {None} \cup Policies]

VARIABLES
    limits,   \* extLimits of each request: None, or its average and policy
    said,     \* what a limiter answered: "allow", "deny", or None
    tokens,   \* the buckets the in-memory limiter has made for the key
    allowed,  \* HISTORY: what each of them has allowed
    pending,  \* InMemoryLimiter.pending: a bucket, or 0
    sets,     \* ristretto's buffer of Sets
    visible,  \* the bucket that cache.Get finds, or 0
    mine      \* the bucket that each request holds

fb == <<tokens, allowed, pending, sets, visible, mine>>
vars == <<authVars, limits, said, fb>>
ServeVars == <<limits, said, fb>>

Init ==
    /\ cfg \in Configs
    /\ AuthInit
    /\ limits = [r \in Requests |-> None]
    /\ said = [r \in Requests |-> None]
    /\ tokens = <<>> /\ allowed = <<>>
    /\ pending = 0 /\ sets = {} /\ visible = 0
    /\ mine = [r \in Requests |-> 0]

Unlimited == ~cfg.static /\ cfg.external = "off"

\* Past authentication: to the backend at once when nothing limits.
Arrive(r) ==
    /\ calls < MaxCalls
    /\ calls' = calls + 1
    /\ \E c \in Creds : cred' = [cred EXCEPT ![r] = c]
    /\ \/ Go(r, "idle", IF cfg.auth = "off" THEN "limit" ELSE "auth")
       \/ cfg.bypass /\ Go(r, "idle", "preflight")
    /\ UNCHANGED <<cfg, store, breaker, decision, granted, canceled, cancels,
                   purging, ServeVars>>

\* The two loads of line 1199, and the key, which may be missing.
Route(r) ==
    /\ at[r] = "limit"
    /\ \/ Unlimited /\ To(r, "backend")
       \/ ~Unlimited /\ cfg.external # "off" /\ To(r, "external")
       \/ ~Unlimited /\ cfg.external = "off" /\ To(r, "redis")
       \/ ~Unlimited /\ cfg.external = "off" /\ To(r, "answered")
    /\ UNCHANGED <<cfg, store, breaker, asking, context, purging, ServeVars>>

FailClosedLimits == [average |-> -1, policy |-> None]
FallbackLimits == [average |-> 1, policy |-> None]

\* fetchExternalLimits.  An error, or an answer without a backend_url: the
\* configured policy (the fallback key strategy, which Validate requires, may
\* find no key).  An answer: its limits, if it has any.
FetchedLimits ==
    (IF cfg.external = "failclosed" THEN {FailClosedLimits} ELSE {FallbackLimits, None})
    \cup [average : {1}, policy : {None} \cup Policies] \cup {None}

\* Mutant: externalLimitsFailClosed looks for an average of 0.
FailsClosedAtZero(l) == l # None /\ l.average = 0

\* externalLimitsFailClosed
FailsClosed(l) == l # None /\ l.average < 0

FetchLimits(r) ==
    /\ at[r] = "external"
    /\ \E l \in FetchedLimits :
          /\ limits' = [limits EXCEPT ![r] = l]
          /\ To(r, IF FailsClosed(l) THEN "answered" ELSE "redis")
    /\ UNCHANGED <<cfg, store, breaker, asking, context, purging, said, fb>>

Says(r, a) == said' = [said EXCEPT ![r] = a]

\* tryRedisLimit and serveResult: the limiter answers, or there is none, or it
\* fails (LimiterLifecycle models what becomes of it then).
TryRedis(r) ==
    /\ at[r] = "redis"
    /\ \/ To(r, "backend") /\ Says(r, "allow")
       \/ To(r, "answered") /\ Says(r, "deny")
       \/ To(r, "policy") /\ UNCHANGED said
    /\ UNCHANGED <<cfg, store, breaker, asking, context, purging, limits, fb>>

resolveFailurePolicy(r) ==
    IF limits[r] # None /\ limits[r].policy # None THEN limits[r].policy ELSE cfg.policy

\* handleRedisFailurePolicy.  The global backstop, if there is one, may refuse a
\* request that is passed through; a limiter with no rate allows everything.
ApplyPolicy(r) ==
    /\ at[r] = "policy"
    /\ \/ /\ resolveFailurePolicy(r) = "passthrough"
          /\ To(r, "backend") \/ To(r, "answered")
          /\ UNCHANGED said
       \/ /\ resolveFailurePolicy(r) = "failclosed"
          /\ To(r, "answered") /\ UNCHANGED said
       \/ /\ resolveFailurePolicy(r) = "inmemoryfallback"
          /\ IF cfg.static THEN To(r, "fbGet") /\ UNCHANGED said
             ELSE To(r, "backend") /\ Says(r, "allow")
    /\ UNCHANGED <<cfg, store, breaker, asking, context, purging, limits, fb>>

(***************************************************************************)
(* InMemoryLimiter.Allow, in an instant: no token is refilled.             *)
(***************************************************************************)

Hold(r, b) == mine' = [mine EXCEPT ![r] = b]
Allow(r) ==
    /\ To(r, "backend") /\ Says(r, "allow")
    /\ allowed' = [allowed EXCEPT ![mine[r]] = @ + 1]
    /\ Hold(r, 0)

\* cache.Get
FbGet(r) ==
    /\ IF visible # 0
       THEN Go(r, "fbGet", "fbTake") /\ Hold(r, visible)
       ELSE Go(r, "fbGet", "fbStore") /\ UNCHANGED mine
    /\ UNCHANGED <<cfg, store, breaker, asking, context, purging, limits, said,
                   tokens, allowed, pending, sets, visible>>

\* pending.LoadOrStore: the other's bucket, or a new one less one token.
FbStore(r) ==
    /\ IF pending # 0
       THEN /\ Go(r, "fbStore", "fbTake") /\ Hold(r, pending)
            /\ UNCHANGED <<tokens, allowed, pending>>
       ELSE /\ Go(r, "fbStore", "fbSet")
            /\ tokens' = Append(tokens, Burst - 1)
            /\ allowed' = Append(allowed, 0)
            /\ pending' = Len(tokens) + 1
            /\ Hold(r, Len(tokens) + 1)
    /\ UNCHANGED <<cfg, store, breaker, asking, context, purging, limits, said,
                   sets, visible>>

\* cache.SetWithTTL: into the buffer, or dropped when the buffer is full.
FbSet(r) ==
    /\ Go(r, "fbSet", "fbDrop")
    /\ sets' = sets \cup {mine[r]} \/ UNCHANGED sets
    /\ UNCHANGED <<cfg, store, breaker, asking, context, purging, limits, said,
                   tokens, allowed, pending, visible, mine>>

\* pending.Delete, and true.
FbDrop(r) ==
    /\ at[r] = "fbDrop"
    /\ pending' = 0
    /\ Allow(r)
    /\ UNCHANGED <<cfg, store, breaker, asking, context, purging, limits, tokens,
                   sets, visible>>

Take(r) == tokens' = [tokens EXCEPT ![mine[r]] = @ - 1] /\ Allow(r)

\* Mutant: a bucket is emptied below zero.
FbTakeAny(r) ==
    /\ at[r] = "fbTake"
    /\ Take(r)
    /\ UNCHANGED <<cfg, store, breaker, asking, context, purging, limits, pending,
                   sets, visible>>

\* The critical section of the bucket.
FbTake(r) ==
    /\ at[r] = "fbTake"
    /\ \/ tokens[mine[r]] >= 1 /\ Take(r)
       \/ /\ tokens[mine[r]] < 1
          /\ To(r, "answered") /\ Says(r, "deny") /\ Hold(r, 0)
          /\ UNCHANGED <<tokens, allowed>>
    /\ UNCHANGED <<cfg, store, breaker, asking, context, purging, limits, pending,
                   sets, visible>>

\* ristretto takes a Set from its buffer (external).
FbApply ==
    /\ \E b \in sets :
          /\ \A o \in sets : b <= o
          /\ sets' = sets \ {b} /\ visible' = b
    /\ UNCHANGED <<authVars, limits, said, tokens, allowed, pending, mine>>

\* ristretto evicts the bucket (external).
FbEvict ==
    /\ visible # 0
    /\ visible' = 0
    /\ UNCHANGED <<authVars, limits, said, tokens, allowed, pending, sets, mine>>

\* The backend has answered, or EdgeQuota has.
Leave(r) ==
    /\ at[r] \in {"backend", "preflight", "answered"}
    /\ To(r, "idle")
    /\ cred' = [cred EXCEPT ![r] = None]
    /\ decision' = [decision EXCEPT ![r] = None]
    /\ canceled' = [canceled EXCEPT ![r] = FALSE]
    /\ limits' = [limits EXCEPT ![r] = None] /\ Says(r, None)
    /\ UNCHANGED <<cfg, store, breaker, granted, cancels, calls, purging, fb>>

Serve(r) ==
    \/ AuthStep(r) /\ UNCHANGED ServeVars
    \/ Arrive(r) \/ Route(r) \/ FetchLimits(r) \/ TryRedis(r) \/ ApplyPolicy(r)
    \/ FbGet(r) \/ FbStore(r) \/ FbSet(r) \/ FbDrop(r) \/ FbTake(r) \/ Leave(r)

Next ==
    \/ \E r \in Requests : Serve(r)
    \/ Environment /\ UNCHANGED ServeVars
    \/ FbApply \/ FbEvict

Spec == Init /\ [][Next]_vars

-----------------------------------------------------------------------------

PastAuth == {"limit", "external", "redis", "policy", "backend",
             "fbGet", "fbStore", "fbSet", "fbDrop", "fbTake"}

\* With auth.failure_policy failclosed only a credential that the service has
\* itself allowed gets past authentication: neither the cache, nor an open
\* circuit, an error, a disconnect or a purge lets another one through.
AuthSound ==
    cfg.auth = "failclosed" =>
        \A r \in Requests :
            at[r] \in PastAuth => cred[r] \in granted

\* A request that is limited reaches the backend only if a limiter allowed it,
\* or if Redis was away and the policy in force for this request is to pass it
\* through; never if the external service failed and its policy is failclosed.
LimitSound ==
    \A r \in Requests : at[r] = "backend" /\ ~Unlimited =>
        /\ \/ said[r] = "allow"
           \/ said[r] = None /\ limits[r] # None /\ limits[r].policy = "passthrough"
           \/ /\ said[r] = None /\ cfg.policy = "passthrough"
              /\ limits[r] = None \/ limits[r].policy = None
        /\ limits[r] # FailClosedLimits

\* In an instant no bucket of the in-memory limiter allows more than one burst,
\* however the requests that share it interleave, and only one request at a time
\* is putting a bucket in.  (It may make a second one for the key before
\* ristretto shows the first.)
FallbackBound ==
    /\ \A b \in DOMAIN allowed : allowed[b] <= Burst
    /\ \A r \in Requests : at[r] \in {"fbSet", "fbDrop"} => mine[r] = pending
=============================================================================
