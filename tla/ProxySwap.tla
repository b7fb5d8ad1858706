----------------------------- MODULE ProxySwap ------------------------------
(***************************************************************************)
(* Requests against a proxy that is replaced under them: Chain.ServeHTTP   *)
(* with its concurrency semaphore and c.next, Proxy.ServeHTTP with its     *)
(* admission fence, the WebSocket sessions and their per-key limiter,      *)
(* SwapProxy and the goroutine that closes the old proxy, and the server's *)
(* shutdown.                                                               *)
(*                                                                         *)
(* One step is one atomic operation or critical section.  The admission of *)
(* a request (closing read, inflight.Add) is one step: it holds closeMu    *)
(* for reading, and closing is written under the write lock.               *)
(***************************************************************************)
EXTENDS Integers, FiniteSets

CONSTANTS
    Requests,       \* BOUND: requests in the server at once
    Proxies,        \* BOUND: *proxy.Proxy objects, each built once
    First,          \* the one New built
    Keys,           \* rate-limit keys of WebSocket clients
    MaxConcurrent,  \* server.max_concurrent_requests; 0 is "no limit"
    MaxPerKey,      \* server.max_websocket_conns_per_key; 0 is "no limit"
    None

ASSUME ProxyAssumption ==
    /\ IsFiniteSet(Requests)
    /\ First \in Proxies
    /\ MaxConcurrent \in Nat /\ MaxPerKey \in Nat
    /\ None \notin Keys /\ None \notin Proxies

VARIABLES
    next,       \* c.next
    closing,    \* p.closing
    inflight,   \* p.inflight
    counts,     \* p.wsLimiter: sessions by key (an absent key is 0)
    cached,     \* p.cache is set
    installed,  \* c.responseCache is set
    teardown,   \* where the goroutine closing p is; "none": not built yet
    expired,    \* it stopped waiting because its context was done
    server,     \* "up", "drain" (Shutdown), "down" (c.ctx is cancelled)
    permits,    \* taken from c.concurrencySem
    at,         \* where each request is
    permit,     \* it holds a permit
    via,        \* the proxy it loaded
    key         \* its WebSocket key; None for every other request

proxy == <<closing, inflight, counts, cached>>
teardowns == <<next, teardown, expired>>
process == <<server, installed>>
request == <<at, permit, via, key>>
vars == <<proxy, teardowns, process, permits, request>>

Move(r, from, to) == at[r] = from /\ at' = [at EXCEPT ![r] = to]

-----------------------------------------------------------------------------

Init ==
    /\ next = First
    /\ closing = [p \in Proxies |-> FALSE]
    /\ inflight = [p \in Proxies |-> 0]
    /\ counts = [p \in Proxies |-> [k \in Keys |-> 0]]
    /\ installed \in BOOLEAN
    /\ cached = [p \in Proxies |-> p = First /\ installed]
    /\ teardown = [p \in Proxies |-> IF p = First THEN "live" ELSE "none"]
    /\ expired = [p \in Proxies |-> FALSE]
    /\ server = "up"
    /\ permits = 0
    /\ at = [r \in Requests |-> "idle"]
    /\ permit = [r \in Requests |-> FALSE]
    /\ via = [r \in Requests |-> None]
    /\ key = [r \in Requests |-> None]

(***************************************************************************)
(* A request through the chain.                                            *)
(***************************************************************************)

\* c.next is loaded, and its ServeHTTP called: a WebSocket upgrade with a key
\* (the limiter's, or "__unknown__"), or any other request.
Route(r) ==
    /\ via' = [via EXCEPT ![r] = next]
    /\ \E k \in Keys \cup {None} : key' = [key EXCEPT ![r] = k]

\* A CORS preflight goes past the semaphore, straight to the proxy.
Preflight(r) ==
    /\ server = "up"
    /\ Move(r, "idle", "routed")
    /\ Route(r)
    /\ UNCHANGED <<proxy, teardowns, process, permits, permit>>

\* acquireConcurrency; at capacity the request is answered 503 at once.
Enter(r) ==
    /\ server = "up"
    /\ Move(r, "idle", "inside")
    /\ IF MaxConcurrent = 0 THEN UNCHANGED <<permits, permit>>
       ELSE /\ permits < MaxConcurrent
            /\ permits' = permits + 1
            /\ permit' = [permit EXCEPT ![r] = TRUE]
    /\ UNCHANGED <<proxy, teardowns, process, via, key>>

\* Denied by auth, by a limit, or for want of a key: the proxy is not called.
Denied(r) ==
    /\ Move(r, "inside", "leaving")
    /\ UNCHANGED <<proxy, teardowns, process, permits, permit, via, key>>

Load(r) ==
    /\ Move(r, "inside", "routed")
    /\ Route(r)
    /\ UNCHANGED <<proxy, teardowns, process, permits, permit>>

\* Mutant: the fence is not looked at.
AdmitUnfenced(r) ==
    /\ Move(r, "routed", "http")
    /\ key[r] = None
    /\ inflight' = [inflight EXCEPT ![via[r]] = @ + 1]
    /\ UNCHANGED <<closing, counts, cached, teardowns, process, permits,
                   permit, via, key>>

\* Proxy.ServeHTTP admits the request ...
Admit(r) ==
    /\ Move(r, "routed", "http")
    /\ key[r] = None
    /\ ~closing[via[r]]
    /\ inflight' = [inflight EXCEPT ![via[r]] = @ + 1]
    /\ UNCHANGED <<closing, counts, cached, teardowns, process, permits,
                   permit, via, key>>

\* ... or, while draining, rejects it.
Reject(r) ==
    /\ Move(r, "routed", "leaving")
    /\ key[r] = None
    /\ closing[via[r]]
    /\ UNCHANGED <<proxy, teardowns, process, permits, permit, via, key>>

\* The response is complete, or the handler panics: inflight.Done is deferred.
Respond(r) ==
    /\ Move(r, "http", "leaving")
    /\ inflight' = [inflight EXCEPT ![via[r]] = @ - 1]
    /\ UNCHANGED <<closing, counts, cached, teardowns, process, permits,
                   permit, via, key>>

\* Mutant: the permit is returned only by requests that reached the proxy.
LeaveEarlyKeepsPermit(r) ==
    /\ Move(r, "leaving", "idle")
    /\ permits' = IF permit[r] /\ via[r] # None THEN permits - 1 ELSE permits
    /\ permit' = [permit EXCEPT ![r] = FALSE]
    /\ via' = [via EXCEPT ![r] = None]
    /\ key' = [key EXCEPT ![r] = None]
    /\ UNCHANGED <<proxy, teardowns, process>>

\* Chain.ServeHTTP returns: the permit is released by its defer.
Leave(r) ==
    /\ Move(r, "leaving", "idle")
    /\ permits' = IF permit[r] THEN permits - 1 ELSE permits
    /\ permit' = [permit EXCEPT ![r] = FALSE]
    /\ via' = [via EXCEPT ![r] = None]
    /\ key' = [key EXCEPT ![r] = None]
    /\ UNCHANGED <<proxy, teardowns, process>>

-----------------------------------------------------------------------------
(***************************************************************************)
(* WebSocket sessions: never counted in inflight, admitted while draining. *)
(***************************************************************************)

\* The origin is not allowed, or the key is at its limit.
WsRefuse(r) ==
    /\ Move(r, "routed", "leaving")
    /\ key[r] # None
    /\ UNCHANGED <<proxy, teardowns, process, permits, permit, via, key>>

\* WSLimiter.Acquire succeeds.
WsAcquire(r) ==
    /\ Move(r, "routed", "dial")
    /\ key[r] # None
    /\ IF MaxPerKey = 0 THEN UNCHANGED counts
       ELSE /\ counts[via[r]][key[r]] < MaxPerKey
            /\ counts' = [counts EXCEPT ![via[r]][key[r]] = @ + 1]
    /\ UNCHANGED <<closing, inflight, cached, teardowns, process, permits,
                   permit, via, key>>

\* The backend is dialled, the connection hijacked, the relay starts.
WsRelay(r) ==
    /\ Move(r, "dial", "relay")
    /\ UNCHANGED <<proxy, teardowns, process, permits, permit, via, key>>

\* WSLimiter.Release: the last session of a key deletes its entry.
ReleaseKey(p, k) ==
    counts' = [counts EXCEPT ![p][k] =
                 IF MaxPerKey = 0 THEN @ ELSE IF @ <= 1 THEN 0 ELSE @ - 1]

\* Mutant: a failed dial returns before the deferred Release is in place.
WsEndAfterRelay(r) ==
    /\ \/ Move(r, "dial", "leaving") /\ UNCHANGED counts
       \/ Move(r, "relay", "leaving") /\ ReleaseKey(via[r], key[r])
    /\ UNCHANGED <<closing, inflight, cached, teardowns, process, permits,
                   permit, via, key>>

\* The dial, the upgrade or the hijack fails, or the relay ends.
WsEnd(r) ==
    /\ Move(r, "dial", "leaving") \/ Move(r, "relay", "leaving")
    /\ ReleaseKey(via[r], key[r])
    /\ UNCHANGED <<closing, inflight, cached, teardowns, process, permits,
                   permit, via, key>>

-----------------------------------------------------------------------------
(***************************************************************************)
(* Server.Reload with a changed backend: SwapProxy, then Proxy.Close in a  *)
(* goroutine of its own, under a context that c.ctx or a timeout ends.     *)
(***************************************************************************)

Swap ==
    \E p \in Proxies :
        /\ teardown[p] = "none"
        /\ next' = p
        /\ teardown' = [teardown EXCEPT ![p] = "live", ![next] = "fence"]
        /\ UNCHANGED <<proxy, expired, process, permits, request>>

Fence(p) ==
    /\ teardown[p] = "fence"
    /\ closing' = [closing EXCEPT ![p] = TRUE]
    /\ teardown' = [teardown EXCEPT ![p] = "wait"]
    /\ UNCHANGED <<next, inflight, counts, cached, expired, process, permits, request>>

\* Mutant: Close goes on while one request is left.
DrainedEarly(p) ==
    /\ teardown[p] = "wait" /\ inflight[p] <= 1
    /\ teardown' = [teardown EXCEPT ![p] = "release"]
    /\ UNCHANGED <<next, proxy, expired, process, permits, request>>

\* inflight.Wait returns.
Drained(p) ==
    /\ teardown[p] = "wait" /\ inflight[p] = 0
    /\ teardown' = [teardown EXCEPT ![p] = "release"]
    /\ UNCHANGED <<next, proxy, expired, process, permits, request>>

\* Mutant: the wait has no deadline; only the end of the chain interrupts it.
ExpireOnCancel(p) ==
    /\ teardown[p] = "wait" /\ server = "down"
    /\ teardown' = [teardown EXCEPT ![p] = "release"]
    /\ expired' = [expired EXCEPT ![p] = TRUE]
    /\ UNCHANGED <<next, proxy, process, permits, request>>

\* The deadline passes (at any time), or the chain is closed.
Expire(p) ==
    /\ teardown[p] = "wait"
    /\ teardown' = [teardown EXCEPT ![p] = "release"]
    /\ expired' = [expired EXCEPT ![p] = TRUE]
    /\ UNCHANGED <<next, proxy, process, permits, request>>

\* closeOnce: the transports are released.
Release(p) ==
    /\ teardown[p] = "release"
    /\ teardown' = [teardown EXCEPT ![p] = "released"]
    /\ UNCHANGED <<next, proxy, expired, process, permits, request>>

\* responseCacheRecoveryLoop connects (perhaps only after Close: it looks at
\* c.ctx before it tries) and installResponseCache gives the store to the proxy
\* the chain was built with, c.proxyRef.
InstallCache ==
    /\ ~installed
    /\ installed' = TRUE
    /\ cached' = [cached EXCEPT ![First] = TRUE]
    /\ UNCHANGED <<closing, inflight, counts, teardowns, server, permits,
                   request>>

-----------------------------------------------------------------------------
(***************************************************************************)
(* Server.shutdown.                                                        *)
(***************************************************************************)

\* Shutdown of the listeners: no further requests.
ShutdownBegin ==
    /\ server = "up"
    /\ server' = "drain"
    /\ UNCHANGED <<proxy, teardowns, installed, permits, request>>

\* Shutdown returned, drained or past drain_timeout; then Chain.Close.
ShutdownClose ==
    /\ server = "drain"
    /\ server' = "down"
    /\ UNCHANGED <<proxy, teardowns, installed, permits, request>>

-----------------------------------------------------------------------------

Request(r) ==
    \/ Preflight(r) \/ Enter(r) \/ Denied(r) \/ Load(r)
    \/ Admit(r) \/ Reject(r) \/ Respond(r) \/ Leave(r)
    \/ WsRefuse(r) \/ WsAcquire(r) \/ WsRelay(r) \/ WsEnd(r)

Teardown(p) == Fence(p) \/ Drained(p) \/ Expire(p) \/ Release(p)

Next ==
    \/ \E r \in Requests : Request(r)
    \/ Swap
    \/ \E p \in Proxies : Teardown(p)
    \/ InstallCache
    \/ ShutdownBegin
    \/ ShutdownClose

Spec == Init /\ [][Next]_vars

\* The goroutine that closes a proxy is scheduled and its timer fires; nothing
\* is assumed of requests, which may stream for ever.
FairSpec == Spec /\ \A p \in Proxies : WF_vars(Teardown(p))

-----------------------------------------------------------------------------
(***************************************************************************)
(* Properties.                                                             *)
(***************************************************************************)

TypeOK ==
    /\ next \in Proxies
    /\ closing \in [Proxies -> BOOLEAN]
    /\ inflight \in [Proxies -> Nat]
    /\ counts \in [Proxies -> [Keys -> Nat]]
    /\ cached \in [Proxies -> BOOLEAN] /\ installed \in BOOLEAN
    /\ teardown \in [Proxies -> {"none", "live", "fence", "wait", "release", "released"}]
    /\ expired \in [Proxies -> BOOLEAN]
    /\ server \in {"up", "drain", "down"}
    /\ permits \in Nat
    /\ at \in [Requests ->
               {"idle", "inside", "routed", "http", "dial", "relay", "leaving"}]
    /\ permit \in [Requests -> BOOLEAN]
    /\ via \in [Requests -> Proxies \cup {None}]
    /\ key \in [Requests -> Keys \cup {None}]

\* Requests inside Proxy.ServeHTTP's counted part, and WebSocket sessions.
Served(p) == {r \in Requests : at[r] = "http" /\ via[r] = p}
Sessions(p, k) ==
    {r \in Requests : at[r] \in {"dial", "relay"} /\ via[r] = p /\ key[r] = k}

\* A proxy's transports are released while a request uses them only if that
\* request outlived the deadline: a request that loaded c.next just before the
\* swap is rejected, or is waited for.
TransportOutlivesRequests ==
    \A p \in Proxies :
        teardown[p] = "released" /\ ~expired[p] => Served(p) = {}

\* sync.WaitGroup's rule: once Close may be waiting, nothing is added.
NoAddDuringWait ==
    [][\A p \in Proxies : teardown[p] \in {"wait", "release", "released"}
                          => inflight'[p] <= inflight[p]]_vars

\* The semaphore never drifts: whichever way requests end (denied, rejected,
\* served, hijacked), the permits taken are those of the requests inside, and
\* never more than max_concurrent_requests.
PermitsExact ==
    /\ permits = Cardinality({r \in Requests : permit[r]})
    /\ \A r \in Requests : permit[r] => at[r] # "idle"
    /\ MaxConcurrent > 0 => permits <= MaxConcurrent

\* The WebSocket limiter never drifts: each proxy's count for a key is the
\* number of its sessions, across failed dials, swaps and late releases.
SessionsExact ==
    MaxPerKey > 0 =>
        \A p \in Proxies, k \in Keys :
            /\ counts[p][k] = Cardinality(Sessions(p, k))
            /\ counts[p][k] <= MaxPerKey

\* Every proxy that is swapped out is released in the end, however long its
\* requests stream.
TeardownCompletes ==
    \A p \in Proxies : teardown[p] = "fence" ~> teardown[p] = "released"

\* What the comment on Proxy.cache says: it is nil only when response caching
\* is disabled, so once a store is installed the current proxy has it.
CacheReachesProxy == installed => cached[next]

-----------------------------------------------------------------------------
(***************************************************************************)
(* The inductive invariant.                                                *)
(***************************************************************************)

\* A request has loaded a proxy that was built, from c.next or what c.next was.
Loaded ==
    /\ teardown[next] = "live"
    /\ \A r \in Requests : at[r] \in {"routed", "http", "dial", "relay"} =>
          via[r] \in Proxies
    /\ \A r \in Requests : at[r] \in {"dial", "relay"} => key[r] \in Keys

\* closing is up exactly from the fence on.
Fenced ==
    \A p \in Proxies :
        closing[p] <=> teardown[p] \in {"wait", "release", "released"}

\* inflight counts the requests being served, so a drained proxy serves none.
Counted ==
    \A p \in Proxies :
        /\ inflight[p] = Cardinality(Served(p))
        /\ teardown[p] \in {"release", "released"} /\ ~expired[p] => inflight[p] = 0

IInv == TypeOK /\ Loaded /\ Fenced /\ Counted /\ PermitsExact /\ SessionsExact

=============================================================================
