-------------------------- MODULE LimiterLifecycle --------------------------
(***************************************************************************)
(* The Redis resources of one Chain (internal/middleware/chain.go): the    *)
(* limiter and its client, the cache clients that borrow it, and the       *)
(* goroutines that install, replace, rebind and close them:                *)
(*                                                                         *)
(*   requests      tryRedisLimit, handleLimiterError, startRecoveryIfNeeded*)
(*   loops         the goroutine of startRecoveryIfNeeded: recoveryLoop,   *)
(*                 recoveryRetry, recoveryInstall                          *)
(*   the reloader  Reload (the watcher's callback, one at a time)          *)
(*   the closer    Close and closeResources                                *)
(*                                                                         *)
(* One step is one critical section of c.mu or c.reconnectMu, one atomic   *)
(* load or store, or one call on a client.  Clients are the objects        *)
(* redis.NewClient returns; a name is used again only once nothing refers  *)
(* to it.  Auth caching is on, so authCacheRedis is in use.                *)
(***************************************************************************)
EXTENDS Integers, FiniteSets

CONSTANTS
    Requests, Loops,    \* goroutines
    Reloader, Closer,
    Clients,            \* Redis client objects
    NoClient,           \* nil
    Configs,            \* records [ep, avg, ext, dedicated]: see ConfigSpace
    StartConfigs,       \* the ones the process may start with
    Replication,        \* redis.mode is "replication"
    MaxAttempts,        \* rate_limit.max_recovery_attempts; 0 is "no limit"
    MaxOutages,         \* BOUND: how often Redis goes away
    MaxReloads          \* BOUND: how often the configuration changes

\* ep: the Redis endpoints; avg: rate_limit.static.average > 0; ext: external
\* rate limiting enabled; dedicated: cache_redis configured.
ConfigSpace == [ep : Nat, avg : BOOLEAN, ext : BOOLEAN, dedicated : BOOLEAN]

Procs == Requests \cup Loops \cup {Reloader, Closer}

\* initRedis and recoveryInstall want a limiter under this configuration.
Limited(avg, ext) == avg \/ ext

ASSUME LifecycleAssumption ==
    /\ Configs \subseteq ConfigSpace
    /\ StartConfigs \subseteq {g \in Configs : Limited(g.avg, g.ext)}
    /\ Requests \cap Loops = {} /\ Reloader # Closer
    /\ {Reloader, Closer} \cap (Requests \cup Loops) = {}
    /\ NoClient \notin Clients
    /\ Replication \in BOOLEAN
    /\ MaxAttempts \in Nat /\ MaxOutages \in Nat /\ MaxReloads \in Nat

VARIABLES
    up,             \* Redis answers (environment)
    open,           \* clients not yet closed
    limiter,        \* c.limiter, by its client
    params,         \* the configuration c.limiter was built from
    reconnecting,   \* c.reconnecting
    cfg, staticRL,  \* c.cfg and c.staticRL, two separate atomics
    ctxDone,        \* c.ctx is cancelled
    cacheRedis, cacheRedisOwned, authCacheRedis,
    externalRL,     \* c.externalRL is set
    extRedis,       \* the client inside c.externalRL
    pc,             \* where each goroutine is
    held,           \* its local client variable
    doomed,         \* a client it has detached and is about to close
    seen,           \* the configuration it last loaded
    attempt,        \* attempts of each loop
    outages, reloads

caches == <<cacheRedis, cacheRedisOwned, authCacheRedis, externalRL, extRedis>>
config == <<cfg, staticRL>>
locals == <<held, doomed, seen, attempt>>
bounds == <<outages, reloads>>
vars == <<up, open, limiter, params, reconnecting, config, ctxDone, caches,
          pc, locals, bounds>>

-----------------------------------------------------------------------------
\* Steps of a goroutine.

Goto(p, from, to) == pc[p] = from /\ pc' = [pc EXCEPT ![p] = to]

Hold(p, c) == held' = [held EXCEPT ![p] = c]

\* The configuration in `seen' of a goroutine that is not running: not used.
Unset == CHOOSE g \in Configs : TRUE

\* A client name that nothing in the process refers to.
Unreferenced(c) ==
    /\ c \notin open
    /\ c \notin {limiter, cacheRedis, authCacheRedis, extRedis}
    /\ \A p \in Procs : c # held[p] /\ c # doomed[p]

\* swapLimiterLocked: the caller owns, and must close, the old client.
SwapLimiter(p, c, g) ==
    /\ doomed' = [doomed EXCEPT ![p] = limiter]
    /\ limiter' = c
    /\ params' = g

\* p closes what it has detached.
CloseDoomed(p) ==
    /\ open' = open \ {doomed[p]}
    /\ doomed' = [doomed EXCEPT ![p] = NoClient]

\* Mutant: a borrowed alias is closed too.
ReleaseBorrowed(p) ==
    /\ doomed' = [doomed EXCEPT ![p] = cacheRedis]
    /\ cacheRedis' = NoClient
    /\ cacheRedisOwned' = FALSE
    /\ UNCHANGED <<authCacheRedis, externalRL, extRedis>>

\* releaseCacheRedis up to the unlock: only an owned client is to be closed.
ReleaseCache(p) ==
    /\ doomed' = [doomed EXCEPT ![p] =
                    IF cacheRedisOwned THEN cacheRedis ELSE NoClient]
    /\ cacheRedis' = NoClient
    /\ cacheRedisOwned' = FALSE
    /\ UNCHANGED <<authCacheRedis, externalRL, extRedis>>

-----------------------------------------------------------------------------
(***************************************************************************)
(* NewChain.  Redis may be unreachable at startup (the failure policy lets *)
(* the process run on): then there is no limiter and a loop is started.  A *)
(* dedicated cache that does not answer is replaced by the limiter's client.*)
(***************************************************************************)
Init ==
    /\ cfg \in StartConfigs /\ staticRL = cfg /\ params = cfg
    /\ up \in BOOLEAN
    /\ cacheRedisOwned \in {cfg.dedicated, FALSE}
    /\ \E c, d \in Clients :
          /\ c # d
          /\ limiter = IF up THEN c ELSE NoClient
          /\ cacheRedis = IF cacheRedisOwned THEN d ELSE limiter
    /\ authCacheRedis = cacheRedis
    /\ externalRL = cfg.ext
    /\ extRedis = IF cfg.ext THEN cacheRedis ELSE NoClient
    /\ open = {limiter, cacheRedis} \ {NoClient}
    /\ ctxDone = FALSE /\ reconnecting = ~up
    /\ \E l \in Loops :
          pc = [p \in Procs |-> IF p = l /\ ~up THEN "create" ELSE "idle"]
    /\ held = [p \in Procs |-> NoClient]
    /\ doomed = [p \in Procs |-> NoClient]
    /\ seen = [p \in Procs |-> Unset]
    /\ attempt = [l \in Loops |-> 0]
    /\ outages = 0 /\ reloads = 0

\* Redis goes away, or answers again.
Outage ==
    /\ \/ up /\ outages < MaxOutages /\ outages' = outages + 1
       \/ ~up /\ UNCHANGED outages
    /\ up' = ~up
    /\ UNCHANGED <<open, limiter, params, reconnecting, config, ctxDone, caches,
                   pc, locals, reloads>>

-----------------------------------------------------------------------------
(***************************************************************************)
(* A request.                                                              *)
(***************************************************************************)

\* tryRedisLimit reads c.limiter; with none it falls through to the failure
\* policy, which changes nothing here.  Without static or external limits
\* ServeHTTP does not come this far.
ReqLoad(r) ==
    /\ Goto(r, "idle", "call")
    /\ Limited(staticRL.avg, externalRL)
    /\ limiter # NoClient
    /\ Hold(r, limiter)
    /\ UNCHANGED <<up, open, limiter, params, reconnecting, config, ctxDone, caches,
                   doomed, seen, attempt, bounds>>

\* An answer, or an error that is not about connectivity: a cancelled request,
\* or a client that was closed before the call.
ReqDone(r) ==
    /\ Goto(r, "call", "idle")
    /\ Hold(r, NoClient)
    /\ UNCHANGED <<up, open, limiter, params, reconnecting, config, ctxDone, caches,
                   doomed, seen, attempt, bounds>>

\* IsConnectivityErr: Redis is away, or the client was closed during the call.
ReqFail(r) ==
    /\ Goto(r, "call", "failed")
    /\ ~up \/ held[r] \notin open
    /\ Hold(r, NoClient)
    /\ UNCHANGED <<up, open, limiter, params, reconnecting, config, ctxDone, caches,
                   doomed, seen, attempt, bounds>>

\* handleLimiterError under c.mu: whatever limiter is current goes.
ReqDetach(r) ==
    /\ Goto(r, "failed", "close")
    /\ SwapLimiter(r, NoClient, params)
    /\ UNCHANGED <<up, open, reconnecting, config, ctxDone, caches,
                   held, seen, attempt, bounds>>

ReqClose(r) ==
    /\ Goto(r, "close", "start")
    /\ CloseDoomed(r)
    /\ UNCHANGED <<up, limiter, params, reconnecting, config, ctxDone, caches,
                   held, seen, attempt, bounds>>

\* startRecoveryIfNeeded: unless the chain is closing ...
ReqCheckCtx(r) ==
    /\ Goto(r, "start", IF ctxDone THEN "idle" ELSE "lock")
    /\ UNCHANGED <<up, open, limiter, params, reconnecting, config, ctxDone, caches,
                   locals, bounds>>

\* ... and, under reconnectMu, unless a loop has not yet finished ...
ReqNoStart(r) ==
    /\ Goto(r, "lock", "idle")
    /\ reconnecting
    /\ UNCHANGED <<up, open, limiter, params, reconnecting, config, ctxDone, caches,
                   locals, bounds>>

\* Mutant: c.reconnecting is set without being looked at.
ReqStartAlways(r) ==
    /\ pc[r] = "lock"
    /\ reconnecting' = TRUE
    /\ \E l \in Loops :
          /\ pc[l] = "idle"
          /\ pc' = [pc EXCEPT ![r] = "idle", ![l] = "create"]
    /\ UNCHANGED <<up, open, limiter, params, config, ctxDone, caches,
                   locals, bounds>>

\* ... a new one is started.
ReqStart(r) ==
    /\ pc[r] = "lock"
    /\ ~reconnecting
    /\ reconnecting' = TRUE
    /\ \E l \in Loops :
          /\ pc[l] = "idle"
          /\ pc' = [pc EXCEPT ![r] = "idle", ![l] = "create"]
    /\ UNCHANGED <<up, open, limiter, params, config, ctxDone, caches,
                   locals, bounds>>

-----------------------------------------------------------------------------
(***************************************************************************)
(* The recovery loop.                                                      *)
(***************************************************************************)

\* NewClientWithoutPing.  In replication mode it still looks for the master,
\* so it needs Redis; the other modes connect lazily and do not fail.
MayCreate == Replication => up
MayFailToCreate == Replication /\ ~up

LoopCreate(l) ==
    /\ MayCreate
    /\ Goto(l, "create", "check")
    /\ \E c \in Clients :
          /\ Unreferenced(c)
          /\ open' = open \cup {c}
          /\ Hold(l, c)
    /\ seen' = [seen EXCEPT ![l] = cfg]
    /\ UNCHANGED <<up, limiter, params, reconnecting, config, ctxDone, caches,
                   doomed, attempt, bounds>>

LoopCannotCreate(l) ==
    /\ MayFailToCreate
    /\ Goto(l, "create", "exit")
    /\ UNCHANGED <<up, open, limiter, params, reconnecting, config, ctxDone, caches,
                   locals, bounds>>

\* Mutant: the loop returns without closing its client.
LoopCancelledLeaks(l) ==
    /\ ctxDone
    /\ Goto(l, "check", "exit") \/ Goto(l, "retry", "exit")
    /\ Hold(l, NoClient)
    /\ UNCHANGED <<up, open, limiter, params, reconnecting, config, ctxDone, caches,
                   doomed, seen, attempt, bounds>>

\* The chain is closing: at the head of the loop, or during the backoff.
LoopCancelled(l) ==
    /\ ctxDone
    /\ Goto(l, "check", "exit") \/ Goto(l, "retry", "exit")
    /\ open' = open \ {held[l]}
    /\ Hold(l, NoClient)
    /\ UNCHANGED <<up, limiter, params, reconnecting, config, ctxDone, caches,
                   doomed, seen, attempt, bounds>>

LoopNotCancelled(l) ==
    /\ ~ctxDone
    /\ Goto(l, "check", "compare")
    /\ UNCHANGED <<up, open, limiter, params, reconnecting, config, ctxDone, caches,
                   locals, bounds>>

\* sameRedisEndpoints: go on with this client.
LoopSame(l) ==
    /\ cfg.ep = seen[l].ep
    /\ Goto(l, "compare", "ping")
    /\ UNCHANGED <<up, open, limiter, params, reconnecting, config, ctxDone, caches,
                   locals, bounds>>

\* The endpoints changed: close this client and make another.
LoopRecreate(l) ==
    /\ cfg.ep # seen[l].ep
    /\ MayCreate
    /\ Goto(l, "compare", "ping")
    /\ \E c \in Clients :
          /\ Unreferenced(c)
          /\ open' = (open \ {held[l]}) \cup {c}
          /\ Hold(l, c)
    /\ seen' = [seen EXCEPT ![l] = cfg]
    /\ UNCHANGED <<up, limiter, params, reconnecting, config, ctxDone, caches,
                   doomed, attempt, bounds>>

LoopCannotRecreate(l) ==
    /\ cfg.ep # seen[l].ep
    /\ MayFailToCreate
    /\ Goto(l, "compare", "exit")
    /\ open' = open \ {held[l]}
    /\ Hold(l, NoClient)
    /\ UNCHANGED <<up, limiter, params, reconnecting, config, ctxDone, caches,
                   doomed, seen, attempt, bounds>>

LoopPong(l) ==
    /\ up /\ ~ctxDone
    /\ Goto(l, "ping", "install")
    /\ UNCHANGED <<up, open, limiter, params, reconnecting, config, ctxDone, caches,
                   locals, bounds>>

\* The ping failed: give up, or go to sleep.  Attempts count only with a limit.
LoopNoPong(l) ==
    /\ ~up \/ ctxDone
    /\ \/ /\ MaxAttempts > 0 /\ attempt[l] + 1 >= MaxAttempts
          /\ Goto(l, "ping", "exit")
          /\ open' = open \ {held[l]}
          /\ Hold(l, NoClient)
          /\ UNCHANGED attempt
       \/ /\ MaxAttempts > 0 => attempt[l] + 1 < MaxAttempts
          /\ Goto(l, "ping", "retry")
          /\ attempt' = [attempt EXCEPT ![l] =
                           IF MaxAttempts > 0 THEN attempt[l] + 1 ELSE 0]
          /\ UNCHANGED <<open, held>>
    /\ UNCHANGED <<up, limiter, params, reconnecting, config, ctxDone, caches,
                   doomed, seen, bounds>>

\* The backoff timer fires.
LoopRetry(l) ==
    /\ Goto(l, "retry", "check")
    /\ UNCHANGED <<up, open, limiter, params, reconnecting, config, ctxDone, caches,
                   locals, bounds>>

\* recoveryInstall loads c.staticRL, builds the limiter from it ...
LoopSnapshot(l) ==
    /\ Goto(l, "install", IF staticRL.avg THEN "swap" ELSE "wanted")
    /\ seen' = [seen EXCEPT ![l] = staticRL]
    /\ UNCHANGED <<up, open, limiter, params, reconnecting, config, ctxDone, caches,
                   held, doomed, attempt, bounds>>

\* ... even without a static limit, if c.cfg, loaded next, has external ones ...
LoopWanted(l) ==
    /\ Goto(l, "wanted", IF cfg.ext THEN "swap" ELSE "drop")
    /\ UNCHANGED <<up, open, limiter, params, reconnecting, config, ctxDone, caches,
                   locals, bounds>>

\* ... or finds that no limiter is wanted any more.
LoopDrop(l) ==
    /\ Goto(l, "drop", "closeBoth")
    /\ SwapLimiter(l, NoClient, params)
    /\ UNCHANGED <<up, open, reconnecting, config, ctxDone, caches,
                   held, seen, attempt, bounds>>

LoopCloseBoth(l) ==
    /\ Goto(l, "closeBoth", "exit")
    /\ open' = open \ {doomed[l], held[l]}
    /\ doomed' = [doomed EXCEPT ![l] = NoClient]
    /\ Hold(l, NoClient)
    /\ UNCHANGED <<up, limiter, params, reconnecting, config, ctxDone, caches,
                   seen, attempt, bounds>>

LoopSwap(l) ==
    /\ Goto(l, "swap", "closeOld")
    /\ SwapLimiter(l, held[l], seen[l])
    /\ UNCHANGED <<up, open, reconnecting, config, ctxDone, caches,
                   held, seen, attempt, bounds>>

LoopCloseOld(l) ==
    /\ Goto(l, "closeOld", "rebind")
    /\ CloseDoomed(l)
    /\ UNCHANGED <<up, limiter, params, reconnecting, config, ctxDone, caches,
                   held, seen, attempt, bounds>>

\* Mutant: only the users of the cache client are rebound.
LoopRebindUsersOnly(l) ==
    /\ Goto(l, "rebind", IF cacheRedisOwned THEN "exit" ELSE "bindAuth")
    /\ UNCHANGED <<up, open, limiter, params, reconnecting, config, ctxDone, caches,
                   locals, bounds>>

\* A borrowed cache client follows the new limiter, then so do its users.
LoopRebind(l) ==
    /\ \/ /\ ~cacheRedisOwned
          /\ Goto(l, "rebind", "bindAuth")
          /\ cacheRedis' = held[l]
       \/ /\ cacheRedisOwned
          /\ Goto(l, "rebind", "exit")
          /\ UNCHANGED cacheRedis
    /\ UNCHANGED <<up, open, limiter, params, reconnecting, config, ctxDone,
                   cacheRedisOwned, authCacheRedis, externalRL, extRedis,
                   locals, bounds>>

LoopBindAuth(l) ==
    /\ Goto(l, "bindAuth", "bindExt")
    /\ authCacheRedis' = held[l]
    /\ UNCHANGED <<up, open, limiter, params, reconnecting, config, ctxDone,
                   cacheRedis, cacheRedisOwned, externalRL, extRedis,
                   locals, bounds>>

LoopBindExt(l) ==
    /\ Goto(l, "bindExt", "exit")
    /\ extRedis' = IF externalRL THEN held[l] ELSE extRedis
    /\ UNCHANGED <<up, open, limiter, params, reconnecting, config, ctxDone,
                   cacheRedis, cacheRedisOwned, authCacheRedis, externalRL,
                   locals, bounds>>

\* The goroutine clears c.reconnecting, after recoveryLoop has returned.
LoopExit(l) ==
    /\ Goto(l, "exit", "idle")
    /\ reconnecting' = FALSE
    /\ Hold(l, NoClient)
    /\ seen' = [seen EXCEPT ![l] = Unset]
    /\ attempt' = [attempt EXCEPT ![l] = 0]
    /\ UNCHANGED <<up, open, limiter, params, config, ctxDone, caches,
                   doomed, bounds>>

-----------------------------------------------------------------------------
(***************************************************************************)
(* Reload.                                                                 *)
(***************************************************************************)

ReloadStatic ==
    /\ reloads < MaxReloads /\ reloads' = reloads + 1
    /\ Goto(Reloader, "idle", "config")
    /\ \E g \in Configs :
          /\ staticRL' = g
          /\ seen' = [seen EXCEPT ![Reloader] = g]
    /\ UNCHANGED <<up, open, limiter, params, reconnecting, cfg, ctxDone, caches,
                   held, doomed, attempt, outages>>

\* Under c.mu: the new configuration, and new parameters on the same client.
ReloadLimiter ==
    /\ Goto(Reloader, "config",
            IF seen[Reloader].ext THEN "release" ELSE "readCache")
    /\ cfg' = seen[Reloader]
    /\ params' = IF limiter # NoClient THEN seen[Reloader] ELSE params
    /\ UNCHANGED <<up, open, limiter, reconnecting, staticRL, ctxDone, caches,
                   locals, bounds>>

\* reloadExternalRL.
ReloadRelease ==
    /\ Goto(Reloader, "release", "closeCache")
    /\ ReleaseCache(Reloader)
    /\ UNCHANGED <<up, open, limiter, params, reconnecting, config, ctxDone,
                   held, seen, attempt, bounds>>

ReloadCloseCache ==
    /\ Goto(Reloader, "closeCache", "resolve")
    /\ CloseDoomed(Reloader)
    /\ UNCHANGED <<up, limiter, params, reconnecting, config, ctxDone, caches,
                   held, seen, attempt, bounds>>

\* resolveCacheRedis: the client already there, a dedicated one, or an alias.
ReloadResolve ==
    /\ Goto(Reloader, "resolve",
            IF cacheRedis # NoClient THEN "newExt"
            ELSE IF seen[Reloader].dedicated THEN "connect" ELSE "alias")
    /\ Hold(Reloader, cacheRedis)
    /\ UNCHANGED <<up, open, limiter, params, reconnecting, config, ctxDone, caches,
                   doomed, seen, attempt, bounds>>

\* The dedicated Redis is another server: it answers or it does not.
ReloadConnect ==
    /\ Goto(Reloader, "connect", "newExt")
    /\ \E c \in Clients :
          /\ Unreferenced(c)
          /\ open' = open \cup {c}
          /\ cacheRedis' = c
          /\ Hold(Reloader, c)
    /\ cacheRedisOwned' = TRUE
    /\ UNCHANGED <<up, limiter, params, reconnecting, config, ctxDone,
                   authCacheRedis, externalRL, extRedis,
                   doomed, seen, attempt, bounds>>

ReloadConnectFails ==
    /\ Goto(Reloader, "connect", "alias")
    /\ UNCHANGED <<up, open, limiter, params, reconnecting, config, ctxDone, caches,
                   locals, bounds>>

ReloadAlias ==
    /\ Goto(Reloader, "alias", "newExt")
    /\ cacheRedis' = IF limiter # NoClient THEN limiter ELSE cacheRedis
    /\ cacheRedisOwned' = (cacheRedisOwned /\ limiter = NoClient)
    /\ Hold(Reloader, cacheRedis')
    /\ UNCHANGED <<up, open, limiter, params, reconnecting, config, ctxDone,
                   authCacheRedis, externalRL, extRedis,
                   doomed, seen, attempt, bounds>>

\* NewExternalClient fails and the old client stays, or the new one goes in.
ReloadNewExt ==
    /\ Goto(Reloader, "newExt", "readCache")
    /\ \/ UNCHANGED <<externalRL, extRedis>>
       \/ externalRL' = TRUE /\ extRedis' = held[Reloader]
    /\ UNCHANGED <<up, open, limiter, params, reconnecting, config, ctxDone,
                   cacheRedis, cacheRedisOwned, authCacheRedis, locals, bounds>>

ReloadReadCache ==
    /\ Goto(Reloader, "readCache", "storeAuth")
    /\ Hold(Reloader, cacheRedis)
    /\ UNCHANGED <<up, open, limiter, params, reconnecting, config, ctxDone, caches,
                   doomed, seen, attempt, bounds>>

ReloadStoreAuth ==
    /\ Goto(Reloader, "storeAuth", "idle")
    /\ authCacheRedis' = held[Reloader]
    /\ Hold(Reloader, NoClient)
    /\ seen' = [seen EXCEPT ![Reloader] = Unset]
    /\ UNCHANGED <<up, open, limiter, params, reconnecting, config, ctxDone,
                   cacheRedis, cacheRedisOwned, externalRL, extRedis,
                   doomed, attempt, bounds>>

-----------------------------------------------------------------------------
(***************************************************************************)
(* Close.                                                                  *)
(***************************************************************************)

CloseCancel ==
    /\ Goto(Closer, "idle", "detach")
    /\ ctxDone' = TRUE
    /\ UNCHANGED <<up, open, limiter, params, reconnecting, config, caches,
                   locals, bounds>>

CloseDetach ==
    /\ Goto(Closer, "detach", "closeClient")
    /\ SwapLimiter(Closer, NoClient, params)
    /\ UNCHANGED <<up, open, reconnecting, config, ctxDone, caches,
                   held, seen, attempt, bounds>>

CloseClient ==
    /\ \/ Goto(Closer, "closeClient", "release")
       \/ Goto(Closer, "closeCache", "done")
    /\ CloseDoomed(Closer)
    /\ UNCHANGED <<up, limiter, params, reconnecting, config, ctxDone, caches,
                   held, seen, attempt, bounds>>

CloseRelease ==
    /\ Goto(Closer, "release", "closeCache")
    /\ ReleaseCache(Closer)
    /\ UNCHANGED <<up, open, limiter, params, reconnecting, config, ctxDone,
                   held, seen, attempt, bounds>>

-----------------------------------------------------------------------------

Request(r) ==
    \/ ReqLoad(r) \/ ReqDone(r) \/ ReqFail(r) \/ ReqDetach(r) \/ ReqClose(r)
    \/ ReqCheckCtx(r) \/ ReqNoStart(r) \/ ReqStart(r)

Recovery(l) ==
    \/ LoopCreate(l) \/ LoopCannotCreate(l) \/ LoopCancelled(l)
    \/ LoopNotCancelled(l) \/ LoopSame(l) \/ LoopRecreate(l) \/ LoopCannotRecreate(l)
    \/ LoopPong(l) \/ LoopNoPong(l) \/ LoopRetry(l)
    \/ LoopSnapshot(l) \/ LoopWanted(l) \/ LoopDrop(l) \/ LoopCloseBoth(l)
    \/ LoopSwap(l) \/ LoopCloseOld(l) \/ LoopRebind(l)
    \/ LoopBindAuth(l) \/ LoopBindExt(l) \/ LoopExit(l)

Reload ==
    \/ ReloadStatic \/ ReloadLimiter \/ ReloadRelease \/ ReloadCloseCache
    \/ ReloadResolve \/ ReloadConnect \/ ReloadConnectFails \/ ReloadAlias
    \/ ReloadNewExt \/ ReloadReadCache \/ ReloadStoreAuth

Close == CloseCancel \/ CloseDetach \/ CloseClient \/ CloseRelease

Next ==
    \/ Outage
    \/ \E r \in Requests : Request(r)
    \/ \E l \in Loops : Recovery(l)
    \/ Reload
    \/ Close

Spec == Init /\ [][Next]_vars

-----------------------------------------------------------------------------
(***************************************************************************)
(* Properties.                                                             *)
(***************************************************************************)

ReqPcs == {"idle", "call", "failed", "close", "start", "lock"}
LoopPcs == {"idle", "create", "check", "compare", "ping", "retry", "install",
            "wanted", "drop", "closeBoth", "swap", "closeOld", "rebind",
            "bindAuth", "bindExt", "exit"}
ReloadPcs == {"idle", "config", "release", "closeCache", "resolve", "connect",
              "alias", "newExt", "readCache", "storeAuth"}
ClosePcs == {"idle", "detach", "closeClient", "release", "closeCache", "done"}

Ptr == Clients \cup {NoClient}

\* The pointers, flags and counters of the chain and of its goroutines.
DataTyped ==
    /\ up \in BOOLEAN
    /\ open \subseteq Clients
    /\ limiter \in Ptr /\ params \in Configs
    /\ reconnecting \in BOOLEAN
    /\ cfg \in Configs /\ staticRL \in Configs /\ ctxDone \in BOOLEAN
    /\ cacheRedis \in Ptr /\ cacheRedisOwned \in BOOLEAN
    /\ authCacheRedis \in Ptr /\ externalRL \in BOOLEAN /\ extRedis \in Ptr
    /\ held \in [Procs -> Ptr] /\ doomed \in [Procs -> Ptr]
    /\ seen \in [Procs -> Configs]
    /\ attempt \in [Loops -> Nat]
    /\ outages \in Nat /\ reloads \in Nat

\* Every goroutine is somewhere in its own code.
PcsTyped ==
    /\ pc \in [Procs -> ReqPcs \cup LoopPcs \cup ReloadPcs \cup ClosePcs]
    /\ \A r \in Requests : pc[r] \in ReqPcs
    /\ \A l \in Loops : pc[l] \in LoopPcs
    /\ pc[Reloader] \in ReloadPcs /\ pc[Closer] \in ClosePcs

\* The type invariant.
TypeOK == DataTyped /\ PcsTyped

\* A loop's client is its own until it becomes the limiter's.
LoopOwns == {"check", "compare", "ping", "retry", "install", "wanted", "drop",
             "closeBoth", "swap"}

\* Who must close a client: the limiter, the chain for a dedicated cache, the
\* loop that made it, the goroutine that detached it.
CacheClient == IF cacheRedisOwned THEN cacheRedis ELSE NoClient
LoopClient(l) == IF pc[l] \in LoopOwns THEN held[l] ELSE NoClient

\* startRecoveryIfNeeded never runs two recovery loops at once: the flag is
\* up exactly while one goroutine is in recoveryLoop or about to clear it.
OneLoop ==
    /\ \A l, m \in Loops : pc[l] # "idle" /\ pc[m] # "idle" => l = m
    /\ reconnecting <=> \E l \in Loops : pc[l] # "idle"

\* No client leaks: whatever is open is the limiter's, the owned cache client,
\* a loop's, or detached by a goroutine that is about to close it.
NoLeak ==
    \A c \in open :
        \/ c = limiter \/ c = CacheClient
        \/ \E l \in Loops : c = LoopClient(l)
        \/ \E p \in Procs : c = doomed[p]

\* No client is closed under its owner, nor twice: owners hold open clients,
\* and no client has two owners.
SoleOwner ==
    /\ limiter # NoClient =>
          /\ limiter \in open /\ limiter # CacheClient
          /\ \A l \in Loops : limiter # LoopClient(l)
          /\ \A p \in Procs : limiter # doomed[p]
    /\ CacheClient # NoClient =>
          /\ CacheClient \in open
          /\ \A l \in Loops : CacheClient # LoopClient(l)
          /\ \A p \in Procs : CacheClient # doomed[p]
    /\ \A l \in Loops : LoopClient(l) # NoClient =>
          /\ LoopClient(l) \in open
          /\ \A p \in Procs : LoopClient(l) # doomed[p]
    /\ \A p \in Procs : doomed[p] # NoClient =>
          /\ doomed[p] \in open
          /\ \A q \in Procs : doomed[q] = doomed[p] => q = p

\* While a limiter is in place, a borrowed cache client is that limiter's, or
\* the loop that installed it is on its way to rebind the alias.
BorrowedFollowsLimiter ==
    limiter # NoClient /\ ~cacheRedisOwned /\ cacheRedis # NoClient =>
        \/ cacheRedis = limiter
        \/ \E l \in Loops : held[l] = limiter /\ pc[l] \in {"closeOld", "rebind"}

\* The rate-limit Redis is wanted and absent, and the chain is open.
NeedsRecovery ==
    limiter = NoClient /\ ~ctxDone /\ Limited(staticRL.avg, cfg.ext)

\* Somebody is restoring it: a loop before its install, or a request that
\* has detached the limiter and has yet to start one.
RecoveryUnderWay ==
    \/ \E l \in Loops : pc[l] \in {"create"} \cup (LoopOwns \ {"drop", "closeBoth"})
    \/ \E r \in Requests : pc[r] \in {"close", "start", "lock"}

\* Recovery is never abandoned: as long as the limiter is absent, a loop is
\* retrying or about to be started.
RecoveryNotAbandoned == NeedsRecovery => RecoveryUnderWay

-----------------------------------------------------------------------------
(***************************************************************************)
(* The inductive invariant behind the four properties of ownership.        *)
(***************************************************************************)

\* A goroutine closes what it detached before it detaches anything else.
ClosesFirst ==
    \A p \in Procs : doomed[p] # NoClient =>
        pc[p] \in {"close", "closeOld", "closeBoth", "closeClient", "closeCache"}

\* The cache client Reload has released stays released until Reload replaces
\* it: nothing else creates an owned one.
StaysReleased ==
    pc[Reloader] \in {"closeCache", "resolve", "connect", "alias"} => ~cacheRedisOwned

\* What a loop has installed is replaced by nobody else before it rebinds the
\* aliases: it can only be detached.
InstalledByLoop ==
    \A l \in Loops :
        pc[l] \in {"closeOld", "rebind"} => limiter \in {held[l], NoClient}

IInv ==
    /\ TypeOK /\ OneLoop /\ NoLeak /\ SoleOwner /\ BorrowedFollowsLimiter
    /\ ClosesFirst /\ StaysReleased /\ InstalledByLoop
=============================================================================
