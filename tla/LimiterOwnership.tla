-------------------------- MODULE LimiterOwnership --------------------------
(***************************************************************************)
(* LimiterLifecycle: who owns a Redis client after a step, and that the    *)
(* steps of requests, of Reload, of Close and of Redis itself keep the     *)
(* inductive invariant.  LimiterLifecycleProofs adds the recovery loop and *)
(* the theorems.                                                           *)
(***************************************************************************)
EXTENDS LimiterLifecycle, TLAPS

USE LifecycleAssumption DEF IInv, Procs, Goto, Hold, caches, config, locals, bounds

\* Everything ownership depends on.
owners == <<open, limiter, CacheClient, [l \in Loops |-> LoopClient(l)], doomed>>

\* A step that changes none of it keeps clients owned as they were.
LEMMA OwnersFrame ==
    ASSUME NoLeak, SoleOwner, UNCHANGED owners PROVE NoLeak' /\ SoleOwner'
<1>1. /\ UNCHANGED <<open, limiter, doomed>> /\ CacheClient' = CacheClient
      /\ \A l \in Loops : LoopClient(l)' = LoopClient(l)
  BY DEF owners
<1> QED
  BY <1>1 DEF NoLeak, SoleOwner

\* swapLimiterLocked(nil) hands the limiter's client to the goroutine p.
LEMMA DetachLimiter ==
    ASSUME TypeOK, NoLeak, SoleOwner, NEW p \in Procs, doomed[p] = NoClient,
           doomed' = [doomed EXCEPT ![p] = limiter], limiter' = NoClient,
           open' = open, CacheClient' = CacheClient,
           \A l \in Loops : LoopClient(l)' = LoopClient(l)
    PROVE  NoLeak' /\ SoleOwner'
<1>1. doomed \in [Procs -> Ptr] /\ open \subseteq Clients
  BY DEF TypeOK, PcsTyped, DataTyped
<1>2. NoLeak'
  BY <1>1 DEF NoLeak
<1>3. SoleOwner'
  BY <1>1 DEF SoleOwner
<1> QED
  BY <1>2, <1>3

\* releaseCacheRedis hands an owned cache client to the goroutine p.
LEMMA DetachCache ==
    ASSUME TypeOK, NoLeak, SoleOwner, NEW p \in Procs, doomed[p] = NoClient,
           doomed' = [doomed EXCEPT ![p] = CacheClient], CacheClient' = NoClient,
           open' = open, limiter' = limiter,
           \A l \in Loops : LoopClient(l)' = LoopClient(l)
    PROVE  NoLeak' /\ SoleOwner'
<1>1. doomed \in [Procs -> Ptr] /\ open \subseteq Clients
  BY DEF TypeOK, PcsTyped, DataTyped
<1>2. NoLeak'
  BY <1>1 DEF NoLeak
<1>3. SoleOwner'
  BY <1>1 DEF SoleOwner
<1> QED
  BY <1>2, <1>3

\* Closing a detached client takes it from its only owner.
LEMMA CloseDetached ==
    ASSUME TypeOK, NoLeak, SoleOwner, NEW p \in Procs, CloseDoomed(p),
           limiter' = limiter, CacheClient' = CacheClient,
           \A l \in Loops : LoopClient(l)' = LoopClient(l)
    PROVE  NoLeak' /\ SoleOwner'
<1>1. doomed \in [Procs -> Ptr] /\ open \subseteq Clients
  BY DEF TypeOK, PcsTyped, DataTyped
<1>2. NoLeak'
  BY <1>1 DEF NoLeak, CloseDoomed
<1>3. SoleOwner'
  BY <1>1 DEF SoleOwner, CloseDoomed, Ptr
<1> QED
  BY <1>2, <1>3

\* A loop makes a client, in the place of the one it had, if any.
LEMMA LoopAcquires ==
    ASSUME TypeOK, NoLeak, SoleOwner, NEW l \in Loops, NEW c \in Clients,
           c \notin open, open' = (open \ {LoopClient(l)}) \cup {c},
           UNCHANGED <<limiter, doomed>>, CacheClient' = CacheClient,
           LoopClient(l)' = c, \A m \in Loops \ {l} : LoopClient(m) = NoClient /\ LoopClient(m)' = NoClient
    PROVE  NoLeak' /\ SoleOwner'
<1>1. doomed \in [Procs -> Ptr] /\ open \subseteq Clients
  BY DEF TypeOK, PcsTyped, DataTyped
<1>2. NoLeak'
  BY <1>1 DEF NoLeak
<1>3. SoleOwner'
  BY <1>1 DEF SoleOwner
<1> QED
  BY <1>2, <1>3

\* A loop closes its client.
LEMMA LoopDiscards ==
    ASSUME TypeOK, NoLeak, SoleOwner, NEW l \in Loops,
           open' = open \ {LoopClient(l)}, UNCHANGED <<limiter, doomed>>,
           CacheClient' = CacheClient, LoopClient(l)' = NoClient,
           \A m \in Loops \ {l} : LoopClient(m) = NoClient /\ LoopClient(m)' = NoClient
    PROVE  NoLeak' /\ SoleOwner'
<1>1. doomed \in [Procs -> Ptr] /\ open \subseteq Clients
  BY DEF TypeOK, PcsTyped, DataTyped
<1>2. NoLeak'
  BY <1>1 DEF NoLeak
<1>3. SoleOwner'
  BY <1>1 DEF SoleOwner
<1> QED
  BY <1>2, <1>3

\* A loop closes its client and the one it has detached.
LEMMA LoopDiscardsBoth ==
    ASSUME TypeOK, NoLeak, SoleOwner, NEW l \in Loops,
           open' = open \ {doomed[l], LoopClient(l)}, limiter' = limiter,
           doomed' = [doomed EXCEPT ![l] = NoClient],
           CacheClient' = CacheClient, LoopClient(l)' = NoClient,
           \A m \in Loops \ {l} : LoopClient(m) = NoClient /\ LoopClient(m)' = NoClient
    PROVE  NoLeak' /\ SoleOwner'
<1>1. doomed \in [Procs -> Ptr] /\ open \subseteq Clients
  BY DEF TypeOK, PcsTyped, DataTyped
<1>2. NoLeak'
  BY <1>1 DEF NoLeak
<1>3. SoleOwner'
  BY <1>1 DEF SoleOwner
<1> QED
  BY <1>2, <1>3

\* A loop trades its client for the limiter's.
LEMMA LoopInstalls ==
    ASSUME TypeOK, NoLeak, SoleOwner, NEW l \in Loops, open' = open,
           doomed[l] = NoClient, doomed' = [doomed EXCEPT ![l] = limiter],
           limiter' = LoopClient(l), CacheClient' = CacheClient,
           LoopClient(l)' = NoClient, \A m \in Loops \ {l} : LoopClient(m) = NoClient /\ LoopClient(m)' = NoClient
    PROVE  NoLeak' /\ SoleOwner'
<1>1. doomed \in [Procs -> Ptr] /\ open \subseteq Clients
  BY DEF TypeOK, PcsTyped, DataTyped
<1>2. NoLeak'
  BY <1>1 DEF NoLeak
<1>3. SoleOwner'
  BY <1>1 DEF SoleOwner
<1> QED
  BY <1>2, <1>3

\* The chain gets a cache client of its own, having had none.
LEMMA CacheAcquired ==
    ASSUME TypeOK, NoLeak, SoleOwner, NEW c \in Clients, c \notin open,
           open' = open \cup {c}, UNCHANGED <<limiter, doomed>>,
           CacheClient = NoClient, CacheClient' = c,
           \A l \in Loops : LoopClient(l)' = LoopClient(l)
    PROVE  NoLeak' /\ SoleOwner'
<1>1. doomed \in [Procs -> Ptr] /\ open \subseteq Clients
  BY DEF TypeOK, PcsTyped, DataTyped
<1>2. NoLeak'
  BY <1>1 DEF NoLeak
<1>3. SoleOwner'
  BY <1>1 DEF SoleOwner
<1> QED
  BY <1>2, <1>3

\* There is a configuration to put into a dead local.
LEMMA UnsetIsConfig == TypeOK => Unset \in Configs
  BY DEF TypeOK, PcsTyped, DataTyped, Unset

-----------------------------------------------------------------------------
\* A goroutine that goes on within its own code leaves every other where it is.

LEMMA ReqMoves ==
    ASSUME PcsTyped, NEW r \in Requests, NEW to \in ReqPcs, pc' = [pc EXCEPT ![r] = to]
    PROVE  PcsTyped'
BY DEF PcsTyped

LEMMA LoopMoves ==
    ASSUME PcsTyped, NEW l \in Loops, NEW to \in LoopPcs, pc' = [pc EXCEPT ![l] = to]
    PROVE  PcsTyped'
BY DEF PcsTyped

LEMMA ReqStarts ==
    ASSUME PcsTyped, NEW r \in Requests, NEW l \in Loops, NEW to \in ReqPcs, NEW at \in LoopPcs,
           pc' = [pc EXCEPT ![r] = to, ![l] = at]
    PROVE  PcsTyped'
BY DEF PcsTyped

LEMMA ReloadMoves ==
    ASSUME PcsTyped, NEW to \in ReloadPcs, pc' = [pc EXCEPT ![Reloader] = to]
    PROVE  PcsTyped'
BY DEF PcsTyped

LEMMA CloseMoves ==
    ASSUME PcsTyped, NEW to \in ClosePcs, pc' = [pc EXCEPT ![Closer] = to]
    PROVE  PcsTyped'
BY DEF PcsTyped

-----------------------------------------------------------------------------
\* One lemma per action.

\* tryRedisLimit takes a reference that owns nothing.
LEMMA ReqLoadKeeps == ASSUME NEW r \in Requests, IInv, ReqLoad(r) PROVE IInv'
<1> USE DEF ReqLoad
<1>1. TypeOK'
  <2>1. PcsTyped' BY ReqMoves DEF TypeOK, PcsTyped, ReqPcs
  <2>2. DataTyped' BY DEF TypeOK, DataTyped, Ptr
  <2> QED BY <2>1, <2>2 DEF TypeOK
<1>2. OneLoop' BY DEF TypeOK, PcsTyped, OneLoop
<1>3. ClosesFirst' /\ StaysReleased' BY DEF TypeOK, PcsTyped, DataTyped, ClosesFirst,
                                            StaysReleased
<1>4. BorrowedFollowsLimiter' /\ InstalledByLoop'
  BY DEF TypeOK, PcsTyped, DataTyped, OneLoop, BorrowedFollowsLimiter, InstalledByLoop
<1>5. UNCHANGED owners
  BY DEF TypeOK, PcsTyped, DataTyped, owners, CacheClient, LoopClient, LoopOwns
<1> QED BY <1>1, <1>2, <1>3, <1>4, <1>5, OwnersFrame

\* A call that ends well, or with an error that is not about connectivity.
LEMMA ReqDoneKeeps == ASSUME NEW r \in Requests, IInv, ReqDone(r) PROVE IInv'
<1> USE DEF ReqDone
<1>1. TypeOK'
  <2>1. PcsTyped' BY ReqMoves DEF TypeOK, PcsTyped, ReqPcs
  <2>2. DataTyped' BY DEF TypeOK, DataTyped, Ptr
  <2> QED BY <2>1, <2>2 DEF TypeOK
<1>2. OneLoop' BY DEF TypeOK, PcsTyped, OneLoop
<1>3. ClosesFirst' /\ StaysReleased' BY DEF TypeOK, PcsTyped, DataTyped, ClosesFirst,
                                            StaysReleased
<1>4. BorrowedFollowsLimiter' /\ InstalledByLoop'
  BY DEF TypeOK, PcsTyped, DataTyped, OneLoop, BorrowedFollowsLimiter, InstalledByLoop
<1>5. UNCHANGED owners
  BY DEF TypeOK, PcsTyped, DataTyped, owners, CacheClient, LoopClient, LoopOwns
<1> QED BY <1>1, <1>2, <1>3, <1>4, <1>5, OwnersFrame

\* A call that fails for connectivity.
LEMMA ReqFailKeeps == ASSUME NEW r \in Requests, IInv, ReqFail(r) PROVE IInv'
<1> USE DEF ReqFail
<1>1. TypeOK'
  <2>1. PcsTyped' BY ReqMoves DEF TypeOK, PcsTyped, ReqPcs
  <2>2. DataTyped' BY DEF TypeOK, DataTyped, Ptr
  <2> QED BY <2>1, <2>2 DEF TypeOK
<1>2. OneLoop' BY DEF TypeOK, PcsTyped, OneLoop
<1>3. ClosesFirst' /\ StaysReleased' BY DEF TypeOK, PcsTyped, DataTyped, ClosesFirst,
                                            StaysReleased
<1>4. BorrowedFollowsLimiter' /\ InstalledByLoop'
  BY DEF TypeOK, PcsTyped, DataTyped, OneLoop, BorrowedFollowsLimiter, InstalledByLoop
<1>5. UNCHANGED owners
  BY DEF TypeOK, PcsTyped, DataTyped, owners, CacheClient, LoopClient, LoopOwns
<1> QED BY <1>1, <1>2, <1>3, <1>4, <1>5, OwnersFrame

\* handleLimiterError takes the limiter's client over, to close it.
LEMMA ReqDetachKeeps == ASSUME NEW r \in Requests, IInv, ReqDetach(r) PROVE IInv'
<1> USE DEF ReqDetach, SwapLimiter
<1>1. TypeOK'
  <2>1. PcsTyped' BY ReqMoves DEF TypeOK, PcsTyped, ReqPcs
  <2>2. DataTyped' BY DEF TypeOK, DataTyped, Ptr
  <2> QED BY <2>1, <2>2 DEF TypeOK
<1>2. OneLoop' BY DEF TypeOK, PcsTyped, OneLoop
<1>3. ClosesFirst' /\ StaysReleased' BY DEF TypeOK, PcsTyped, DataTyped, ClosesFirst,
                                            StaysReleased
<1>4. BorrowedFollowsLimiter' /\ InstalledByLoop'
  BY DEF TypeOK, PcsTyped, DataTyped, OneLoop, BorrowedFollowsLimiter, InstalledByLoop
<1>5. CacheClient' = CacheClient /\ \A l \in Loops : LoopClient(l)' = LoopClient(l)
  BY DEF TypeOK, PcsTyped, DataTyped, CacheClient, LoopClient, LoopOwns
<1>6. doomed[r] = NoClient /\ doomed' = [doomed EXCEPT ![r] = limiter]
  BY DEF ClosesFirst
<1>7. NoLeak' /\ SoleOwner' BY <1>5, <1>6, DetachLimiter
<1> QED BY <1>1, <1>2, <1>3, <1>4, <1>7

\* handleLimiterError closes what it took over.
LEMMA ReqCloseKeeps == ASSUME NEW r \in Requests, IInv, ReqClose(r) PROVE IInv'
<1> USE DEF ReqClose
<1>1. TypeOK'
  <2>1. PcsTyped' BY ReqMoves DEF TypeOK, PcsTyped, ReqPcs
  <2>2. DataTyped' BY DEF TypeOK, DataTyped, Ptr, CloseDoomed
  <2> QED BY <2>1, <2>2 DEF TypeOK
<1>2. OneLoop' BY DEF TypeOK, PcsTyped, OneLoop
<1>3. ClosesFirst' /\ StaysReleased'
  BY DEF TypeOK, PcsTyped, DataTyped, ClosesFirst, StaysReleased, CloseDoomed
<1>4. BorrowedFollowsLimiter' /\ InstalledByLoop'
  BY DEF TypeOK, PcsTyped, DataTyped, OneLoop, BorrowedFollowsLimiter, InstalledByLoop
<1>5. CacheClient' = CacheClient /\ \A l \in Loops : LoopClient(l)' = LoopClient(l)
  BY DEF TypeOK, PcsTyped, DataTyped, CacheClient, LoopClient, LoopOwns
<1>6. CloseDoomed(r) /\ limiter' = limiter OBVIOUS
<1>7. NoLeak' /\ SoleOwner' BY <1>5, <1>6, CloseDetached
<1> QED BY <1>1, <1>2, <1>3, <1>4, <1>7

\* startRecoveryIfNeeded looks at the chain's context.
LEMMA ReqCheckCtxKeeps == ASSUME NEW r \in Requests, IInv, ReqCheckCtx(r) PROVE IInv'
<1> USE DEF ReqCheckCtx
<1>1. TypeOK'
  <2>1. PcsTyped' BY ReqMoves DEF TypeOK, PcsTyped, ReqPcs
  <2>2. DataTyped' BY DEF TypeOK, DataTyped, Ptr
  <2> QED BY <2>1, <2>2 DEF TypeOK
<1>2. OneLoop' BY DEF TypeOK, PcsTyped, OneLoop
<1>3. ClosesFirst' /\ StaysReleased' BY DEF TypeOK, PcsTyped, DataTyped, ClosesFirst,
                                            StaysReleased
<1>4. BorrowedFollowsLimiter' /\ InstalledByLoop'
  BY DEF TypeOK, PcsTyped, DataTyped, OneLoop, BorrowedFollowsLimiter, InstalledByLoop
<1>5. UNCHANGED owners
  BY DEF TypeOK, PcsTyped, DataTyped, owners, CacheClient, LoopClient, LoopOwns
<1> QED BY <1>1, <1>2, <1>3, <1>4, <1>5, OwnersFrame

\* startRecoveryIfNeeded leaves recovery to the loop there is.
LEMMA ReqNoStartKeeps == ASSUME NEW r \in Requests, IInv, ReqNoStart(r) PROVE IInv'
<1> USE DEF ReqNoStart
<1>1. TypeOK'
  <2>1. PcsTyped' BY ReqMoves DEF TypeOK, PcsTyped, ReqPcs
  <2>2. DataTyped' BY DEF TypeOK, DataTyped, Ptr
  <2> QED BY <2>1, <2>2 DEF TypeOK
<1>2. OneLoop' BY DEF TypeOK, PcsTyped, OneLoop
<1>3. ClosesFirst' /\ StaysReleased' BY DEF TypeOK, PcsTyped, DataTyped, ClosesFirst,
                                            StaysReleased
<1>4. BorrowedFollowsLimiter' /\ InstalledByLoop'
  BY DEF TypeOK, PcsTyped, DataTyped, OneLoop, BorrowedFollowsLimiter, InstalledByLoop
<1>5. UNCHANGED owners
  BY DEF TypeOK, PcsTyped, DataTyped, owners, CacheClient, LoopClient, LoopOwns
<1> QED BY <1>1, <1>2, <1>3, <1>4, <1>5, OwnersFrame

\* startRecoveryIfNeeded starts the only loop.
LEMMA ReqStartKeeps == ASSUME NEW r \in Requests, IInv, ReqStart(r) PROVE IInv'
<1> USE DEF ReqStart
<1>1. TypeOK'
  <2>1. PICK l \in Loops : pc' = [pc EXCEPT ![r] = "idle", ![l] = "create"] OBVIOUS
  <2>2. "idle" \in ReqPcs /\ "create" \in LoopPcs BY DEF ReqPcs, LoopPcs
  <2>3. PcsTyped' BY <2>1, <2>2, ReqStarts DEF TypeOK
  <2>4. DataTyped' BY DEF TypeOK, DataTyped, Ptr
  <2> QED BY <2>3, <2>4 DEF TypeOK
<1>2. OneLoop' BY DEF TypeOK, PcsTyped, OneLoop
<1>3. ClosesFirst' /\ StaysReleased' BY DEF TypeOK, PcsTyped, DataTyped, ClosesFirst,
                                            StaysReleased
<1>4. BorrowedFollowsLimiter' /\ InstalledByLoop'
  BY DEF TypeOK, PcsTyped, DataTyped, OneLoop, BorrowedFollowsLimiter, InstalledByLoop
<1>5. UNCHANGED owners
  BY DEF TypeOK, PcsTyped, DataTyped, owners, CacheClient, LoopClient, LoopOwns
<1> QED BY <1>1, <1>2, <1>3, <1>4, <1>5, OwnersFrame

\* Redis goes or comes back.
LEMMA OutageKeeps == ASSUME IInv, Outage PROVE IInv'
<1> USE DEF Outage
<1>1. TypeOK'
  <2>1. PcsTyped' BY DEF TypeOK, PcsTyped
  <2>2. DataTyped' BY DEF TypeOK, DataTyped, Ptr
  <2> QED BY <2>1, <2>2 DEF TypeOK
<1>2. OneLoop' BY DEF TypeOK, PcsTyped, OneLoop
<1>3. ClosesFirst' /\ StaysReleased' BY DEF TypeOK, PcsTyped, DataTyped, ClosesFirst,
                                            StaysReleased
<1>4. BorrowedFollowsLimiter' /\ InstalledByLoop'
  BY DEF TypeOK, PcsTyped, DataTyped, OneLoop, BorrowedFollowsLimiter, InstalledByLoop
<1>5. UNCHANGED owners
  BY DEF TypeOK, PcsTyped, DataTyped, owners, CacheClient, LoopClient, LoopOwns
<1> QED BY <1>1, <1>2, <1>3, <1>4, <1>5, OwnersFrame

\* Reload swaps c.staticRL.
LEMMA ReloadStaticKeeps == ASSUME IInv, ReloadStatic PROVE IInv'
<1> USE DEF ReloadStatic
<1>1. TypeOK'
  <2>1. PcsTyped' BY ReloadMoves DEF TypeOK, PcsTyped, ReloadPcs
  <2>2. DataTyped' BY DEF TypeOK, DataTyped, Ptr
  <2> QED BY <2>1, <2>2 DEF TypeOK
<1>2. OneLoop' BY DEF TypeOK, PcsTyped, OneLoop
<1>3. ClosesFirst' /\ StaysReleased' BY DEF TypeOK, PcsTyped, DataTyped, ClosesFirst,
                                            StaysReleased
<1>4. BorrowedFollowsLimiter' /\ InstalledByLoop'
  BY DEF TypeOK, PcsTyped, DataTyped, OneLoop, BorrowedFollowsLimiter, InstalledByLoop
<1>5. UNCHANGED owners
  BY DEF TypeOK, PcsTyped, DataTyped, owners, CacheClient, LoopClient, LoopOwns
<1> QED BY <1>1, <1>2, <1>3, <1>4, <1>5, OwnersFrame

\* Reload rebuilds the limiter on the same client.
LEMMA ReloadLimiterKeeps == ASSUME IInv, ReloadLimiter PROVE IInv'
<1> USE DEF ReloadLimiter
<1>1. TypeOK'
  <2>1. PcsTyped' BY ReloadMoves DEF TypeOK, PcsTyped, ReloadPcs
  <2>2. DataTyped' BY DEF TypeOK, DataTyped, Ptr
  <2> QED BY <2>1, <2>2 DEF TypeOK
<1>2. OneLoop' BY DEF TypeOK, PcsTyped, OneLoop
<1>3. ClosesFirst' /\ StaysReleased' BY DEF TypeOK, PcsTyped, DataTyped, ClosesFirst,
                                            StaysReleased
<1>4. BorrowedFollowsLimiter' /\ InstalledByLoop'
  BY DEF TypeOK, PcsTyped, DataTyped, OneLoop, BorrowedFollowsLimiter, InstalledByLoop
<1>5. UNCHANGED owners
  BY DEF TypeOK, PcsTyped, DataTyped, owners, CacheClient, LoopClient, LoopOwns
<1> QED BY <1>1, <1>2, <1>3, <1>4, <1>5, OwnersFrame

\* releaseCacheRedis takes an owned cache client over.
LEMMA ReloadReleaseKeeps == ASSUME IInv, ReloadRelease PROVE IInv'
<1> USE DEF ReloadRelease, ReleaseCache
<1>1. TypeOK'
  <2>1. PcsTyped' BY ReloadMoves DEF TypeOK, PcsTyped, ReloadPcs
  <2>2. DataTyped' BY DEF TypeOK, DataTyped, Ptr
  <2> QED BY <2>1, <2>2 DEF TypeOK
<1>2. OneLoop' BY DEF TypeOK, PcsTyped, OneLoop
<1>3. ClosesFirst' /\ StaysReleased' BY DEF TypeOK, PcsTyped, DataTyped, ClosesFirst,
                                            StaysReleased
<1>4. BorrowedFollowsLimiter' /\ InstalledByLoop'
  BY DEF TypeOK, PcsTyped, DataTyped, OneLoop, BorrowedFollowsLimiter, InstalledByLoop
<1>5. CacheClient' = NoClient /\ \A l \in Loops : LoopClient(l)' = LoopClient(l)
  BY DEF TypeOK, PcsTyped, DataTyped, CacheClient, LoopClient, LoopOwns
<1>6. doomed[Reloader] = NoClient /\ doomed' = [doomed EXCEPT ![Reloader] = CacheClient]
  BY DEF ClosesFirst, CacheClient
<1>7. NoLeak' /\ SoleOwner' BY <1>5, <1>6, DetachCache
<1> QED BY <1>1, <1>2, <1>3, <1>4, <1>7

\* releaseCacheRedis closes it.
LEMMA ReloadCloseCacheKeeps == ASSUME IInv, ReloadCloseCache PROVE IInv'
<1> USE DEF ReloadCloseCache
<1>1. TypeOK'
  <2>1. PcsTyped' BY ReloadMoves DEF TypeOK, PcsTyped, ReloadPcs
  <2>2. DataTyped' BY DEF TypeOK, DataTyped, Ptr, CloseDoomed
  <2> QED BY <2>1, <2>2 DEF TypeOK
<1>2. OneLoop' BY DEF TypeOK, PcsTyped, OneLoop
<1>3. ClosesFirst' /\ StaysReleased'
  BY DEF TypeOK, PcsTyped, DataTyped, ClosesFirst, StaysReleased, CloseDoomed
<1>4. BorrowedFollowsLimiter' /\ InstalledByLoop'
  BY DEF TypeOK, PcsTyped, DataTyped, OneLoop, BorrowedFollowsLimiter, InstalledByLoop
<1>5. CacheClient' = CacheClient /\ \A l \in Loops : LoopClient(l)' = LoopClient(l)
  BY DEF TypeOK, PcsTyped, DataTyped, CacheClient, LoopClient, LoopOwns
<1>6. CloseDoomed(Reloader) /\ limiter' = limiter OBVIOUS
<1>7. NoLeak' /\ SoleOwner' BY <1>5, <1>6, CloseDetached
<1> QED BY <1>1, <1>2, <1>3, <1>4, <1>7

\* resolveCacheRedis looks for a client.
LEMMA ReloadResolveKeeps == ASSUME IInv, ReloadResolve PROVE IInv'
<1> USE DEF ReloadResolve
<1>1. TypeOK'
  <2>1. PcsTyped' BY ReloadMoves DEF TypeOK, PcsTyped, ReloadPcs
  <2>2. DataTyped' BY DEF TypeOK, DataTyped, Ptr
  <2> QED BY <2>1, <2>2 DEF TypeOK
<1>2. OneLoop' BY DEF TypeOK, PcsTyped, OneLoop
<1>3. ClosesFirst' /\ StaysReleased' BY DEF TypeOK, PcsTyped, DataTyped, ClosesFirst,
                                            StaysReleased
<1>4. BorrowedFollowsLimiter' /\ InstalledByLoop'
  BY DEF TypeOK, PcsTyped, DataTyped, OneLoop, BorrowedFollowsLimiter, InstalledByLoop
<1>5. UNCHANGED owners
  BY DEF TypeOK, PcsTyped, DataTyped, owners, CacheClient, LoopClient, LoopOwns
<1> QED BY <1>1, <1>2, <1>3, <1>4, <1>5, OwnersFrame

\* resolveCacheRedis connects to the dedicated cache.
LEMMA ReloadConnectKeeps == ASSUME IInv, ReloadConnect PROVE IInv'
<1> USE DEF ReloadConnect, Unreferenced
<1>1. TypeOK'
  <2>1. PcsTyped' BY ReloadMoves DEF TypeOK, PcsTyped, ReloadPcs
  <2>2. DataTyped' BY DEF TypeOK, DataTyped, Ptr
  <2> QED BY <2>1, <2>2 DEF TypeOK
<1>2. OneLoop' BY DEF TypeOK, PcsTyped, OneLoop
<1>3. ClosesFirst' /\ StaysReleased' BY DEF TypeOK, PcsTyped, DataTyped, ClosesFirst,
                                            StaysReleased
<1>4. BorrowedFollowsLimiter' /\ InstalledByLoop'
  BY DEF TypeOK, PcsTyped, DataTyped, OneLoop, BorrowedFollowsLimiter, InstalledByLoop
<1>5. PICK c \in Clients : c \notin open /\ open' = open \cup {c} /\ cacheRedis' = c
  BY DEF Unreferenced
<1>6. /\ CacheClient = NoClient /\ CacheClient' = c
      /\ \A l \in Loops : LoopClient(l)' = LoopClient(l)
  BY <1>5 DEF TypeOK, PcsTyped, DataTyped, CacheClient, LoopClient, LoopOwns, StaysReleased
<1>7. NoLeak' /\ SoleOwner' BY <1>5, <1>6, CacheAcquired
<1> QED BY <1>1, <1>2, <1>3, <1>4, <1>7

\* The dedicated cache does not answer.
LEMMA ReloadConnectFailsKeeps == ASSUME IInv, ReloadConnectFails PROVE IInv'
<1> USE DEF ReloadConnectFails
<1>1. TypeOK'
  <2>1. PcsTyped' BY ReloadMoves DEF TypeOK, PcsTyped, ReloadPcs
  <2>2. DataTyped' BY DEF TypeOK, DataTyped, Ptr
  <2> QED BY <2>1, <2>2 DEF TypeOK
<1>2. OneLoop' BY DEF TypeOK, PcsTyped, OneLoop
<1>3. ClosesFirst' /\ StaysReleased' BY DEF TypeOK, PcsTyped, DataTyped, ClosesFirst,
                                            StaysReleased
<1>4. BorrowedFollowsLimiter' /\ InstalledByLoop'
  BY DEF TypeOK, PcsTyped, DataTyped, OneLoop, BorrowedFollowsLimiter, InstalledByLoop
<1>5. UNCHANGED owners
  BY DEF TypeOK, PcsTyped, DataTyped, owners, CacheClient, LoopClient, LoopOwns
<1> QED BY <1>1, <1>2, <1>3, <1>4, <1>5, OwnersFrame

\* resolveCacheRedis borrows the limiter's client.
LEMMA ReloadAliasKeeps == ASSUME IInv, ReloadAlias PROVE IInv'
<1> USE DEF ReloadAlias
<1>1. TypeOK'
  <2>1. PcsTyped' BY ReloadMoves DEF TypeOK, PcsTyped, ReloadPcs
  <2>2. DataTyped' BY DEF TypeOK, DataTyped, Ptr
  <2> QED BY <2>1, <2>2 DEF TypeOK
<1>2. OneLoop' BY DEF TypeOK, PcsTyped, OneLoop
<1>3. ClosesFirst' /\ StaysReleased' BY DEF TypeOK, PcsTyped, DataTyped, ClosesFirst,
                                            StaysReleased
<1>4. BorrowedFollowsLimiter' /\ InstalledByLoop'
  BY DEF TypeOK, PcsTyped, DataTyped, OneLoop, BorrowedFollowsLimiter, InstalledByLoop
<1>5. UNCHANGED owners
  BY DEF TypeOK, PcsTyped, DataTyped, owners, CacheClient, LoopClient, LoopOwns, StaysReleased
<1> QED BY <1>1, <1>2, <1>3, <1>4, <1>5, OwnersFrame

\* reloadExternalRL swaps the external client, or keeps the old one.
LEMMA ReloadNewExtKeeps == ASSUME IInv, ReloadNewExt PROVE IInv'
<1> USE DEF ReloadNewExt
<1>1. TypeOK'
  <2>1. PcsTyped' BY ReloadMoves DEF TypeOK, PcsTyped, ReloadPcs
  <2>2. DataTyped' BY DEF TypeOK, DataTyped, Ptr
  <2> QED BY <2>1, <2>2 DEF TypeOK
<1>2. OneLoop' BY DEF TypeOK, PcsTyped, OneLoop
<1>3. ClosesFirst' /\ StaysReleased' BY DEF TypeOK, PcsTyped, DataTyped, ClosesFirst,
                                            StaysReleased
<1>4. BorrowedFollowsLimiter' /\ InstalledByLoop'
  BY DEF TypeOK, PcsTyped, DataTyped, OneLoop, BorrowedFollowsLimiter, InstalledByLoop
<1>5. UNCHANGED owners
  BY DEF TypeOK, PcsTyped, DataTyped, owners, CacheClient, LoopClient, LoopOwns
<1> QED BY <1>1, <1>2, <1>3, <1>4, <1>5, OwnersFrame

\* Reload reads c.cacheRedis.
LEMMA ReloadReadCacheKeeps == ASSUME IInv, ReloadReadCache PROVE IInv'
<1> USE DEF ReloadReadCache
<1>1. TypeOK'
  <2>1. PcsTyped' BY ReloadMoves DEF TypeOK, PcsTyped, ReloadPcs
  <2>2. DataTyped' BY DEF TypeOK, DataTyped, Ptr
  <2> QED BY <2>1, <2>2 DEF TypeOK
<1>2. OneLoop' BY DEF TypeOK, PcsTyped, OneLoop
<1>3. ClosesFirst' /\ StaysReleased' BY DEF TypeOK, PcsTyped, DataTyped, ClosesFirst,
                                            StaysReleased
<1>4. BorrowedFollowsLimiter' /\ InstalledByLoop'
  BY DEF TypeOK, PcsTyped, DataTyped, OneLoop, BorrowedFollowsLimiter, InstalledByLoop
<1>5. UNCHANGED owners
  BY DEF TypeOK, PcsTyped, DataTyped, owners, CacheClient, LoopClient, LoopOwns
<1> QED BY <1>1, <1>2, <1>3, <1>4, <1>5, OwnersFrame

\* Reload stores it for the auth cache.
LEMMA ReloadStoreAuthKeeps == ASSUME IInv, ReloadStoreAuth PROVE IInv'
<1> USE DEF ReloadStoreAuth
<1>1. TypeOK'
  <2>1. PcsTyped' BY ReloadMoves DEF TypeOK, PcsTyped, ReloadPcs
  <2>2. DataTyped' BY UnsetIsConfig DEF TypeOK, DataTyped, Ptr
  <2> QED BY <2>1, <2>2 DEF TypeOK
<1>2. OneLoop' BY DEF TypeOK, PcsTyped, OneLoop
<1>3. ClosesFirst' /\ StaysReleased' BY DEF TypeOK, PcsTyped, DataTyped, ClosesFirst,
                                            StaysReleased
<1>4. BorrowedFollowsLimiter' /\ InstalledByLoop'
  BY DEF TypeOK, PcsTyped, DataTyped, OneLoop, BorrowedFollowsLimiter, InstalledByLoop
<1>5. UNCHANGED owners
  BY DEF TypeOK, PcsTyped, DataTyped, owners, CacheClient, LoopClient, LoopOwns
<1> QED BY <1>1, <1>2, <1>3, <1>4, <1>5, OwnersFrame

\* Close cancels the context.
LEMMA CloseCancelKeeps == ASSUME IInv, CloseCancel PROVE IInv'
<1> USE DEF CloseCancel
<1>1. TypeOK'
  <2>1. PcsTyped' BY CloseMoves DEF TypeOK, PcsTyped, ClosePcs
  <2>2. DataTyped' BY DEF TypeOK, DataTyped, Ptr
  <2> QED BY <2>1, <2>2 DEF TypeOK
<1>2. OneLoop' BY DEF TypeOK, PcsTyped, OneLoop
<1>3. ClosesFirst' /\ StaysReleased' BY DEF TypeOK, PcsTyped, DataTyped, ClosesFirst,
                                            StaysReleased
<1>4. BorrowedFollowsLimiter' /\ InstalledByLoop'
  BY DEF TypeOK, PcsTyped, DataTyped, OneLoop, BorrowedFollowsLimiter, InstalledByLoop
<1>5. UNCHANGED owners
  BY DEF TypeOK, PcsTyped, DataTyped, owners, CacheClient, LoopClient, LoopOwns
<1> QED BY <1>1, <1>2, <1>3, <1>4, <1>5, OwnersFrame

\* Close takes the limiter's client over.
LEMMA CloseDetachKeeps == ASSUME IInv, CloseDetach PROVE IInv'
<1> USE DEF CloseDetach, SwapLimiter
<1>1. TypeOK'
  <2>1. PcsTyped' BY CloseMoves DEF TypeOK, PcsTyped, ClosePcs
  <2>2. DataTyped' BY DEF TypeOK, DataTyped, Ptr
  <2> QED BY <2>1, <2>2 DEF TypeOK
<1>2. OneLoop' BY DEF TypeOK, PcsTyped, OneLoop
<1>3. ClosesFirst' /\ StaysReleased' BY DEF TypeOK, PcsTyped, DataTyped, ClosesFirst,
                                            StaysReleased
<1>4. BorrowedFollowsLimiter' /\ InstalledByLoop'
  BY DEF TypeOK, PcsTyped, DataTyped, OneLoop, BorrowedFollowsLimiter, InstalledByLoop
<1>5. CacheClient' = CacheClient /\ \A l \in Loops : LoopClient(l)' = LoopClient(l)
  BY DEF TypeOK, PcsTyped, DataTyped, CacheClient, LoopClient, LoopOwns
<1>6. doomed[Closer] = NoClient /\ doomed' = [doomed EXCEPT ![Closer] = limiter]
  BY DEF ClosesFirst
<1>7. NoLeak' /\ SoleOwner' BY <1>5, <1>6, DetachLimiter
<1> QED BY <1>1, <1>2, <1>3, <1>4, <1>7

\* closeResources closes what it took over.
LEMMA CloseClientKeeps == ASSUME IInv, CloseClient PROVE IInv'
<1> USE DEF CloseClient
<1>1. TypeOK'
  <2>1. PcsTyped' BY CloseMoves DEF TypeOK, PcsTyped, ClosePcs
  <2>2. DataTyped' BY DEF TypeOK, DataTyped, Ptr, CloseDoomed
  <2> QED BY <2>1, <2>2 DEF TypeOK
<1>2. OneLoop' BY DEF TypeOK, PcsTyped, OneLoop
<1>3. ClosesFirst' /\ StaysReleased'
  BY DEF TypeOK, PcsTyped, DataTyped, ClosesFirst, StaysReleased, CloseDoomed
<1>4. BorrowedFollowsLimiter' /\ InstalledByLoop'
  BY DEF TypeOK, PcsTyped, DataTyped, OneLoop, BorrowedFollowsLimiter, InstalledByLoop
<1>5. CacheClient' = CacheClient /\ \A l \in Loops : LoopClient(l)' = LoopClient(l)
  BY DEF TypeOK, PcsTyped, DataTyped, CacheClient, LoopClient, LoopOwns
<1>6. CloseDoomed(Closer) /\ limiter' = limiter OBVIOUS
<1>7. NoLeak' /\ SoleOwner' BY <1>5, <1>6, CloseDetached
<1> QED BY <1>1, <1>2, <1>3, <1>4, <1>7

\* closeResources releases the cache client.
LEMMA CloseReleaseKeeps == ASSUME IInv, CloseRelease PROVE IInv'
<1> USE DEF CloseRelease, ReleaseCache
<1>1. TypeOK'
  <2>1. PcsTyped' BY CloseMoves DEF TypeOK, PcsTyped, ClosePcs
  <2>2. DataTyped' BY DEF TypeOK, DataTyped, Ptr
  <2> QED BY <2>1, <2>2 DEF TypeOK
<1>2. OneLoop' BY DEF TypeOK, PcsTyped, OneLoop
<1>3. ClosesFirst' /\ StaysReleased' BY DEF TypeOK, PcsTyped, DataTyped, ClosesFirst,
                                            StaysReleased
<1>4. BorrowedFollowsLimiter' /\ InstalledByLoop'
  BY DEF TypeOK, PcsTyped, DataTyped, OneLoop, BorrowedFollowsLimiter, InstalledByLoop
<1>5. CacheClient' = NoClient /\ \A l \in Loops : LoopClient(l)' = LoopClient(l)
  BY DEF TypeOK, PcsTyped, DataTyped, CacheClient, LoopClient, LoopOwns
<1>6. doomed[Closer] = NoClient /\ doomed' = [doomed EXCEPT ![Closer] = CacheClient]
  BY DEF ClosesFirst, CacheClient
<1>7. NoLeak' /\ SoleOwner' BY <1>5, <1>6, DetachCache
<1> QED BY <1>1, <1>2, <1>3, <1>4, <1>7
=============================================================================
