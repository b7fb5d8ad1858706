---------------------- MODULE LimiterLifecycleProofs ------------------------
(***************************************************************************)
(* Proofs about LimiterLifecycle, for every number of requests, loops,     *)
(* clients and configurations: at most one recovery loop runs, no Redis    *)
(* client leaks, and none is closed while, or by anyone but, its owner.    *)
(***************************************************************************)
EXTENDS LimiterOwnership

USE LifecycleAssumption DEF IInv, Procs, Goto, Hold, caches, config, locals, bounds

\* One lemma per action of the recovery loop.

\* recoveryLoop makes a client, and owns it.
LEMMA LoopCreateKeeps == ASSUME NEW l \in Loops, IInv, LoopCreate(l) PROVE IInv'
<1> USE DEF LoopCreate, Unreferenced
<1>1. TypeOK'
  <2>1. PcsTyped' BY LoopMoves DEF TypeOK, PcsTyped, LoopPcs
  <2>2. DataTyped' BY DEF TypeOK, DataTyped, Ptr
  <2> QED BY <2>1, <2>2 DEF TypeOK
<1>2. OneLoop' BY DEF TypeOK, PcsTyped, OneLoop
<1>3. ClosesFirst' /\ StaysReleased' BY DEF TypeOK, PcsTyped, DataTyped, ClosesFirst,
                                            StaysReleased
<1>4. BorrowedFollowsLimiter' /\ InstalledByLoop'
  BY DEF TypeOK, PcsTyped, DataTyped, OneLoop, BorrowedFollowsLimiter, InstalledByLoop
<1>5. PICK c \in Clients : /\ c \notin open /\ open' = open \cup {c}
                          /\ held' = [held EXCEPT ![l] = c]
  BY DEF Unreferenced
<1>6. /\ CacheClient' = CacheClient /\ LoopClient(l) = NoClient /\ LoopClient(l)' = c
      /\ \A m \in Loops \ {l} : LoopClient(m) = NoClient /\ LoopClient(m)' = NoClient
  BY <1>5 DEF TypeOK, PcsTyped, DataTyped, OneLoop, CacheClient, LoopClient, LoopOwns
<1>7. open' = (open \ {LoopClient(l)}) \cup {c}
  BY <1>5, <1>6 DEF TypeOK, PcsTyped, DataTyped
<1>8. NoLeak' /\ SoleOwner' BY <1>5, <1>6, <1>7, LoopAcquires
<1> QED BY <1>1, <1>2, <1>3, <1>4, <1>8

\* recoveryLoop gives up without a client.
LEMMA LoopCannotCreateKeeps == ASSUME NEW l \in Loops, IInv, LoopCannotCreate(l) PROVE IInv'
<1> USE DEF LoopCannotCreate
<1>1. TypeOK'
  <2>1. PcsTyped' BY LoopMoves DEF TypeOK, PcsTyped, LoopPcs
  <2>2. DataTyped' BY DEF TypeOK, DataTyped, Ptr
  <2> QED BY <2>1, <2>2 DEF TypeOK
<1>2. OneLoop' BY DEF TypeOK, PcsTyped, OneLoop
<1>3. ClosesFirst' /\ StaysReleased' BY DEF TypeOK, PcsTyped, DataTyped, ClosesFirst,
                                            StaysReleased
<1>4. BorrowedFollowsLimiter' /\ InstalledByLoop'
  BY DEF TypeOK, PcsTyped, DataTyped, OneLoop, BorrowedFollowsLimiter, InstalledByLoop
<1>5. UNCHANGED owners
  BY DEF TypeOK, PcsTyped, DataTyped, owners, CacheClient, LoopClient, LoopOwns
<1> QED BY <1>1, <1>2, <1>3, <1>4, <1>5, OwnersFrame

\* A cancelled loop closes its client.
LEMMA LoopCancelledKeeps == ASSUME NEW l \in Loops, IInv, LoopCancelled(l) PROVE IInv'
<1> USE DEF LoopCancelled
<1>1. TypeOK'
  <2>1. PcsTyped' BY LoopMoves DEF TypeOK, PcsTyped, LoopPcs
  <2>2. DataTyped' BY DEF TypeOK, DataTyped, Ptr
  <2> QED BY <2>1, <2>2 DEF TypeOK
<1>2. OneLoop' BY DEF TypeOK, PcsTyped, OneLoop
<1>3. ClosesFirst' /\ StaysReleased' BY DEF TypeOK, PcsTyped, DataTyped, ClosesFirst,
                                            StaysReleased
<1>4. BorrowedFollowsLimiter' /\ InstalledByLoop'
  BY DEF TypeOK, PcsTyped, DataTyped, OneLoop, BorrowedFollowsLimiter, InstalledByLoop
<1>5. /\ CacheClient' = CacheClient /\ LoopClient(l) = held[l] /\ LoopClient(l)' = NoClient
      /\ \A m \in Loops \ {l} : LoopClient(m) = NoClient /\ LoopClient(m)' = NoClient
  BY DEF TypeOK, PcsTyped, DataTyped, OneLoop, CacheClient, LoopClient, LoopOwns
<1>6. NoLeak' /\ SoleOwner' BY <1>5, LoopDiscards
<1> QED BY <1>1, <1>2, <1>3, <1>4, <1>6

\* recoveryLoop looks at the chain's context.
LEMMA LoopNotCancelledKeeps == ASSUME NEW l \in Loops, IInv, LoopNotCancelled(l) PROVE IInv'
<1> USE DEF LoopNotCancelled
<1>1. TypeOK'
  <2>1. PcsTyped' BY LoopMoves DEF TypeOK, PcsTyped, LoopPcs
  <2>2. DataTyped' BY DEF TypeOK, DataTyped, Ptr
  <2> QED BY <2>1, <2>2 DEF TypeOK
<1>2. OneLoop' BY DEF TypeOK, PcsTyped, OneLoop
<1>3. ClosesFirst' /\ StaysReleased' BY DEF TypeOK, PcsTyped, DataTyped, ClosesFirst,
                                            StaysReleased
<1>4. BorrowedFollowsLimiter' /\ InstalledByLoop'
  BY DEF TypeOK, PcsTyped, DataTyped, OneLoop, BorrowedFollowsLimiter, InstalledByLoop
<1>5. UNCHANGED owners
  BY DEF TypeOK, PcsTyped, DataTyped, owners, CacheClient, LoopClient, LoopOwns
<1> QED BY <1>1, <1>2, <1>3, <1>4, <1>5, OwnersFrame

\* The endpoints are unchanged.
LEMMA LoopSameKeeps == ASSUME NEW l \in Loops, IInv, LoopSame(l) PROVE IInv'
<1> USE DEF LoopSame
<1>1. TypeOK'
  <2>1. PcsTyped' BY LoopMoves DEF TypeOK, PcsTyped, LoopPcs
  <2>2. DataTyped' BY DEF TypeOK, DataTyped, Ptr
  <2> QED BY <2>1, <2>2 DEF TypeOK
<1>2. OneLoop' BY DEF TypeOK, PcsTyped, OneLoop
<1>3. ClosesFirst' /\ StaysReleased' BY DEF TypeOK, PcsTyped, DataTyped, ClosesFirst,
                                            StaysReleased
<1>4. BorrowedFollowsLimiter' /\ InstalledByLoop'
  BY DEF TypeOK, PcsTyped, DataTyped, OneLoop, BorrowedFollowsLimiter, InstalledByLoop
<1>5. UNCHANGED owners
  BY DEF TypeOK, PcsTyped, DataTyped, owners, CacheClient, LoopClient, LoopOwns
<1> QED BY <1>1, <1>2, <1>3, <1>4, <1>5, OwnersFrame

\* The loop changes one client of its own for another.
LEMMA LoopRecreateKeeps == ASSUME NEW l \in Loops, IInv, LoopRecreate(l) PROVE IInv'
<1> USE DEF LoopRecreate, Unreferenced
<1>1. TypeOK'
  <2>1. PcsTyped' BY LoopMoves DEF TypeOK, PcsTyped, LoopPcs
  <2>2. DataTyped' BY DEF TypeOK, DataTyped, Ptr
  <2> QED BY <2>1, <2>2 DEF TypeOK
<1>2. OneLoop' BY DEF TypeOK, PcsTyped, OneLoop
<1>3. ClosesFirst' /\ StaysReleased' BY DEF TypeOK, PcsTyped, DataTyped, ClosesFirst,
                                            StaysReleased
<1>4. BorrowedFollowsLimiter' /\ InstalledByLoop'
  BY DEF TypeOK, PcsTyped, DataTyped, OneLoop, BorrowedFollowsLimiter, InstalledByLoop
<1>5. PICK c \in Clients : /\ c \notin open /\ open' = (open \ {held[l]}) \cup {c}
                          /\ held' = [held EXCEPT ![l] = c]
  BY DEF Unreferenced
<1>6. /\ CacheClient' = CacheClient /\ LoopClient(l) = held[l] /\ LoopClient(l)' = c
      /\ \A m \in Loops \ {l} : LoopClient(m) = NoClient /\ LoopClient(m)' = NoClient
  BY <1>5 DEF TypeOK, PcsTyped, DataTyped, OneLoop, CacheClient, LoopClient, LoopOwns
<1>7. NoLeak' /\ SoleOwner' BY <1>5, <1>6, LoopAcquires
<1> QED BY <1>1, <1>2, <1>3, <1>4, <1>7

\* The loop closes its client and gives up.
LEMMA LoopCannotRecreateKeeps == ASSUME NEW l \in Loops, IInv, LoopCannotRecreate(l) PROVE IInv'
<1> USE DEF LoopCannotRecreate
<1>1. TypeOK'
  <2>1. PcsTyped' BY LoopMoves DEF TypeOK, PcsTyped, LoopPcs
  <2>2. DataTyped' BY DEF TypeOK, DataTyped, Ptr
  <2> QED BY <2>1, <2>2 DEF TypeOK
<1>2. OneLoop' BY DEF TypeOK, PcsTyped, OneLoop
<1>3. ClosesFirst' /\ StaysReleased' BY DEF TypeOK, PcsTyped, DataTyped, ClosesFirst,
                                            StaysReleased
<1>4. BorrowedFollowsLimiter' /\ InstalledByLoop'
  BY DEF TypeOK, PcsTyped, DataTyped, OneLoop, BorrowedFollowsLimiter, InstalledByLoop
<1>5. /\ CacheClient' = CacheClient /\ LoopClient(l) = held[l] /\ LoopClient(l)' = NoClient
      /\ \A m \in Loops \ {l} : LoopClient(m) = NoClient /\ LoopClient(m)' = NoClient
  BY DEF TypeOK, PcsTyped, DataTyped, OneLoop, CacheClient, LoopClient, LoopOwns
<1>6. NoLeak' /\ SoleOwner' BY <1>5, LoopDiscards
<1> QED BY <1>1, <1>2, <1>3, <1>4, <1>6

\* The ping succeeds.
LEMMA LoopPongKeeps == ASSUME NEW l \in Loops, IInv, LoopPong(l) PROVE IInv'
<1> USE DEF LoopPong
<1>1. TypeOK'
  <2>1. PcsTyped' BY LoopMoves DEF TypeOK, PcsTyped, LoopPcs
  <2>2. DataTyped' BY DEF TypeOK, DataTyped, Ptr
  <2> QED BY <2>1, <2>2 DEF TypeOK
<1>2. OneLoop' BY DEF TypeOK, PcsTyped, OneLoop
<1>3. ClosesFirst' /\ StaysReleased' BY DEF TypeOK, PcsTyped, DataTyped, ClosesFirst,
                                            StaysReleased
<1>4. BorrowedFollowsLimiter' /\ InstalledByLoop'
  BY DEF TypeOK, PcsTyped, DataTyped, OneLoop, BorrowedFollowsLimiter, InstalledByLoop
<1>5. UNCHANGED owners
  BY DEF TypeOK, PcsTyped, DataTyped, owners, CacheClient, LoopClient, LoopOwns
<1> QED BY <1>1, <1>2, <1>3, <1>4, <1>5, OwnersFrame

\* The ping fails: the client is kept, or closed with the last attempt.
LEMMA LoopNoPongKeeps == ASSUME NEW l \in Loops, IInv, LoopNoPong(l) PROVE IInv'
<1> USE DEF LoopNoPong
<1>1. TypeOK'
  <2>1. PcsTyped' BY LoopMoves DEF TypeOK, PcsTyped, LoopPcs
  <2>2. DataTyped' BY DEF TypeOK, DataTyped, Ptr
  <2> QED BY <2>1, <2>2 DEF TypeOK
<1>2. OneLoop' BY DEF TypeOK, PcsTyped, OneLoop
<1>3. ClosesFirst' /\ StaysReleased' BY DEF TypeOK, PcsTyped, DataTyped, ClosesFirst,
                                            StaysReleased
<1>4. BorrowedFollowsLimiter' /\ InstalledByLoop'
  BY DEF TypeOK, PcsTyped, DataTyped, OneLoop, BorrowedFollowsLimiter, InstalledByLoop
<1>5. CASE pc'[l] = "exit"
  <2>1. /\ CacheClient' = CacheClient /\ LoopClient(l)' = NoClient /\ open' = open \ {LoopClient(l)}
        /\ \A m \in Loops \ {l} : LoopClient(m) = NoClient /\ LoopClient(m)' = NoClient
    BY <1>5 DEF TypeOK, PcsTyped, DataTyped, OneLoop, CacheClient, LoopClient, LoopOwns
  <2> QED BY <1>1, <1>2, <1>3, <1>4, <2>1, LoopDiscards
<1>6. CASE pc'[l] = "retry"
  <2>1. UNCHANGED owners
    BY <1>6 DEF TypeOK, PcsTyped, DataTyped, owners, CacheClient, LoopClient, LoopOwns
  <2> QED BY <1>1, <1>2, <1>3, <1>4, <2>1, OwnersFrame
<1> QED BY <1>5, <1>6 DEF TypeOK, PcsTyped, DataTyped

\* The backoff ends.
LEMMA LoopRetryKeeps == ASSUME NEW l \in Loops, IInv, LoopRetry(l) PROVE IInv'
<1> USE DEF LoopRetry
<1>1. TypeOK'
  <2>1. PcsTyped' BY LoopMoves DEF TypeOK, PcsTyped, LoopPcs
  <2>2. DataTyped' BY DEF TypeOK, DataTyped, Ptr
  <2> QED BY <2>1, <2>2 DEF TypeOK
<1>2. OneLoop' BY DEF TypeOK, PcsTyped, OneLoop
<1>3. ClosesFirst' /\ StaysReleased' BY DEF TypeOK, PcsTyped, DataTyped, ClosesFirst,
                                            StaysReleased
<1>4. BorrowedFollowsLimiter' /\ InstalledByLoop'
  BY DEF TypeOK, PcsTyped, DataTyped, OneLoop, BorrowedFollowsLimiter, InstalledByLoop
<1>5. UNCHANGED owners
  BY DEF TypeOK, PcsTyped, DataTyped, owners, CacheClient, LoopClient, LoopOwns
<1> QED BY <1>1, <1>2, <1>3, <1>4, <1>5, OwnersFrame

\* recoveryInstall loads c.staticRL.
LEMMA LoopSnapshotKeeps == ASSUME NEW l \in Loops, IInv, LoopSnapshot(l) PROVE IInv'
<1> USE DEF LoopSnapshot
<1>1. TypeOK'
  <2>1. PcsTyped' BY LoopMoves DEF TypeOK, PcsTyped, LoopPcs
  <2>2. DataTyped' BY DEF TypeOK, DataTyped, Ptr
  <2> QED BY <2>1, <2>2 DEF TypeOK
<1>2. OneLoop' BY DEF TypeOK, PcsTyped, OneLoop
<1>3. ClosesFirst' /\ StaysReleased' BY DEF TypeOK, PcsTyped, DataTyped, ClosesFirst,
                                            StaysReleased
<1>4. BorrowedFollowsLimiter' /\ InstalledByLoop'
  BY DEF TypeOK, PcsTyped, DataTyped, OneLoop, BorrowedFollowsLimiter, InstalledByLoop
<1>5. UNCHANGED owners
  BY DEF TypeOK, PcsTyped, DataTyped, owners, CacheClient, LoopClient, LoopOwns
<1> QED BY <1>1, <1>2, <1>3, <1>4, <1>5, OwnersFrame

\* recoveryInstall loads c.cfg.
LEMMA LoopWantedKeeps == ASSUME NEW l \in Loops, IInv, LoopWanted(l) PROVE IInv'
<1> USE DEF LoopWanted
<1>1. TypeOK'
  <2>1. PcsTyped' BY LoopMoves DEF TypeOK, PcsTyped, LoopPcs
  <2>2. DataTyped' BY DEF TypeOK, DataTyped, Ptr
  <2> QED BY <2>1, <2>2 DEF TypeOK
<1>2. OneLoop' BY DEF TypeOK, PcsTyped, OneLoop
<1>3. ClosesFirst' /\ StaysReleased' BY DEF TypeOK, PcsTyped, DataTyped, ClosesFirst,
                                            StaysReleased
<1>4. BorrowedFollowsLimiter' /\ InstalledByLoop'
  BY DEF TypeOK, PcsTyped, DataTyped, OneLoop, BorrowedFollowsLimiter, InstalledByLoop
<1>5. UNCHANGED owners
  BY DEF TypeOK, PcsTyped, DataTyped, owners, CacheClient, LoopClient, LoopOwns
<1> QED BY <1>1, <1>2, <1>3, <1>4, <1>5, OwnersFrame

\* recoveryInstall finds no limits and takes the old limiter's client over.
LEMMA LoopDropKeeps == ASSUME NEW l \in Loops, IInv, LoopDrop(l) PROVE IInv'
<1> USE DEF LoopDrop, SwapLimiter
<1>1. TypeOK'
  <2>1. PcsTyped' BY LoopMoves DEF TypeOK, PcsTyped, LoopPcs
  <2>2. DataTyped' BY DEF TypeOK, DataTyped, Ptr
  <2> QED BY <2>1, <2>2 DEF TypeOK
<1>2. OneLoop' BY DEF TypeOK, PcsTyped, OneLoop
<1>3. ClosesFirst' /\ StaysReleased' BY DEF TypeOK, PcsTyped, DataTyped, ClosesFirst,
                                            StaysReleased
<1>4. BorrowedFollowsLimiter' /\ InstalledByLoop'
  BY DEF TypeOK, PcsTyped, DataTyped, OneLoop, BorrowedFollowsLimiter, InstalledByLoop
<1>5. CacheClient' = CacheClient /\ \A m \in Loops : LoopClient(m)' = LoopClient(m)
  BY DEF TypeOK, PcsTyped, DataTyped, CacheClient, LoopClient, LoopOwns
<1>6. doomed[l] = NoClient /\ doomed' = [doomed EXCEPT ![l] = limiter]
  BY DEF ClosesFirst
<1>7. NoLeak' /\ SoleOwner' BY <1>5, <1>6, DetachLimiter
<1> QED BY <1>1, <1>2, <1>3, <1>4, <1>7

\* recoveryInstall closes the old client and the loop's.
LEMMA LoopCloseBothKeeps == ASSUME NEW l \in Loops, IInv, LoopCloseBoth(l) PROVE IInv'
<1> USE DEF LoopCloseBoth
<1>1. TypeOK'
  <2>1. PcsTyped' BY LoopMoves DEF TypeOK, PcsTyped, LoopPcs
  <2>2. DataTyped' BY DEF TypeOK, DataTyped, Ptr
  <2> QED BY <2>1, <2>2 DEF TypeOK
<1>2. OneLoop' BY DEF TypeOK, PcsTyped, OneLoop
<1>3. ClosesFirst' /\ StaysReleased' BY DEF TypeOK, PcsTyped, DataTyped, ClosesFirst,
                                            StaysReleased
<1>4. BorrowedFollowsLimiter' /\ InstalledByLoop'
  BY DEF TypeOK, PcsTyped, DataTyped, OneLoop, BorrowedFollowsLimiter, InstalledByLoop
<1>5. /\ CacheClient' = CacheClient /\ LoopClient(l) = held[l] /\ LoopClient(l)' = NoClient
      /\ \A m \in Loops \ {l} : LoopClient(m) = NoClient /\ LoopClient(m)' = NoClient
  BY DEF TypeOK, PcsTyped, DataTyped, OneLoop, CacheClient, LoopClient, LoopOwns
<1>6. NoLeak' /\ SoleOwner' BY <1>5, LoopDiscardsBoth
<1> QED BY <1>1, <1>2, <1>3, <1>4, <1>6

\* recoveryInstall trades its client for the old limiter's.
LEMMA LoopSwapKeeps == ASSUME NEW l \in Loops, IInv, LoopSwap(l) PROVE IInv'
<1> USE DEF LoopSwap, SwapLimiter
<1>1. TypeOK'
  <2>1. PcsTyped' BY LoopMoves DEF TypeOK, PcsTyped, LoopPcs
  <2>2. DataTyped' BY DEF TypeOK, DataTyped, Ptr
  <2> QED BY <2>1, <2>2 DEF TypeOK
<1>2. OneLoop' BY DEF TypeOK, PcsTyped, OneLoop
<1>3. ClosesFirst' /\ StaysReleased' BY DEF TypeOK, PcsTyped, DataTyped, ClosesFirst,
                                            StaysReleased
<1>4. BorrowedFollowsLimiter' /\ InstalledByLoop'
  BY DEF TypeOK, PcsTyped, DataTyped, OneLoop, BorrowedFollowsLimiter, InstalledByLoop
<1>5. /\ CacheClient' = CacheClient /\ LoopClient(l) = held[l] /\ LoopClient(l)' = NoClient
      /\ \A m \in Loops \ {l} : LoopClient(m) = NoClient /\ LoopClient(m)' = NoClient
  BY DEF TypeOK, PcsTyped, DataTyped, OneLoop, CacheClient, LoopClient, LoopOwns
<1>6. doomed[l] = NoClient
  BY DEF ClosesFirst
<1>7. NoLeak' /\ SoleOwner' BY <1>5, <1>6, LoopInstalls
<1> QED BY <1>1, <1>2, <1>3, <1>4, <1>7

\* recoveryInstall closes the old client.
LEMMA LoopCloseOldKeeps == ASSUME NEW l \in Loops, IInv, LoopCloseOld(l) PROVE IInv'
<1> USE DEF LoopCloseOld
<1>1. TypeOK'
  <2>1. PcsTyped' BY LoopMoves DEF TypeOK, PcsTyped, LoopPcs
  <2>2. DataTyped' BY DEF TypeOK, DataTyped, Ptr, CloseDoomed
  <2> QED BY <2>1, <2>2 DEF TypeOK
<1>2. OneLoop' BY DEF TypeOK, PcsTyped, OneLoop
<1>3. ClosesFirst' /\ StaysReleased'
  BY DEF TypeOK, PcsTyped, DataTyped, ClosesFirst, StaysReleased, CloseDoomed
<1>4. BorrowedFollowsLimiter' /\ InstalledByLoop'
  BY DEF TypeOK, PcsTyped, DataTyped, OneLoop, BorrowedFollowsLimiter, InstalledByLoop,
         CloseDoomed
<1>5. CacheClient' = CacheClient /\ \A m \in Loops : LoopClient(m)' = LoopClient(m)
  BY DEF TypeOK, PcsTyped, DataTyped, CacheClient, LoopClient, LoopOwns
<1>6. CloseDoomed(l) /\ limiter' = limiter OBVIOUS
<1>7. NoLeak' /\ SoleOwner' BY <1>5, <1>6, CloseDetached
<1> QED BY <1>1, <1>2, <1>3, <1>4, <1>7

\* recoveryInstall points a borrowed cache client at the new limiter's.
LEMMA LoopRebindKeeps == ASSUME NEW l \in Loops, IInv, LoopRebind(l) PROVE IInv'
<1> USE DEF LoopRebind
<1>1. TypeOK'
  <2>1. PcsTyped' BY LoopMoves DEF TypeOK, PcsTyped, LoopPcs
  <2>2. DataTyped' BY DEF TypeOK, DataTyped, Ptr
  <2> QED BY <2>1, <2>2 DEF TypeOK
<1>2. OneLoop' BY DEF TypeOK, PcsTyped, OneLoop
<1>3. ClosesFirst' /\ StaysReleased' BY DEF TypeOK, PcsTyped, DataTyped, ClosesFirst,
                                            StaysReleased
<1>4. BorrowedFollowsLimiter' /\ InstalledByLoop'
  BY DEF TypeOK, PcsTyped, DataTyped, OneLoop, BorrowedFollowsLimiter, InstalledByLoop
<1>5. UNCHANGED owners
  BY DEF TypeOK, PcsTyped, DataTyped, owners, CacheClient, LoopClient, LoopOwns
<1> QED BY <1>1, <1>2, <1>3, <1>4, <1>5, OwnersFrame

\* recoveryInstall rebinds the auth cache.
LEMMA LoopBindAuthKeeps == ASSUME NEW l \in Loops, IInv, LoopBindAuth(l) PROVE IInv'
<1> USE DEF LoopBindAuth
<1>1. TypeOK'
  <2>1. PcsTyped' BY LoopMoves DEF TypeOK, PcsTyped, LoopPcs
  <2>2. DataTyped' BY DEF TypeOK, DataTyped, Ptr
  <2> QED BY <2>1, <2>2 DEF TypeOK
<1>2. OneLoop' BY DEF TypeOK, PcsTyped, OneLoop
<1>3. ClosesFirst' /\ StaysReleased' BY DEF TypeOK, PcsTyped, DataTyped, ClosesFirst,
                                            StaysReleased
<1>4. BorrowedFollowsLimiter' /\ InstalledByLoop'
  BY DEF TypeOK, PcsTyped, DataTyped, OneLoop, BorrowedFollowsLimiter, InstalledByLoop
<1>5. UNCHANGED owners
  BY DEF TypeOK, PcsTyped, DataTyped, owners, CacheClient, LoopClient, LoopOwns
<1> QED BY <1>1, <1>2, <1>3, <1>4, <1>5, OwnersFrame

\* recoveryInstall rebinds the external client.
LEMMA LoopBindExtKeeps == ASSUME NEW l \in Loops, IInv, LoopBindExt(l) PROVE IInv'
<1> USE DEF LoopBindExt
<1>1. TypeOK'
  <2>1. PcsTyped' BY LoopMoves DEF TypeOK, PcsTyped, LoopPcs
  <2>2. DataTyped' BY DEF TypeOK, DataTyped, Ptr
  <2> QED BY <2>1, <2>2 DEF TypeOK
<1>2. OneLoop' BY DEF TypeOK, PcsTyped, OneLoop
<1>3. ClosesFirst' /\ StaysReleased' BY DEF TypeOK, PcsTyped, DataTyped, ClosesFirst,
                                            StaysReleased
<1>4. BorrowedFollowsLimiter' /\ InstalledByLoop'
  BY DEF TypeOK, PcsTyped, DataTyped, OneLoop, BorrowedFollowsLimiter, InstalledByLoop
<1>5. UNCHANGED owners
  BY DEF TypeOK, PcsTyped, DataTyped, owners, CacheClient, LoopClient, LoopOwns
<1> QED BY <1>1, <1>2, <1>3, <1>4, <1>5, OwnersFrame

\* The loop's goroutine ends.
LEMMA LoopExitKeeps == ASSUME NEW l \in Loops, IInv, LoopExit(l) PROVE IInv'
<1> USE DEF LoopExit
<1>1. TypeOK'
  <2>1. PcsTyped' BY LoopMoves DEF TypeOK, PcsTyped, LoopPcs
  <2>2. DataTyped' BY UnsetIsConfig DEF TypeOK, DataTyped, Ptr
  <2> QED BY <2>1, <2>2 DEF TypeOK
<1>2. OneLoop' BY DEF TypeOK, PcsTyped, OneLoop
<1>3. ClosesFirst' /\ StaysReleased' BY DEF TypeOK, PcsTyped, DataTyped, ClosesFirst,
                                            StaysReleased
<1>4. BorrowedFollowsLimiter' /\ InstalledByLoop'
  BY DEF TypeOK, PcsTyped, DataTyped, OneLoop, BorrowedFollowsLimiter, InstalledByLoop
<1>5. UNCHANGED owners
  BY DEF TypeOK, PcsTyped, DataTyped, owners, CacheClient, LoopClient, LoopOwns
<1> QED BY <1>1, <1>2, <1>3, <1>4, <1>5, OwnersFrame

-----------------------------------------------------------------------------

\* NewChain establishes the invariant.
LEMMA InitIInv == Init => IInv
<1> SUFFICES ASSUME Init PROVE IInv
  OBVIOUS
<1>1. PICK l \in Loops :
        pc = [p \in Procs |-> IF p = l /\ ~up THEN "create" ELSE "idle"]
  BY DEF Init
<1>2. PICK c \in Clients, d \in Clients :
        /\ c # d
        /\ limiter = IF up THEN c ELSE NoClient
        /\ cacheRedis = IF cacheRedisOwned THEN d ELSE limiter
  BY DEF Init
<1>3. /\ Unset \in Configs /\ cfg \in Configs /\ cfg.dedicated \in BOOLEAN /\ cfg.ext \in BOOLEAN
  BY DEF Init, ConfigSpace, Unset
<1>4. TypeOK
  BY <1>1, <1>2, <1>3 DEF Init, TypeOK, PcsTyped, DataTyped, Ptr, ReqPcs, LoopPcs, ReloadPcs, ClosePcs
<1>5. OneLoop
  BY <1>1 DEF Init, OneLoop
<1>6. NoLeak /\ SoleOwner
  BY <1>1, <1>2, <1>3 DEF Init, NoLeak, SoleOwner, CacheClient, LoopClient, LoopOwns
<1>7. BorrowedFollowsLimiter /\ ClosesFirst /\ StaysReleased /\ InstalledByLoop
  <2>1. BorrowedFollowsLimiter
    BY <1>1, <1>2 DEF Init, BorrowedFollowsLimiter
  <2>2. ClosesFirst /\ StaysReleased
    BY <1>1 DEF Init, ClosesFirst, StaysReleased
  <2>3. InstalledByLoop
    BY <1>1 DEF Init, InstalledByLoop
  <2> QED
    BY <2>1, <2>2, <2>3
<1> QED
  BY <1>4, <1>5, <1>6, <1>7

\* Every step of every goroutine keeps it.
LEMMA NextKeepsIInv == IInv /\ [Next]_vars => IInv'
<1> SUFFICES ASSUME IInv, [Next]_vars PROVE IInv'
  OBVIOUS
<1>1. ASSUME NEW r \in Requests, Request(r) PROVE IInv'
  BY <1>1, ReqLoadKeeps, ReqDoneKeeps, ReqFailKeeps, ReqDetachKeeps,
     ReqCloseKeeps, ReqCheckCtxKeeps, ReqNoStartKeeps, ReqStartKeeps
     DEF Request
<1>2. ASSUME NEW l \in Loops, Recovery(l) PROVE IInv'
  BY <1>2, LoopCreateKeeps, LoopCannotCreateKeeps, LoopCancelledKeeps,
     LoopNotCancelledKeeps, LoopSameKeeps, LoopRecreateKeeps,
     LoopCannotRecreateKeeps, LoopPongKeeps, LoopNoPongKeeps,
     LoopRetryKeeps, LoopSnapshotKeeps, LoopWantedKeeps, LoopDropKeeps,
     LoopCloseBothKeeps, LoopSwapKeeps, LoopCloseOldKeeps, LoopRebindKeeps,
     LoopBindAuthKeeps, LoopBindExtKeeps, LoopExitKeeps
     DEF Recovery
<1>3. CASE Reload
  BY <1>3, ReloadStaticKeeps, ReloadLimiterKeeps, ReloadReleaseKeeps,
     ReloadCloseCacheKeeps, ReloadResolveKeeps, ReloadConnectKeeps,
     ReloadConnectFailsKeeps, ReloadAliasKeeps, ReloadNewExtKeeps,
     ReloadReadCacheKeeps, ReloadStoreAuthKeeps
     DEF Reload
<1>4. CASE Close
  BY <1>4, CloseCancelKeeps, CloseDetachKeeps, CloseClientKeeps, CloseReleaseKeeps
     DEF Close
<1>5. CASE Outage
  BY <1>5, OutageKeeps
<1>6. CASE UNCHANGED vars
  <2>1. UNCHANGED owners
    BY <1>6 DEF vars, owners, CacheClient, LoopClient
  <2>2. NoLeak' /\ SoleOwner'
    BY <2>1, OwnersFrame
  <2>3. TypeOK'
    BY <1>6 DEF vars, TypeOK, PcsTyped, DataTyped
  <2>4. OneLoop' /\ BorrowedFollowsLimiter'
    BY <1>6 DEF vars, OneLoop, BorrowedFollowsLimiter
  <2>5. ClosesFirst' /\ StaysReleased' /\ InstalledByLoop'
    BY <1>6 DEF vars, ClosesFirst, StaysReleased, InstalledByLoop
  <2> QED
    BY <2>2, <2>3, <2>4, <2>5
<1> QED
  BY <1>1, <1>2, <1>3, <1>4, <1>5, <1>6 DEF Next

\* The inductive invariant holds throughout.
THEOREM Invariance == Spec => []IInv
BY InitIInv, NextKeepsIInv, PTL DEF Spec

\* Every variable keeps its type, whatever the goroutines' interleaving.
THEOREM TypeCorrect == Spec => []TypeOK
<1>1. IInv => TypeOK
  OBVIOUS
<1> QED
  BY <1>1, Invariance, PTL

\* However many requests fail at once, and whenever recoveries end, at most one
\* recovery loop runs and c.reconnecting says so.
THEOREM SingleRecoveryLoop == Spec => []OneLoop
<1>1. IInv => OneLoop
  OBVIOUS
<1> QED
  BY <1>1, Invariance, PTL

\* In no interleaving of requests, recovery, Reload and Close is a Redis client
\* left open with nobody to close it.
THEOREM NoClientLeaks == Spec => []NoLeak
<1>1. IInv => NoLeak
  OBVIOUS
<1> QED
  BY <1>1, Invariance, PTL

\* In no interleaving is a client closed under its owner or closed twice: in
\* particular c.limiter never holds a closed client.
THEOREM ClientsHaveOneOwner == Spec => []SoleOwner
<1>1. IInv => SoleOwner
  OBVIOUS
<1> QED
  BY <1>1, Invariance, PTL

\* In no interleaving of recovery with Reload is the borrowed cache client left
\* on a client the recovery has closed, once a limiter is in place and rebound.
THEOREM AliasFollowsLimiter == Spec => []BorrowedFollowsLimiter
<1>1. IInv => BorrowedFollowsLimiter
  OBVIOUS
<1> QED
  BY <1>1, Invariance, PTL
=============================================================================
