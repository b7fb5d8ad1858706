-------------------------- MODULE ProxySwapProofs ---------------------------
(***************************************************************************)
(* Proofs about ProxySwap, for every finite number of requests, every      *)
(* number of proxies and keys, and every limit: the transports of a proxy  *)
(* outlive the requests Close waits for, nothing is added to a WaitGroup   *)
(* that is being waited for, and neither semaphore nor WebSocket limiter   *)
(* drifts.                                                                 *)
(***************************************************************************)
EXTENDS ProxySwap, FiniteSetTheorems, TLAPS

USE ProxyAssumption DEF IInv, Move, proxy, teardowns, process, request

Holders == {r \in Requests : permit[r]}

\* Everything that is counted is finite.
LEMMA Finite ==
    /\ IsFiniteSet(Holders)
    /\ \A p \in Proxies : IsFiniteSet(Served(p))
    /\ \A p \in Proxies, k \in Keys : IsFiniteSet(Sessions(p, k))
<1>1. \A S \in SUBSET Requests : IsFiniteSet(S)
  BY FS_Subset
<1> QED
  BY <1>1 DEF Holders, Served, Sessions

\* The cardinality of a set a request joins.
LEMMA Joins ==
    ASSUME NEW S, IsFiniteSet(S), NEW r, r \notin S, NEW T, T = S \cup {r}
    PROVE  Cardinality(T) = Cardinality(S) + 1 /\ Cardinality(S) \in Nat
BY FS_AddElement, FS_CardinalityType

\* The cardinality of a set a request leaves.
LEMMA Parts ==
    ASSUME NEW S, IsFiniteSet(S), NEW r \in S, NEW T, T = S \ {r}
    PROVE  Cardinality(T) = Cardinality(S) - 1 /\ Cardinality(S) \in Nat \ {0}
<1>1. Cardinality(T) = Cardinality(S) - 1 /\ Cardinality(S) \in Nat
  BY FS_RemoveElement, FS_CardinalityType
<1>2. Cardinality(S) # 0
  BY FS_EmptySet
<1> QED
  BY <1>1, <1>2

\* One more session of a key leaves its proxy's counts counts.
LEMMA CountUp ==
    ASSUME NEW f \in [Keys -> Nat], NEW k \in Keys
    PROVE  [f EXCEPT ![k] = f[k] + 1] \in [Keys -> Nat]
<1>1. f[k] + 1 \in Nat
  OBVIOUS
<1> QED
  BY <1>1

\* A step that leaves inflight and the requests served alone.
LEMMA ServedSame ==
    ASSUME Counted, UNCHANGED <<inflight, teardown, expired>>,
           \A p \in Proxies : Served(p)' = Served(p)
    PROVE  Counted'
BY DEF Counted

\* A step that leaves the permits and their holders alone.
LEMMA PermitsSame ==
    ASSUME PermitsExact, UNCHANGED <<permits, permit>>,
           \A r \in Requests : permit[r] => at'[r] # "idle"
    PROVE  PermitsExact'
BY DEF PermitsExact

\* A step that leaves the WebSocket counts and sessions alone.
LEMMA SessionsSame ==
    ASSUME SessionsExact, counts' = counts,
           \A p \in Proxies, k \in Keys : Sessions(p, k)' = Sessions(p, k)
    PROVE  SessionsExact'
BY DEF SessionsExact

-----------------------------------------------------------------------------
\* One lemma per action.

\* A preflight takes no permit and goes to the proxy.
LEMMA PreflightKeeps == ASSUME NEW r \in Requests, IInv, Preflight(r) PROVE IInv'
<1> USE DEF Preflight, Route
<1>1. \A p \in Proxies : Served(p)' = Served(p)
  BY DEF Served, TypeOK
<1>2. Counted'
  BY <1>1, ServedSame
<1>3. PermitsExact'
  BY PermitsSame DEF PermitsExact, TypeOK
<1>4. \A p \in Proxies, k \in Keys : Sessions(p, k)' = Sessions(p, k)
  BY DEF Sessions, TypeOK
<1>5. SessionsExact'
  BY <1>4, SessionsSame
<1>6. TypeOK'
  BY DEF TypeOK
<1>7. Loaded' /\ Fenced'
  BY DEF Loaded, Fenced, TypeOK
<1> QED
  BY <1>2, <1>3, <1>5, <1>6, <1>7

\* acquireConcurrency counts the request it lets in.
LEMMA EnterKeeps == ASSUME NEW r \in Requests, IInv, Enter(r) PROVE IInv'
<1> USE DEF Enter
<1>1. \A p \in Proxies : Served(p)' = Served(p)
  BY DEF Served, TypeOK
<1>2. Counted'
  BY <1>1, ServedSame
<1>3. PermitsExact'
  <2>1. CASE MaxConcurrent = 0
    BY <2>1, PermitsSame DEF PermitsExact, TypeOK
  <2>2. CASE MaxConcurrent # 0
    <3>1. r \notin Holders /\ Holders' = Holders \cup {r}
      BY <2>2 DEF Holders, PermitsExact, TypeOK
    <3>2. Cardinality(Holders') = Cardinality(Holders) + 1
      BY <3>1, Joins, Finite
    <3> QED
      BY <2>2, <3>2 DEF PermitsExact, Holders, TypeOK
  <2> QED
    BY <2>1, <2>2
<1>4. \A p \in Proxies, k \in Keys : Sessions(p, k)' = Sessions(p, k)
  BY DEF Sessions, TypeOK
<1>5. SessionsExact'
  BY <1>4, SessionsSame
<1>6. TypeOK'
  <2>1. permits' \in Nat /\ permit' \in [Requests -> BOOLEAN]
    <3>1. CASE MaxConcurrent = 0
      BY <3>1 DEF TypeOK
    <3>2. CASE MaxConcurrent # 0
      <4>1. permits' = permits + 1 /\ permit' = [permit EXCEPT ![r] = TRUE]
        BY <3>2
      <4> QED
        BY <4>1 DEF TypeOK
    <3> QED
      BY <3>1, <3>2
  <2> QED
    BY <2>1 DEF TypeOK
<1>7. Loaded' /\ Fenced'
  BY DEF Loaded, Fenced, TypeOK
<1> QED
  BY <1>2, <1>3, <1>5, <1>6, <1>7

\* A denied request goes to the deferred release.
LEMMA DeniedKeeps == ASSUME NEW r \in Requests, IInv, Denied(r) PROVE IInv'
<1> USE DEF Denied
<1>1. \A p \in Proxies : Served(p)' = Served(p)
  BY DEF Served, TypeOK
<1>2. Counted'
  BY <1>1, ServedSame
<1>3. PermitsExact'
  BY PermitsSame DEF PermitsExact, TypeOK
<1>4. \A p \in Proxies, k \in Keys : Sessions(p, k)' = Sessions(p, k)
  BY DEF Sessions, TypeOK
<1>5. SessionsExact'
  BY <1>4, SessionsSame
<1>6. TypeOK'
  BY DEF TypeOK
<1>7. Loaded' /\ Fenced'
  BY DEF Loaded, Fenced, TypeOK
<1> QED
  BY <1>2, <1>3, <1>5, <1>6, <1>7

\* c.next is loaded.
LEMMA LoadKeeps == ASSUME NEW r \in Requests, IInv, Load(r) PROVE IInv'
<1> USE DEF Load, Route
<1>1. \A p \in Proxies : Served(p)' = Served(p)
  BY DEF Served, TypeOK
<1>2. Counted'
  BY <1>1, ServedSame
<1>3. PermitsExact'
  BY PermitsSame DEF PermitsExact, TypeOK
<1>4. \A p \in Proxies, k \in Keys : Sessions(p, k)' = Sessions(p, k)
  BY DEF Sessions, TypeOK
<1>5. SessionsExact'
  BY <1>4, SessionsSame
<1>6. TypeOK'
  BY DEF TypeOK
<1>7. Loaded' /\ Fenced'
  BY DEF Loaded, Fenced, TypeOK
<1> QED
  BY <1>2, <1>3, <1>5, <1>6, <1>7

\* An admitted request is counted, by a proxy that is not closing.
LEMMA AdmitKeeps == ASSUME NEW r \in Requests, IInv, Admit(r) PROVE IInv'
<1> USE DEF Admit
<1>1. via[r] \in Proxies /\ r \notin Served(via[r])
  BY DEF Loaded, Served
<1>2. Served(via[r])' = Served(via[r]) \cup {r}
  BY <1>1 DEF Served, TypeOK
<1>3. \A p \in Proxies \ {via[r]} : Served(p)' = Served(p)
  BY DEF Served, TypeOK
<1>4. Cardinality(Served(via[r])') = Cardinality(Served(via[r])) + 1
  BY <1>1, <1>2, Joins, Finite
<1>5. Counted'
  BY <1>1, <1>3, <1>4 DEF Counted, TypeOK, Fenced
<1>6. PermitsExact'
  BY PermitsSame DEF PermitsExact, TypeOK
<1>7. \A p \in Proxies, k \in Keys : Sessions(p, k)' = Sessions(p, k)
  BY DEF Sessions, TypeOK
<1>8. SessionsExact'
  BY <1>7, SessionsSame
<1>9. TypeOK'
  BY DEF TypeOK, Loaded
<1>10. Loaded' /\ Fenced'
  BY DEF Loaded, Fenced, TypeOK
<1> QED
  BY <1>5, <1>6, <1>8, <1>9, <1>10

\* A draining proxy counts nothing.
LEMMA RejectKeeps == ASSUME NEW r \in Requests, IInv, Reject(r) PROVE IInv'
<1> USE DEF Reject
<1>1. \A p \in Proxies : Served(p)' = Served(p)
  BY DEF Served, TypeOK
<1>2. Counted'
  BY <1>1, ServedSame
<1>3. PermitsExact'
  BY PermitsSame DEF PermitsExact, TypeOK
<1>4. \A p \in Proxies, k \in Keys : Sessions(p, k)' = Sessions(p, k)
  BY DEF Sessions, TypeOK
<1>5. SessionsExact'
  BY <1>4, SessionsSame
<1>6. TypeOK'
  BY DEF TypeOK
<1>7. Loaded' /\ Fenced'
  BY DEF Loaded, Fenced, TypeOK
<1> QED
  BY <1>2, <1>3, <1>5, <1>6, <1>7

\* inflight.Done for a request that was counted.
LEMMA RespondKeeps == ASSUME NEW r \in Requests, IInv, Respond(r) PROVE IInv'
<1> USE DEF Respond
<1>1. via[r] \in Proxies /\ r \in Served(via[r])
  BY DEF Loaded, Served
<1>2. Served(via[r])' = Served(via[r]) \ {r}
  BY <1>1 DEF Served, TypeOK
<1>3. \A p \in Proxies \ {via[r]} : Served(p)' = Served(p)
  BY DEF Served, TypeOK
<1>4. /\ Cardinality(Served(via[r])') = Cardinality(Served(via[r])) - 1
      /\ Cardinality(Served(via[r])) \in Nat \ {0}
  <2>1. IsFiniteSet(Served(via[r]))
    BY <1>1, Finite
  <2> HIDE DEF Respond
  <2> QED
    BY <1>1, <1>2, <2>1, Parts
<1>5. Counted'
  BY <1>1, <1>3, <1>4 DEF Counted, TypeOK
<1>6. PermitsExact'
  BY PermitsSame DEF PermitsExact, TypeOK
<1>7. \A p \in Proxies, k \in Keys : Sessions(p, k)' = Sessions(p, k)
  BY DEF Sessions, TypeOK
<1>8. SessionsExact'
  BY <1>7, SessionsSame
<1>9. TypeOK'
  <2>1. inflight[via[r]] - 1 \in Nat
    BY <1>1, <1>4 DEF Counted
  <2>2. inflight' \in [Proxies -> Nat]
    BY <2>1 DEF TypeOK
  <2> QED
    BY <2>2 DEF TypeOK
<1>10. Loaded' /\ Fenced'
  BY DEF Loaded, Fenced, TypeOK
<1> QED
  BY <1>5, <1>6, <1>8, <1>9, <1>10

\* The deferred release returns the permit, if there is one.
LEMMA LeaveKeeps == ASSUME NEW r \in Requests, IInv, Leave(r) PROVE IInv'
<1> USE DEF Leave
<1>1. \A p \in Proxies : Served(p)' = Served(p)
  BY DEF Served, TypeOK
<1>2. Counted'
  BY <1>1, ServedSame
<1>3. PermitsExact' /\ permits' \in Nat
  <2>1. CASE ~permit[r]
    <3>1. permit' = permit
      BY <2>1 DEF TypeOK
    <3> QED
      BY <2>1, <3>1, PermitsSame DEF PermitsExact, TypeOK
  <2>2. CASE permit[r]
    <3>1. r \in Holders /\ Holders' = Holders \ {r}
      BY <2>2 DEF Holders, TypeOK
    <3>2. /\ Cardinality(Holders') = Cardinality(Holders) - 1
          /\ Cardinality(Holders) \in Nat \ {0}
      BY <3>1, Parts, Finite
    <3>3. permits = Cardinality(Holders) /\ permits' = permits - 1
      BY <2>2 DEF PermitsExact, Holders
    <3>4. permits' = Cardinality(Holders') /\ permits' \in Nat /\ permits' <= permits
      BY <3>2, <3>3
    <3>5. \A q \in Requests : permit'[q] => at'[q] # "idle"
      BY DEF PermitsExact, TypeOK
    <3>6. MaxConcurrent > 0 => permits' <= MaxConcurrent
      BY <3>3, <3>4 DEF PermitsExact, TypeOK
    <3> QED
      BY <3>4, <3>5, <3>6 DEF PermitsExact, Holders
  <2> QED
    BY <2>1, <2>2 DEF TypeOK
<1>4. \A p \in Proxies, k \in Keys : Sessions(p, k)' = Sessions(p, k)
  BY DEF Sessions, TypeOK
<1>5. SessionsExact'
  BY <1>4, SessionsSame
<1>6. TypeOK'
  BY <1>3 DEF TypeOK
<1>7. Loaded' /\ Fenced'
  BY DEF Loaded, Fenced, TypeOK
<1> QED
  BY <1>2, <1>3, <1>5, <1>6, <1>7

\* A refused session was not counted.
LEMMA WsRefuseKeeps == ASSUME NEW r \in Requests, IInv, WsRefuse(r) PROVE IInv'
<1> USE DEF WsRefuse
<1>1. \A p \in Proxies : Served(p)' = Served(p)
  BY DEF Served, TypeOK
<1>2. Counted'
  BY <1>1, ServedSame
<1>3. PermitsExact'
  BY PermitsSame DEF PermitsExact, TypeOK
<1>4. \A p \in Proxies, k \in Keys : Sessions(p, k)' = Sessions(p, k)
  BY DEF Sessions, TypeOK
<1>5. SessionsExact'
  BY <1>4, SessionsSame
<1>6. TypeOK'
  BY DEF TypeOK
<1>7. Loaded' /\ Fenced'
  BY DEF Loaded, Fenced, TypeOK
<1> QED
  BY <1>2, <1>3, <1>5, <1>6, <1>7

\* An acquired session is counted.
LEMMA WsAcquireKeeps == ASSUME NEW r \in Requests, IInv, WsAcquire(r) PROVE IInv'
<1> USE DEF WsAcquire
<1>1. \A p \in Proxies : Served(p)' = Served(p)
  BY DEF Served, TypeOK
<1>2. Counted'
  BY <1>1, ServedSame
<1>3. PermitsExact'
  BY PermitsSame DEF PermitsExact, TypeOK
<1>4. /\ via[r] \in Proxies /\ key[r] \in Keys
      /\ r \notin Sessions(via[r], key[r])
  BY DEF Loaded, Sessions, TypeOK
<1>5. Sessions(via[r], key[r])' = Sessions(via[r], key[r]) \cup {r}
  BY <1>4 DEF Sessions, TypeOK
<1>6. \A p \in Proxies, k \in Keys : ~(p = via[r] /\ k = key[r]) =>
         Sessions(p, k)' = Sessions(p, k) /\ counts'[p][k] = counts[p][k]
  BY <1>4 DEF Sessions, TypeOK
<1>7. Cardinality(Sessions(via[r], key[r])') = Cardinality(Sessions(via[r], key[r])) + 1
  BY <1>4, <1>5, Joins, Finite
<1>8. MaxPerKey > 0 => /\ counts[via[r]][key[r]] < MaxPerKey
                         /\ counts'[via[r]][key[r]] = counts[via[r]][key[r]] + 1
  BY <1>4 DEF TypeOK
<1>9. SessionsExact'
  <2> SUFFICES ASSUME MaxPerKey > 0, NEW p \in Proxies, NEW k \in Keys
               PROVE  /\ counts'[p][k] = Cardinality(Sessions(p, k)')
                      /\ counts'[p][k] <= MaxPerKey
    BY DEF SessionsExact
  <2>1. counts[p][k] = Cardinality(Sessions(p, k)) /\ counts[p][k] <= MaxPerKey
    BY DEF SessionsExact
  <2>2. CASE p = via[r] /\ k = key[r]
    BY <1>7, <1>8, <2>1, <2>2 DEF TypeOK
  <2>3. CASE ~(p = via[r] /\ k = key[r])
    BY <1>6, <2>1, <2>3
  <2> QED
    BY <2>2, <2>3
<1>10. TypeOK'
  <2>1. counts[via[r]] \in [Keys -> Nat] /\ counts[via[r]][key[r]] \in Nat
    BY <1>4 DEF TypeOK
  <2>2. counts' \in [Proxies -> [Keys -> Nat]]
    <3>1. CASE MaxPerKey = 0
      BY <1>4, <2>1, <3>1 DEF TypeOK
    <3>2. CASE MaxPerKey # 0
      <4>1. counts' = [counts EXCEPT ![via[r]] =
                         [counts[via[r]] EXCEPT ![key[r]] = counts[via[r]][key[r]] + 1]]
        BY <3>2
      <4>2. [counts[via[r]] EXCEPT ![key[r]] = counts[via[r]][key[r]] + 1] \in [Keys -> Nat]
        BY <1>4, <2>1, CountUp
      <4> QED
        BY <1>4, <4>1, <4>2 DEF TypeOK
    <3> QED
      BY <3>1, <3>2
  <2> QED
    BY <2>2 DEF TypeOK
<1>11. Loaded' /\ Fenced'
  BY DEF Loaded, Fenced, TypeOK
<1> QED
  BY <1>2, <1>3, <1>9, <1>10, <1>11

\* The relay starts.
LEMMA WsRelayKeeps == ASSUME NEW r \in Requests, IInv, WsRelay(r) PROVE IInv'
<1> USE DEF WsRelay
<1>1. \A p \in Proxies : Served(p)' = Served(p)
  BY DEF Served, TypeOK
<1>2. Counted'
  BY <1>1, ServedSame
<1>3. PermitsExact'
  BY PermitsSame DEF PermitsExact, TypeOK
<1>4. \A p \in Proxies, k \in Keys : Sessions(p, k)' = Sessions(p, k)
  BY DEF Sessions, TypeOK
<1>5. SessionsExact'
  BY <1>4, SessionsSame
<1>6. TypeOK'
  BY DEF TypeOK
<1>7. Loaded' /\ Fenced'
  BY DEF Loaded, Fenced, TypeOK
<1> QED
  BY <1>2, <1>3, <1>5, <1>6, <1>7

\* The deferred Release takes the session out.
LEMMA WsEndKeeps == ASSUME NEW r \in Requests, IInv, WsEnd(r) PROVE IInv'
<1> USE DEF WsEnd, ReleaseKey
<1>1. \A p \in Proxies : Served(p)' = Served(p)
  BY DEF Served, TypeOK
<1>2. Counted'
  BY <1>1, ServedSame
<1>3. PermitsExact'
  BY PermitsSame DEF PermitsExact, TypeOK
<1>4. /\ via[r] \in Proxies /\ key[r] \in Keys
      /\ r \in Sessions(via[r], key[r])
  BY DEF Loaded, Sessions, TypeOK
<1>5. Sessions(via[r], key[r])' = Sessions(via[r], key[r]) \ {r}
  BY <1>4 DEF Sessions, TypeOK
<1>6. \A p \in Proxies, k \in Keys : ~(p = via[r] /\ k = key[r]) =>
         Sessions(p, k)' = Sessions(p, k) /\ counts'[p][k] = counts[p][k]
  BY <1>4 DEF Sessions, TypeOK
<1>7. /\ Cardinality(Sessions(via[r], key[r])') = Cardinality(Sessions(via[r], key[r])) - 1
      /\ Cardinality(Sessions(via[r], key[r])) \in Nat \ {0}
  BY <1>4, <1>5, Parts, Finite
<1>8. MaxPerKey > 0 =>
        counts'[via[r]][key[r]] = IF counts[via[r]][key[r]] <= 1 THEN 0
                                  ELSE counts[via[r]][key[r]] - 1
  BY <1>4 DEF TypeOK
<1>9. SessionsExact'
  <2> SUFFICES ASSUME MaxPerKey > 0, NEW p \in Proxies, NEW k \in Keys
               PROVE  /\ counts'[p][k] = Cardinality(Sessions(p, k)')
                      /\ counts'[p][k] <= MaxPerKey
    BY DEF SessionsExact
  <2>1. counts[p][k] = Cardinality(Sessions(p, k)) /\ counts[p][k] <= MaxPerKey
    BY DEF SessionsExact
  <2>2. CASE p = via[r] /\ k = key[r]
    <3> DEFINE n == Cardinality(Sessions(p, k))
    <3>1. n \in Nat \ {0} /\ n <= MaxPerKey
      BY <1>7, <2>1, <2>2
    <3>2. Cardinality(Sessions(p, k)') = n - 1
      BY <1>7, <2>2
    <3>3. counts'[p][k] = IF n <= 1 THEN 0 ELSE n - 1
      BY <1>8, <2>1, <2>2
    <3> HIDE DEF n
    <3> QED
      BY <3>1, <3>2, <3>3
  <2>3. CASE ~(p = via[r] /\ k = key[r])
    BY <1>6, <2>1, <2>3
  <2> QED
    BY <2>2, <2>3
<1>10. TypeOK'
  <2>1. counts[via[r]] \in [Keys -> Nat] /\ counts[via[r]][key[r]] \in Nat
    BY <1>4 DEF TypeOK
  <2>2. counts' \in [Proxies -> [Keys -> Nat]]
    <3>1. CASE MaxPerKey = 0
      BY <1>4, <2>1, <3>1 DEF TypeOK
    <3>2. CASE MaxPerKey # 0
      BY <1>4, <2>1, <3>2 DEF TypeOK
    <3> QED
      BY <3>1, <3>2
  <2> QED
    BY <2>2 DEF TypeOK
<1>11. Loaded' /\ Fenced'
  BY DEF Loaded, Fenced, TypeOK
<1> QED
  BY <1>2, <1>3, <1>9, <1>10, <1>11

\* closing goes up.
LEMMA FenceKeeps == ASSUME NEW p \in Proxies, IInv, Fence(p) PROVE IInv'
<1> USE DEF Fence
<1>1. \A q \in Proxies : Served(q)' = Served(q)
  BY DEF Served
<1>2. Counted'
  BY <1>1 DEF Counted, TypeOK
<1>3. PermitsExact'
  BY PermitsSame DEF PermitsExact, TypeOK
<1>4. \A q \in Proxies, k \in Keys : Sessions(q, k)' = Sessions(q, k)
  BY DEF Sessions, TypeOK
<1>5. SessionsExact'
  BY <1>4, SessionsSame
<1>6. TypeOK'
  BY DEF TypeOK
<1>7. Loaded' /\ Fenced'
  BY DEF Loaded, Fenced, TypeOK
<1> QED
  BY <1>2, <1>3, <1>5, <1>6, <1>7

\* Wait returns only when nobody is served.
LEMMA DrainedKeeps == ASSUME NEW p \in Proxies, IInv, Drained(p) PROVE IInv'
<1> USE DEF Drained
<1>1. \A q \in Proxies : Served(q)' = Served(q)
  BY DEF Served
<1>2. Counted'
  BY <1>1 DEF Counted, TypeOK
<1>3. PermitsExact'
  BY PermitsSame DEF PermitsExact, TypeOK
<1>4. \A q \in Proxies, k \in Keys : Sessions(q, k)' = Sessions(q, k)
  BY DEF Sessions, TypeOK
<1>5. SessionsExact'
  BY <1>4, SessionsSame
<1>6. TypeOK'
  BY DEF TypeOK
<1>7. Loaded' /\ Fenced'
  BY DEF Loaded, Fenced, TypeOK
<1> QED
  BY <1>2, <1>3, <1>5, <1>6, <1>7

\* The deadline passes.
LEMMA ExpireKeeps == ASSUME NEW p \in Proxies, IInv, Expire(p) PROVE IInv'
<1> USE DEF Expire
<1>1. \A q \in Proxies : Served(q)' = Served(q)
  BY DEF Served
<1>2. Counted'
  BY <1>1 DEF Counted, TypeOK
<1>3. PermitsExact'
  BY PermitsSame DEF PermitsExact, TypeOK
<1>4. \A q \in Proxies, k \in Keys : Sessions(q, k)' = Sessions(q, k)
  BY DEF Sessions, TypeOK
<1>5. SessionsExact'
  BY <1>4, SessionsSame
<1>6. TypeOK'
  BY DEF TypeOK
<1>7. Loaded' /\ Fenced'
  BY DEF Loaded, Fenced, TypeOK
<1> QED
  BY <1>2, <1>3, <1>5, <1>6, <1>7

\* The transports go.
LEMMA ReleaseKeeps == ASSUME NEW p \in Proxies, IInv, Release(p) PROVE IInv'
<1> USE DEF Release
<1>1. \A q \in Proxies : Served(q)' = Served(q)
  BY DEF Served
<1>2. Counted'
  BY <1>1 DEF Counted, TypeOK
<1>3. PermitsExact'
  BY PermitsSame DEF PermitsExact, TypeOK
<1>4. \A q \in Proxies, k \in Keys : Sessions(q, k)' = Sessions(q, k)
  BY DEF Sessions, TypeOK
<1>5. SessionsExact'
  BY <1>4, SessionsSame
<1>6. TypeOK'
  BY DEF TypeOK
<1>7. Loaded' /\ Fenced'
  BY DEF Loaded, Fenced, TypeOK
<1> QED
  BY <1>2, <1>3, <1>5, <1>6, <1>7

\* c.next is swapped and the old proxy's teardown starts.
LEMMA SwapKeeps == ASSUME IInv, Swap PROVE IInv'
<1> USE DEF Swap
<1>1. \A q \in Proxies : Served(q)' = Served(q)
  BY DEF Served
<1>2. Counted'
  BY <1>1 DEF Counted, TypeOK, Loaded, Fenced
<1>3. PermitsExact'
  BY PermitsSame DEF PermitsExact, TypeOK
<1>4. \A p \in Proxies, k \in Keys : Sessions(p, k)' = Sessions(p, k)
  BY DEF Sessions, TypeOK
<1>5. SessionsExact'
  BY <1>4, SessionsSame
<1>6. TypeOK'
  BY DEF TypeOK
<1>7. Loaded' /\ Fenced'
  BY DEF Loaded, Fenced, TypeOK
<1> QED
  BY <1>2, <1>3, <1>5, <1>6, <1>7

\* The response cache is installed.
LEMMA InstallCacheKeeps == ASSUME IInv, InstallCache PROVE IInv'
<1> USE DEF InstallCache
<1>1. \A p \in Proxies : Served(p)' = Served(p)
  BY DEF Served, TypeOK
<1>2. Counted'
  BY <1>1, ServedSame
<1>3. PermitsExact'
  BY PermitsSame DEF PermitsExact, TypeOK
<1>4. \A p \in Proxies, k \in Keys : Sessions(p, k)' = Sessions(p, k)
  BY DEF Sessions, TypeOK
<1>5. SessionsExact'
  BY <1>4, SessionsSame
<1>6. TypeOK'
  BY DEF TypeOK
<1>7. Loaded' /\ Fenced'
  BY DEF Loaded, Fenced, TypeOK
<1> QED
  BY <1>2, <1>3, <1>5, <1>6, <1>7

\* The listeners close.
LEMMA ShutdownBeginKeeps == ASSUME IInv, ShutdownBegin PROVE IInv'
<1> USE DEF ShutdownBegin
<1>1. \A p \in Proxies : Served(p)' = Served(p)
  BY DEF Served, TypeOK
<1>2. Counted'
  BY <1>1, ServedSame
<1>3. PermitsExact'
  BY PermitsSame DEF PermitsExact, TypeOK
<1>4. \A p \in Proxies, k \in Keys : Sessions(p, k)' = Sessions(p, k)
  BY DEF Sessions, TypeOK
<1>5. SessionsExact'
  BY <1>4, SessionsSame
<1>6. TypeOK'
  BY DEF TypeOK
<1>7. Loaded' /\ Fenced'
  BY DEF Loaded, Fenced, TypeOK
<1> QED
  BY <1>2, <1>3, <1>5, <1>6, <1>7

\* The chain is closed.
LEMMA ShutdownCloseKeeps == ASSUME IInv, ShutdownClose PROVE IInv'
<1> USE DEF ShutdownClose
<1>1. \A p \in Proxies : Served(p)' = Served(p)
  BY DEF Served, TypeOK
<1>2. Counted'
  BY <1>1, ServedSame
<1>3. PermitsExact'
  BY PermitsSame DEF PermitsExact, TypeOK
<1>4. \A p \in Proxies, k \in Keys : Sessions(p, k)' = Sessions(p, k)
  BY DEF Sessions, TypeOK
<1>5. SessionsExact'
  BY <1>4, SessionsSame
<1>6. TypeOK'
  BY DEF TypeOK
<1>7. Loaded' /\ Fenced'
  BY DEF Loaded, Fenced, TypeOK
<1> QED
  BY <1>2, <1>3, <1>5, <1>6, <1>7

-----------------------------------------------------------------------------

\* NewChain and New establish the invariant.
LEMMA InitIInv == Init => IInv
<1> SUFFICES ASSUME Init PROVE IInv
  OBVIOUS
<1>1. TypeOK /\ Loaded /\ Fenced
  BY DEF Init, TypeOK, Loaded, Fenced
<1>2. /\ Holders = {} /\ \A p \in Proxies : Served(p) = {}
      /\ \A p \in Proxies, k \in Keys : Sessions(p, k) = {}
  BY DEF Init, Holders, Served, Sessions
<1>3. Counted /\ PermitsExact /\ SessionsExact
  <2>1. Counted
    BY <1>2, FS_EmptySet DEF Init, Counted
  <2>2. PermitsExact
    <3>1. permits = Cardinality(Holders) /\ permits = 0
      BY <1>2, FS_EmptySet DEF Init
    <3>2. \A r \in Requests : ~permit[r]
      BY DEF Init
    <3> QED
      BY <3>1, <3>2 DEF PermitsExact, Holders
  <2>3. SessionsExact
    <3>1. \A p \in Proxies, k \in Keys : counts[p][k] = 0
      BY DEF Init
    <3>2. \A p \in Proxies, k \in Keys : Cardinality(Sessions(p, k)) = 0
      BY <1>2, FS_EmptySet
    <3> QED
      BY <3>1, <3>2 DEF SessionsExact
  <2> QED
    BY <2>1, <2>2, <2>3
<1> QED
  BY <1>1, <1>3

\* Every step keeps it.
LEMMA NextKeepsIInv == IInv /\ [Next]_vars => IInv'
<1> SUFFICES ASSUME IInv, [Next]_vars PROVE IInv'
  OBVIOUS
<1>1. ASSUME NEW r \in Requests, Request(r) PROVE IInv'
  BY <1>1, PreflightKeeps, EnterKeeps, DeniedKeeps, LoadKeeps, AdmitKeeps,
     RejectKeeps, RespondKeeps, LeaveKeeps, WsRefuseKeeps, WsAcquireKeeps,
     WsRelayKeeps, WsEndKeeps DEF Request
<1>2. ASSUME NEW p \in Proxies, Teardown(p) PROVE IInv'
  BY <1>2, FenceKeeps, DrainedKeeps, ExpireKeeps, ReleaseKeeps DEF Teardown
<1>3. CASE Swap \/ InstallCache \/ ShutdownBegin \/ ShutdownClose
  BY <1>3, SwapKeeps, InstallCacheKeeps, ShutdownBeginKeeps, ShutdownCloseKeeps
<1>4. CASE UNCHANGED vars
  <2>1. TypeOK' /\ Loaded' /\ Fenced'
    BY <1>4 DEF vars, TypeOK, Loaded, Fenced
  <2>2. /\ \A p \in Proxies : Served(p)' = Served(p)
        /\ \A p \in Proxies, k \in Keys : Sessions(p, k)' = Sessions(p, k)
    BY <1>4 DEF vars, Served, Sessions
  <2>3. Counted' /\ SessionsExact'
    BY <1>4, <2>2, ServedSame, SessionsSame DEF vars
  <2>4. PermitsExact'
    BY <1>4, PermitsSame DEF vars, PermitsExact
  <2> QED
    BY <2>1, <2>3, <2>4
<1> QED
  BY <1>1, <1>2, <1>3, <1>4 DEF Next

\* The inductive invariant holds throughout.
THEOREM Invariance == Spec => []IInv
BY InitIInv, NextKeepsIInv, PTL DEF Spec

\* Every variable keeps its type; in particular no counter goes negative.
THEOREM TypeCorrect == Spec => []TypeOK
<1>1. IInv => TypeOK
  OBVIOUS
<1> QED
  BY <1>1, Invariance, PTL

\* Close releases the transports of a swapped-out proxy under a request only if
\* the deadline passed first.
THEOREM TransportsAreSafe == Spec => []TransportOutlivesRequests
<1>1. IInv => TransportOutlivesRequests
  <2> SUFFICES ASSUME IInv, NEW p \in Proxies, teardown[p] = "released", ~expired[p]
               PROVE  Served(p) = {}
    BY DEF TransportOutlivesRequests
  <2>1. Cardinality(Served(p)) = 0
    BY DEF Counted
  <2> QED
    BY <2>1, Finite, FS_EmptySet
<1> QED
  BY <1>1, Invariance, PTL

\* No request is admitted once Close may be waiting on the WaitGroup.
THEOREM WaitGroupRule == Spec => NoAddDuringWait
<1> DEFINE A == \A p \in Proxies :
                    teardown[p] \in {"wait", "release", "released"}
                    => inflight'[p] <= inflight[p]
<1>1. IInv /\ [Next]_vars => [A]_vars
  <2> SUFFICES ASSUME IInv, Next, NEW p \in Proxies,
                      teardown[p] \in {"wait", "release", "released"}
               PROVE  inflight'[p] <= inflight[p]
    OBVIOUS
  <2>1. inflight[p] \in Nat /\ closing[p]
    BY DEF TypeOK, Fenced
  <2>2. CASE inflight' = inflight
    BY <2>1, <2>2
  <2>3. ASSUME NEW r \in Requests, Admit(r) PROVE inflight'[p] <= inflight[p]
    <3>1. p # via[r]
      BY <2>1, <2>3 DEF Admit
    <3> QED
      BY <2>1, <2>3, <3>1 DEF Admit, TypeOK
  <2>4. ASSUME NEW r \in Requests, Respond(r) PROVE inflight'[p] <= inflight[p]
    BY <2>1, <2>4 DEF Respond, TypeOK
  <2> QED
    BY <2>2, <2>3, <2>4
       DEF Next, Request, Teardown, Preflight, Enter, Denied, Load, Reject, Leave,
           WsRefuse, WsAcquire, WsRelay, WsEnd, Swap, Fence, Drained, Expire,
           Release, InstallCache, ShutdownBegin, ShutdownClose
<1>2. Spec => [][A]_vars
  BY <1>1, Invariance, PTL DEF Spec
<1> QED
  BY <1>2 DEF NoAddDuringWait

\* The semaphore holds exactly the permits of the requests inside, whichever
\* way they leave.
THEOREM PermitsNeverDrift == Spec => []PermitsExact
<1>1. IInv => PermitsExact
  OBVIOUS
<1> QED
  BY <1>1, Invariance, PTL

\* Each proxy's WebSocket limiter counts exactly its sessions.
THEOREM SessionsNeverDrift == Spec => []SessionsExact
<1>1. IInv => SessionsExact
  OBVIOUS
<1> QED
  BY <1>1, Invariance, PTL
=============================================================================
