--------------------------- MODULE ExternalProofs ---------------------------
(***************************************************************************)
(* Proofs about ExternalLimits, for any finite set of requests, any        *)
(* lookup keys, permits, failure threshold and cap on the breakers.        *)
(*                                                                         *)
(* FlightInv says who leads the fetch of a key.  On it rest PermitsInv     *)
(* (the semaphore), CountInv (the counter of the breakers), CapInv (the    *)
(* cap on them) and OpenInv (what an open breaker lets through).           *)
(***************************************************************************)
EXTENDS ExternalLimits, FiniteSetTheorems, TLAPS

Places == {"idle", "breaker", "cap", "create", "count", "acquire", "join", "wait",
           "recheck", "fetch", "store", "fallback", "finish", "release", "return"}

\* Types, and that a request has a lookup key while it is in GetLimits.
LimitsTyped ==
    /\ breakers \in [Keys -> Breakers \cup {Nil}]
    /\ breakerCount \in Nat
    /\ exempt \in [Keys -> SUBSET Requests]
    /\ flight \in [Keys -> Requests \cup {Nil}]
    /\ at \in [Requests -> Places]
    /\ lk \in [Requests -> Keys \cup {Nil}]
    /\ op \in [Requests -> {"isOpen", "failure", "success"}]
    /\ result \in [Requests -> {"limits", "stale", "error", Nil}]
    /\ evictor \in Keys \cup {Nil} /\ deleted \in BOOLEAN
    /\ \A r \in Requests : at[r] = "idle" <=> lk[r] = Nil

\* What getOrCreateCB is called for, by where the request is.
OpsOK ==
    \A r \in Requests :
        /\ at[r] \in {"idle", "acquire", "join", "wait", "recheck", "fetch", "return"}
              => op[r] = "isOpen"
        /\ at[r] = "fallback" => op[r] # "success"

\* The requests between TryAcquire and Release.
Holders == {r \in Requests : Leads(r) \/ at[r] \in {"join", "wait", "release"}}

\* Leaders are in flight for their own key.
LeadersExact ==
    /\ \A r \in Requests : Leads(r) <=> lk[r] # Nil /\ flight[lk[r]] = r
    /\ \A k \in Keys : flight[k] # Nil => lk[flight[k]] = k

FlightInv == LimitsTyped /\ OpsOK /\ LeadersExact /\ WaitersHaveLeader

\* fetchSem has given one permit to each holder.
PermitsInv == permits = Cardinality(Holders) /\ permits <= MaxConcurrent

\* The requests between LoadOrStore and breakerCount.Add(1).
Counting == {r \in Requests : at[r] = "count"}
InMap == {k \in Keys : breakers[k] # Nil}

\* A breaker that is about to be counted is in the map, is not idle and is not
\* the one the evictor is about to delete; and one request counts it.
CountedOnce ==
    /\ \A r \in Counting :
          /\ breakers[lk[r]] # Nil /\ ~breakers[lk[r]].idle
          /\ evictor = lk[r] => deleted
    /\ \A q, r \in Counting : lk[q] = lk[r] => q = r

\* The evictor deletes what is in the map.
EvictsPresent ==
    /\ evictor # Nil /\ ~deleted => breakers[evictor] # Nil
    /\ deleted => evictor # Nil

\* The counter lacks the breakers about to be counted, and has the one that is
\* deleted and not counted off.
CountExact ==
    breakerCount + Cardinality(Counting) =
        Cardinality(InMap) + (IF deleted THEN 1 ELSE 0)

CountInv == IsFiniteSet(InMap) /\ CountedOnce /\ EvictsPresent /\ CountExact

\* Requests that have passed the cap, and whose breaker is not counted yet.
Creating == {r \in Requests : at[r] \in {"create", "count"}}

\* The cap is checked before the breaker is counted, so every request may pass
\* it on the last free place.
CapInv == breakerCount + Cardinality(Creating) <= MaxBreakers - 1 + Cardinality(Requests)

\* The map of breakers exceeds its cap by no more than the requests that were
\* between the check and LoadOrStore at once (getOrCreateCB).
MapBounded == Cardinality(InMap) <= MaxBreakers - 1 + Cardinality(Requests)

\* Where a request is that isOpen has let through, or that has just made the
\* breaker it asked about.
LetThrough == {"cap", "count", "acquire", "join", "recheck", "fetch"}

\* Such a request is exempt, once the breaker of its key is open.
OpenInv ==
    \A r \in Requests :
        at[r] \in LetThrough /\ op[r] = "isOpen"
        /\ breakers[lk[r]] # Nil /\ IsOpen(breakers[lk[r]])
            => r \in exempt[lk[r]]

\* The three methods of a breaker give a breaker, and leave it not idle.
LEMMA MethodTyped ==
    ASSUME NEW o, NEW b \in Breakers
    PROVE  Method(o, b) \in Breakers /\ ~Method(o, b).idle
<1> USE ExternalAssumption
<1>1. RecordFailure(b) \in Breakers /\ ~RecordFailure(b).idle
  BY DEF RecordFailure, Breakers
<1>2. RecordSuccess(b) \in Breakers /\ ~RecordSuccess(b).idle
  <2>1. /\ RecordSuccess(b) = [b EXCEPT !.failures = 0, !.open = FALSE, !.hot = FALSE,
                                        !.idle = FALSE]
        /\ DOMAIN b = {"failures", "open", "hot", "idle"}
    BY DEF RecordSuccess, Breakers
  <2>2. RecordSuccess(b) =
            [failures |-> 0, open |-> FALSE, hot |-> FALSE, idle |-> FALSE]
    BY Zenon, <2>1
  <2> QED
    BY <2>2 DEF Breakers
<1>3. [b EXCEPT !.idle = FALSE] \in Breakers /\ ~[b EXCEPT !.idle = FALSE].idle
  BY Zenon DEF Breakers
<1> QED
  BY <1>1, <1>2, <1>3 DEF Method

\* A new breaker is closed and is a breaker.
LEMMA NewBreakerTyped == NewBreaker \in Breakers /\ ~NewBreaker.idle /\ ~IsOpen(NewBreaker)
BY ExternalAssumption DEF NewBreaker, Breakers, IsOpen

\* Becomes changes one breaker and one set of exempt requests.
LEMMA BecomesTyped ==
    ASSUME LimitsTyped, NEW r \in Requests, NEW b \in Breakers, lk[r] \in Keys, Becomes(r, b)
    PROVE  /\ breakers' \in [Keys -> Breakers \cup {Nil}]
           /\ exempt' \in [Keys -> SUBSET Requests]
BY DEF LimitsTyped, Becomes, PastCheck

\* Where the caller of getOrCreateCB goes on.
LEMMA ContinueMoves ==
    ASSUME LimitsTyped, OpsOK, NEW r \in Requests, NEW open, Continue(r, open)
    PROVE  \E p \in {"fallback", "store", "acquire"} :
              /\ at' = [at EXCEPT ![r] = p]
              /\ p = "fallback" => op[r] = "failure" \/ (op[r] = "isOpen" /\ open)
              /\ p = "store" => op[r] = "success"
              /\ p = "acquire" => op[r] = "isOpen"
BY Zenon DEF LimitsTyped, Continue

\* The places inside getOrCreateCB.
InCB == {"breaker", "cap", "create", "count"}

\* A step of getOrCreateCB moves one request within it, or on to where the
\* method's answer sends it, and leaves permits and flights alone.
LEMMA BreakerMoves ==
    ASSUME LimitsTyped, OpsOK, NEW r \in Requests,
           LoadBreaker(r) \/ CheckCap(r) \/ LoadOrStore(r) \/ CountBreaker(r)
    PROVE  /\ at[r] \in InCB /\ lk[r] \in Keys
           /\ UNCHANGED <<store, permits, flight, call, context, evicting>>
           /\ \E p \in {"cap", "create", "count", "fallback", "store", "acquire"} :
                 /\ at' = [at EXCEPT ![r] = p]
                 /\ p = "fallback" => op[r] # "success"
                 /\ p = "store" => op[r] = "success"
                 /\ p = "acquire" => op[r] = "isOpen"
<1> USE DEF InCB
<1>1. CASE LoadBreaker(r)
  <2>1. /\ at[r] = "breaker" /\ lk[r] \in Keys
        /\ UNCHANGED <<store, permits, flight, call, context, evicting>>
    BY <1>1 DEF LoadBreaker, LimitsTyped, Places
  <2>2. CASE breakers[lk[r]] # Nil
    BY <1>1, <2>1, <2>2, ContinueMoves DEF LoadBreaker, Apply
  <2>3. CASE breakers[lk[r]] = Nil
    BY <1>1, <2>1, <2>3 DEF LoadBreaker
  <2> QED BY <2>1, <2>2, <2>3
<1>2. CASE CheckCap(r)
  <2>1. /\ at[r] = "cap" /\ lk[r] \in Keys
        /\ UNCHANGED <<store, permits, flight, call, context, evicting>>
    BY <1>2 DEF CheckCap, LimitsTyped, Places
  <2> QED
    BY Zenon, <1>2, <2>1, ContinueMoves DEF CheckCap
<1>3. CASE LoadOrStore(r)
  <2>1. /\ at[r] = "create" /\ lk[r] \in Keys
        /\ UNCHANGED <<store, permits, flight, call, context, evicting>>
    BY <1>3 DEF LoadOrStore, LimitsTyped, Places
  <2>2. CASE breakers[lk[r]] # Nil
    BY <1>3, <2>1, <2>2, ContinueMoves DEF LoadOrStore, Apply
  <2>3. CASE breakers[lk[r]] = Nil
    BY <1>3, <2>1, <2>3 DEF LoadOrStore
  <2> QED BY <2>1, <2>2, <2>3
<1>4. CASE CountBreaker(r)
  <2>1. /\ at[r] = "count" /\ lk[r] \in Keys
        /\ UNCHANGED <<store, permits, flight, call, context, evicting>>
    BY <1>4 DEF CountBreaker, LimitsTyped, Places
  <2>2. CASE breakers[lk[r]] # Nil
    BY <1>4, <2>1, <2>2, ContinueMoves DEF CountBreaker, Apply
  <2>3. CASE breakers[lk[r]] = Nil
    BY Zenon, <1>4, <2>1, <2>3, ContinueMoves DEF CountBreaker
  <2> QED BY <2>1, <2>2, <2>3
<1> QED BY <1>1, <1>2, <1>3, <1>4

\* The steps that touch no request's place: time, clients and the evictor.
Around ==
    \/ \E r \in Requests : Cancel(r)
    \/ \E k \in Keys : Expire(k) \/ Age(k) \/ FindIdle(k)
    \/ DeleteBreaker \/ CountOff

\* They leave requests, permits and flights as they are.
LEMMA AroundFrame == Around => UNCHANGED <<permits, flight, at, call>>
BY DEF Around, Cancel, Expire, Age, FindIdle, DeleteBreaker, CountOff

\* The steps between the breaker and the return move one request from where it
\* is to a place that suits its op.
LEMMA FetchMoves ==
    ASSUME LimitsTyped, OpsOK, NEW r \in Requests,
           Fallback(r) \/ Recheck(r) \/ Fetch(r) \/ StoreAnswer(r)
    PROVE  /\ lk[r] \in Keys
           /\ UNCHANGED <<breaking, permits, flight, lk, context, evicting>>
           /\ \E v \in {"limits", "stale", "error", Nil} : result' = [result EXCEPT ![r] = v]
           /\ \/ /\ at[r] = "fallback" /\ op' = op
                 /\ at' = [at EXCEPT ![r] = IF op[r] = "failure" THEN "finish" ELSE "return"]
              \/ /\ at[r] = "recheck" /\ op' = op
                 /\ \E p \in {"finish", "fetch"} : at' = [at EXCEPT ![r] = p]
              \/ /\ at[r] = "fetch" /\ at' = [at EXCEPT ![r] = "breaker"]
                 /\ \E o \in {"failure", "success"} : op' = [op EXCEPT ![r] = o]
              \/ /\ at[r] = "store" /\ at' = [at EXCEPT ![r] = "finish"] /\ op' = op
<1>1. CASE Fallback(r)
  BY Zenon, <1>1 DEF Fallback, Go, Yield, LimitsTyped, Places
<1>2. CASE Recheck(r)
  <2>1. /\ at[r] = "recheck" /\ op' = op
        /\ UNCHANGED <<breaking, permits, flight, lk, context, evicting>>
        /\ \E p \in {"finish", "fetch"} : at' = [at EXCEPT ![r] = p]
    BY <1>2 DEF Recheck, Go
  <2>2. result' = [result EXCEPT ![r] = "limits"] \/ result' = [result EXCEPT ![r] = result[r]]
    BY <1>2 DEF Recheck, Yield, LimitsTyped
  <2>3. result[r] \in {"limits", "stale", "error", Nil} /\ lk[r] \in Keys
    BY <2>1 DEF LimitsTyped, Places
  <2> QED BY Zenon, <2>1, <2>2, <2>3
<1>3. CASE Fetch(r)
  <2>1. result' = [result EXCEPT ![r] = result[r]]
    BY <1>3 DEF Fetch, LimitsTyped
  <2>2. result[r] \in {"limits", "stale", "error", Nil} /\ lk[r] \in Keys
    BY <1>3 DEF Fetch, Go, LimitsTyped, Places
  <2>3. \E o \in {"failure", "success"} : op' = [op EXCEPT ![r] = o]
    BY <1>3 DEF Fetch
  <2> QED BY Zenon, <1>3, <2>1, <2>2, <2>3 DEF Fetch, Go
<1>4. CASE StoreAnswer(r)
  BY <1>4 DEF StoreAnswer, Go, Yield, LimitsTyped, Places
<1> QED BY <1>1, <1>2, <1>3, <1>4

\* LimitsNext, sorted by what the lemmas say of its steps.
LEMMA LimitsCases ==
    ASSUME LimitsNext
    PROVE  \/ \E r \in Requests :
                 \/ LoadBreaker(r) \/ CheckCap(r) \/ LoadOrStore(r) \/ CountBreaker(r)
                 \/ Fallback(r) \/ Recheck(r) \/ Fetch(r) \/ StoreAnswer(r)
                 \/ Acquire(r) \/ Join(r) \/ Finish(r) \/ Return(r)
                 \/ \E k \in Keys : Begin(r, k)
           \/ Around
BY DEF LimitsNext, Step, Around

\* The part of LimitsTyped that is about the breakers.
BreakersTyped ==
    /\ breakers \in [Keys -> Breakers \cup {Nil}]
    /\ exempt \in [Keys -> SUBSET Requests]
    /\ breakerCount \in Nat
    /\ evictor \in Keys \cup {Nil} /\ deleted \in BOOLEAN

\* Whatever a step does to the breakers, they stay breakers.
LEMMA BreakersStayTyped ==
    ASSUME LimitsTyped, OpsOK, [LimitsNext]_limitsVars
    PROVE  BreakersTyped'
<1> USE DEF BreakersTyped, LimitsTyped
<1>1. ASSUME NEW r \in Requests,
             LoadBreaker(r) \/ CheckCap(r) \/ LoadOrStore(r) \/ CountBreaker(r)
      PROVE  BreakersTyped'
  <2>1. lk[r] \in Keys /\ UNCHANGED evicting
    BY <1>1, BreakerMoves
  <2>2. breakerCount' \in Nat
    <3>1. breakerCount' = breakerCount \/ breakerCount' = breakerCount + 1
      BY Zenon, <1>1 DEF LoadBreaker, CheckCap, LoadOrStore, CountBreaker, breaking
    <3> QED BY <3>1
  <2>3. \/ UNCHANGED <<breakers, exempt>>
        \/ \E b \in Breakers : Becomes(r, b)
    <3>1. breakers[lk[r]] # Nil => Method(op[r], breakers[lk[r]]) \in Breakers
      BY <2>1, MethodTyped
    <3>2. CASE LoadBreaker(r)
      BY <3>1, <3>2 DEF LoadBreaker, Apply
    <3>3. CASE CheckCap(r)
      BY <3>3 DEF CheckCap, breaking
    <3>4. CASE LoadOrStore(r)
      BY <3>1, <3>4, NewBreakerTyped DEF LoadOrStore, Apply
    <3>5. CASE CountBreaker(r)
      BY Zenon, <3>1, <3>5 DEF CountBreaker, Apply
    <3> QED BY <1>1, <3>2, <3>3, <3>4, <3>5
  <2>4. breakers' \in [Keys -> Breakers \cup {Nil}] /\ exempt' \in [Keys -> SUBSET Requests]
    BY <2>1, <2>3, BecomesTyped
  <2> QED BY <2>1, <2>2, <2>4 DEF evicting
<1>2. ASSUME NEW r \in Requests, Fallback(r) \/ Recheck(r) \/ Fetch(r) \/ StoreAnswer(r)
      PROVE  BreakersTyped'
  BY <1>2, FetchMoves DEF breaking, evicting
<1>3. ASSUME NEW r \in Requests,
             Acquire(r) \/ Join(r) \/ Finish(r) \/ \E k \in Keys : Begin(r, k)
      PROVE  BreakersTyped'
  BY <1>3 DEF Acquire, Join, Finish, Begin, breaking, evicting
<1>4. ASSUME NEW r \in Requests, Return(r) PROVE BreakersTyped'
  BY <1>4 DEF Return, breaking, evicting
<1>5. ASSUME NEW k \in Keys, Age(k) PROVE BreakersTyped'
  <2>1. breakers[k] \in Breakers
    BY <1>5 DEF Age
  <2>2. /\ [breakers[k] EXCEPT !.hot = FALSE] \in Breakers
        /\ [breakers[k] EXCEPT !.idle = TRUE] \in Breakers
    BY Zenon, <2>1 DEF Breakers
  <2>3. breakers' \in [Keys -> Breakers \cup {Nil}]
    BY Zenon, <1>5, <2>2 DEF Age
  <2>4. exempt' \in [Keys -> SUBSET Requests]
    BY <1>5 DEF Age
  <2> QED BY <1>5, <2>3, <2>4 DEF Age, evicting
<1>6. CASE Around
  <2>1. ASSUME NEW k \in Keys, FindIdle(k) PROVE BreakersTyped'
    BY <2>1 DEF FindIdle, breaking
  <2>2. CASE DeleteBreaker
    BY <2>2 DEF DeleteBreaker
  <2>3. CASE CountOff
    <3>1. breakerCount' = IF breakerCount > 0 THEN breakerCount - 1 ELSE 0
      BY <2>3 DEF CountOff
    <3>2. breakerCount' \in Nat
      BY <3>1
    <3>3. evictor' = Nil /\ deleted' = FALSE /\ UNCHANGED <<breakers, exempt>>
      BY <2>3 DEF CountOff
    <3> QED BY Zenon, <3>2, <3>3
  <2>4. CASE (\E r \in Requests : Cancel(r)) \/ (\E k \in Keys : Expire(k))
    BY <2>4 DEF Cancel, Expire, breaking, evicting
  <2> QED BY <1>5, <1>6, <2>1, <2>2, <2>3, <2>4 DEF Around
<1>7. CASE UNCHANGED limitsVars
  BY <1>7 DEF limitsVars, breaking, evicting
<1> QED BY <1>1, <1>2, <1>3, <1>4, <1>6, <1>7, LimitsCases

\* FlightInv is inductive.
LEMMA FlightInductive ==
    ASSUME FlightInv, [LimitsNext]_limitsVars
    PROVE  FlightInv'
<1> USE DEF FlightInv
<1>0. BreakersTyped'
  BY BreakersStayTyped
<1> USE DEF LimitsTyped, BreakersTyped, Places, OpsOK, LeadersExact, WaitersHaveLeader,
            Leads, Leading
<1>1. ASSUME NEW r \in Requests,
             LoadBreaker(r) \/ CheckCap(r) \/ LoadOrStore(r) \/ CountBreaker(r)
      PROVE  FlightInv'
  <2>1. /\ at[r] \in InCB /\ lk[r] \in Keys /\ UNCHANGED <<flight, lk, op, result>>
        /\ \E p \in {"cap", "create", "count", "fallback", "store", "acquire"} :
              /\ at' = [at EXCEPT ![r] = p]
              /\ p = "fallback" => op[r] # "success"
              /\ p = "store" => op[r] = "success"
              /\ p = "acquire" => op[r] = "isOpen"
    BY <1>1, BreakerMoves DEF call
  <2>2. LimitsTyped' /\ OpsOK'
    BY <1>0, <2>1 DEF InCB
  <2>3. \A q \in Requests : Leads(q)' <=> Leads(q)
    BY <2>1 DEF InCB
  <2>4. WaitersHaveLeader'
    BY <2>1 DEF InCB
  <2> QED BY <2>1, <2>2, <2>3, <2>4
<1>2. ASSUME NEW r \in Requests, Fallback(r) \/ Recheck(r) \/ Fetch(r) \/ StoreAnswer(r)
      PROVE  FlightInv'
  <2>1. /\ lk[r] \in Keys /\ UNCHANGED <<flight, lk>>
        /\ \E v \in {"limits", "stale", "error", Nil} : result' = [result EXCEPT ![r] = v]
        /\ \/ /\ at[r] = "fallback" /\ op' = op
              /\ at' = [at EXCEPT ![r] = IF op[r] = "failure" THEN "finish" ELSE "return"]
           \/ /\ at[r] = "recheck" /\ op' = op
              /\ \E p \in {"finish", "fetch"} : at' = [at EXCEPT ![r] = p]
           \/ /\ at[r] = "fetch" /\ at' = [at EXCEPT ![r] = "breaker"]
              /\ \E o \in {"failure", "success"} : op' = [op EXCEPT ![r] = o]
           \/ /\ at[r] = "store" /\ at' = [at EXCEPT ![r] = "finish"] /\ op' = op
    BY <1>2, FetchMoves
  <2>2. LimitsTyped' /\ OpsOK'
    BY <1>0, <2>1
  <2>3. \A q \in Requests : Leads(q)' <=> Leads(q)
    BY <2>1
  <2>4. WaitersHaveLeader'
    BY <2>1
  <2> QED BY <2>1, <2>2, <2>3, <2>4
<1>3. ASSUME NEW r \in Requests, Acquire(r) PROVE FlightInv'
  <2>1. /\ at[r] = "acquire" /\ UNCHANGED <<flight, lk, op, result>>
        /\ \E p \in {"join", "fallback"} : at' = [at EXCEPT ![r] = p]
    BY <1>3 DEF Acquire, Go, call
  <2>2. LimitsTyped' /\ OpsOK'
    BY <1>0, <2>1
  <2> QED BY <2>1, <2>2
<1>4. ASSUME NEW r \in Requests, Join(r) PROVE FlightInv'
  <2>1. /\ at[r] = "join" /\ lk[r] \in Keys /\ UNCHANGED <<lk, op, result>>
        /\ \/ /\ flight[lk[r]] = Nil /\ at' = [at EXCEPT ![r] = "recheck"]
              /\ flight' = [flight EXCEPT ![lk[r]] = r]
           \/ /\ flight[lk[r]] # Nil /\ at' = [at EXCEPT ![r] = "wait"]
              /\ flight' = flight
    BY <1>4 DEF Join, Go, call
  <2>2. LimitsTyped' /\ OpsOK'
    BY <1>0, <2>1
  <2>3. LeadersExact'
    BY <2>1, ExternalAssumption
  <2>4. WaitersHaveLeader'
    BY <2>1, ExternalAssumption
  <2> QED BY <2>2, <2>3, <2>4
<1>5. ASSUME NEW r \in Requests, Finish(r) PROVE FlightInv'
  <2>1. /\ at[r] = "finish" /\ lk[r] \in Keys /\ UNCHANGED <<lk, op>>
        /\ flight' = [flight EXCEPT ![lk[r]] = Nil]
        /\ at' = [q \in Requests |-> IF q = r \/ q \in Waiters(lk[r]) THEN "release" ELSE at[q]]
        /\ result' \in [Requests -> {"limits", "stale", "error", Nil}]
    BY <1>5 DEF Finish, call
  <2>2. LimitsTyped' /\ OpsOK'
    BY <1>0, <2>1 DEF Waiters
  <2>3. LeadersExact'
    BY <2>1, ExternalAssumption DEF Waiters
  <2>4. WaitersHaveLeader'
    BY <2>1 DEF Waiters
  <2> QED BY <2>2, <2>3, <2>4
<1>6. ASSUME NEW r \in Requests, Return(r) PROVE FlightInv'
  <2>1. /\ at[r] \in {"release", "return"} /\ flight' = flight
        /\ at' = [at EXCEPT ![r] = "idle"] /\ lk' = [lk EXCEPT ![r] = Nil]
        /\ op' = [op EXCEPT ![r] = "isOpen"] /\ result' = [result EXCEPT ![r] = Nil]
    BY <1>6 DEF Return, Yield
  <2>2. LimitsTyped' /\ OpsOK'
    BY <1>0, <2>1
  <2>3. LeadersExact'
    BY <2>1
  <2> QED BY <2>1, <2>2, <2>3
<1>7. ASSUME NEW r \in Requests, NEW k \in Keys, Begin(r, k) PROVE FlightInv'
  <2>1. /\ at[r] = "idle" /\ at' = [at EXCEPT ![r] = "breaker"]
        /\ lk' = [lk EXCEPT ![r] = k] /\ UNCHANGED <<flight, op, result>>
    BY <1>7 DEF Begin, Go
  <2>2. LimitsTyped' /\ OpsOK'
    BY <1>0, <2>1, ExternalAssumption
  <2>3. LeadersExact'
    BY <2>1, ExternalAssumption
  <2> QED BY <2>1, <2>2, <2>3
<1>8. CASE Around \/ UNCHANGED limitsVars
  <2>1. UNCHANGED <<flight, at, lk, op, result>>
    BY <1>8, AroundFrame DEF limitsVars, call
  <2>2. LimitsTyped' /\ OpsOK'
    BY <1>0, <2>1
  <2> QED BY <2>1, <2>2
<1> QED BY Zenon, <1>1, <1>2, <1>3, <1>4, <1>5, <1>6, <1>7, <1>8, LimitsCases

\* Initially nobody is in GetLimits.
LEMMA FlightInitial == LimitsInit => FlightInv /\ Holders = {} /\ Counting = {} /\ InMap = {}
<1> SUFFICES ASSUME LimitsInit
             PROVE  FlightInv /\ Holders = {} /\ Counting = {} /\ InMap = {}
  OBVIOUS
<1> USE ExternalAssumption DEF LimitsInit
<1>1. LimitsTyped
  BY Zenon DEF LimitsTyped, Places
<1>2. OpsOK /\ WaitersHaveLeader
  BY DEF OpsOK, WaitersHaveLeader
<1>3. \A r \in Requests : ~Leads(r) /\ at[r] = "idle"
  BY DEF Leads, Leading
<1>4. LeadersExact
  BY <1>3 DEF LeadersExact
<1>5. Holders = {} /\ Counting = {}
  BY <1>3 DEF Holders, Counting
<1>6. InMap = {}
  BY DEF InMap
<1> QED BY <1>1, <1>2, <1>4, <1>5, <1>6 DEF FlightInv

\* fetchSem counts the requests between TryAcquire and Release.
LEMMA PermitsInductive ==
    ASSUME FlightInv, PermitsInv, [LimitsNext]_limitsVars
    PROVE  PermitsInv'
<1> USE DEF FlightInv
<1>1. IsFiniteSet(Holders) /\ Cardinality(Holders) \in Nat
  BY FS_Subset, FS_CardinalityType, ExternalAssumption DEF Holders
<1>2. ASSUME UNCHANGED permits, Holders' = Holders PROVE PermitsInv'
  BY <1>2 DEF PermitsInv
<1> USE DEF LimitsTyped, Places, OpsOK, Holders, Leads, Leading
<1>3. ASSUME NEW r \in Requests,
             LoadBreaker(r) \/ CheckCap(r) \/ LoadOrStore(r) \/ CountBreaker(r)
      PROVE  PermitsInv'
  <2>1. /\ at[r] \in InCB /\ UNCHANGED <<permits, op>>
        /\ \E p \in {"cap", "create", "count", "fallback", "store", "acquire"} :
              /\ at' = [at EXCEPT ![r] = p]
              /\ p = "fallback" => op[r] # "success"
              /\ p = "store" => op[r] = "success"
              /\ p = "acquire" => op[r] = "isOpen"
    BY <1>3, BreakerMoves DEF call
  <2>2. Holders' = Holders
    BY <2>1 DEF InCB
  <2> QED BY <1>2, <2>1, <2>2
<1>4. ASSUME NEW r \in Requests, Fallback(r) \/ Recheck(r) \/ Fetch(r) \/ StoreAnswer(r)
      PROVE  PermitsInv'
  <2>1. /\ UNCHANGED permits
        /\ \/ /\ at[r] = "fallback" /\ op' = op
              /\ at' = [at EXCEPT ![r] = IF op[r] = "failure" THEN "finish" ELSE "return"]
           \/ /\ at[r] = "recheck" /\ op' = op
              /\ \E p \in {"finish", "fetch"} : at' = [at EXCEPT ![r] = p]
           \/ /\ at[r] = "fetch" /\ at' = [at EXCEPT ![r] = "breaker"]
              /\ \E o \in {"failure", "success"} : op' = [op EXCEPT ![r] = o]
           \/ /\ at[r] = "store" /\ at' = [at EXCEPT ![r] = "finish"] /\ op' = op
    BY <1>4, FetchMoves
  <2>2. Holders' = Holders
    BY <2>1
  <2> QED BY <1>2, <2>1, <2>2
<1>5. ASSUME NEW r \in Requests, Acquire(r) PROVE PermitsInv'
  <2>1. CASE permits < MaxConcurrent
    <3>1. Holders' = Holders \cup {r} /\ r \notin Holders /\ permits' = permits + 1
      BY <1>5, <2>1 DEF Acquire, Go, call
    <3>2. Cardinality(Holders') = Cardinality(Holders) + 1
      <4> HIDE DEF Holders
      <4> QED BY Zenon, <1>1, <3>1, FS_AddElement
    <3> QED BY <1>1, <2>1, <3>1, <3>2, ExternalAssumption DEF PermitsInv
  <2>2. CASE ~(permits < MaxConcurrent)
    <3>1. Holders' = Holders /\ permits' = permits
      BY <1>5, <2>2 DEF Acquire, Go, call
    <3> QED BY <1>2, <3>1
  <2> QED BY <2>1, <2>2
<1>6. ASSUME NEW r \in Requests, Join(r) PROVE PermitsInv'
  <2>1. Holders' = Holders /\ permits' = permits
    BY <1>6 DEF Join, Go, call
  <2> QED BY <1>2, <2>1
<1>7. ASSUME NEW r \in Requests, Finish(r) PROVE PermitsInv'
  <2>1. Holders' = Holders /\ permits' = permits
    BY <1>7 DEF Finish, Waiters
  <2> QED BY <1>2, <2>1
<1>8. ASSUME NEW r \in Requests, Return(r) PROVE PermitsInv'
  <2>1. CASE at[r] = "release"
    <3>1. Holders' = Holders \ {r} /\ r \in Holders /\ permits' = permits - 1
      BY <1>8, <2>1 DEF Return
    <3>2. Cardinality(Holders') = Cardinality(Holders) - 1
      <4> HIDE DEF Holders
      <4> QED BY Zenon, <1>1, <3>1, FS_RemoveElement
    <3> QED BY <1>1, <3>1, <3>2, ExternalAssumption DEF PermitsInv
  <2>2. CASE at[r] = "return"
    <3>1. Holders' = Holders /\ permits' = permits
      BY <1>8, <2>2 DEF Return
    <3> QED BY <1>2, <3>1
  <2> QED BY <1>8, <2>1, <2>2 DEF Return
<1>9. ASSUME NEW r \in Requests, NEW k \in Keys, Begin(r, k) PROVE PermitsInv'
  <2>1. Holders' = Holders /\ permits' = permits
    BY <1>9 DEF Begin, Go
  <2> QED BY <1>2, <2>1
<1>10. CASE Around \/ UNCHANGED limitsVars
  <2>1. UNCHANGED <<permits, at, op>>
    BY <1>10, AroundFrame DEF limitsVars, call
  <2> QED BY <1>2, <2>1
<1> QED BY <1>3, <1>4, <1>5, <1>6, <1>7, <1>8, <1>9, <1>10, LimitsCases

\* FlightInv always holds.
LEMMA FlightAlways == LimitsSpec => []FlightInv
BY FlightInitial, FlightInductive, PTL DEF LimitsSpec

\* The permits taken are those of the requests between TryAcquire and Release,
\* and the leaders are the requests in the function passed to sfGroup.Do.
THEOREM FlightsAreExact == LimitsSpec => []FlightsExact
<1>1. LimitsInit => PermitsInv
  BY FlightInitial, FS_EmptySet, ExternalAssumption DEF LimitsInit, PermitsInv
<1>2. FlightInv /\ PermitsInv => FlightsExact
  BY DEF FlightInv, LeadersExact, PermitsInv, Holders, FlightsExact
<1> QED
  BY <1>1, <1>2, FlightAlways, PermitsInductive, PTL DEF LimitsSpec

\* Nobody waits in sfGroup.Do for a leader that is not there.
THEOREM WaitersAreLed == LimitsSpec => []WaitersHaveLeader
<1>1. FlightInv => WaitersHaveLeader
  BY DEF FlightInv
<1> QED
  BY <1>1, FlightAlways, PTL

\* GetLimits fails only for want of a stale copy, or with a request that has
\* gone.
THEOREM ErrorsAreLastResort == LimitsSpec => ErrorNeedsNoCopy
<1> DEFINE Due(r) ==
             \/ lk[r] \notin stale
             \/ canceled[r]
             \/ \E l \in Requests : flight[lk[r]] = l /\ result[l] = "error"
           Errors(r) == result'[r] = "error" /\ result[r] # "error" => Due(r)
<1>1. ASSUME FlightInv, [LimitsNext]_limitsVars
      PROVE  [\A r \in Requests : Errors(r)]_limitsVars
  <2>1. SUFFICES ASSUME LimitsNext, NEW q \in Requests, result'[q] = "error", result[q] # "error"
                 PROVE  Due(q)
    BY <1>1
  <2> USE <1>1 DEF FlightInv, LimitsTyped
  <2>2. ASSUME NEW r \in Requests, Fallback(r) PROVE Due(q)
    BY <2>1, <2>2 DEF Fallback, Yield, StaleCopy
  <2>3. ASSUME NEW r \in Requests, Finish(r) PROVE Due(q)
    <3>1. q \in Waiters(lk[r]) /\ result[r] = "error"
      BY <2>1, <2>3 DEF Finish
    <3>2. flight[lk[r]] = r
      BY <2>3 DEF Finish, LeadersExact, Leads, Leading
    <3> QED BY <3>1, <3>2 DEF Waiters
  <2>4. ASSUME NEW r \in Requests, Recheck(r) \/ StoreAnswer(r) \/ Return(r)
        PROVE  FALSE
    BY <2>1, <2>4, ExternalAssumption DEF Recheck, StoreAnswer, Return, Yield
  <2>5. CASE UNCHANGED result
    BY <2>1, <2>5
  <2> QED
    BY Zenon, <2>1, <2>2, <2>3, <2>4, <2>5, LimitsCases, AroundFrame
    DEF LoadBreaker, CheckCap, LoadOrStore, CountBreaker, Fetch, Acquire, Join, Begin, call
<1> QED
  BY <1>1, FlightAlways, PTL DEF LimitsSpec, ErrorNeedsNoCopy

(***************************************************************************)
(* The breakers' counter.                                                  *)
(***************************************************************************)

\* The sets the counter is compared with are finite.
LEMMA CountSetsFinite ==
    /\ IsFiniteSet(Counting) /\ Cardinality(Counting) \in Nat
    /\ IsFiniteSet(Creating) /\ Cardinality(Creating) \in Nat
    /\ Cardinality(Creating) <= Cardinality(Requests)
    /\ Cardinality(Requests) \in Nat
BY FS_Subset, FS_CardinalityType, ExternalAssumption DEF Counting, Creating

\* Each request that is about to count has a breaker in the map to itself.
LEMMA FewCounting ==
    ASSUME LimitsTyped, IsFiniteSet(InMap), CountedOnce
    PROVE  Cardinality(Counting) <= Cardinality(InMap)
<1> DEFINE f == [r \in Counting |-> lk[r]]
<1>1. \A r \in Counting : lk[r] \in InMap
  BY DEF LimitsTyped, CountedOnce, Counting, InMap
<1>2. f \in [Counting -> InMap]
  BY <1>1
<1>3. \A q, r \in Counting : f[q] = f[r] => q = r
  BY DEF CountedOnce
<1>4. f \in Injection(Counting, InMap)
  BY <1>2, <1>3 DEF Injection, IsInjective
<1> QED
  BY <1>4, FS_Injection

\* A step that leaves the map's keys, the counter, the requests that count and
\* the evictor alone, and makes no breaker idle, changes nothing here.
LEMMA CountFrame ==
    ASSUME LimitsTyped, CountInv,
           UNCHANGED <<breakerCount, evictor, deleted>>, Counting' = Counting,
           \A r \in Counting : lk'[r] = lk[r],
           \A k \in Keys : breakers'[k] = Nil <=> breakers[k] = Nil,
           \A r \in Counting : ~breakers'[lk[r]].idle
    PROVE  CountInv'
<1>1. InMap' = InMap
  BY DEF InMap
<1>2. \A r \in Counting : lk[r] \in Keys
  BY DEF CountInv, CountedOnce, LimitsTyped, Counting, Places
<1>3. CountedOnce'
  BY <1>2 DEF CountInv, CountedOnce
<1>4. EvictsPresent'
  BY DEF CountInv, EvictsPresent, LimitsTyped
<1> QED
  BY <1>1, <1>3, <1>4 DEF CountInv, CountExact

\* A method on a breaker in the map leaves the map's keys alone, and no breaker
\* becomes idle by it.
LEMMA ApplyKeepsMap ==
    ASSUME LimitsTyped, CountedOnce, NEW r \in Requests, lk[r] \in Keys,
           breakers[lk[r]] # Nil, Becomes(r, Method(op[r], breakers[lk[r]]))
    PROVE  /\ \A k \in Keys : breakers'[k] = Nil <=> breakers[k] = Nil
           /\ \A q \in Counting : ~breakers'[lk[q]].idle
<1> DEFINE b == Method(op[r], breakers[lk[r]])
<1>1. b \in Breakers /\ ~b.idle
  BY MethodTyped DEF LimitsTyped
<1>2. breakers' = [breakers EXCEPT ![lk[r]] = b]
  BY DEF Becomes
<1>3. b # Nil
  BY <1>1, ExternalAssumption
<1> HIDE DEF b
<1>4. \A k \in Keys : breakers'[k] = IF k = lk[r] THEN b ELSE breakers[k]
  BY <1>2 DEF LimitsTyped
<1>5. \A q \in Counting : lk[q] \in Keys /\ ~breakers[lk[q]].idle
  BY DEF LimitsTyped, CountedOnce, Counting, Places
<1> QED
  BY <1>1, <1>3, <1>4, <1>5

\* Storing a new breaker adds a key, and a request that will count it.
LEMMA StoreCounts ==
    ASSUME LimitsTyped, CountInv, NEW r \in Requests, lk[r] \in Keys, at[r] = "create",
           breakers[lk[r]] = Nil, breakers' = [breakers EXCEPT ![lk[r]] = NewBreaker],
           at' = [at EXCEPT ![r] = "count"], UNCHANGED <<breakerCount, lk, evictor, deleted>>
    PROVE  CountInv'
<1>1. InMap' = InMap \cup {lk[r]} /\ lk[r] \notin InMap
  BY NewBreakerTyped, ExternalAssumption DEF InMap, LimitsTyped
<1>2. Counting' = Counting \cup {r} /\ r \notin Counting
  BY DEF Counting, LimitsTyped
<1>3. IsFiniteSet(InMap') /\ Cardinality(InMap') = Cardinality(InMap) + 1
  BY Zenon, <1>1, FS_AddElement DEF CountInv
<1>4. Cardinality(Counting') = Cardinality(Counting) + 1
  BY Zenon, <1>2, CountSetsFinite, FS_AddElement
<1>5. CountExact'
  <2>1. Cardinality(InMap) \in Nat /\ Cardinality(Counting) \in Nat /\ breakerCount \in Nat
    BY CountSetsFinite, FS_CardinalityType DEF CountInv, LimitsTyped
  <2> QED BY <1>3, <1>4, <2>1 DEF CountInv, CountExact
<1>6. \A q \in Counting : lk[q] # lk[r] /\ lk[q] \in Keys
  BY DEF CountInv, CountedOnce, Counting, LimitsTyped, Places
<1>7. evictor = lk[r] => deleted
  BY ExternalAssumption DEF CountInv, EvictsPresent
<1>8. CountedOnce'
  BY <1>2, <1>6, <1>7, NewBreakerTyped, ExternalAssumption DEF CountInv, CountedOnce, LimitsTyped
<1>9. EvictsPresent'
  BY NewBreakerTyped, ExternalAssumption DEF CountInv, EvictsPresent, LimitsTyped
<1> QED
  BY <1>3, <1>5, <1>8, <1>9 DEF CountInv

\* breakerCount.Add(1) comes with one request less to count.
LEMMA CountedOff ==
    ASSUME FlightInv, CountInv, NEW r \in Requests, CountBreaker(r)
    PROVE  CountInv'
<1> USE DEF FlightInv
<1>1. /\ at[r] = "count" /\ lk[r] \in Keys /\ UNCHANGED <<lk, evictor, deleted>>
      /\ r \in Counting /\ breakers[lk[r]] # Nil /\ breakerCount' = breakerCount + 1
  BY DEF CountBreaker, CountInv, CountedOnce, Counting, LimitsTyped, Places, call, evicting
<1>2. Becomes(r, Method(op[r], breakers[lk[r]])) /\ Continue(r, IsOpen(breakers[lk[r]]))
  BY Zenon, <1>1 DEF CountBreaker, Apply
<1>3. /\ \A k \in Keys : breakers'[k] = Nil <=> breakers[k] = Nil
      /\ \A q \in Counting : ~breakers'[lk[q]].idle
  BY <1>1, <1>2, ApplyKeepsMap DEF CountInv
<1>4. Counting' = Counting \ {r}
  BY <1>1, <1>2, ContinueMoves DEF Counting, LimitsTyped
<1>5. Cardinality(Counting') = Cardinality(Counting) - 1
  BY Zenon, <1>1, <1>4, CountSetsFinite, FS_RemoveElement
<1>6. InMap' = InMap
  BY <1>3 DEF InMap
<1>7. CountExact'
  <2>1. Cardinality(InMap) \in Nat /\ Cardinality(Counting) \in Nat /\ breakerCount \in Nat
    BY CountSetsFinite, FS_CardinalityType DEF CountInv, LimitsTyped
  <2> QED BY <1>1, <1>5, <1>6, <2>1 DEF CountInv, CountExact
<1>8. \A q \in Counting : lk[q] \in Keys
  BY DEF CountInv, CountedOnce, Counting, LimitsTyped, Places
<1>9. CountedOnce'
  BY <1>1, <1>3, <1>4, <1>8 DEF CountInv, CountedOnce
<1>10. EvictsPresent'
  BY <1>1, <1>3 DEF CountInv, EvictsPresent, LimitsTyped
<1> QED
  BY <1>6, <1>7, <1>9, <1>10 DEF CountInv

\* The steps of the evictor: Delete takes a key out of the map, and the CAS loop
\* takes the breaker off the counter, which is then above its floor.
LEMMA EvictorCounts ==
    ASSUME FlightInv, CountInv, DeleteBreaker \/ CountOff
    PROVE  CountInv'
<1> USE DEF FlightInv
<1>1. /\ Cardinality(InMap) \in Nat /\ Cardinality(Counting) \in Nat /\ breakerCount \in Nat
      /\ Cardinality(Counting) <= Cardinality(InMap)
  BY CountSetsFinite, FS_CardinalityType, FewCounting DEF CountInv, LimitsTyped
<1>2. \A r \in Counting : lk[r] \in Keys
  BY DEF CountInv, CountedOnce, Counting, LimitsTyped, Places
<1>3. CASE DeleteBreaker
  <2>1. /\ evictor \in Keys /\ ~deleted /\ deleted' /\ UNCHANGED <<breakerCount, evictor, lk, at>>
        /\ breakers' = [breakers EXCEPT ![evictor] = Nil]
    BY <1>3 DEF DeleteBreaker, LimitsTyped, call
  <2>2. evictor \in InMap /\ InMap' = InMap \ {evictor}
    BY <2>1, ExternalAssumption DEF CountInv, EvictsPresent, InMap, LimitsTyped
  <2>3. IsFiniteSet(InMap') /\ Cardinality(InMap') = Cardinality(InMap) - 1
    BY <2>2, FS_RemoveElement DEF CountInv
  <2>4. Counting' = Counting
    BY <2>1 DEF Counting
  <2>5. CountExact'
    BY <1>1, <2>1, <2>3, <2>4 DEF CountInv, CountExact
  <2>6. \A r \in Counting : lk[r] # evictor
    BY <2>1 DEF CountInv, CountedOnce
  <2>7. CountedOnce'
    BY <1>2, <2>1, <2>4, <2>6 DEF CountInv, CountedOnce, LimitsTyped
  <2>8. EvictsPresent'
    BY <2>1, ExternalAssumption DEF EvictsPresent
  <2> QED BY <2>3, <2>5, <2>7, <2>8 DEF CountInv
<1>4. CASE CountOff
  <2>1. /\ deleted /\ ~deleted' /\ evictor' = Nil /\ UNCHANGED <<breakers, lk, at>>
        /\ breakerCount' = IF breakerCount > 0 THEN breakerCount - 1 ELSE 0
    BY <1>4 DEF CountOff, call
  <2>2. InMap' = InMap /\ Counting' = Counting
    BY <2>1 DEF InMap, Counting
  <2>3. breakerCount > 0
    BY <1>1, <2>1 DEF CountInv, CountExact
  <2>4. CountExact'
    BY <1>1, <2>1, <2>2, <2>3 DEF CountInv, CountExact
  <2>5. CountedOnce'
    BY <1>2, <2>1, <2>2, ExternalAssumption DEF CountInv, CountedOnce
  <2>6. EvictsPresent'
    BY <2>1 DEF EvictsPresent
  <2> QED BY <2>2, <2>4, <2>5, <2>6 DEF CountInv
<1> QED BY <1>3, <1>4

\* CountInv is inductive.
LEMMA CountInductive ==
    ASSUME FlightInv, CountInv, [LimitsNext]_limitsVars
    PROVE  CountInv'
<1> USE DEF FlightInv
<1>0. \A q \in Counting : lk[q] \in Keys /\ ~breakers[lk[q]].idle /\ at[q] = "count"
  BY DEF CountInv, CountedOnce, Counting, LimitsTyped, Places
<1>1. ASSUME UNCHANGED <<breakers, breakerCount, evictor, deleted>>, Counting' = Counting,
             \A q \in Counting : lk'[q] = lk[q]
      PROVE  CountInv'
  BY <1>0, <1>1, CountFrame
<1>2. ASSUME NEW r \in Requests, LoadBreaker(r) \/ LoadOrStore(r), breakers[lk[r]] # Nil
      PROVE  CountInv'
  <2>1. /\ at[r] \in {"breaker", "create"} /\ lk[r] \in Keys
        /\ UNCHANGED <<breakerCount, lk, evictor, deleted>>
        /\ Becomes(r, Method(op[r], breakers[lk[r]])) /\ Continue(r, IsOpen(breakers[lk[r]]))
    BY <1>2 DEF LoadBreaker, LoadOrStore, Apply, LimitsTyped, Places, call, evicting
  <2>2. Counting' = Counting
    BY <2>1, ContinueMoves DEF Counting, LimitsTyped
  <2> QED
    BY Zenon, <1>2, <2>1, <2>2, ApplyKeepsMap, CountFrame DEF CountInv
<1>3. ASSUME NEW r \in Requests, LoadBreaker(r), breakers[lk[r]] = Nil PROVE CountInv'
  BY <1>1, <1>3 DEF LoadBreaker, Counting, LimitsTyped, call, evicting
<1>4. ASSUME NEW r \in Requests, CheckCap(r) PROVE CountInv'
  <2>1. /\ UNCHANGED <<breakers, breakerCount, evictor, deleted, lk>> /\ at[r] = "cap"
        /\ \E p \in {"fallback", "store", "acquire", "create"} : at' = [at EXCEPT ![r] = p]
    BY Zenon, <1>4, ContinueMoves DEF CheckCap, breaking, call, evicting
  <2>2. Counting' = Counting
    BY <2>1 DEF Counting, LimitsTyped
  <2> QED BY <1>1, <2>1, <2>2
<1>5. ASSUME NEW r \in Requests, LoadOrStore(r), breakers[lk[r]] = Nil PROVE CountInv'
  <2>1. /\ lk[r] \in Keys /\ at[r] = "create" /\ UNCHANGED <<breakerCount, lk, evictor, deleted>>
        /\ breakers' = [breakers EXCEPT ![lk[r]] = NewBreaker]
        /\ at' = [at EXCEPT ![r] = "count"]
    BY <1>5 DEF LoadOrStore, Becomes, LimitsTyped, Places, call, evicting
  <2> QED BY Zenon, <1>5, <2>1, StoreCounts
<1>6. ASSUME NEW r \in Requests, CountBreaker(r) PROVE CountInv'
  BY <1>6, CountedOff
<1>7. ASSUME NEW r \in Requests, Fallback(r) \/ Recheck(r) \/ Fetch(r) \/ StoreAnswer(r)
      PROVE  CountInv'
  <2>1. /\ UNCHANGED <<breakers, breakerCount, evictor, deleted, lk>>
        /\ at[r] # "count" /\ \E p \in Places \ {"count"} : at' = [at EXCEPT ![r] = p]
    BY <1>7, FetchMoves DEF breaking, evicting, Places
  <2>2. Counting' = Counting
    BY <2>1 DEF Counting, LimitsTyped
  <2> QED BY <1>1, <2>1, <2>2
<1>8. ASSUME NEW r \in Requests,
             Acquire(r) \/ Join(r) \/ Return(r) \/ \E k \in Keys : Begin(r, k)
      PROVE  CountInv'
  <2>1. /\ UNCHANGED <<breakers, breakerCount, evictor, deleted>>
        /\ at[r] # "count" /\ \E p \in Places \ {"count"} : at' = [at EXCEPT ![r] = p]
        /\ \A q \in Requests \ {r} : lk'[q] = lk[q]
    BY <1>8 DEF Acquire, Join, Return, Begin, Go, breaking, evicting, call, Places, LimitsTyped
  <2>2. Counting' = Counting /\ r \notin Counting
    BY <2>1 DEF Counting, LimitsTyped
  <2>3. \A q \in Counting : lk'[q] = lk[q]
    BY <2>1, <2>2 DEF Counting
  <2> QED BY <1>1, <2>1, <2>2, <2>3
<1>9. ASSUME NEW r \in Requests, Finish(r) PROVE CountInv'
  <2>1. UNCHANGED <<breakers, breakerCount, evictor, deleted, lk>>
    BY Zenon, <1>9 DEF Finish, breaking, evicting
  <2>2. Counting' = Counting
    BY <1>9 DEF Finish, Waiters, Counting
  <2> QED BY <1>1, <2>1, <2>2
<1>10. ASSUME NEW k \in Keys, Age(k) PROVE CountInv'
  <2>1. /\ UNCHANGED <<breakerCount, evictor, deleted, lk, at>> /\ breakers[k] \in Breakers
    BY <1>10 DEF Age, evicting, call, LimitsTyped
  <2>2. \/ breakers' = [breakers EXCEPT ![k] = [breakers[k] EXCEPT !.hot = FALSE]]
        \/ /\ breakers' = [breakers EXCEPT ![k] = [breakers[k] EXCEPT !.idle = TRUE]]
           /\ \A r \in Requests : ~(at[r] = "count" /\ lk[r] = k)
    BY <1>10 DEF Age
  <2>3. /\ [breakers[k] EXCEPT !.hot = FALSE] \in Breakers
        /\ [breakers[k] EXCEPT !.idle = TRUE] \in Breakers
        /\ [breakers[k] EXCEPT !.hot = FALSE].idle = breakers[k].idle
    BY Zenon, <2>1 DEF Breakers
  <2>4. \A j \in Keys : breakers'[j] = Nil <=> breakers[j] = Nil
    BY Zenon, <2>1, <2>2, <2>3, ExternalAssumption DEF LimitsTyped
  <2>5. Counting' = Counting
    BY <2>1 DEF Counting
  <2>6. \A r \in Counting : ~breakers'[lk[r]].idle
    BY Zenon, <1>0, <2>2, <2>3 DEF Counting, LimitsTyped
  <2> QED BY <2>1, <2>4, <2>5, <2>6, CountFrame
<1>11. ASSUME NEW k \in Keys, FindIdle(k) PROVE CountInv'
  <2>1. /\ UNCHANGED <<breakers, breakerCount, deleted, lk, at>> /\ evictor = Nil /\ evictor' = k
        /\ breakers[k] # Nil /\ breakers[k].idle
    BY <1>11 DEF FindIdle, breaking, call
  <2>2. InMap' = InMap /\ Counting' = Counting
    BY <2>1 DEF InMap, Counting
  <2>3. CountedOnce' /\ EvictsPresent'
    BY <1>0, <2>1, <2>2 DEF CountInv, CountedOnce, EvictsPresent
  <2> QED BY <2>1, <2>2, <2>3 DEF CountInv, CountExact
<1>12. CASE Around \/ UNCHANGED limitsVars
  <2>1. ASSUME \/ (\E r \in Requests : Cancel(r)) \/ (\E k \in Keys : Expire(k))
               \/ UNCHANGED limitsVars
        PROVE  CountInv'
    <3>1. UNCHANGED <<breakers, breakerCount, evictor, deleted, lk, at>>
      BY <2>1 DEF Cancel, Expire, limitsVars, breaking, evicting, call
    <3>2. Counting' = Counting
      BY <3>1 DEF Counting
    <3> QED BY <1>1, <3>1, <3>2
  <2> QED BY <1>10, <1>11, <1>12, <2>1, EvictorCounts DEF Around
<1> QED
  BY Zenon, <1>2, <1>3, <1>4, <1>5, <1>6, <1>7, <1>8, <1>9, <1>12, LimitsCases

\* The counter is exact but for the breakers about to be counted and the one
\* about to be counted off.
LEMMA CountAlways == LimitsSpec => []CountInv
<1>1. LimitsInit => CountInv
  BY FlightInitial, FS_EmptySet, ExternalAssumption
  DEF LimitsInit, CountInv, CountedOnce, EvictsPresent, CountExact
<1> QED
  BY <1>1, FlightAlways, CountInductive, PTL DEF LimitsSpec

\* breakerCount never falls below the number of breakers in the map, but for
\* those just stored and about to be counted.
THEOREM CounterCovers == LimitsSpec => []CountCovers
<1>1. CountInv => CountCovers
  BY CountSetsFinite, FS_CardinalityType
  DEF CountInv, CountExact, CountCovers, InMap, Counting
<1> QED
  BY <1>1, CountAlways, PTL

\* A request that passes the cap finds the counter below it.
LEMMA CapInductive ==
    ASSUME FlightInv, CountInv, CapInv, [LimitsNext]_limitsVars
    PROVE  CapInv'
<1> USE DEF FlightInv
<1>0. /\ IsFiniteSet(Creating) /\ Cardinality(Creating) \in Nat /\ Cardinality(Requests) \in Nat
      /\ Cardinality(Creating') <= Cardinality(Requests) /\ Cardinality(Creating') \in Nat
      /\ MaxBreakers \in Nat \ {0} /\ breakerCount \in Nat
  <2>1. IsFiniteSet(Creating') /\ Creating' \subseteq Requests
    BY FS_Subset, ExternalAssumption DEF Creating
  <2> QED
    BY <2>1, CountSetsFinite, FS_Subset, FS_CardinalityType, ExternalAssumption DEF LimitsTyped
<1>1. ASSUME breakerCount' = breakerCount, Creating' \subseteq Creating PROVE CapInv'
  <2>1. Cardinality(Creating') <= Cardinality(Creating)
    BY <1>0, <1>1, FS_Subset
  <2> QED BY <1>0, <1>1, <2>1 DEF CapInv
<1>2. ASSUME NEW r \in Requests, CheckCap(r) PROVE CapInv'
  <2>1. CASE breakerCount >= MaxBreakers
    BY Zenon, <1>1, <1>2, <2>1, ContinueMoves DEF CheckCap, Creating, breaking, LimitsTyped
  <2>2. CASE breakerCount < MaxBreakers
    BY <1>0, <1>2, <2>2 DEF CheckCap, CapInv, breaking
  <2> QED BY <1>0, <2>1, <2>2
<1>3. ASSUME NEW r \in Requests, CountBreaker(r) PROVE CapInv'
  <2>1. r \in Creating /\ breakerCount' = breakerCount + 1 /\ at[r] = "count"
    BY <1>3 DEF CountBreaker, Creating
  <2>2. \E p \in {"fallback", "store", "acquire"} : at' = [at EXCEPT ![r] = p]
    BY Zenon, <1>3, ContinueMoves DEF CountBreaker, Apply
  <2>3. Creating' = Creating \ {r}
    BY <2>2 DEF Creating, LimitsTyped
  <2>4. Cardinality(Creating') = Cardinality(Creating) - 1
    BY <1>0, <2>1, <2>3, FS_RemoveElement
  <2> QED BY <1>0, <2>1, <2>4 DEF CapInv
<1>4. ASSUME NEW r \in Requests, LoadBreaker(r) \/ LoadOrStore(r) PROVE CapInv'
  <2>1. /\ breakerCount' = breakerCount
        /\ \/ at[r] = "create" /\ at' = [at EXCEPT ![r] = "count"]
           \/ \E p \in {"fallback", "store", "acquire", "cap"} : at' = [at EXCEPT ![r] = p]
    BY Zenon, <1>4, ContinueMoves DEF LoadBreaker, LoadOrStore, Apply
  <2>2. Creating' \subseteq Creating
    BY <2>1 DEF Creating, LimitsTyped
  <2> QED BY <1>1, <2>1, <2>2
<1>5. ASSUME NEW r \in Requests, Fallback(r) \/ Recheck(r) \/ Fetch(r) \/ StoreAnswer(r)
      PROVE  CapInv'
  <2>1. /\ breakerCount' = breakerCount
        /\ \E p \in Places \ {"create", "count"} : at' = [at EXCEPT ![r] = p]
    BY <1>5, FetchMoves DEF breaking, Places
  <2>2. Creating' \subseteq Creating
    BY <2>1 DEF Creating, LimitsTyped
  <2> QED BY <1>1, <2>1, <2>2
<1>6. ASSUME NEW r \in Requests,
             Acquire(r) \/ Join(r) \/ Return(r) \/ \E k \in Keys : Begin(r, k)
      PROVE  CapInv'
  <2>1. /\ breakerCount' = breakerCount
        /\ \E p \in Places \ {"create", "count"} : at' = [at EXCEPT ![r] = p]
    BY <1>6 DEF Acquire, Join, Return, Begin, Go, breaking, Places
  <2>2. Creating' \subseteq Creating
    BY <2>1 DEF Creating, LimitsTyped
  <2> QED BY <1>1, <2>1, <2>2
<1>7. ASSUME NEW r \in Requests, Finish(r) PROVE CapInv'
  BY Zenon, <1>1, <1>7 DEF Finish, breaking, Creating
<1>8. CASE CountOff
  <2>1. Creating' = Creating
    BY <1>8 DEF CountOff, Creating
  <2>2. breakerCount' \in Nat /\ breakerCount' <= breakerCount
    BY <1>0, <1>8 DEF CountOff
  <2> QED BY <1>0, <2>1, <2>2 DEF CapInv
<1>9. CASE (Around /\ ~CountOff) \/ UNCHANGED limitsVars
  <2>1. breakerCount' = breakerCount /\ at' = at
    BY <1>9 DEF Around, Cancel, Expire, Age, FindIdle, DeleteBreaker, limitsVars, breaking
  <2>2. Creating' = Creating
    BY <2>1 DEF Creating
  <2> QED BY <1>1, <2>1, <2>2
<1> QED
  BY <1>2, <1>3, <1>4, <1>5, <1>6, <1>7, <1>8, <1>9, LimitsCases

\* The cap on circuit breakers is soft: every request may be between the check
\* of the counter and the LoadOrStore, and the map holds no more than that.
THEOREM BreakersBounded == LimitsSpec => []MapBounded
<1>1. LimitsInit => CapInv
  <2>1. ASSUME LimitsInit PROVE Creating = {}
    BY <2>1 DEF LimitsInit, Creating
  <2> QED BY <2>1, CountSetsFinite, FS_EmptySet, ExternalAssumption DEF LimitsInit, CapInv
<1>2. FlightInv /\ CountInv /\ CapInv => MapBounded
  <2> SUFFICES ASSUME FlightInv, CountInv, CapInv PROVE MapBounded
    OBVIOUS
  <2>1. Cardinality(Counting) <= Cardinality(Creating)
    BY CountSetsFinite, FS_Subset DEF Counting, Creating
  <2> QED
    BY <2>1, CountSetsFinite, FS_CardinalityType, ExternalAssumption
    DEF CountInv, CountExact, CapInv, MapBounded, FlightInv, LimitsTyped
<1> QED
  BY <1>1, <1>2, FlightAlways, CountAlways, CapInductive, PTL DEF LimitsSpec

\* A method called on the breaker of r's key leaves every request that isOpen
\* let through exempt, if it opens the breaker or finds it open.
LEMMA ApplyOpens ==
    ASSUME LimitsTyped, OpsOK, OpenInv, NEW r \in Requests, lk[r] \in Keys,
           breakers[lk[r]] # Nil, Apply(r, breakers[lk[r]]), UNCHANGED <<lk, op>>
    PROVE  OpenInv'
<1> DEFINE k == lk[r]
           b == Method(op[r], breakers[k])
<1>1. breakers[k] \in Breakers /\ b \in Breakers /\ b # Nil
  BY MethodTyped, ExternalAssumption DEF LimitsTyped
<1>2. /\ breakers' = [breakers EXCEPT ![k] = b]
      /\ exempt' = IF IsOpen(b) /\ ~IsOpen(breakers[k])
                   THEN [exempt EXCEPT ![k] = PastCheck(k)]
                   ELSE IF IsOpen(b) THEN exempt ELSE [exempt EXCEPT ![k] = {}]
  BY Zenon, <1>1 DEF Apply, Becomes
<1>3. PICK p \in {"fallback", "store", "acquire"} : at' = [at EXCEPT ![r] = p]
  <2>1. Continue(r, IsOpen(breakers[lk[r]]))
    BY DEF Apply
  <2> QED BY <2>1, ContinueMoves
<1>4. op[r] = "isOpen" => (IsOpen(b) <=> IsOpen(breakers[k]))
  BY <1>1 DEF Method, IsOpen, Breakers
<1>5. op[r] = "isOpen" /\ IsOpen(breakers[k]) => at'[r] = "fallback"
  BY DEF Apply, Continue, LimitsTyped
<1> SUFFICES ASSUME NEW q \in Requests, at'[q] \in LetThrough, op[q] = "isOpen",
                    breakers'[lk[q]] # Nil, IsOpen(breakers'[lk[q]])
             PROVE  q \in exempt'[lk[q]]
  BY DEF OpenInv
<1>6. lk[q] \in Keys
  BY <1>3 DEF LetThrough, LimitsTyped
<1>7. CASE q = r
  <2>1. breakers'[k] = b
    BY <1>2 DEF LimitsTyped
  <2> QED BY Zenon, <1>4, <1>5, <1>7, <2>1 DEF LetThrough
<1>8. CASE q # r /\ lk[q] # k
  <2>1. at'[q] = at[q] /\ breakers'[lk[q]] = breakers[lk[q]] /\ exempt'[lk[q]] = exempt[lk[q]]
    BY <1>2, <1>3, <1>6, <1>8 DEF LimitsTyped
  <2> QED BY Zenon, <2>1 DEF OpenInv
<1>9. CASE q # r /\ lk[q] = k
  <2>1. at'[q] = at[q] /\ breakers'[k] = b
    BY <1>2, <1>3, <1>9 DEF LimitsTyped
  <2>2. CASE IsOpen(breakers[k])
    BY Zenon, <1>2, <1>9, <2>1, <2>2 DEF OpenInv
  <2>3. CASE ~IsOpen(breakers[k])
    <3>1. exempt'[k] = PastCheck(k)
      BY <1>2, <1>9, <2>1, <2>3 DEF LimitsTyped
    <3> QED BY <1>9, <2>1, <3>1 DEF PastCheck, LetThrough
  <2> QED BY Zenon, <2>2, <2>3
<1> QED
  BY <1>7, <1>8, <1>9

\* OpenInv is inductive.
LEMMA OpenInductive ==
    ASSUME FlightInv, OpenInv, [LimitsNext]_limitsVars
    PROVE  OpenInv'
<1> USE DEF FlightInv
<1>1. ASSUME UNCHANGED <<breakers, exempt>>,
             \A q \in Requests : at'[q] \in LetThrough /\ op'[q] = "isOpen" =>
                at[q] \in LetThrough /\ op[q] = "isOpen" /\ lk'[q] = lk[q]
      PROVE  OpenInv'
  BY <1>1 DEF OpenInv
<1>2. ASSUME NEW r \in Requests,
             LoadBreaker(r) \/ LoadOrStore(r) \/ CountBreaker(r), breakers[lk[r]] # Nil
      PROVE  OpenInv'
  <2>1. lk[r] \in Keys /\ Apply(r, breakers[lk[r]]) /\ UNCHANGED <<lk, op>>
    BY <1>2 DEF LoadBreaker, LoadOrStore, CountBreaker, LimitsTyped, Places, call
  <2> QED BY <1>2, <2>1, ApplyOpens
<1>3. ASSUME NEW r \in Requests, LoadBreaker(r) \/ CountBreaker(r), breakers[lk[r]] = Nil
      PROVE  OpenInv'
  <2>1. /\ UNCHANGED <<breakers, exempt, lk, op>>
        /\ \E p \in Places : at' = [at EXCEPT ![r] = p]
    BY Zenon, <1>3, ContinueMoves DEF LoadBreaker, CountBreaker, Places, call
  <2> QED BY <1>3, <2>1 DEF OpenInv, LimitsTyped
<1>4. ASSUME NEW r \in Requests, LoadOrStore(r), breakers[lk[r]] = Nil PROVE OpenInv'
  <2>1. /\ lk[r] \in Keys /\ UNCHANGED <<lk, op>> /\ at' = [at EXCEPT ![r] = "count"]
        /\ breakers' = [breakers EXCEPT ![lk[r]] = NewBreaker]
        /\ exempt' = [exempt EXCEPT ![lk[r]] = {}]
    BY <1>4, NewBreakerTyped DEF LoadOrStore, Becomes, LimitsTyped, Places, call
  <2> SUFFICES ASSUME NEW q \in Requests, at'[q] \in LetThrough, op[q] = "isOpen",
                      breakers'[lk[q]] # Nil, IsOpen(breakers'[lk[q]])
               PROVE  q \in exempt'[lk[q]]
    BY Zenon, <2>1 DEF OpenInv
  <2>2. lk[q] \in Keys
    BY <2>1 DEF LetThrough, LimitsTyped
  <2>3. lk[q] # lk[r]
    BY <2>1, NewBreakerTyped DEF LimitsTyped
  <2>4. /\ q # r /\ at'[q] = at[q] /\ breakers'[lk[q]] = breakers[lk[q]]
        /\ exempt'[lk[q]] = exempt[lk[q]]
    BY <2>1, <2>2, <2>3 DEF LimitsTyped
  <2> QED BY Zenon, <2>4 DEF OpenInv
<1>5. ASSUME NEW r \in Requests, CheckCap(r) PROVE OpenInv'
  <2>1. /\ UNCHANGED <<breakers, exempt, lk, op>> /\ at[r] = "cap"
        /\ \E p \in Places : at' = [at EXCEPT ![r] = p]
    BY Zenon, <1>5, ContinueMoves DEF CheckCap, Places, call, breaking
  <2> QED BY <1>1, <2>1 DEF LimitsTyped, LetThrough
<1>6. ASSUME NEW r \in Requests,
             Fallback(r) \/ Recheck(r) \/ StoreAnswer(r) \/ Acquire(r) \/ Join(r)
      PROVE  OpenInv'
  <2>1. /\ UNCHANGED <<breakers, exempt, lk, op>>
        /\ \E p \in Places : /\ at' = [at EXCEPT ![r] = p]
                             /\ p \in LetThrough => at[r] \in LetThrough
    BY Zenon, <1>6 DEF Fallback, Recheck, StoreAnswer, Acquire, Join, Go, Places, LetThrough,
                       call, breaking
  <2> QED BY <1>1, <2>1 DEF LimitsTyped
<1>7. ASSUME NEW r \in Requests, Fetch(r) PROVE OpenInv'
  <2>1. /\ UNCHANGED <<breakers, exempt, lk>> /\ at' = [at EXCEPT ![r] = "breaker"]
        /\ \E o \in {"success", "failure"} : op' = [op EXCEPT ![r] = o]
    BY <1>7 DEF Fetch, Go, breaking
  <2> QED BY <1>1, <2>1 DEF LimitsTyped, LetThrough
<1>8. ASSUME NEW r \in Requests, \E k \in Keys : Begin(r, k) PROVE OpenInv'
  <2>1. /\ UNCHANGED <<breakers, exempt, op>> /\ at' = [at EXCEPT ![r] = "breaker"]
        /\ \E k \in Keys : lk' = [lk EXCEPT ![r] = k]
    BY Zenon, <1>8 DEF Begin, Go, breaking
  <2> QED BY <1>1, <2>1 DEF LimitsTyped, LetThrough
<1>9. ASSUME NEW r \in Requests, Return(r) PROVE OpenInv'
  <2>1. /\ breakers' = breakers /\ at' = [at EXCEPT ![r] = "idle"]
        /\ lk' = [lk EXCEPT ![r] = Nil] /\ op' = [op EXCEPT ![r] = "isOpen"]
        /\ exempt' = [exempt EXCEPT ![lk[r]] = @ \ {r}]
    BY <1>9 DEF Return
  <2> SUFFICES ASSUME NEW q \in Requests, at'[q] \in LetThrough, op'[q] = "isOpen",
                      breakers[lk'[q]] # Nil, IsOpen(breakers[lk'[q]])
               PROVE  q \in exempt'[lk'[q]]
    BY <2>1 DEF OpenInv
  <2>2. q # r /\ at[q] \in LetThrough /\ op[q] = "isOpen" /\ lk'[q] = lk[q]
    BY <2>1 DEF LimitsTyped, LetThrough
  <2>3. lk[q] \in Keys /\ q \in exempt[lk[q]]
    BY <2>2 DEF OpenInv, LetThrough, LimitsTyped
  <2> QED BY <2>1, <2>2, <2>3 DEF LimitsTyped
<1>10. ASSUME NEW r \in Requests, Finish(r) PROVE OpenInv'
  <2>1. UNCHANGED <<breakers, exempt, lk, op>>
    BY <1>10 DEF Finish, breaking
  <2>2. \A q \in Requests : at'[q] = "release" \/ at'[q] = at[q]
    BY <1>10 DEF Finish
  <2> QED BY <1>1, <2>1, <2>2 DEF LetThrough
<1>11. ASSUME NEW k \in Keys, Age(k) PROVE OpenInv'
  <2>1. UNCHANGED <<lk, op, at>> /\ breakers[k] \in Breakers
    BY <1>11 DEF Age, call, LimitsTyped
  <2>2. CASE /\ breakers' = [breakers EXCEPT ![k] = [breakers[k] EXCEPT !.hot = FALSE]]
             /\ exempt' = [exempt EXCEPT ![k] = {}]
    <3>1. ~IsOpen([breakers[k] EXCEPT !.hot = FALSE])
      BY <2>1 DEF IsOpen, Breakers
    <3>2. \A q \in Requests : at[q] \in LetThrough => lk[q] \in Keys
      BY DEF LimitsTyped, LetThrough
    <3> QED BY <2>1, <2>2, <3>1, <3>2 DEF OpenInv, LimitsTyped
  <2>3. CASE /\ breakers' = [breakers EXCEPT ![k] = [breakers[k] EXCEPT !.idle = TRUE]]
             /\ UNCHANGED exempt
    <3>1. IsOpen([breakers[k] EXCEPT !.idle = TRUE]) <=> IsOpen(breakers[k])
      BY <2>1 DEF IsOpen, Breakers
    <3>2. \A q \in Requests : at[q] \in LetThrough => lk[q] \in Keys
      BY DEF LimitsTyped, LetThrough
    <3> QED BY <1>11, <2>1, <2>3, <3>1, <3>2 DEF OpenInv, LimitsTyped, Age
  <2> QED BY <1>11, <2>2, <2>3 DEF Age
<1>12. CASE DeleteBreaker
  <2>1. /\ UNCHANGED <<exempt, lk, op, at>> /\ evictor \in Keys
        /\ breakers' = [breakers EXCEPT ![evictor] = Nil]
    BY <1>12 DEF DeleteBreaker, call, LimitsTyped
  <2> QED BY <2>1 DEF OpenInv, LimitsTyped
<1>13. CASE \/ \E r \in Requests : Cancel(r)
            \/ \E k \in Keys : Expire(k) \/ FindIdle(k)
            \/ CountOff \/ UNCHANGED limitsVars
  <2>1. UNCHANGED <<breakers, exempt, lk, op, at>>
    BY <1>13 DEF Cancel, Expire, FindIdle, CountOff, limitsVars, call, breaking
  <2> QED BY <2>1 DEF OpenInv
<1>14. CASE Around
  BY <1>11, <1>12, <1>13, <1>14 DEF Around
<1> QED
  BY Zenon, <1>2, <1>3, <1>4, <1>5, <1>6, <1>7, <1>8, <1>9, <1>10, <1>13, <1>14, LimitsCases

\* While a breaker is open, the requests on their way to the service are those
\* that were past its check, or held another one, when it opened.
THEOREM OpenBreakersStop == LimitsSpec => []OpenStopsCalls
<1>1. LimitsInit => OpenInv
  BY DEF LimitsInit, OpenInv, LetThrough
<1>2. FlightInv /\ OpenInv => OpenStopsCalls
  BY DEF FlightInv, OpsOK, OpenInv, LetThrough, OpenStopsCalls
<1> QED
  BY <1>1, <1>2, FlightAlways, OpenInductive, PTL DEF LimitsSpec
=============================================================================
