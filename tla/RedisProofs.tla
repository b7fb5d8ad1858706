---------------------------- MODULE RedisProofs -----------------------------
(***************************************************************************)
(* Proofs about what is kept in Redis, and how it is reached.              *)
(*                                                                         *)
(* ReplicationClient, for any list of endpoints, any number of goroutines  *)
(* and of failovers: the pointer to the master is sound, and a write that  *)
(* nothing disturbs does not fail.                                         *)
(*                                                                         *)
(* TokenBucket, for every number of callers, capacity, rate, delay and     *)
(* TTL: the bound on what any window admits, and that the bucket           *)
(* implements the one whose keys never expire.                             *)
(***************************************************************************)
EXTENDS ReplicationClient, TokenBucket, FiniteSetTheorems, TLAPS

(***************************************************************************)
(* The client for a replicated deployment.                                 *)
(***************************************************************************)

\* A goroutine that is to install a master has found one, and one that is not
\* in discoverMaster begins with the first endpoint.
ProbesKept ==
    \A o \in Ops : /\ stage[o] = "install" => found[o] # Nil
                   /\ stage[o] # "discover" => probe[o] = 1

\* What an undisturbed command can count on, wherever it is.
QuietAt(o) ==
    /\ Healthy /\ master \in open
    /\ stage[o] = "get" /\ attempt[o] = 1 => ~fresh \/ IsMaster(masterAddr)
    /\ stage[o] = "discover" => \A i \in 1..(probe[o] - 1) : ~IsMaster(Endpoints[i])
    /\ stage[o] = "install" => IsMaster(found[o])
    /\ stage[o] = "read" => IsMaster(masterAddr)
    /\ stage[o] = "call" => using[o] = master /\ (attempt[o] = 1 => IsMaster(masterAddr))

QuietInv == \A o \in Busy : ~disturbed[o] => QuietAt(o)

PointerInv == ClientTypeOK /\ ProbesKept /\ PointerSound

\* There are enough names for the clients: at most one is open or pointed to by
\* r.master, and one is in the hands of each goroutine.
LEMMA ClientToSpare ==
    ASSUME ClientTypeOK, PointerSound
    PROVE  NewClient \in Clients
<1> DEFINE held == {using[o] : o \in Busy}
           used == held \cup {master}
           n == Cardinality(Ops)
<1>1. IsFiniteSet(Busy) /\ Cardinality(Busy) <= n /\ n \in Nat /\ Cardinality(Busy) \in Nat
  BY FS_Subset, FS_CardinalityType, ReplicationAssumption DEF Busy
<1>2. IsFiniteSet(held) /\ Cardinality(held) <= Cardinality(Busy)
  <2> DEFINE f == [o \in Busy |-> using[o]]
  <2>1. f \in Surjection(Busy, held)
    BY DEF Surjection
  <2> HIDE DEF f, held
  <2> QED BY <1>1, <2>1, FS_Surjection
<1>3. IsFiniteSet(used) /\ Cardinality(used) <= Cardinality(held) + 1 /\ Cardinality(held) \in Nat
  <2> HIDE DEF held
  <2>1. Cardinality(held) \in Nat
    BY <1>2, FS_CardinalityType
  <2> QED BY <1>2, <2>1, FS_AddElement
<1>4. Cardinality(Clients) = n + 2
  BY <1>1, FS_Interval DEF Clients
<1>5. Unused = Clients \ used
  BY DEF Unused, PointerSound
<1>6. Unused # {}
  <2>1. SUFFICES ASSUME Clients \subseteq used PROVE FALSE
    BY <1>5
  <2> HIDE DEF used, held
  <2>2. Cardinality(Clients) <= Cardinality(used)
    BY <1>3, <2>1, FS_Subset
  <2>3. Cardinality(used) \in Nat
    BY <1>3, FS_CardinalityType
  <2> HIDE DEF n
  <2> QED BY <1>1, <1>2, <1>3, <1>4, <2>2, <2>3
<1>7. NewClient \in Unused
  BY <1>6 DEF NewClient
<1> QED
  BY <1>7 DEF Unused

\* PointerInv is inductive.
LEMMA PointerInductive ==
    ASSUME PointerInv, [ClientNext]_clientVars
    PROVE  PointerInv'
<1> USE DEF PointerInv, ClientTypeOK, ProbesKept, PointerSound
<1>1. ASSUME NEW a \in Addrs, PromoteOrDemote(a) \/ FailOrRecover(a) PROVE PointerInv'
  <2>1. UNCHANGED <<pointer, command>> /\ disturbed' \in [Ops -> BOOLEAN]
    BY <1>1 DEF PromoteOrDemote, FailOrRecover, Changes, Disturb
  <2>2. changes' \in 0..MaxChanges /\ masters' \subseteq Addrs /\ down' \subseteq Addrs
    BY <1>1, ReplicationAssumption DEF PromoteOrDemote, FailOrRecover, Changes
  <2> QED BY <2>1, <2>2 DEF pointer, command
<1>2. CASE Expire \/ UNCHANGED clientVars
  BY <1>2 DEF Expire, clientVars, deployment, pointer, command
<1>3. CASE Close
  <2>1. disturbed' \in [Ops -> BOOLEAN]
    BY <1>3 DEF Close, Disturb
  <2> QED BY <1>3, <2>1 DEF Close, deployment, command
<1>4. ASSUME NEW o \in Ops, \E k \in {"read", "write"} : Begin(o, k) PROVE PointerInv'
  BY <1>4 DEF Begin, deployment, pointer
<1>5. ASSUME NEW o \in Ops, GetCached(o) \/ GetStale(o) \/ Read(o) \/ Call(o) \/ Invalidate(o)
      PROVE  PointerInv'
  <2>1. CASE GetCached(o) \/ GetStale(o) \/ Read(o)
    BY <2>1 DEF GetCached, GetStale, Read, Go, deployment, pointer
  <2>2. CASE Call(o)
    BY <2>2 DEF Call, deployment, pointer
  <2>3. CASE Invalidate(o)
    <3>1. /\ stage[o] = "invalidate" /\ stage' = [stage EXCEPT ![o] = "get"]
          /\ attempt' = [attempt EXCEPT ![o] = 1] /\ fresh' = FALSE
          /\ UNCHANGED <<masters, down, changes, masterAddr, master, open, addrOf, kind, probe,
                         found, using, disturbed>>
      BY <2>3 DEF Invalidate, Go, deployment
    <3>2. attempt' \in [Ops -> 0..1]
      BY <3>1
    <3> QED BY <3>1, <3>2
  <2> QED BY <1>5, <2>1, <2>2, <2>3
<1>6. ASSUME NEW o \in Ops, Role(o) PROVE PointerInv'
  <2>1. /\ stage[o] = "discover"
        /\ UNCHANGED <<deployment, pointer, kind, attempt, using, disturbed>>
    BY <1>6 DEF Role
  <2>2. /\ Len(Endpoints) \in Nat \ {0} /\ DOMAIN Endpoints = 1..Len(Endpoints)
        /\ \A i \in DOMAIN Endpoints : Endpoints[i] \in Addrs
    BY ReplicationAssumption DEF Addrs
  <2>3. CASE /\ stage' = [stage EXCEPT ![o] = "install"]
             /\ found' = [found EXCEPT ![o] = Endpoints[probe[o]]]
             /\ probe' = [probe EXCEPT ![o] = 1]
    BY <2>1, <2>2, <2>3, ReplicationAssumption DEF deployment, pointer
  <2>4. CASE /\ probe[o] < Len(Endpoints) /\ probe' = [probe EXCEPT ![o] = probe[o] + 1]
             /\ UNCHANGED <<stage, found>>
    <3>1. probe[o] + 1 \in DOMAIN Endpoints
      BY <2>2, <2>4
    <3> QED BY <2>1, <2>4, <3>1 DEF deployment, pointer
  <2>5. CASE /\ stage' = [stage EXCEPT ![o] = "failed"]
             /\ probe' = [probe EXCEPT ![o] = 1] /\ UNCHANGED found
    BY <2>1, <2>2, <2>5 DEF deployment, pointer
  <2> QED BY <1>6, <2>3, <2>4, <2>5 DEF Role
<1>7. ASSUME NEW o \in Ops, Install(o) PROVE PointerInv'
  <2>1. /\ stage[o] = "install" /\ stage' = [stage EXCEPT ![o] = "read"]
        /\ fresh' = TRUE /\ found' = [found EXCEPT ![o] = Nil]
        /\ UNCHANGED <<deployment, kind, attempt, probe, using>>
    BY <1>7 DEF Install, Go
  <2>2. disturbed' \in [Ops -> BOOLEAN]
    BY <1>7 DEF Install, Disturb
  <2>3. found[o] \in Addrs
    BY <2>1
  <2>4. CASE found[o] # masterAddr
    <3>1. NewClient \in Clients
      BY ClientToSpare
    <3>2. /\ open' = (open \ {master}) \cup {NewClient} /\ master' = NewClient
          /\ addrOf' = [addrOf EXCEPT ![NewClient] = found[o]] /\ masterAddr' = found[o]
      BY <1>7, <2>4 DEF Install, Replace
    <3>3. /\ open' \subseteq {master'} /\ addrOf'[master'] = masterAddr' /\ master' \in Clients
          /\ addrOf' \in [Clients -> Addrs \cup {Nil}] /\ open' \subseteq Clients
      BY <2>3, <3>1, <3>2
    <3> QED BY <2>1, <2>2, <2>3, <3>2, <3>3 DEF deployment
  <2>5. CASE found[o] = masterAddr
    BY <1>7, <2>1, <2>2, <2>5 DEF Install, deployment
  <2> QED BY <2>4, <2>5
<1> QED
  BY <1>1, <1>2, <1>3, <1>4, <1>5, <1>6, <1>7 DEF ClientNext, Step

LEMMA PointerAlways == ClientSpec => []PointerInv
<1>1. ClientInit => PointerInv
  <2> SUFFICES ASSUME ClientInit PROVE PointerInv
    OBVIOUS
  <2>1. 1 \in Clients /\ 1 \in DOMAIN Endpoints
    BY FS_CardinalityType, ReplicationAssumption DEF Clients
  <2> QED
    BY <2>1, ReplicationAssumption DEF ClientInit, PointerInv, ClientTypeOK, ProbesKept, PointerSound
<1> QED
  BY <1>1, PointerInductive, PTL DEF ClientSpec

\* Every client but the one r.master points to is closed, and that one is
\* connected to r.masterAddr.
THEOREM PointerIsSound == ClientSpec => []PointerSound
<1>1. PointerInv => PointerSound
  BY DEF PointerInv
<1> QED
  BY <1>1, PointerAlways, PTL

\* A step of one goroutine that leaves the deployment and the pointer alone
\* leaves the others what they count on.
LEMMA OthersQuiet ==
    ASSUME ClientTypeOK, QuietInv, NEW o \in Ops,
           UNCHANGED <<masters, down, masterAddr, master, open>>, fresh' => fresh,
           \A q \in Ops \ {o} :
              /\ stage'[q] = stage[q] /\ attempt'[q] = attempt[q] /\ probe'[q] = probe[q]
              /\ found'[q] = found[q] /\ using'[q] = using[q] /\ disturbed'[q] = disturbed[q],
           o \in Busy' /\ ~disturbed'[o] => QuietAt(o)'
    PROVE  QuietInv'
<1> SUFFICES ASSUME NEW q \in Busy', ~disturbed'[q] PROVE QuietAt(q)'
  BY DEF QuietInv
<1>1. CASE q = o
  BY <1>1
<1>2. CASE q # o
  <2>1. q \in Busy /\ ~disturbed[q]
    BY <1>2 DEF Busy
  <2>2. QuietAt(q)
    BY <2>1 DEF QuietInv
  <2>3. /\ Healthy' = Healthy
        /\ \A a : IsMaster(a)' = IsMaster(a)
    BY DEF Healthy, IsMaster
  <2>4. q \in Ops \ {o}
    BY <1>2, <2>1 DEF Busy
  <2> QED BY <2>2, <2>3, <2>4 DEF QuietAt
<1> QED BY <1>1, <1>2

\* In a healthy deployment discoverMaster does not run out of endpoints.
LEMMA DiscoveryFinds ==
    ASSUME Healthy, NEW n \in DOMAIN Endpoints,
           \A i \in 1..(n - 1) : ~IsMaster(Endpoints[i]), ~IsMaster(Endpoints[n])
    PROVE  n < Len(Endpoints)
<1>1. PICK a \in Addrs : masters = {a} /\ down = {}
  BY DEF Healthy
<1>2. PICK j \in DOMAIN Endpoints : Endpoints[j] = a
  BY DEF Addrs
<1>3. Len(Endpoints) \in Nat /\ DOMAIN Endpoints = 1..Len(Endpoints)
  BY ReplicationAssumption
<1>4. IsMaster(Endpoints[j])
  BY <1>1, <1>2 DEF IsMaster
<1>5. j \notin 1..(n - 1) /\ j # n
  BY <1>4
<1> QED BY <1>3, <1>5

\* QuietInv is inductive, and keeps undisturbed writes from failing.
LEMMA QuietInductive ==
    ASSUME PointerInv, QuietInv, QuietWrite, [ClientNext]_clientVars
    PROVE  QuietInv' /\ QuietWrite'
<1> USE DEF PointerInv
<1>1. ASSUME NEW a \in Addrs, PromoteOrDemote(a) \/ FailOrRecover(a)
      PROVE  QuietInv' /\ QuietWrite'
  <2>1. UNCHANGED command /\ Disturb(Busy)
    BY <1>1 DEF PromoteOrDemote, FailOrRecover, Changes
  <2>2. \A o \in Busy' : disturbed'[o]
    BY <2>1 DEF Disturb, Busy, command
  <2>3. QuietWrite'
    BY <2>1 DEF Disturb, QuietWrite, command
  <2> QED BY <2>2, <2>3 DEF QuietInv
<1>2. CASE Close
  <2>1. UNCHANGED command /\ Disturb(Busy)
    BY <1>2 DEF Close
  <2>2. \A o \in Busy' : disturbed'[o]
    BY <2>1 DEF Disturb, Busy, command
  <2>3. QuietWrite'
    BY <2>1 DEF Disturb, QuietWrite, command
  <2> QED BY <2>2, <2>3 DEF QuietInv
<1>3. CASE Expire \/ UNCHANGED clientVars
  <2>1. /\ UNCHANGED <<masters, down, masterAddr, master, open, stage, kind, attempt, probe, found,
                       using, disturbed>>
        /\ fresh' => fresh
    BY <1>3 DEF Expire, clientVars, deployment, pointer, command
  <2>2. QuietWrite'
    BY <2>1 DEF QuietWrite
  <2>3. QuietInv'
    BY <2>1 DEF QuietInv, QuietAt, Busy, Healthy, IsMaster
  <2> QED BY <2>2, <2>3
<1>4. ASSUME NEW o \in Ops, \E k \in {"read", "write"} : Begin(o, k)
      PROVE  QuietInv' /\ QuietWrite'
  <2>1. /\ UNCHANGED <<masters, down, masterAddr, master, fresh, open, probe, found, using>>
        /\ stage' = [stage EXCEPT ![o] = "get"] /\ attempt' = [attempt EXCEPT ![o] = 0]
        /\ disturbed' = [disturbed EXCEPT ![o] = ~Healthy \/ master \notin open]
        /\ \E k \in {"read", "write"} : kind' = [kind EXCEPT ![o] = k]
    BY <1>4 DEF Begin, deployment, pointer
  <2>2. QuietWrite'
    BY <2>1 DEF QuietWrite, ClientTypeOK
  <2>3. ~disturbed'[o] => QuietAt(o)'
    <3>1. disturbed'[o] = (~Healthy \/ master \notin open)
      BY <2>1, Zenon DEF ClientTypeOK
    <3>2. Healthy' = Healthy /\ stage'[o] = "get" /\ attempt'[o] = 0
      BY <2>1 DEF Healthy, ClientTypeOK
    <3>3. ~disturbed'[o] => Healthy /\ master \in open
      BY <3>1, Zenon
    <3>4. attempt'[o] # 1 /\ stage'[o] \notin {"discover", "install", "read", "call"}
      BY <3>2
    <3> QED BY <2>1, <3>2, <3>3, <3>4, Zenon DEF QuietAt
  <2>4. QuietInv'
    BY <2>1, <2>3, OthersQuiet DEF ClientTypeOK
  <2> QED BY <2>2, <2>4
<1>5. ASSUME NEW o \in Ops, GetCached(o) PROVE QuietInv' /\ QuietWrite'
  <2>1. /\ UNCHANGED <<masters, down, masterAddr, master, fresh, open, kind, attempt, probe, found,
                       disturbed>>
        /\ fresh /\ stage[o] = "get" /\ stage' = [stage EXCEPT ![o] = "call"]
        /\ using' = [using EXCEPT ![o] = master]
    BY <1>5 DEF GetCached, Go, deployment, pointer
  <2>2. QuietWrite'
    BY <2>1 DEF QuietWrite, ClientTypeOK
  <2>3. ~disturbed[o] => QuietAt(o)
    BY <2>1 DEF QuietInv, Busy
  <2>4. ~disturbed'[o] => QuietAt(o)'
    BY <2>1, <2>3 DEF QuietAt, ClientTypeOK, Healthy, IsMaster
  <2>5. QuietInv'
    BY <2>1, <2>4, OthersQuiet DEF ClientTypeOK
  <2> QED BY <2>2, <2>5
<1>6. ASSUME NEW o \in Ops, GetStale(o) PROVE QuietInv' /\ QuietWrite'
  <2>1. /\ UNCHANGED <<masters, down, masterAddr, master, fresh, open, kind, attempt, probe, found,
                       using, disturbed>>
        /\ stage[o] = "get" /\ stage' = [stage EXCEPT ![o] = "discover"]
    BY <1>6 DEF GetStale, Go, deployment, pointer
  <2>2. QuietWrite'
    BY <2>1 DEF QuietWrite, ClientTypeOK
  <2>3. ~disturbed[o] => QuietAt(o)
    BY <2>1 DEF QuietInv, Busy
  <2>4. probe[o] = 1
    BY <2>1 DEF ProbesKept
  <2>5. ~disturbed'[o] => QuietAt(o)'
    BY <2>1, <2>3, <2>4 DEF QuietAt, ClientTypeOK, Healthy
  <2>6. QuietInv'
    BY <2>1, <2>5, OthersQuiet DEF ClientTypeOK
  <2> QED BY <2>2, <2>6
<1>7. ASSUME NEW o \in Ops, Read(o) PROVE QuietInv' /\ QuietWrite'
  <2>1. /\ UNCHANGED <<masters, down, masterAddr, master, fresh, open, kind, attempt, probe, found,
                       disturbed>>
        /\ stage[o] = "read" /\ stage' = [stage EXCEPT ![o] = "call"]
        /\ using' = [using EXCEPT ![o] = master]
    BY <1>7 DEF Read, Go, deployment, pointer
  <2>2. QuietWrite'
    BY <2>1 DEF QuietWrite, ClientTypeOK
  <2>3. ~disturbed[o] => QuietAt(o)
    BY <2>1 DEF QuietInv, Busy
  <2>4. ~disturbed'[o] => QuietAt(o)'
    BY <2>1, <2>3 DEF QuietAt, ClientTypeOK, Healthy, IsMaster
  <2>5. QuietInv'
    BY <2>1, <2>4, OthersQuiet DEF ClientTypeOK
  <2> QED BY <2>2, <2>5
<1>8. ASSUME NEW o \in Ops, Invalidate(o) PROVE QuietInv' /\ QuietWrite'
  <2>1. /\ UNCHANGED <<masters, down, masterAddr, master, open, kind, probe, found, using,
                       disturbed>>
        /\ stage[o] = "invalidate" /\ stage' = [stage EXCEPT ![o] = "get"]
        /\ attempt' = [attempt EXCEPT ![o] = 1] /\ ~fresh'
    BY <1>8 DEF Invalidate, Go, deployment
  <2>2. QuietWrite'
    BY <2>1 DEF QuietWrite, ClientTypeOK
  <2>3. ~disturbed[o] => QuietAt(o)
    BY <2>1 DEF QuietInv, Busy
  <2>4. ~disturbed'[o] => QuietAt(o)'
    BY <2>1, <2>3 DEF QuietAt, ClientTypeOK, Healthy
  <2>5. QuietInv'
    BY <2>1, <2>4, OthersQuiet DEF ClientTypeOK
  <2> QED BY <2>2, <2>5
<1>9. ASSUME NEW o \in Ops, Role(o) PROVE QuietInv' /\ QuietWrite'
  <2> DEFINE a == Endpoints[probe[o]]
  <2>1. /\ stage[o] = "discover"
        /\ UNCHANGED <<masters, down, masterAddr, master, fresh, open, kind, attempt, using,
                       disturbed>>
    BY <1>9 DEF Role, deployment, pointer
  <2>2. ~disturbed[o] => QuietAt(o)
    BY <2>1 DEF QuietInv, Busy
  <2>3. Healthy' = Healthy /\ \A b : IsMaster(b)' = IsMaster(b)
    BY <2>1 DEF Healthy, IsMaster
  <2>4. CASE /\ IsMaster(a) /\ stage' = [stage EXCEPT ![o] = "install"]
             /\ found' = [found EXCEPT ![o] = a]
             /\ probe' = [probe EXCEPT ![o] = 1]
    <3>1. QuietWrite'
      BY <2>1, <2>4 DEF QuietWrite, ClientTypeOK
    <3>2. stage'[o] = "install" /\ found'[o] = a
      BY <2>4 DEF ClientTypeOK
    <3>3. ~disturbed'[o] => QuietAt(o)'
      BY <2>1, <2>2, <2>3, <2>4, <3>2 DEF QuietAt
    <3>4. QuietInv'
      BY <2>1, <2>4, <3>3, OthersQuiet DEF ClientTypeOK
    <3> QED BY <3>1, <3>4
  <2>5. CASE /\ ~IsMaster(a) /\ probe' = [probe EXCEPT ![o] = probe[o] + 1]
             /\ UNCHANGED <<stage, found>>
    <3>1. QuietWrite'
      BY <2>1, <2>5 DEF QuietWrite, ClientTypeOK
    <3>2. probe'[o] = probe[o] + 1 /\ probe[o] \in Nat
      BY <2>5, ReplicationAssumption DEF ClientTypeOK
    <3>3. ASSUME ~disturbed[o], NEW i \in 1..(probe'[o] - 1) PROVE ~IsMaster(Endpoints[i])'
      <4>1. i = probe[o] \/ i \in 1..(probe[o] - 1)
        BY <3>2
      <4>2. CASE i = probe[o]
        BY <2>3, <2>5, <4>2
      <4>3. CASE i \in 1..(probe[o] - 1)
        <5>1. \A j \in 1..(probe[o] - 1) : ~IsMaster(Endpoints[j])
          BY <2>1, <2>2, <3>3, Zenon DEF QuietAt
        <5> QED BY <2>3, <4>3, <5>1, Zenon
      <4> QED BY <4>1, <4>2, <4>3
    <3>4. ~disturbed'[o] => QuietAt(o)'
      BY <2>1, <2>2, <2>3, <2>5, <3>3, Zenon DEF QuietAt
    <3>5. QuietInv'
      BY <2>1, <2>5, <3>4, OthersQuiet DEF ClientTypeOK
    <3> QED BY <3>1, <3>5
  <2>6. CASE /\ ~IsMaster(a) /\ ~(probe[o] < Len(Endpoints))
             /\ stage' = [stage EXCEPT ![o] = "failed"]
             /\ probe' = [probe EXCEPT ![o] = 1] /\ UNCHANGED found
    <3>1. disturbed[o]
      <4>1. SUFFICES ASSUME ~disturbed[o] PROVE FALSE
        OBVIOUS
      <4>2. probe[o] \in DOMAIN Endpoints
        BY DEF ClientTypeOK
      <4> QED BY <2>1, <2>2, <2>6, <4>1, <4>2, DiscoveryFinds DEF QuietAt
    <3>2. QuietWrite'
      BY <2>1, <2>6, <3>1 DEF QuietWrite, ClientTypeOK
    <3>3. QuietInv'
      BY <2>1, <2>6, <3>1, OthersQuiet DEF ClientTypeOK
    <3> QED BY <3>2, <3>3
  <2>7. probe[o] \in Nat /\ Len(Endpoints) \in Nat
    BY ReplicationAssumption DEF ClientTypeOK
  <2> QED BY <1>9, <2>4, <2>5, <2>6 DEF Role
<1>10. ASSUME NEW o \in Ops, Call(o) PROVE QuietInv' /\ QuietWrite'
  <2>1. /\ stage[o] = "call"
        /\ UNCHANGED <<masters, down, masterAddr, master, fresh, open, addrOf, kind, attempt, probe,
                       found, disturbed>>
        /\ using' = [using EXCEPT ![o] = Nil]
        /\ \E p \in {"invalidate", "idle", "failed"} : stage' = [stage EXCEPT ![o] = p]
    BY <1>10 DEF Call, deployment, pointer
  <2>2. ~disturbed[o] => QuietAt(o)
    BY <2>1 DEF QuietInv, Busy
  <2>3. Healthy' = Healthy
    BY <2>1 DEF Healthy
  <2>4. ~disturbed'[o] => QuietAt(o)'
    BY <2>1, <2>2, <2>3 DEF QuietAt, ClientTypeOK
  <2>5. QuietInv'
    BY <2>1, <2>4, OthersQuiet DEF ClientTypeOK
  <2>6. ~disturbed[o] => stage'[o] # "failed"
    <3>1. SUFFICES ASSUME ~disturbed[o] PROVE stage'[o] # "failed"
      OBVIOUS
    <3>2. /\ using[o] \in open /\ addrOf[using[o]] = masterAddr /\ down = {}
          /\ attempt[o] = 1 => IsMaster(masterAddr)
      BY <2>1, <2>2, <3>1 DEF QuietAt, Healthy, PointerSound
    <3>3. Reply(o) \in {"readonly", "ok"} /\ (Reply(o) = "readonly" => masterAddr \notin masters)
      BY <3>2 DEF Reply
    <3>4. attempt[o] \in 0..1 /\ (Reply(o) = "readonly" => attempt[o] = 0)
      BY <3>2, <3>3 DEF IsMaster, ClientTypeOK
    <3> QED BY <1>10, <3>3, <3>4 DEF Call, ClientTypeOK
  <2>7. QuietWrite'
    BY <2>1, <2>6 DEF QuietWrite, ClientTypeOK
  <2> QED BY <2>5, <2>7
<1>11. ASSUME NEW o \in Ops, Install(o) PROVE QuietInv' /\ QuietWrite'
  <2>1. /\ stage[o] = "install" /\ stage' = [stage EXCEPT ![o] = "read"]
        /\ found' = [found EXCEPT ![o] = Nil]
        /\ UNCHANGED <<masters, down, kind, attempt, probe, using>>
        /\ \A q \in Ops : disturbed[q] => disturbed'[q]
    BY <1>11, Zenon DEF Install, Go, deployment, Disturb
  <2>2. ~disturbed[o] => QuietAt(o)
    BY <2>1 DEF QuietInv, Busy
  <2>3. Healthy' = Healthy /\ \A b : IsMaster(b)' = IsMaster(b)
    BY <2>1 DEF Healthy, IsMaster
  <2>4. QuietWrite'
    BY <2>1 DEF QuietWrite, ClientTypeOK
  <2>5. Busy' = Busy
    BY <2>1 DEF Busy, ClientTypeOK
  <2>6. CASE found[o] # masterAddr
    <3>1. NewClient \in open' /\ master' = NewClient /\ masterAddr' = found[o]
      BY <1>11, <2>6 DEF Install, Replace
    <3>2. \A q \in Busy' \ {o} : disturbed'[q]
      BY <1>11, <2>5, <2>6, Zenon DEF Install, Disturb, Busy
    <3>3. ~disturbed'[o] => QuietAt(o)'
      BY <2>1, <2>2, <2>3, <3>1 DEF QuietAt, ClientTypeOK
    <3>4. QuietInv'
      BY <3>2, <3>3 DEF QuietInv
    <3> QED BY <2>4, <3>4
  <2>7. CASE found[o] = masterAddr /\ IsMaster(masterAddr)
    <3>1. UNCHANGED <<masterAddr, master, open, disturbed>>
      BY <1>11, <2>7 DEF Install
    <3>2. ASSUME NEW q \in Busy', ~disturbed'[q] PROVE QuietAt(q)'
      <4>1. QuietAt(q)
        BY <2>5, <3>1, <3>2 DEF QuietInv
      <4>2. CASE q = o
        BY <2>1, <2>3, <2>7, <3>1, <4>1, <4>2 DEF QuietAt, ClientTypeOK
      <4>3. CASE q # o
        <5>1. stage'[q] = stage[q] /\ found'[q] = found[q]
          BY <2>1, <4>3 DEF ClientTypeOK
        <5> QED BY <2>1, <2>3, <2>7, <3>1, <4>1, <5>1 DEF QuietAt
      <4> QED BY <4>2, <4>3
    <3>3. QuietInv'
      BY <3>2 DEF QuietInv
    <3> QED BY <2>4, <3>3
  <2>8. CASE found[o] = masterAddr /\ ~IsMaster(masterAddr)
    <3>1. \A q \in Busy' \ {o} : disturbed'[q]
      BY <1>11, <2>5, <2>8, Zenon DEF Install, Disturb, Busy
    <3>2. disturbed'[o]
      BY <2>1, <2>2, <2>8 DEF QuietAt
    <3>3. QuietInv'
      BY <3>1, <3>2 DEF QuietInv
    <3> QED BY <2>4, <3>3
  <2> QED BY <2>6, <2>7, <2>8
<1> QED
  BY <1>1, <1>2, <1>3, <1>4, <1>5, <1>6, <1>7, <1>8, <1>9, <1>10, <1>11 DEF ClientNext, Step

\* A write that nothing disturbed does not fail: one retry on READONLY is enough
\* after any failover that is over.
THEOREM WritesAreQuiet == ClientSpec => []QuietWrite
<1>1. ClientInit => QuietInv /\ QuietWrite
  BY DEF ClientInit, QuietInv, QuietWrite, Busy
<1> QED
  BY <1>1, PointerAlways, QuietInductive, PTL DEF ClientSpec

(***************************************************************************)
(* The token bucket.                                                       *)
(***************************************************************************)

\* Rounding down to a whole second loses less than one second.
LEMMA FloorLoss ==
    ASSUME NEW t \in Nat
    PROVE  /\ ExpireAt(t) \in Nat
           /\ t + TTL * Sec < ExpireAt(t) * Sec + Sec
<1> DEFINE q == t \div Sec
           r == t % Sec
<1>1. q \in Nat /\ r \in 0..(Sec - 1) /\ t = q * Sec + r
  BY SecAssumption
<1>2. (q + TTL) * Sec = q * Sec + TTL * Sec
  BY <1>1, SecAssumption, BucketAssumption
<1>3. q * Sec \in Nat /\ TTL * Sec \in Nat
  BY <1>1, SecAssumption, BucketAssumption
<1> QED
  BY <1>1, <1>2, <1>3, SecAssumption, BucketAssumption DEF ExpireAt

\* A bucket Redis has dropped would be full for every stamp under way.
LEMMA GoneIsFull == IInv => RefilledWhenGone
<1> SUFFICES ASSUME IInv, ~Live, NEW c \in Callers, stamp[c] # None
             PROVE  MaxCap + last <= level + stamp[c]
  BY DEF RefilledWhenGone
<1> USE SecAssumption, BucketAssumption
<1> DEFINE S == expireAt * Sec
           H == TTL * Sec
<1>1. /\ stamp[c] \in Nat /\ level \in Nat /\ last \in Nat
      /\ lastExpire \in Nat /\ now \in Nat /\ S \in Nat /\ H \in Nat
  BY DEF IInv, TypeOK
<1>2. now > S
  BY <1>1 DEF Live
<1>3. now <= stamp[c] + MaxDelay
  BY DEF IInv, Timely
<1>4. 2 * (MaxCap + MaxDelay + Sec - 2) <= H
  BY DEF IInv, TTLCoversRefill
<1>5. CASE level = MaxCap /\ last = 0
  BY <1>1, <1>5
<1>6. CASE /\ lastExpire + H < S + Sec
           /\ 2 * (last - lastExpire) <= H
  <2> HIDE DEF S, H
  <2> QED
    BY <1>1, <1>2, <1>3, <1>4, <1>6
<1> QED
  BY <1>5, <1>6 DEF IInv, ExpiryKept

-----------------------------------------------------------------------------

\* No key is stored yet, and nothing has been counted or promised.
LEMMA InitIInv == TTLCoversRefill /\ Init => IInv
<1> SUFFICES ASSUME TTLCoversRefill, Init PROVE IInv
  OBVIOUS
<1> USE SecAssumption, BucketAssumption
<1>1. TypeOK
  BY DEF Init, TypeOK
<1>2. Timely /\ ExpiryKept /\ Accounted /\ Promised
  BY DEF Init, Timely, ExpiryKept, Accounted, Promised
<1> QED
  BY <1>1, <1>2 DEF IInv

\* What an evaluation finds in the bucket: never more than was there plus the
\* stamped time since `last', even when Redis has dropped the key.
LEMMA RefilledFacts ==
    ASSUME IInv, NEW c \in Callers, NEW cap \in Caps, stamp[c] # None
    PROVE  LET t == stamp[c]
               units == Refilled(t, cap)
           IN  /\ t \in Nat
               /\ units \in 0..cap
               /\ t >= last => units <= level + (t - last)
               /\ t < last => Live /\ units <= level
               /\ units = Ideal!Refilled(t, cap)
<1> USE SecAssumption, BucketAssumption
<1>1. /\ stamp[c] \in Nat /\ cap \in Nat /\ level \in Nat /\ last \in Nat
      /\ level <= MaxCap /\ cap <= MaxCap /\ MaxCap \in Nat
  BY DEF IInv, TypeOK
<1>2. CASE Live
  BY <1>1, <1>2 DEF Refilled, Since, Least, Ideal!Refilled, Ideal!Since, Ideal!Least
<1>3. CASE ~Live
  <2>1. MaxCap + last <= level + stamp[c]
    BY <1>3, GoneIsFull DEF RefilledWhenGone
  <2> QED
    BY <1>1, <1>3, <2>1 DEF Refilled, Ideal!Refilled, Ideal!Since, Ideal!Least
<1> QED
  BY <1>2, <1>3

\* Writing the key keeps its expiry in step with last_expire.
LEMMA StoreKeepsExpiry ==
    ASSUME IInv, NEW c \in Callers, stamp[c] # None,
           NEW units \in 0..MaxCap, Store(stamp[c], units)
    PROVE  /\ lastExpire' \in Nat /\ expireAt' \in Nat
           /\ ExpiryKept'
<1> USE SecAssumption, BucketAssumption
<1> DEFINE t == stamp[c]
<1>1. t \in Nat /\ lastExpire \in Nat /\ expireAt \in Nat /\ now \in Nat
  BY DEF IInv, TypeOK
<1>2. CASE NeedsExpire(t)
  <2>1. /\ last' = t /\ lastExpire' = t /\ expireAt' = ExpireAt(t)
    BY <1>2 DEF Store
  <2>2. ExpireAt(t) \in Nat /\ t + TTL * Sec < ExpireAt(t) * Sec + Sec
    BY <1>1, FloorLoss
  <2>3. TTL * Sec \in Nat
    OBVIOUS
  <2> QED
    BY <1>1, <2>1, <2>2, <2>3 DEF ExpiryKept
<1>3. CASE ~NeedsExpire(t)
  <2>1. /\ last' = t /\ lastExpire' = lastExpire /\ expireAt' = expireAt
    BY <1>3 DEF Store
  <2>2. Live /\ ~(2 * (t - lastExpire) > TTL * Sec)
    BY <1>3 DEF NeedsExpire
  <2>3. expireAt # 0
    BY <1>1, <2>2 DEF IInv, Timely, Live
  <2>4. TTL * Sec \in Nat /\ expireAt * Sec \in Nat
    BY <1>1
  <2>5. lastExpire + TTL * Sec < expireAt * Sec + Sec
    BY <2>3 DEF IInv, ExpiryKept
  <2>6. 2 * (t - lastExpire) <= TTL * Sec
    BY <1>1, <2>2, <2>4
  <2> QED
    BY <1>1, <2>1, <2>5, <2>6 DEF ExpiryKept
<1> QED
  BY <1>2, <1>3

\* The clock moves: no stamp grows older than MaxDelay.
LEMMA TickKeepsIInv == IInv /\ Tick => IInv'
<1> SUFFICES ASSUME IInv, Tick PROVE IInv'
  OBVIOUS
<1> USE SecAssumption, BucketAssumption DEF IInv, Tick, key, history
<1>1. TTLCoversRefill' /\ TypeOK'
  BY DEF TypeOK, TTLCoversRefill
<1>2. Timely'
  BY DEF TypeOK, Timely
<1>3. ExpiryKept'
  BY DEF ExpiryKept
<1>4. Accounted' /\ Promised'
  BY DEF TypeOK, Accounted, Promised
<1> QED
  BY <1>1, <1>2, <1>3, <1>4

\* A fresh stamp is the current time.
LEMMA StampKeepsIInv == ASSUME NEW c \in Callers PROVE IInv /\ Stamp(c) => IInv'
<1> SUFFICES ASSUME IInv, Stamp(c) PROVE IInv'
  OBVIOUS
<1> USE SecAssumption, BucketAssumption DEF IInv, Stamp, key, history
<1>1. TTLCoversRefill' /\ TypeOK'
  BY DEF TypeOK, TTLCoversRefill
<1>2. Timely'
  BY DEF TypeOK, Timely
<1>3. ExpiryKept' /\ Accounted' /\ Promised'
  BY DEF ExpiryKept, Accounted, Promised
<1> QED
  BY <1>1, <1>2, <1>3

\* A window that opens now has spent nothing.
LEMMA OpenWindowKeepsIInv == IInv /\ OpenWindow => IInv'
<1> SUFFICES ASSUME IInv, OpenWindow PROVE IInv'
  OBVIOUS
<1> USE SecAssumption, BucketAssumption DEF IInv, OpenWindow, key
<1>1. TTLCoversRefill' /\ TypeOK' /\ Timely' /\ ExpiryKept' /\ Promised'
  BY DEF TypeOK, TTLCoversRefill, Timely, ExpiryKept, Promised
<1>2. Accounted'
  BY DEF TypeOK, Accounted
<1> QED
  BY <1>1, <1>2

\* Answers that leave the key alone.
LEMMA BypassKeepsIInv ==
    ASSUME NEW c \in Callers PROVE IInv /\ (Unlimited(c) \/ Lost(c)) => IInv'
<1> SUFFICES ASSUME IInv, Unlimited(c) \/ Lost(c) PROVE IInv'
  OBVIOUS
<1> USE SecAssumption, BucketAssumption DEF IInv
<1>1. /\ stamp' = [stamp EXCEPT ![c] = None]
      /\ verdict' \in {"allow", "error"}
      /\ UNCHANGED <<now, level, last, lastExpire, expireAt, history>>
  BY DEF Unlimited, Lost, Answer, key, history
<1>2. TTLCoversRefill' /\ TypeOK'
  BY <1>1 DEF TypeOK, TTLCoversRefill, history
<1>3. Timely'
  BY <1>1 DEF TypeOK, Timely
<1>4. ExpiryKept' /\ Accounted' /\ Promised'
  BY <1>1 DEF ExpiryKept, Accounted, Promised, history
<1> QED
  BY <1>2, <1>3, <1>4

\* The arithmetic of one evaluation: what was spent (p, then p2) and what is
\* left (v, then v2) stays within capacity, stamped time and drift (d, d2).
LEMMA Budget ==
    ASSUME NEW m \in Nat, NEW w \in Int, NEW t \in Nat, NEW l \in Nat,
           NEW v \in Nat, NEW v2 \in Nat, NEW u \in Nat,
           NEW p \in Nat, NEW p2 \in Nat, NEW d \in Nat, NEW d2 \in Nat,
           u <= m, p2 + v2 <= p + u, t >= w,
           l < w => p = 0,
           l >= w => p + v <= m + (l - w) + d,
           t < l => d2 = d + (l - t) /\ u <= v,
           t >= l => d2 = d /\ u <= v + (t - l)
    PROVE  p2 + v2 <= m + (t - w) + d2
OBVIOUS

\* The script: what it spends it takes from the level, and it renews the expiry.
LEMMA EvaluateKeepsIInv ==
    ASSUME NEW c \in Callers, NEW cap \in Caps
    PROVE  IInv /\ Evaluate(c, cap) => IInv'
<1> SUFFICES ASSUME IInv, Evaluate(c, cap) PROVE IInv'
  OBVIOUS
<1> USE SecAssumption, BucketAssumption
<1> DEFINE t == stamp[c]
           units == Refilled(t, cap)
<1>1. t # None
  BY DEF Evaluate
<1>2. /\ t \in Nat
      /\ units \in 0..cap
      /\ t >= last => units <= level + (t - last)
      /\ t < last => Live /\ units <= level
  BY <1>1, RefilledFacts
<1>3. cap \in Nat /\ cap <= MaxCap /\ units \in 0..MaxCap
  BY <1>2
<1>4. /\ now \in Nat /\ level \in 0..MaxCap /\ last \in Nat
      /\ spent \in Nat /\ drift \in Nat /\ window \in Nat \cup {None}
      /\ stamp \in [Callers -> Nat \cup {None}]
      /\ t <= now /\ now <= t + MaxDelay /\ last <= now /\ now >= Start
  BY <1>1 DEF IInv, TypeOK, Timely
<1>5. drift' = IF window # None /\ Live /\ t < last
               THEN drift + (last - t) ELSE drift
  BY DEF Evaluate
<1>6. UNCHANGED <<now, window>> /\ stamp' = [stamp EXCEPT ![c] = None]
  BY DEF Evaluate, Answer
<1> DEFINE left == IF units >= Cost THEN units - Cost ELSE units
<1>7. /\ left \in 0..MaxCap
      /\ Store(t, left)
      /\ spent' + left <= spent + units
      /\ spent' \in Nat
      /\ verdict' \in {"allow", "deny"}
      /\ promise' \in Nat \cup {None}
  BY <1>2, <1>3, <1>4 DEF Evaluate, Answer, RetryAfter
<1>8. /\ level' = left /\ last' = t
  BY <1>7 DEF Store
<1>9. lastExpire' \in Nat /\ expireAt' \in Nat /\ ExpiryKept'
  <2> HIDE DEF left
  <2> QED
    BY <1>1, <1>7, StoreKeepsExpiry
<1> HIDE DEF left
<1>10. TypeOK'
  BY <1>2, <1>4, <1>5, <1>6, <1>7, <1>8, <1>9 DEF TypeOK
<1>11. Timely'
  BY <1>4, <1>6, <1>8 DEF IInv, TypeOK, Timely
<1>12. Accounted'
  <2> SUFFICES ASSUME window # None
               PROVE  /\ window <= now
                      /\ t >= window - MaxDelay
                      /\ spent' + left
                           <= MaxCap + (t - (window - MaxDelay)) + drift'
    BY <1>4, <1>6, <1>8 DEF Accounted
  <2>1. window \in Nat /\ window <= now /\ t >= window - MaxDelay
    BY <1>2, <1>4 DEF IInv, Accounted
  <2>2. /\ last < window - MaxDelay => spent = 0
        /\ last >= window - MaxDelay =>
              spent + level <= MaxCap + (last - (window - MaxDelay)) + drift
    BY DEF IInv, Accounted
  <2>3. /\ t \in Nat /\ last \in Nat /\ MaxDelay \in Nat /\ MaxCap \in Nat
        /\ level \in Nat /\ units \in Nat /\ left \in Nat
        /\ spent \in Nat /\ spent' \in Nat /\ drift \in Nat
        /\ units <= MaxCap
        /\ spent' + left <= spent + units
    BY <1>2, <1>3, <1>4, <1>7
  <2>4. /\ t < last => drift' = drift + (last - t) /\ units <= level
        /\ t >= last => drift' = drift /\ units <= level + (t - last)
    BY <1>2, <1>4, <1>5, <2>3
  <2>5. drift' \in Nat /\ window - MaxDelay \in Int
    BY <2>1, <2>3, <2>4
  <2> QED
    BY <2>1, <2>2, <2>3, <2>4, <2>5, Budget
<1>13. Promised'
  BY <1>2, <1>3, <1>8 DEF Evaluate, Answer, Promised, left
<1> QED
  BY <1>9, <1>10, <1>11, <1>12, <1>13 DEF IInv, TTLCoversRefill

\* Every step keeps the inductive invariant.
LEMMA NextKeepsIInv == IInv /\ [Next]_vars => IInv'
<1> SUFFICES ASSUME IInv, [Next]_vars PROVE IInv'
  OBVIOUS
<1>1. CASE Tick
  BY <1>1, TickKeepsIInv
<1>2. CASE OpenWindow
  BY <1>2, OpenWindowKeepsIInv
<1>3. ASSUME NEW c \in Callers, Stamp(c) PROVE IInv'
  BY <1>3, StampKeepsIInv
<1>4. ASSUME NEW c \in Callers, NEW cap \in Caps, Evaluate(c, cap) PROVE IInv'
  BY <1>4, EvaluateKeepsIInv
<1>5. ASSUME NEW c \in Callers, Unlimited(c) \/ Lost(c) PROVE IInv'
  BY <1>5, BypassKeepsIInv
<1>6. CASE UNCHANGED vars
  BY <1>6 DEF IInv, TTLCoversRefill, TypeOK, Timely, ExpiryKept, Accounted,
              Promised, vars, key, history
<1> QED
  BY <1>1, <1>2, <1>3, <1>4, <1>5, <1>6 DEF Next

\* The inductive invariant holds throughout, whenever the TTL is long enough.
THEOREM Invariance == TTLCoversRefill /\ Spec => []IInv
BY InitIInv, NextKeepsIInv, PTL DEF Spec

\* Every variable keeps its type; in particular the stored level stays between
\* empty and the largest burst (the script's math.min(burst, ...)).
THEOREM TypeCorrect == TTLCoversRefill /\ Spec => []TypeOK
<1>1. IInv => TypeOK
  BY DEF IInv
<1> QED
  BY <1>1, Invariance, PTL

\* For every number of callers, burst, rate and delay, no window admits more
\* than the burst plus the earned tokens plus what late stamps gave back.
THEOREM WindowBounded == TTLCoversRefill /\ Spec => []WindowBound
<1>1. IInv => WindowBound
  <2> SUFFICES ASSUME IInv, window # None
               PROVE  spent <= MaxCap + (now - window) + MaxDelay + drift
    BY DEF WindowBound
  <2>1. /\ window \in Nat /\ window <= now /\ now \in Nat /\ last \in Nat
        /\ spent \in Nat /\ level \in Nat /\ drift \in Nat /\ last <= now
        /\ MaxCap \in Nat /\ MaxDelay \in Nat
    BY BucketAssumption DEF IInv, TypeOK, Timely, Accounted
  <2>2. /\ last < window - MaxDelay => spent = 0
        /\ last >= window - MaxDelay =>
              spent + level <= MaxCap + (last - (window - MaxDelay)) + drift
    BY DEF IInv, Accounted
  <2> QED
    BY <2>1, <2>2
<1> QED
  BY <1>1, Invariance, PTL

\* For every setting, a Retry-After is honest: the script does not deny a call
\* stamped when the latest promise is due and no token has gone since.
THEOREM RetryAfterHonest == TTLCoversRefill /\ Spec => RetryAfterKept
<1> DEFINE Kept(c) == /\ promise # None
                      /\ stamp[c] # None /\ stamp[c] >= promise
                      /\ stamp'[c] = None
                      => verdict' # "deny"
<1>1. ASSUME IInv, Next, NEW c \in Callers PROVE Kept(c)
  <2> SUFFICES ASSUME promise # None, stamp[c] # None, stamp[c] >= promise,
                      stamp'[c] = None
               PROVE  verdict' # "deny"
    OBVIOUS
  <2> USE <1>1
  <2>1. stamp \in [Callers -> Nat \cup {None}]
    BY DEF IInv, TypeOK
  <2>2. \/ \E cap \in Caps : Evaluate(c, cap)
        \/ Unlimited(c) \/ Lost(c)
    BY <2>1 DEF Next, Tick, OpenWindow, Stamp, Evaluate, Unlimited, Lost, Answer
  <2>3. ASSUME NEW cap \in Caps, Evaluate(c, cap) PROVE verdict' = "allow"
    <3>1. /\ stamp[c] \in Nat /\ promise \in Nat /\ level \in Nat /\ last \in Nat
          /\ cap \in Nat /\ Cost \in Nat /\ Cost <= cap
          /\ level < Cost /\ promise = last + (Cost - level)
      BY BucketAssumption DEF IInv, TypeOK, Promised, RetryAfter
    <3>2. Refilled(stamp[c], cap) >= Cost
      BY <3>1 DEF Refilled, Since, Least
    <3>3. Refilled(stamp[c], cap) \in Int
      BY <3>1 DEF Refilled, Since, Least
    <3> QED
      BY <2>3, <3>1, <3>2, <3>3 DEF Evaluate, Answer
  <2> QED
    BY <2>2, <2>3 DEF Unlimited, Lost, Answer
<1>2. ASSUME UNCHANGED vars, NEW c \in Callers PROVE Kept(c)
  BY <1>2 DEF vars
<1>3. IInv /\ [Next]_vars => [\A c \in Callers : Kept(c)]_vars
  BY <1>1, <1>2
<1> QED
  BY <1>3, Invariance, PTL DEF Spec, RetryAfterKept

\* Every step of the script is a step of the bucket whose keys never expire.
LEMMA StepSimulates == IInv /\ [Next]_vars => [Ideal!Next]_(Ideal!vars)
<1> SUFFICES ASSUME IInv, [Next]_vars
             PROVE  Ideal!Next \/ UNCHANGED Ideal!vars
  OBVIOUS
<1>1. CASE Tick
  <2>1. Ideal!Tick
    BY <1>1 DEF Tick, Ideal!Tick, key
  <2> QED
    BY <2>1 DEF Ideal!Next
<1>2. CASE OpenWindow
  BY <1>2 DEF OpenWindow, key, Ideal!vars
<1>3. ASSUME NEW c \in Callers, Stamp(c) PROVE Ideal!Next
  <2>1. Ideal!Stamp(c)
    BY <1>3 DEF Stamp, Ideal!Stamp, key
  <2> QED
    BY <2>1 DEF Ideal!Next
<1>4. ASSUME NEW c \in Callers, NEW cap \in Caps, Evaluate(c, cap)
      PROVE  Ideal!Next
  <2>1. stamp[c] # None
    BY <1>4 DEF Evaluate
  <2>2. Refilled(stamp[c], cap) = Ideal!Refilled(stamp[c], cap)
    BY <2>1, RefilledFacts
  <2>3. Refilled(stamp[c], cap) \in Int /\ Cost \in Int
    BY <2>1, RefilledFacts, BucketAssumption
  <2>4. Ideal!Evaluate(c, cap)
    BY <1>4, <2>2, <2>3 DEF Evaluate, Store, Answer, Ideal!Evaluate
  <2> QED
    BY <2>4 DEF Ideal!Next
<1>5. ASSUME NEW c \in Callers, Unlimited(c) \/ Lost(c) PROVE Ideal!Next
  <2>1. \E v \in {"allow", "error"} : Ideal!Bypass(c, v)
    BY <1>5 DEF Unlimited, Lost, Answer, Ideal!Bypass, key
  <2> QED
    BY <2>1 DEF Ideal!Next
<1>6. CASE UNCHANGED vars
  BY <1>6 DEF vars, key, Ideal!vars
<1> QED
  BY <1>1, <1>2, <1>3, <1>4, <1>5, <1>6 DEF Next

\* EXPIREAT is invisible: with a TTL long enough to refill the bucket, the
\* script implements the bucket that forgets nothing.
THEOREM ExpiryIsInvisible == TTLCoversRefill /\ Spec => ExpiryInvisible
<1>1. Init => Ideal!Init
  BY BucketAssumption DEF Init, Ideal!Init
<1> QED
  BY <1>1, Invariance, StepSimulates, PTL DEF Spec, Ideal!Spec, ExpiryInvisible
=============================================================================
