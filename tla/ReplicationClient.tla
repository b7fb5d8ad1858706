-------------------------- MODULE ReplicationClient -------------------------
(***************************************************************************)
(* The Redis client for a replicated deployment (internal/redis): it asks  *)
(* the endpoints in turn for their ROLE, keeps a connection to the one     *)
(* that says "master" for thirty seconds, and retries a write once when    *)
(* the node it reached answers READONLY.  Discovery runs outside the lock, *)
(* so goroutines discover, install and use the master in any order while   *)
(* the deployment fails over under them.                                   *)
(*                                                                         *)
(* One critical section, one ROLE reply and one command are a step each.   *)
(***************************************************************************)
EXTENDS Integers, Sequences, FiniteSets

CONSTANTS
    Ops,         \* BOUND: goroutines with a command in flight
    Endpoints,   \* redis.endpoints, in order
    MaxChanges,  \* BOUND: changes of the deployment
    Nil

Addrs == {Endpoints[i] : i \in DOMAIN Endpoints}

\* BOUND: *goredis.Client objects.  An object that is closed and that nobody
\* points to is gone, and its name is used again.
Clients == 1..(Cardinality(Ops) + 2)

ASSUME ReplicationAssumption ==
    /\ IsFiniteSet(Ops)
    /\ Endpoints \in Seq(Addrs) /\ Endpoints # <<>>
    /\ MaxChanges \in Nat
    /\ Nil \notin Addrs

VARIABLES
    masters,     \* the nodes that answer "master" to ROLE
    down,        \* the nodes that do not answer
    changes,     \* changes of the deployment so far
    masterAddr, master,
    fresh,       \* time.Since(lastCheck) < masterCacheTTL
    open,        \* the clients that are not closed
    addrOf,      \* the address of each client
    stage,       \* where each goroutine is
    kind,        \* its command: "write" (withReadOnlyRetry) or "read"
    attempt,     \* READONLY was answered once
    probe,       \* the endpoint to ask next
    found,       \* the address discoverMaster returned
    using,       \* the client getMaster returned
    disturbed    \* HISTORY: see QuietWrite

deployment == <<masters, down, changes>>
pointer == <<masterAddr, master, fresh, open, addrOf>>
command == <<stage, kind, attempt, probe, found, using>>
clientVars == <<deployment, pointer, command, disturbed>>

Healthy == down = {} /\ \E a \in Addrs : masters = {a}
Busy == {o \in Ops : stage[o] \notin {"idle", "failed"}}

\* newReplication found a master.
ClientInit ==
    /\ masterAddr \in Addrs
    /\ masters = {masterAddr} /\ down = {} /\ changes = 0
    /\ master = 1 /\ open = {1} /\ fresh = TRUE
    /\ addrOf = [c \in Clients |-> IF c = 1 THEN masterAddr ELSE Nil]
    /\ stage = [o \in Ops |-> "idle"]
    /\ kind = [o \in Ops |-> "read"]
    /\ attempt = [o \in Ops |-> 0]
    /\ probe = [o \in Ops |-> 1]
    /\ found = [o \in Ops |-> Nil]
    /\ using = [o \in Ops |-> Nil]
    /\ disturbed = [o \in Ops |-> FALSE]

Disturb(S) == disturbed' = [o \in Ops |-> disturbed[o] \/ o \in S]
Go(o, from, to) == stage[o] = from /\ stage' = [stage EXCEPT ![o] = to]

(***************************************************************************)
(* The deployment.  A failover promotes one node and demotes another, in   *)
(* either order.                                                           *)
(***************************************************************************)

Changes(S, a, T) ==
    /\ changes < MaxChanges
    /\ changes' = changes + 1
    /\ T = IF a \in S THEN S \ {a} ELSE S \cup {a}
    /\ Disturb(Busy)
    /\ UNCHANGED <<pointer, command>>

PromoteOrDemote(a) == Changes(masters, a, masters') /\ UNCHANGED down
FailOrRecover(a) == Changes(down, a, down') /\ UNCHANGED masters

\* Thirty seconds since lastCheck.
Expire ==
    /\ fresh
    /\ fresh' = FALSE
    /\ UNCHANGED <<deployment, masterAddr, master, open, addrOf, command, disturbed>>

(***************************************************************************)
(* A command.                                                              *)
(***************************************************************************)

Begin(o, k) ==
    /\ stage[o] \in {"idle", "failed"}
    /\ stage' = [stage EXCEPT ![o] = "get"]
    /\ kind' = [kind EXCEPT ![o] = k]
    /\ attempt' = [attempt EXCEPT ![o] = 0]
    /\ disturbed' = [disturbed EXCEPT ![o] = ~Healthy \/ master \notin open]
    /\ UNCHANGED <<deployment, pointer, probe, found, using>>

\* getMaster, its first critical section.
GetCached(o) ==
    /\ fresh
    /\ Go(o, "get", "call")
    /\ using' = [using EXCEPT ![o] = master]
    /\ UNCHANGED <<deployment, pointer, kind, attempt, probe, found, disturbed>>

GetStale(o) ==
    /\ ~fresh
    /\ Go(o, "get", "discover")
    /\ UNCHANGED <<deployment, pointer, kind, attempt, probe, found, using,
                   disturbed>>

IsMaster(a) == a \in masters /\ a \notin down

\* discoverMaster: ROLE to the next endpoint; the first master is taken.
Role(o) ==
    /\ stage[o] = "discover"
    /\ LET a == Endpoints[probe[o]] IN
       CASE IsMaster(a) ->
              /\ stage' = [stage EXCEPT ![o] = "install"]
              /\ found' = [found EXCEPT ![o] = a]
              /\ probe' = [probe EXCEPT ![o] = 1]
         [] ~IsMaster(a) /\ probe[o] < Len(Endpoints) ->
              /\ probe' = [probe EXCEPT ![o] = @ + 1]
              /\ UNCHANGED <<stage, found>>
         [] OTHER ->
              /\ stage' = [stage EXCEPT ![o] = "failed"]
              /\ probe' = [probe EXCEPT ![o] = 1]
              /\ UNCHANGED found
    /\ UNCHANGED <<deployment, pointer, kind, attempt, using, disturbed>>

Unused == Clients \ ({master} \cup open \cup {using[o] : o \in Busy})
NewClient == CHOOSE c \in Unused : TRUE

\* Mutant: the connection to the old master is forgotten, not closed.
ReplaceLeaks(a) ==
    /\ open' = open \cup {NewClient}
    /\ addrOf' = [addrOf EXCEPT ![NewClient] = a]
    /\ master' = NewClient
    /\ masterAddr' = a

\* refreshMaster found another master.
Replace(a) ==
    /\ open' = (open \ {master}) \cup {NewClient}
    /\ addrOf' = [addrOf EXCEPT ![NewClient] = a]
    /\ master' = NewClient
    /\ masterAddr' = a

\* Mutant: the pointer is refreshed without looking at the address.
InstallKeeps(o) ==
    /\ Go(o, "install", "read")
    /\ fresh' = TRUE
    /\ found' = [found EXCEPT ![o] = Nil]
    /\ UNCHANGED <<deployment, masterAddr, master, open, addrOf, kind, attempt,
                   probe, using, disturbed>>

\* The critical section of refreshMaster.
Install(o) ==
    /\ Go(o, "install", "read")
    /\ IF found[o] # masterAddr THEN Replace(found[o])
       ELSE UNCHANGED <<masterAddr, master, open, addrOf>>
    /\ fresh' = TRUE
    /\ IF found[o] # masterAddr \/ ~IsMaster(found[o])
       THEN Disturb(Busy \ {o}) ELSE UNCHANGED disturbed
    /\ found' = [found EXCEPT ![o] = Nil]
    /\ UNCHANGED <<deployment, kind, attempt, probe, using>>

\* getMaster, its second critical section.
Read(o) ==
    /\ Go(o, "read", "call")
    /\ using' = [using EXCEPT ![o] = master]
    /\ UNCHANGED <<deployment, pointer, kind, attempt, probe, found, disturbed>>

\* What the node answers.
Reply(o) ==
    LET a == addrOf[using[o]] IN
    CASE using[o] \notin open -> "closed"
      [] using[o] \in open /\ a \in down -> "unreachable"
      [] using[o] \in open /\ a \notin down
         /\ kind[o] = "write" /\ a \notin masters -> "readonly"
      [] OTHER -> "ok"

\* Mutant: READONLY is not retried.
CallOnce(o) ==
    /\ stage[o] = "call"
    /\ stage' = [stage EXCEPT ![o] = IF Reply(o) = "ok" THEN "idle" ELSE "failed"]
    /\ using' = [using EXCEPT ![o] = Nil]
    /\ UNCHANGED <<deployment, pointer, kind, attempt, probe, found, disturbed>>

\* The command, and what withReadOnlyRetry makes of its error.
Call(o) ==
    /\ stage[o] = "call"
    /\ LET retry == Reply(o) = "readonly" /\ attempt[o] = 0 IN
       stage' = [stage EXCEPT ![o] = CASE retry -> "invalidate"
                                 [] ~retry /\ Reply(o) = "ok" -> "idle"
                                 [] OTHER -> "failed"]
    /\ using' = [using EXCEPT ![o] = Nil]
    /\ UNCHANGED <<deployment, pointer, kind, attempt, probe, found, disturbed>>

\* invalidateMaster, and the second attempt.
Invalidate(o) ==
    /\ Go(o, "invalidate", "get")
    /\ attempt' = [attempt EXCEPT ![o] = 1]
    /\ fresh' = FALSE
    /\ UNCHANGED <<deployment, masterAddr, master, open, addrOf, kind, probe,
                   found, using, disturbed>>

\* Close: the pointer stays.
Close ==
    /\ open' = open \ {master}
    /\ Disturb(Busy)
    /\ UNCHANGED <<deployment, masterAddr, master, fresh, addrOf, command>>

-----------------------------------------------------------------------------

Step(o) ==
    \/ GetCached(o) \/ GetStale(o) \/ Role(o) \/ Install(o) \/ Read(o)
    \/ Call(o) \/ Invalidate(o)

ClientNext ==
    \/ \E a \in Addrs : PromoteOrDemote(a) \/ FailOrRecover(a)
    \/ Expire \/ Close
    \/ \E o \in Ops : Step(o) \/ \E k \in {"read", "write"} : Begin(o, k)

ClientSpec == ClientInit /\ [][ClientNext]_clientVars

\* Goroutines run, time passes and there is always another command.
FairSpec ==
    /\ ClientSpec
    /\ \A o \in Ops : WF_clientVars(Step(o))
    /\ \A o \in Ops : WF_clientVars(\E k \in {"read", "write"} : Begin(o, k))
    /\ WF_clientVars(Expire)

-----------------------------------------------------------------------------

\* The type invariant.
ClientTypeOK ==
    /\ masters \subseteq Addrs /\ down \subseteq Addrs
    /\ changes \in 0..MaxChanges
    /\ masterAddr \in Addrs /\ master \in Clients
    /\ fresh \in BOOLEAN
    /\ open \subseteq Clients
    /\ addrOf \in [Clients -> Addrs \cup {Nil}]
    /\ stage \in [Ops -> {"idle", "get", "discover", "install", "read", "call",
                          "invalidate", "failed"}]
    /\ kind \in [Ops -> {"read", "write"}]
    /\ attempt \in [Ops -> 0..1]
    /\ probe \in [Ops -> DOMAIN Endpoints]
    /\ found \in [Ops -> Addrs \cup {Nil}]
    /\ using \in [Ops -> Clients \cup {Nil}]
    /\ disturbed \in [Ops -> BOOLEAN]

\* However refreshes overlap, every client but the one r.master points to is
\* closed, and r.master is a connection to r.masterAddr: no connection pool is
\* leaked, and the comparison in refreshMaster compares the right address.
PointerSound == open \subseteq {master} /\ addrOf[master] = masterAddr

\* A write fails only when it was disturbed: when it began, the deployment had
\* no single reachable master or the client was closed; or while it ran the
\* deployment changed, or the client was closed, or another goroutine's refresh
\* replaced the connection or installed an outdated discovery.  A failover that
\* is over costs a write nothing: the one retry on READONLY is enough.
QuietWrite ==
    \A o \in Ops : stage[o] = "failed" /\ kind[o] = "write" => disturbed[o]

\* When the deployment settles on one reachable master, the client ends up
\* pointing at it for good, in spite of discoveries begun before it settled.
Converges ==
    <>[](Cardinality(masters \ down) = 1) => <>[](masterAddr \in masters \ down)
=============================================================================
