----------------------------- MODULE EventQueue -----------------------------
(***************************************************************************)
(* What the usage-event emitter promises its callers: a bounded first-in   *)
(* first-out queue that never refuses an event, gives up the oldest one    *)
(* when it is full, and hands the events over in batches, each event once. *)
(***************************************************************************)
EXTENDS Integers, Sequences

CONSTANTS Events, Capacity, BatchSize

VARIABLES
    queue,  \* the events held, oldest first
    out,    \* every event handed over so far, in order
    lost    \* the events given up because the queue was full

vars == <<queue, out, lost>>

Init == queue = <<>> /\ out = <<>> /\ lost = {}

Put(e) ==
    /\ IF Len(queue) < Capacity
       THEN queue' = Append(queue, e) /\ lost' = lost
       ELSE queue' = Append(Tail(queue), e) /\ lost' = lost \cup {Head(queue)}
    /\ out' = out

\* A batch is full, or all there is.
Take ==
    LET n == IF Len(queue) < BatchSize THEN Len(queue) ELSE BatchSize IN
    /\ queue # <<>>
    /\ queue' = SubSeq(queue, n + 1, Len(queue))
    /\ out' = out \o SubSeq(queue, 1, n)
    /\ lost' = lost

Next == Take \/ \E e \in Events : Put(e)

Spec == Init /\ [][Next]_vars
=============================================================================
