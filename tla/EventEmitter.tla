---------------------------- MODULE EventEmitter ----------------------------
(***************************************************************************)
(* One usage-event emitter (internal/events): requests put events into its *)
(* ring buffer, the flush loop drains the ring in batches and posts them,  *)
(* and Close stops the loop and flushes what is left.  The emitter is      *)
(* reached through the chain's pointer: a configuration reload swaps the   *)
(* pointer and closes the old emitter, the shutdown closes the emitter it  *)
(* loads, and a request that loaded the pointer earlier still emits.       *)
(*                                                                         *)
(* A critical section of ringMu is one step; so is one attempt to post a   *)
(* batch.  A usage event is named by its place in the order of emission.   *)
(***************************************************************************)
EXTENDS Integers, Sequences, FiniteSets

CONSTANTS
    Requests,    \* BOUND: requests in the chain at once
    MaxEvents,   \* BOUND: events emitted
    BufferSize,  \* events.buffer_size
    BatchSize,   \* events.batch_size
    MaxRetries   \* events.max_retries

ASSUME EmitterAssumption ==
    /\ BufferSize \in Nat \ {0}
    /\ BatchSize \in Nat \ {0}
    /\ MaxRetries \in Nat \ {0}
    /\ MaxEvents \in Nat

Events == 1..MaxEvents
NoEvent == 0  \* in a slot of the ring nothing was written to

Flusher == "flushLoop"
Closers == {"reload", "shutdown"}
Senders == {Flusher} \cup Closers

VARIABLES
    ring, ringHead, ringTail, ringLen,
    flushCh,    \* the channel of capacity one holds a token
    done,       \* the channel done is closed
    current,    \* the chain's pointer is this emitter
    at,         \* where each request is
    pc,         \* where each sender is
    batch,      \* what each sender is posting
    attempt,    \* and for the how manieth time
    panicked,   \* done was closed a second time: the process is gone
    emitted,    \* HISTORY: how many events were emitted
    drained,    \* HISTORY: every event taken out of the ring, in order
    dropped,    \* HISTORY: the events overwritten in a full ring
    settled,    \* HISTORY: the events of batches answered for or given up
    late        \* HISTORY: the events put into the ring of a closed emitter

buffer == <<ring, ringHead, ringTail, ringLen, emitted, drained, dropped, late>>
posting == <<batch, attempt, settled>>
control == <<flushCh, done, current, panicked>>
vars == <<buffer, posting, control, at, pc>>

Slot(i) == i % BufferSize

\* n events of the ring R, from the slot h on; what the ring holds.
Window(R, h, n) == [i \in 1..n |-> R[Slot(h + i - 1)]]
Contents == Window(ring, ringHead, ringLen)
Held == {ring[Slot(ringHead + i)] : i \in 0..(ringLen - 1)}

\* NewEmitter.
Init ==
    /\ ring = [i \in 0..(BufferSize - 1) |-> NoEvent]
    /\ ringHead = 0 /\ ringTail = 0 /\ ringLen = 0
    /\ flushCh = FALSE /\ done = FALSE /\ current = TRUE /\ panicked = FALSE
    /\ at = [r \in Requests |-> "idle"]
    /\ pc = [s \in Senders |-> IF s = Flusher THEN "select" ELSE "idle"]
    /\ batch = [s \in Senders |-> <<>>]
    /\ attempt = [s \in Senders |-> 0]
    /\ emitted = 0 /\ drained = <<>>
    /\ dropped = {} /\ settled = {} /\ late = {}

(***************************************************************************)
(* Requests: emitUsageEvent loads the pointer, Emit writes the ring and    *)
(* then, outside the lock, signals the flush loop without blocking.        *)
(***************************************************************************)

Load(r) ==
    /\ current
    /\ at[r] = "idle"
    /\ at' = [at EXCEPT ![r] = "loaded"]
    /\ UNCHANGED <<buffer, posting, control, pc>>

\* Mutant: the head stays where it is.
AdvanceKeepsHead ==
    /\ IF ringLen = BufferSize
       THEN dropped' = dropped \cup {ring[ringHead]} /\ UNCHANGED ringLen
       ELSE ringLen' = ringLen + 1 /\ UNCHANGED dropped
    /\ UNCHANGED ringHead

\* The oldest event of a full ring is overwritten, and the head moves past it.
Advance ==
    IF ringLen = BufferSize
    THEN /\ ringHead' = Slot(ringHead + 1)
         /\ dropped' = dropped \cup {ring[ringHead]}
         /\ UNCHANGED ringLen
    ELSE /\ ringLen' = ringLen + 1
         /\ UNCHANGED <<ringHead, dropped>>

\* Mutant: the event just written is not counted.
shouldFlushEarly == ringLen >= BatchSize

shouldFlush == ringLen' >= BatchSize

\* Emit, up to the unlock.
Put(r) ==
    /\ at[r] = "loaded"
    /\ emitted < MaxEvents
    /\ emitted' = emitted + 1
    /\ ring' = [ring EXCEPT ![ringTail] = emitted']
    /\ ringTail' = Slot(ringTail + 1)
    /\ Advance
    /\ at' = [at EXCEPT ![r] = IF shouldFlush THEN "signal" ELSE "idle"]
    /\ late' = IF done THEN late \cup {emitted'} ELSE late
    /\ UNCHANGED <<drained, posting, control, pc>>

\* The non-blocking send: a token already there is enough.
Signal(r) ==
    /\ at[r] = "signal"
    /\ at' = [at EXCEPT ![r] = "idle"]
    /\ flushCh' = TRUE
    /\ UNCHANGED <<buffer, posting, done, current, panicked, pc>>

(***************************************************************************)
(* flush, run by the flush loop and, at the end, by Close.                 *)
(***************************************************************************)

Go(s, from, to) == pc[s] = from /\ pc' = [pc EXCEPT ![s] = to]

\* Where flush returns to.
Return(s) == IF s = Flusher THEN "select" ELSE "closed"

\* flushLoop's select: done, the ticker, or a token in flushCh.
Stop ==
    /\ done
    /\ Go(Flusher, "select", "stopped")
    /\ UNCHANGED <<buffer, posting, control, at>>

Tick ==
    /\ Go(Flusher, "select", "drain")
    /\ UNCHANGED <<buffer, posting, control, at>>

Wake ==
    /\ flushCh
    /\ Go(Flusher, "select", "drain")
    /\ flushCh' = FALSE
    /\ UNCHANGED <<buffer, posting, done, current, panicked, at>>

\* drain; an empty ring ends the flush.
Drain(s) ==
    /\ pc[s] = "drain"
    /\ LET n == IF ringLen > BatchSize THEN BatchSize ELSE ringLen
           taken == Window(ring, ringHead, n)
       IN IF ringLen = 0
          THEN /\ pc' = [pc EXCEPT ![s] = Return(s)]
               /\ UNCHANGED <<ringHead, ringLen, drained, batch, attempt>>
          ELSE /\ pc' = [pc EXCEPT ![s] = "post"]
               /\ batch' = [batch EXCEPT ![s] = taken]
               /\ attempt' = [attempt EXCEPT ![s] = 1]
               /\ drained' = drained \o taken
               /\ ringHead' = Slot(ringHead + n)
               /\ ringLen' = ringLen - n
    /\ UNCHANGED <<ring, ringTail, emitted, dropped, late, settled, control, at>>

Batch(s) == {batch[s][i] : i \in DOMAIN batch[s]}

\* send returns: the batch is forgotten.
Settle(s) ==
    /\ settled' = settled \cup Batch(s)
    /\ batch' = [batch EXCEPT ![s] = <<>>]
    /\ attempt' = [attempt EXCEPT ![s] = 0]

\* trySendHTTP, answered below 500: a 4xx is only logged.
Posted(s) ==
    /\ Go(s, "post", "drain")
    /\ Settle(s)
    /\ UNCHANGED <<buffer, control, at>>

\* trySendHTTP fails (no answer in time, or 5xx: the receiver may have the
\* events all the same), and sendHTTP tries again after the backoff ...
Retry(s) ==
    /\ pc[s] = "post"
    /\ attempt[s] < MaxRetries
    /\ attempt' = [attempt EXCEPT ![s] = @ + 1]
    /\ UNCHANGED <<buffer, batch, settled, control, at, pc>>

\* ... or gives the batch up.
GiveUp(s) ==
    /\ attempt[s] = MaxRetries
    /\ Go(s, "post", "drain")
    /\ Settle(s)
    /\ UNCHANGED <<buffer, control, at>>

(***************************************************************************)
(* Close, called by Reload after the swap and by closeResources.           *)
(***************************************************************************)

\* Reload takes the emitter out of the chain; closeResources leaves it there.
Detach(c) ==
    /\ current
    /\ Go(c, "idle", "close")
    /\ current' = (c # "reload")
    /\ UNCHANGED <<buffer, posting, flushCh, done, panicked, at>>

\* close(done): a second close of a channel panics.
CloseDone(c) ==
    /\ Go(c, "close", "wait")
    /\ done' = TRUE
    /\ panicked' = done
    /\ UNCHANGED <<buffer, posting, flushCh, current, at>>

\* Mutant: Close does not wait for the flush loop.
NoWait(c) ==
    /\ Go(c, "wait", "closed")
    /\ UNCHANGED <<buffer, posting, control, at>>

\* wg.Wait, then the last flush.
Wait(c) ==
    /\ pc[Flusher] = "stopped"
    /\ Go(c, "wait", "drain")
    /\ UNCHANGED <<buffer, posting, control, at>>

-----------------------------------------------------------------------------

Flush(s) == Drain(s) \/ Posted(s) \/ Retry(s) \/ GiveUp(s)

Next ==
    /\ ~panicked
    /\ \/ \E r \in Requests : Load(r) \/ Put(r) \/ Signal(r)
       \/ Stop \/ Tick \/ Wake
       \/ \E s \in Senders : Flush(s)
       \/ \E c \in Closers : Detach(c) \/ CloseDone(c) \/ Wait(c)

Spec == Init /\ [][Next]_vars

Running(A) == ~panicked /\ A

\* Goroutines that can run do.  Nothing is assumed here of the ticker.
FairSpec ==
    /\ Spec
    /\ \A r \in Requests : WF_vars(Running(Put(r) \/ Signal(r)))
    /\ WF_vars(Running(Stop \/ Wake \/ Flush(Flusher)))
    /\ \A c \in Closers : WF_vars(Running(CloseDone(c) \/ Wait(c) \/ Flush(c)))

\* The ticker fires in every flush interval, and select takes it.
TickerFires == WF_vars(Running(Tick))

-----------------------------------------------------------------------------

Queue == INSTANCE EventQueue WITH
    Events <- Events, Capacity <- BufferSize, BatchSize <- BatchSize,
    queue <- Contents, out <- drained, lost <- dropped

\* The type invariant.
TypeOK ==
    /\ ring \in [0..(BufferSize - 1) -> Events \cup {NoEvent}]
    /\ ringHead \in 0..(BufferSize - 1)
    /\ ringTail \in 0..(BufferSize - 1)
    /\ ringLen \in 0..BufferSize
    /\ flushCh \in BOOLEAN /\ done \in BOOLEAN
    /\ current \in BOOLEAN /\ panicked \in BOOLEAN
    /\ at \in [Requests -> {"idle", "loaded", "signal"}]
    /\ pc \in [Senders -> {"select", "drain", "post", "stopped",
                           "idle", "close", "wait", "closed"}]
    /\ batch \in [Senders -> Seq(Events)]
    /\ attempt \in [Senders -> 0..MaxRetries]
    /\ emitted \in 0..MaxEvents /\ drained \in Seq(Events)
    /\ dropped \subseteq Events /\ settled \subseteq Events /\ late \subseteq Events

\* The ring, with its wrapping indices and its overwriting, is the bounded
\* drop-oldest queue: Emit is a Put, drain is a Take, and no other step of any
\* goroutine changes what is queued, handed over or lost.
ImplementsQueue == Queue!Spec

\* While a full batch is in the ring the flush loop is awake, or a token is in
\* flushCh, or the request that filled the batch is about to put one there: the
\* non-blocking send in Emit loses no wake-up.
NoLostWakeup ==
    ringLen >= BatchSize =>
        \/ flushCh
        \/ pc[Flusher] # "select"
        \/ \E r \in Requests : at[r] = "signal"

\* When Close has returned, every event that was emitted before it closed done
\* has left the ring: only an event emitted by a request that raced the close
\* stays behind.
CloseFlushes ==
    (\E c \in Closers : pc[c] = "closed") => Held \subseteq late

\* An event put into the ring of an open emitter leaves it, whatever the
\* receiver does: the ticker flushes what no full batch does.
EventsLeave ==
    TickerFires =>
        \A e \in Events :
            (e \in Held /\ e \notin late) ~> (e \notin Held \/ panicked)

\* A full batch is flushed without the help of the ticker: the token in flushCh
\* is enough, and one flush empties the ring.
FullBatchFlushed ==
    (ringLen >= BatchSize) ~> (ringLen < BatchSize \/ done)
=============================================================================
