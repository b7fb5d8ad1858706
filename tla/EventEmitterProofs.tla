------------------------- MODULE EventEmitterProofs -------------------------
(***************************************************************************)
(* Proofs about the usage-event emitter, for every buffer size, batch      *)
(* size, number of retries and number of requests: the type invariant, no  *)
(* lost wake-up, what Close leaves behind, and that the ring implements    *)
(* the bounded drop-oldest queue.                                          *)
(***************************************************************************)
EXTENDS EventEmitter, SequenceTheorems, TLAPS

(***************************************************************************)
(* Arithmetic of the ring's indices.                                       *)
(***************************************************************************)

LEMMA SlotSmall == \A x \in 0..(BufferSize - 1) : Slot(x) = x
  BY EmitterAssumption, Z3 DEF Slot

LEMMA SlotOnce ==
  \A x \in BufferSize..(2 * BufferSize - 1) : Slot(x) = x - BufferSize
  BY EmitterAssumption, Z3 DEF Slot

LEMMA SlotTwice ==
  \A x \in (2 * BufferSize)..(3 * BufferSize - 1) : Slot(x) = x - 2 * BufferSize
  BY EmitterAssumption, Z3 DEF Slot

LEMMA SlotRange == \A x \in Nat : Slot(x) \in 0..(BufferSize - 1)
  BY EmitterAssumption, Z3 DEF Slot

LEMMA SlotShift ==
  \A h \in 0..(2 * BufferSize - 1), x \in 0..BufferSize :
      Slot(Slot(h) + x) = Slot(h + x)
<1> TAKE h \in 0..(2 * BufferSize - 1), x \in 0..BufferSize
<1>1. CASE h < BufferSize
  BY <1>1, SlotSmall, EmitterAssumption
<1>2. CASE h >= BufferSize
  <2>1. Slot(h) = h - BufferSize
    BY <1>2, SlotOnce, EmitterAssumption
  <2>2. CASE h + x < 2 * BufferSize
    <3>1. Slot(h + x) = h + x - BufferSize
      BY <1>2, <2>2, SlotOnce, EmitterAssumption
    <3>2. Slot(h - BufferSize + x) = h - BufferSize + x
      BY <1>2, <2>2, SlotSmall, EmitterAssumption
    <3> QED
      BY <2>1, <3>1, <3>2, EmitterAssumption
  <2>3. CASE h + x >= 2 * BufferSize
    <3>1. Slot(h + x) = h + x - 2 * BufferSize
      BY <2>3, SlotTwice, EmitterAssumption
    <3>2. Slot(h - BufferSize + x) = h - BufferSize + x - BufferSize
      BY <2>3, SlotOnce, EmitterAssumption
    <3> QED
      BY <2>1, <3>1, <3>2, EmitterAssumption
  <2> QED
    BY <2>2, <2>3, EmitterAssumption
<1> QED
  BY <1>1, <1>2, EmitterAssumption

\* Fewer than BufferSize steps apart, two positions have different slots.
LEMMA SlotInjective ==
  \A h, i, j \in 0..(BufferSize - 1) : Slot(h + i) = Slot(h + j) => i = j
<1> TAKE h, i, j \in 0..(BufferSize - 1)
<1>1. Slot(h + i) = IF h + i < BufferSize THEN h + i ELSE h + i - BufferSize
  BY SlotSmall, SlotOnce, EmitterAssumption
<1>2. Slot(h + j) = IF h + j < BufferSize THEN h + j ELSE h + j - BufferSize
  BY SlotSmall, SlotOnce, EmitterAssumption
<1> QED
  BY <1>1, <1>2, EmitterAssumption

(***************************************************************************)
(* The ring.                                                               *)
(***************************************************************************)

\* The tail is ringLen slots past the head, and the slots between hold events.
RingOK ==
    /\ ringTail = Slot(ringHead + ringLen)
    /\ \A i \in 0..(ringLen - 1) : ring[Slot(ringHead + i)] \in Events

RingTyped ==
    /\ ring \in [0..(BufferSize - 1) -> Events \cup {NoEvent}]
    /\ ringHead \in 0..(BufferSize - 1)
    /\ ringTail \in 0..(BufferSize - 1)
    /\ ringLen \in 0..BufferSize
    /\ emitted \in 0..MaxEvents

\* The slots of a window of the ring, read in order, are a sequence.
LEMMA WindowSeq ==
  ASSUME NEW R, NEW h \in 0..(BufferSize - 1), NEW n \in 0..BufferSize,
         \A i \in 0..(n - 1) : R[Slot(h + i)] \in Events
  PROVE  /\ Window(R, h, n) \in Seq(Events)
         /\ Len(Window(R, h, n)) = n
         /\ \A i \in 1..n : Window(R, h, n)[i] = R[Slot(h + (i - 1))]
<1>1. \A i \in 1..n : h + i - 1 = h + (i - 1) /\ i - 1 \in 0..(n - 1)
  BY EmitterAssumption
<1>2. \A i \in 1..n : R[Slot(h + i - 1)] \in Events
  BY <1>1
<1>3. n \in Nat
  BY EmitterAssumption
<1>4. Window(R, h, n) \in [1..n -> Events]
  BY <1>2 DEF Window
<1> QED
  BY <1>1, <1>3, <1>4 DEF Window

\* What the ring holds is a sequence of events, as long as ringLen says.
LEMMA ContentsSeq ==
  ASSUME RingTyped, RingOK
  PROVE  /\ Contents \in Seq(Events)
         /\ Len(Contents) = ringLen
         /\ \A i \in 1..ringLen : Contents[i] = ring[Slot(ringHead + (i - 1))]
  BY WindowSeq DEF RingTyped, RingOK, Contents

LEMMA ContentsSeqNext ==
  ASSUME RingTyped', RingOK'
  PROVE  /\ Contents' \in Seq(Events)
         /\ Len(Contents') = ringLen'
         /\ \A i \in 1..ringLen' : Contents'[i] = ring'[Slot(ringHead' + (i - 1))]
  BY WindowSeq DEF RingTyped, RingOK, Contents

\* Emit keeps the ring well formed, and is a Put of the abstract queue.
LEMMA PutRing ==
  ASSUME RingTyped, RingOK, NEW r \in Requests, Put(r)
  PROVE  RingTyped' /\ RingOK' /\ Queue!Put(emitted') /\ emitted' \in Events
         /\ Held' \subseteq Held \cup {emitted'}
<1> DEFINE e == emitted'
<1>0. /\ e \in Events
      /\ ring' = [ring EXCEPT ![ringTail] = e]
      /\ ringTail' = Slot(ringTail + 1)
      /\ drained' = drained
      /\ emitted' \in 0..MaxEvents
  BY EmitterAssumption DEF Put, Events, RingTyped
<1>1. ring' \in [0..(BufferSize - 1) -> Events \cup {NoEvent}]
  BY <1>0 DEF RingTyped
<1>2. ringTail' \in 0..(BufferSize - 1)
  BY <1>0, SlotRange, EmitterAssumption DEF RingTyped
<1>3. CASE ringLen < BufferSize
  <2>1. ringLen' = ringLen + 1 /\ ringHead' = ringHead /\ dropped' = dropped
    BY <1>3, EmitterAssumption DEF Put, Advance, RingTyped
  <2>2. RingTyped'
    BY <1>0, <1>1, <1>2, <1>3, <2>1, EmitterAssumption DEF RingTyped
  <2>3. ringTail' = Slot(ringHead' + ringLen')
    <3>1. ringHead + ringLen \in 0..(2 * BufferSize - 1)
      BY <1>3, EmitterAssumption DEF RingTyped
    <3>2. Slot(Slot(ringHead + ringLen) + 1) = Slot(ringHead + ringLen + 1)
      BY <3>1, SlotShift, EmitterAssumption
    <3> QED
      BY <1>0, <2>1, <3>2, EmitterAssumption DEF RingOK, RingTyped
  <2>4. \A i \in 0..(ringLen - 1) : ring'[Slot(ringHead + i)] = ring[Slot(ringHead + i)]
    <3> TAKE i \in 0..(ringLen - 1)
    <3>1. Slot(ringHead + i) # ringTail
      <4>1. /\ i \in 0..(BufferSize - 1) /\ ringLen \in 0..(BufferSize - 1)
            /\ i # ringLen
        BY <1>3, EmitterAssumption DEF RingTyped
      <4> QED
        BY <4>1, SlotInjective DEF RingOK, RingTyped
    <3>2. Slot(ringHead + i) \in 0..(BufferSize - 1)
      BY SlotRange, EmitterAssumption DEF RingTyped
    <3> QED
      BY <1>0, <3>1, <3>2 DEF RingTyped
  <2>5. ring'[Slot(ringHead + ringLen)] = e
    BY <1>0 DEF RingOK, RingTyped
  <2>6. RingOK'
    <3>1. \A i \in 0..(ringLen' - 1) : i \in 0..(ringLen - 1) \/ i = ringLen
      BY <2>1, EmitterAssumption DEF RingTyped
    <3> QED
      BY <1>0, <2>1, <2>3, <2>4, <2>5, <3>1 DEF RingOK
  <2>7. Contents' = Append(Contents, e)
    <3>1. Contents \in Seq(Events) /\ Len(Contents) = ringLen
          /\ \A i \in 1..ringLen : Contents[i] = ring[Slot(ringHead + (i - 1))]
      BY ContentsSeq
    <3>2. Contents' \in Seq(Events) /\ Len(Contents') = ringLen'
          /\ \A i \in 1..ringLen' : Contents'[i] = ring'[Slot(ringHead' + (i - 1))]
      BY <2>2, <2>6, ContentsSeqNext
    <3>3. /\ Append(Contents, e) \in Seq(Events)
          /\ Len(Append(Contents, e)) = ringLen + 1
          /\ \A i \in 1..ringLen : Append(Contents, e)[i] = Contents[i]
          /\ Append(Contents, e)[ringLen + 1] = e
      BY <1>0, <3>1, AppendProperties
    <3>4. ASSUME NEW i \in 1..(ringLen + 1)
          PROVE  Contents'[i] = Append(Contents, e)[i]
      <4>1. CASE i = ringLen + 1
        <5>1. Contents'[i] = ring'[Slot(ringHead + ringLen)]
          BY <2>1, <3>2, <4>1, EmitterAssumption DEF RingTyped
        <5> QED
          BY <2>5, <3>3, <4>1, <5>1
      <4>2. CASE i # ringLen + 1
        <5>1. i \in 1..ringLen /\ i - 1 \in 0..(ringLen - 1)
          BY <4>2, EmitterAssumption DEF RingTyped
        <5>2. Contents'[i] = ring'[Slot(ringHead + (i - 1))]
          BY <2>1, <3>2
        <5> QED
          BY <2>4, <3>1, <3>3, <5>1, <5>2
      <4> QED
        BY <4>1, <4>2
    <3>5. Len(Contents') = ringLen + 1
      BY <2>1, <3>2
    <3> QED
      BY <3>2, <3>3, <3>4, <3>5, SeqEqual
  <2>8. Queue!Put(e)
    <3>1. Len(Contents) < BufferSize
      BY <1>3, ContentsSeq
    <3> QED
      BY <1>0, <2>1, <2>7, <3>1 DEF Queue!Put
  <2>9. Held' \subseteq Held \cup {e}
    <3>1. \A i \in 0..(ringLen' - 1) : i \in 0..(ringLen - 1) \/ i = ringLen
      BY <2>1, EmitterAssumption DEF RingTyped
    <3> QED
      BY <2>1, <2>4, <2>5, <3>1 DEF Held
  <2> QED
    BY <1>0, <2>2, <2>6, <2>8, <2>9
<1>4. CASE ringLen = BufferSize
  <2>1. /\ ringLen' = ringLen /\ ringHead' = Slot(ringHead + 1)
        /\ dropped' = dropped \cup {ring[ringHead]}
    BY <1>4, EmitterAssumption DEF Put, Advance, RingTyped
  <2>2. RingTyped'
    <3>1. ringHead' \in 0..(BufferSize - 1)
      BY <2>1, SlotRange, EmitterAssumption DEF RingTyped
    <3> QED
      BY <1>0, <1>1, <1>2, <1>4, <2>1, <3>1, EmitterAssumption DEF RingTyped
  <2>3. ringTail = ringHead
    <3>1. Slot(ringHead + BufferSize) = ringHead
      BY SlotOnce, EmitterAssumption DEF RingTyped
    <3> QED
      BY <1>4, <3>1 DEF RingOK
  <2>4. \A i \in 0..(BufferSize - 1) : Slot(ringHead' + i) = Slot(ringHead + (i + 1))
    <3> TAKE i \in 0..(BufferSize - 1)
    <3>1. ringHead + 1 \in 0..(2 * BufferSize - 1) /\ i \in 0..BufferSize
      BY EmitterAssumption DEF RingTyped
    <3>2. Slot(ringHead' + i) = Slot(ringHead + 1 + i)
      BY <2>1, <3>1, SlotShift
    <3> QED
      BY <3>2, EmitterAssumption DEF RingTyped
  <2>5. \A i \in 0..(BufferSize - 2) :
            ring'[Slot(ringHead' + i)] = ring[Slot(ringHead + (i + 1))]
    <3> TAKE i \in 0..(BufferSize - 2)
    <3>1. Slot(ringHead + (i + 1)) # Slot(ringHead + 0)
      <4>1. i + 1 \in 0..(BufferSize - 1) /\ 0 \in 0..(BufferSize - 1) /\ i + 1 # 0
        BY EmitterAssumption
      <4> QED
        BY <4>1, SlotInjective DEF RingTyped
    <3>2. Slot(ringHead + 0) = ringHead
      BY SlotSmall, EmitterAssumption DEF RingTyped
    <3>3. Slot(ringHead + (i + 1)) \in 0..(BufferSize - 1)
      BY SlotRange, EmitterAssumption DEF RingTyped
    <3>4. Slot(ringHead' + i) = Slot(ringHead + (i + 1))
      BY <2>4, EmitterAssumption
    <3> QED
      BY <1>0, <2>3, <3>1, <3>2, <3>3, <3>4 DEF RingTyped
  <2>6. ring'[Slot(ringHead' + (BufferSize - 1))] = e
    <3>1. Slot(ringHead' + (BufferSize - 1)) = Slot(ringHead + (BufferSize - 1 + 1))
      BY <2>4, EmitterAssumption
    <3>2. Slot(ringHead + (BufferSize - 1 + 1)) = ringHead
      BY SlotOnce, EmitterAssumption DEF RingTyped
    <3> QED
      BY <1>0, <2>3, <3>1, <3>2 DEF RingTyped
  <2>7. RingOK'
    <3>1. ringTail' = Slot(ringHead' + ringLen')
      <4>1. ringHead' \in 0..(BufferSize - 1)
        BY <2>2 DEF RingTyped
      <4>2. Slot(ringHead' + BufferSize) = ringHead'
        BY <4>1, SlotOnce, EmitterAssumption
      <4> QED
        BY <1>0, <1>4, <2>1, <2>3, <4>2
    <3>2. ASSUME NEW i \in 0..(ringLen' - 1)
          PROVE  ring'[Slot(ringHead' + i)] \in Events
      <4>1. CASE i = BufferSize - 1
        BY <1>0, <2>6, <4>1
      <4>2. CASE i # BufferSize - 1
        <5>1. i \in 0..(BufferSize - 2) /\ i + 1 \in 0..(ringLen - 1)
          BY <1>4, <2>1, <4>2, EmitterAssumption
        <5> QED
          BY <2>5, <5>1 DEF RingOK
      <4> QED
        BY <4>1, <4>2
    <3> QED
      BY <3>1, <3>2 DEF RingOK
  <2>8. Contents # <<>> /\ Head(Contents) = ring[ringHead]
    <3>1. ringLen >= 1 /\ 1 \in 1..ringLen
      BY <1>4, EmitterAssumption
    <3>2. Contents[1] = ring[Slot(ringHead + 0)]
      BY <3>1, ContentsSeq
    <3>3. Slot(ringHead + 0) = ringHead
      BY SlotSmall, EmitterAssumption DEF RingTyped
    <3>4. Contents \in Seq(Events) /\ Len(Contents) = ringLen
      BY ContentsSeq
    <3>5. Contents # <<>>
      BY <3>1, <3>4, EmptySeq
    <3> QED
      BY <3>2, <3>3, <3>4, <3>5
  <2>9. Contents' = Append(Tail(Contents), e)
    <3>1. Contents \in Seq(Events) /\ Len(Contents) = BufferSize
          /\ \A i \in 1..BufferSize : Contents[i] = ring[Slot(ringHead + (i - 1))]
      BY <1>4, ContentsSeq
    <3>2. Contents' \in Seq(Events) /\ Len(Contents') = BufferSize
          /\ \A i \in 1..BufferSize : Contents'[i] = ring'[Slot(ringHead' + (i - 1))]
      BY <1>4, <2>1, <2>2, <2>7, ContentsSeqNext
    <3>3. /\ Tail(Contents) \in Seq(Events)
          /\ Len(Tail(Contents)) = BufferSize - 1
          /\ \A i \in 1..(BufferSize - 1) : Tail(Contents)[i] = Contents[i + 1]
      BY <2>8, <3>1, HeadTailProperties
    <3>4. /\ Append(Tail(Contents), e) \in Seq(Events)
          /\ Len(Append(Tail(Contents), e)) = BufferSize - 1 + 1
          /\ \A i \in 1..(BufferSize - 1) :
                Append(Tail(Contents), e)[i] = Tail(Contents)[i]
          /\ Append(Tail(Contents), e)[BufferSize - 1 + 1] = e
      BY <1>0, <3>3, AppendProperties
    <3>5. ASSUME NEW i \in 1..BufferSize
          PROVE  Contents'[i] = Append(Tail(Contents), e)[i]
      <4>1. CASE i = BufferSize
        <5>1. Contents'[i] = ring'[Slot(ringHead' + (BufferSize - 1))]
          BY <3>2, <4>1
        <5>2. BufferSize - 1 + 1 = BufferSize
          BY EmitterAssumption
        <5> QED
          BY <2>6, <3>4, <4>1, <5>1, <5>2
      <4>2. CASE i # BufferSize
        <5>1. /\ i \in 1..(BufferSize - 1) /\ i - 1 \in 0..(BufferSize - 2)
              /\ i + 1 \in 1..BufferSize /\ i - 1 + 1 = i + 1 - 1
          BY <4>2, EmitterAssumption
        <5>2. Contents'[i] = ring[Slot(ringHead + (i - 1 + 1))]
          BY <2>5, <3>2, <5>1
        <5>3. Append(Tail(Contents), e)[i] = Contents[i + 1]
          BY <3>3, <3>4, <5>1
        <5> QED
          BY <3>1, <5>1, <5>2, <5>3
      <4> QED
        BY <4>1, <4>2
    <3>6. Len(Append(Tail(Contents), e)) = BufferSize
      BY <3>4, EmitterAssumption
    <3> QED
      BY <3>2, <3>4, <3>5, <3>6, SeqEqual
  <2>10. Queue!Put(e)
    <3>1. ~(Len(Contents) < BufferSize)
      BY <1>4, ContentsSeq, EmitterAssumption
    <3> QED
      BY <1>0, <2>1, <2>8, <2>9, <3>1 DEF Queue!Put
  <2>11. Held' \subseteq Held \cup {e}
    <3> SUFFICES ASSUME NEW i \in 0..(ringLen' - 1)
                 PROVE  ring'[Slot(ringHead' + i)] \in Held \cup {e}
      BY DEF Held
    <3>1. CASE i = BufferSize - 1
      BY <2>6, <3>1
    <3>2. CASE i # BufferSize - 1
      <4>1. i \in 0..(BufferSize - 2) /\ i + 1 \in 0..(ringLen - 1)
        BY <1>4, <2>1, <3>2, EmitterAssumption
      <4> QED
        BY <2>5, <4>1 DEF Held
    <3> QED
      BY <3>1, <3>2
  <2> QED
    BY <1>0, <2>2, <2>7, <2>10, <2>11
<1> QED
  BY <1>3, <1>4, EmitterAssumption DEF RingTyped

\* drain keeps the ring well formed, and is a Take of the abstract queue.
LEMMA DrainRing ==
  ASSUME RingTyped, RingOK, drained \in Seq(Events),
         batch \in [Senders -> Seq(Events)],
         NEW s \in Senders, Drain(s), ringLen # 0
  PROVE  /\ RingTyped' /\ RingOK' /\ Queue!Take /\ drained' \in Seq(Events)
         /\ Held' \subseteq Held /\ ringLen' < ringLen
         /\ batch' \in [Senders -> Seq(Events)]
         /\ attempt' = [attempt EXCEPT ![s] = 1]
         /\ pc' = [pc EXCEPT ![s] = "post"]
<1> DEFINE n == IF ringLen > BatchSize THEN BatchSize ELSE ringLen
<1> DEFINE taken == Window(ring, ringHead, n)
<1>1. /\ n \in 0..BufferSize /\ n >= 1 /\ n <= ringLen
      /\ ringLen - n \in 0..BufferSize /\ ringLen - n < ringLen
  BY EmitterAssumption DEF RingTyped
<1>2. /\ drained' = drained \o taken
      /\ batch' = [batch EXCEPT ![s] = taken]
      /\ attempt' = [attempt EXCEPT ![s] = 1]
      /\ pc' = [pc EXCEPT ![s] = "post"]
      /\ ringHead' = Slot(ringHead + n) /\ ringLen' = ringLen - n
      /\ ring' = ring /\ ringTail' = ringTail /\ dropped' = dropped
      /\ emitted' = emitted
  BY DEF Drain
<1> HIDE DEF n
<1>3. RingTyped'
  <2>1. ringHead' \in 0..(BufferSize - 1)
    <3>1. ringHead + n \in Nat
      BY <1>1, EmitterAssumption DEF RingTyped
    <3> QED
      BY <1>2, <3>1, SlotRange
  <2> QED
    BY <1>1, <1>2, <2>1 DEF RingTyped
<1>4. \A i \in 0..(ringLen - n) : Slot(ringHead' + i) = Slot(ringHead + (n + i))
  <2> TAKE i \in 0..(ringLen - n)
  <2>1. ringHead + n \in 0..(2 * BufferSize - 1) /\ i \in 0..BufferSize
    BY <1>1, EmitterAssumption DEF RingTyped
  <2>2. Slot(ringHead' + i) = Slot(ringHead + n + i)
    BY <1>2, <2>1, SlotShift
  <2>3. ringHead + n + i = ringHead + (n + i)
    BY <1>1, EmitterAssumption DEF RingTyped
  <2> QED
    BY <2>2, <2>3
<1>5. \A i \in 0..(ringLen' - 1) :
          n + i \in 0..(ringLen - 1) /\ Slot(ringHead' + i) = Slot(ringHead + (n + i))
  BY <1>1, <1>2, <1>4, EmitterAssumption DEF RingTyped
<1>6. RingOK'
  <2>1. ringTail' = Slot(ringHead' + ringLen')
    <3>1. n + (ringLen - n) = ringLen /\ ringLen - n \in 0..(ringLen - n)
      BY <1>1, EmitterAssumption DEF RingTyped
    <3> QED
      BY <1>2, <1>4, <3>1 DEF RingOK
  <2> QED
    BY <1>2, <1>5, <2>1 DEF RingOK
<1>7. Held' \subseteq Held
  BY <1>2, <1>5 DEF Held
<1>8. /\ Contents \in Seq(Events) /\ Len(Contents) = ringLen
      /\ \A i \in 1..ringLen : Contents[i] = ring[Slot(ringHead + (i - 1))]
  BY ContentsSeq
<1>9. /\ Contents' \in Seq(Events) /\ Len(Contents') = ringLen - n
      /\ \A i \in 1..(ringLen - n) : Contents'[i] = ring[Slot(ringHead' + (i - 1))]
  BY <1>2, <1>3, <1>6, ContentsSeqNext
<1>10. /\ taken \in Seq(Events) /\ Len(taken) = n
       /\ \A i \in 1..n : taken[i] = ring[Slot(ringHead + (i - 1))]
  <2>1. \A i \in 0..(n - 1) : ring[Slot(ringHead + i)] \in Events
    <3>1. \A i \in 0..(n - 1) : i \in 0..(ringLen - 1)
      BY <1>1, EmitterAssumption DEF RingTyped
    <3> QED
      BY <3>1 DEF RingOK
  <2>2. ringHead \in 0..(BufferSize - 1)
    BY DEF RingTyped
  <2> QED
    BY <1>1, <2>1, <2>2, WindowSeq
<1> HIDE DEF taken
<1>11. taken = SubSeq(Contents, 1, n)
  <2>1. \A i \in 1..n : Contents[i] \in Events /\ i \in 1..ringLen
    BY <1>1, <1>8, ElementOfSeq, EmitterAssumption DEF RingTyped
  <2>2. n \in Int /\ 1 \in Int /\ n - 1 + 1 = n /\ 1 <= n
    BY <1>1, EmitterAssumption
  <2>3. /\ SubSeq(Contents, 1, n) \in Seq(Events)
        /\ Len(SubSeq(Contents, 1, n)) = n
        /\ \A i \in 1..n : SubSeq(Contents, 1, n)[i] = Contents[1 + i - 1]
    BY <2>1, <2>2, SubSeqProperties
  <2>4. \A i \in 1..n : 1 + i - 1 = i
    BY <1>1, EmitterAssumption
  <2>5. \A i \in 1..n : taken[i] = SubSeq(Contents, 1, n)[i]
    <3> SUFFICES ASSUME NEW i \in 1..n PROVE taken[i] = SubSeq(Contents, 1, n)[i]
      OBVIOUS
    <3>1. SubSeq(Contents, 1, n)[i] = Contents[i]
      BY <2>3, <2>4
    <3>2. Contents[i] = ring[Slot(ringHead + (i - 1))]
      BY <1>8, <2>1
    <3> QED
      BY <1>10, <3>1, <3>2
  <2> QED
    BY <1>10, <2>3, <2>5, SeqEqual
<1>12. Contents' = SubSeq(Contents, n + 1, ringLen)
  <2>1. \A i \in (n + 1)..ringLen : Contents[i] \in Events
    BY <1>1, <1>8, ElementOfSeq, EmitterAssumption DEF RingTyped
  <2>2. /\ n + 1 \in Int /\ ringLen \in Int /\ ringLen - (n + 1) + 1 = ringLen - n
        /\ (IF n + 1 <= ringLen THEN ringLen - n ELSE 0) = ringLen - n
    BY <1>1, EmitterAssumption DEF RingTyped
  <2>3. /\ SubSeq(Contents, n + 1, ringLen) \in Seq(Events)
        /\ Len(SubSeq(Contents, n + 1, ringLen)) = ringLen - n
        /\ \A i \in 1..(ringLen - n) :
              SubSeq(Contents, n + 1, ringLen)[i] = Contents[n + 1 + i - 1]
    BY <2>1, <2>2, SubSeqProperties
  <2>4. \A i \in 1..(ringLen - n) :
            /\ n + 1 + i - 1 = n + i /\ n + i \in 1..ringLen
            /\ (n + i) - 1 = n + (i - 1) /\ i - 1 \in 0..(ringLen - n)
    BY <1>1, EmitterAssumption DEF RingTyped
  <2>5. \A i \in 1..(ringLen - n) :
            Contents'[i] = SubSeq(Contents, n + 1, ringLen)[i]
    <3> TAKE i \in 1..(ringLen - n)
    <3>1. Contents'[i] = ring[Slot(ringHead + (n + (i - 1)))]
      BY <1>4, <1>9, <2>4
    <3>2. SubSeq(Contents, n + 1, ringLen)[i] = ring[Slot(ringHead + ((n + i) - 1))]
      <4>1. SubSeq(Contents, n + 1, ringLen)[i] = Contents[n + i]
        BY <2>3, <2>4
      <4>2. Contents[n + i] = ring[Slot(ringHead + ((n + i) - 1))]
        BY <1>8, <2>4
      <4> QED
        BY <4>1, <4>2
    <3> QED
      BY <2>4, <3>1, <3>2
  <2> QED
    BY <1>9, <2>3, <2>5, SeqEqual
<1>13. Queue!Take
  <2>1. Contents # <<>>
    BY <1>1, <1>8, EmptySeq, EmitterAssumption
  <2>2. n = IF Len(Contents) < BatchSize THEN Len(Contents) ELSE BatchSize
    BY <1>8, EmitterAssumption DEF n, RingTyped
  <2> QED
    BY <1>2, <1>8, <1>11, <1>12, <2>1, <2>2 DEF Queue!Take
<1>14. drained' \in Seq(Events)
  BY <1>2, <1>10, ConcatProperties
<1>15. batch' \in [Senders -> Seq(Events)]
  BY <1>2, <1>10
<1> QED
  BY <1>1, <1>2, <1>3, <1>6, <1>7, <1>13, <1>14, <1>15

(***************************************************************************)
(* The inductive invariant.                                                *)
(***************************************************************************)

\* A closer past close(done) has closed it; one that has returned left only
\* late events in the ring.
ClosedOK ==
    \A c \in Closers :
        /\ pc[c] \in {"wait", "drain", "post", "closed"} => done
        /\ pc[c] = "closed" => Held \subseteq late

IInv == TypeOK /\ RingOK /\ NoLostWakeup /\ ClosedOK

LEMMA Names == Flusher \in Senders /\ Closers \subseteq Senders /\ Flusher \notin Closers
  BY DEF Senders, Closers, Flusher

LEMMA TypeOKRing == TypeOK => RingTyped
  BY DEF TypeOK, RingTyped

LEMMA InitIInv == Init => IInv
<1> SUFFICES ASSUME Init PROVE IInv
  OBVIOUS
<1>1. TypeOK
  <2>1. /\ ring \in [0..(BufferSize - 1) -> Events \cup {NoEvent}]
        /\ ringHead \in 0..(BufferSize - 1) /\ ringTail \in 0..(BufferSize - 1)
        /\ ringLen \in 0..BufferSize /\ emitted \in 0..MaxEvents
    BY EmitterAssumption DEF Init
  <2>2. /\ batch \in [Senders -> Seq(Events)] /\ drained \in Seq(Events)
        /\ attempt \in [Senders -> 0..MaxRetries]
    BY EmitterAssumption DEF Init
  <2>3. /\ pc \in [Senders -> {"select", "drain", "post", "stopped",
                               "idle", "close", "wait", "closed"}]
        /\ at \in [Requests -> {"idle", "loaded", "signal"}]
    BY DEF Init
  <2> QED
    BY <2>1, <2>2, <2>3 DEF Init, TypeOK
<1>2. RingOK
  BY SlotSmall, EmitterAssumption DEF Init, RingOK
<1>3. NoLostWakeup
  BY EmitterAssumption DEF Init, NoLostWakeup
<1>4. ClosedOK
  BY Names DEF Init, ClosedOK
<1> QED
  BY <1>1, <1>2, <1>3, <1>4 DEF IInv

\* Steps that leave the ring alone.
LEMMA RingUnchanged ==
  ASSUME UNCHANGED buffer
  PROVE  /\ RingOK => RingOK'
         /\ Contents' = Contents /\ Held' = Held
         /\ UNCHANGED <<ringLen, drained, dropped, late>>
  BY DEF buffer, RingOK, Contents, Held

LEMMA PutIInv ==
  ASSUME IInv, NEW r \in Requests, Put(r)
  PROVE  IInv'
<1>1. RingTyped' /\ RingOK' /\ emitted' \in Events /\ Held' \subseteq Held \cup {emitted'}
  BY PutRing, TypeOKRing DEF IInv
<1>2. /\ at' = [at EXCEPT ![r] = IF shouldFlush THEN "signal" ELSE "idle"]
      /\ late' = IF done THEN late \cup {emitted'} ELSE late
      /\ UNCHANGED <<drained, posting, control, pc>>
  BY DEF Put
<1>3. TypeOK'
  <2>1. dropped' \subseteq Events
    <3>1. ringLen = BufferSize => ring[ringHead] \in Events
      <4>1. 0 \in 0..(BufferSize - 1) /\ ringHead + 0 = ringHead
        BY EmitterAssumption DEF IInv, TypeOK
      <4>2. Slot(ringHead + 0) = ringHead
        BY <4>1, SlotSmall DEF IInv, TypeOK
      <4> QED
        BY <4>1, <4>2 DEF IInv, RingOK
    <3> QED
      BY <3>1 DEF Put, Advance, IInv, TypeOK
  <2>2. at' \in [Requests -> {"idle", "loaded", "signal"}]
    BY <1>2 DEF IInv, TypeOK
  <2> QED
    BY <1>1, <1>2, <2>1, <2>2 DEF IInv, TypeOK, RingTyped, posting, control
<1>4. NoLostWakeup'
  <2>1. ringLen' >= BatchSize => at'[r] = "signal"
    BY <1>2 DEF shouldFlush, IInv, TypeOK
  <2> QED
    BY <2>1 DEF NoLostWakeup
<1>5. ClosedOK'
  BY <1>1, <1>2 DEF IInv, ClosedOK, control
<1> QED
  BY <1>1, <1>3, <1>4, <1>5 DEF IInv

LEMMA DrainIInv ==
  ASSUME IInv, NEW s \in Senders, Drain(s)
  PROVE  IInv'
<1>1. CASE ringLen = 0
  <2>1. /\ pc' = [pc EXCEPT ![s] = Return(s)]
        /\ UNCHANGED <<buffer, posting, control, at>>
    BY <1>1 DEF Drain, buffer, posting
  <2>2. TypeOK'
    BY <2>1 DEF IInv, TypeOK, Return, buffer, posting, control
  <2>3. RingOK'
    BY <2>1, RingUnchanged DEF IInv
  <2>4. NoLostWakeup'
    BY <1>1, <2>1, EmitterAssumption DEF NoLostWakeup, buffer
  <2>5. ClosedOK'
    <3>1. Held' = {} /\ late' = late /\ done' = done
      BY <1>1, <2>1 DEF Held, buffer, control
    <3> SUFFICES ASSUME NEW c \in Closers
                 PROVE  /\ pc'[c] \in {"wait", "drain", "post", "closed"} => done'
                        /\ pc'[c] = "closed" => Held' \subseteq late'
      BY DEF ClosedOK
    <3>2. pc[s] = "drain"
      BY DEF Drain
    <3> QED
      BY <2>1, <3>1, <3>2, Names DEF IInv, ClosedOK, TypeOK
  <2> QED
    BY <2>2, <2>3, <2>4, <2>5 DEF IInv
<1>2. CASE ringLen # 0
  <2>1. /\ RingTyped' /\ RingOK' /\ drained' \in Seq(Events)
        /\ Held' \subseteq Held /\ ringLen' < ringLen
        /\ batch' \in [Senders -> Seq(Events)]
        /\ attempt' = [attempt EXCEPT ![s] = 1]
        /\ pc' = [pc EXCEPT ![s] = "post"]
    BY <1>2, DrainRing, TypeOKRing DEF IInv, TypeOK
  <2>2. pc[s] = "drain" /\ UNCHANGED <<emitted, dropped, late, settled, control, at>>
    BY DEF Drain
  <2>3. TypeOK'
    BY <2>1, <2>2, EmitterAssumption DEF IInv, TypeOK, RingTyped, control
  <2>4. NoLostWakeup'
    <3>1. ringLen' >= BatchSize => ringLen >= BatchSize
      BY <2>1, EmitterAssumption DEF IInv, TypeOK, RingTyped
    <3> QED
      BY <2>1, <2>2, <3>1 DEF IInv, NoLostWakeup, TypeOK, control
  <2>5. ClosedOK'
    BY <2>1, <2>2, Names DEF IInv, ClosedOK, TypeOK, control
  <2> QED
    BY <2>1, <2>3, <2>4, <2>5 DEF IInv
<1> QED
  BY <1>1, <1>2

LEMMA NextIInv == IInv /\ [Next]_vars => IInv'
<1> SUFFICES ASSUME IInv, [Next]_vars PROVE IInv'
  OBVIOUS
<1> USE DEF IInv
<1>1. ASSUME NEW r \in Requests, Load(r) PROVE IInv'
  <2>1. RingOK' /\ Held' = Held /\ UNCHANGED <<ringLen, late>>
    BY <1>1, RingUnchanged DEF Load
  <2>2. TypeOK'
    BY <1>1 DEF Load, TypeOK, buffer, posting, control
  <2>3. NoLostWakeup'
    BY <1>1, <2>1 DEF Load, NoLostWakeup, TypeOK, control
  <2>4. ClosedOK'
    BY <1>1, <2>1 DEF Load, ClosedOK, control
  <2> QED
    BY <2>1, <2>2, <2>3, <2>4
<1>2. ASSUME NEW r \in Requests, Put(r) PROVE IInv'
  BY <1>2, PutIInv
<1>3. ASSUME NEW r \in Requests, Signal(r) PROVE IInv'
  <2>1. RingOK' /\ Held' = Held /\ UNCHANGED <<ringLen, late>>
    BY <1>3, RingUnchanged DEF Signal
  <2>2. TypeOK'
    BY <1>3 DEF Signal, TypeOK, buffer, posting
  <2>3. NoLostWakeup'
    BY <1>3 DEF Signal, NoLostWakeup
  <2>4. ClosedOK'
    BY <1>3, <2>1 DEF Signal, ClosedOK
  <2> QED
    BY <2>1, <2>2, <2>3, <2>4
<1>4. ASSUME Stop \/ Tick \/ Wake PROVE IInv'
  <2>1. RingOK' /\ Held' = Held /\ UNCHANGED <<ringLen, late, done>>
    BY <1>4, RingUnchanged DEF Stop, Tick, Wake, control
  <2>2. TypeOK'
    BY <1>4, Names DEF Stop, Tick, Wake, Go, TypeOK, buffer, posting, control
  <2>3. NoLostWakeup'
    BY <1>4, Names DEF Stop, Tick, Wake, Go, NoLostWakeup, TypeOK
  <2>4. ClosedOK'
    BY <1>4, <2>1, Names DEF Stop, Tick, Wake, Go, ClosedOK, TypeOK
  <2> QED
    BY <2>1, <2>2, <2>3, <2>4
<1>5. ASSUME NEW s \in Senders, Drain(s) PROVE IInv'
  BY <1>5, DrainIInv
<1>6. ASSUME NEW s \in Senders, Posted(s) \/ Retry(s) \/ GiveUp(s) PROVE IInv'
  <2>1. RingOK' /\ Held' = Held /\ UNCHANGED <<ringLen, late, done, flushCh, at>>
    BY <1>6, RingUnchanged DEF Posted, Retry, GiveUp, control
  <2>2. pc[s] = "post" /\ (pc' = pc \/ pc' = [pc EXCEPT ![s] = "drain"])
    BY <1>6 DEF Posted, Retry, GiveUp, Go
  <2>3. /\ batch' \in [Senders -> Seq(Events)]
        /\ attempt' \in [Senders -> 0..MaxRetries]
        /\ settled' \subseteq Events
    <3>1. Batch(s) \subseteq Events
      BY ElementOfSeq, LenProperties DEF Batch, TypeOK
    <3>2. <<>> \in Seq(Events) /\ 0 \in 0..MaxRetries
      BY EmitterAssumption
    <3>3. CASE Retry(s)
      BY <3>3, EmitterAssumption DEF Retry, TypeOK
    <3>4. CASE Posted(s) \/ GiveUp(s)
      BY <3>1, <3>2, <3>4 DEF Posted, GiveUp, Settle, TypeOK
    <3> QED
      BY <1>6, <3>3, <3>4
  <2>4. TypeOK'
    BY <1>6, <2>2, <2>3 DEF Posted, Retry, GiveUp, TypeOK, buffer, control
  <2>5. NoLostWakeup'
    <3>1. pc'[Flusher] = "select" => pc[Flusher] = "select"
      BY <2>2, Names DEF TypeOK
    <3> QED
      BY <2>1, <3>1 DEF NoLostWakeup
  <2>6. ClosedOK'
    BY <2>1, <2>2, Names DEF ClosedOK, TypeOK
  <2> QED
    BY <2>1, <2>4, <2>5, <2>6
<1>7. ASSUME NEW c \in Closers, Detach(c) \/ CloseDone(c) \/ Wait(c) PROVE IInv'
  <2>1. RingOK' /\ Held' = Held /\ UNCHANGED <<ringLen, late, flushCh, at>>
    BY <1>7, RingUnchanged DEF Detach, CloseDone, Wait, control
  <2>2. TypeOK'
    BY <1>7, Names
    DEF Detach, CloseDone, Wait, Go, TypeOK, buffer, posting, control
  <2>3. NoLostWakeup'
    BY <1>7, <2>1, Names DEF Detach, CloseDone, Wait, Go, NoLostWakeup, TypeOK
  <2>4. ClosedOK'
    BY <1>7, <2>1, Names DEF Detach, CloseDone, Wait, Go, ClosedOK, TypeOK, control
  <2> QED
    BY <2>1, <2>2, <2>3, <2>4
<1>8. CASE UNCHANGED vars
  BY <1>8, RingUnchanged
  DEF vars, buffer, posting, control, TypeOK, NoLostWakeup, ClosedOK
<1> QED
  BY <1>1, <1>2, <1>3, <1>4, <1>5, <1>6, <1>7, <1>8 DEF Next, Flush

LEMMA SpecIInv == Spec => []IInv
  BY InitIInv, NextIInv, PTL DEF Spec

(***************************************************************************)
(* Theorems.                                                               *)
(***************************************************************************)

\* Every reachable state of the emitter is well typed; in particular ringLen
\* never exceeds the buffer and the indices stay inside it.
THEOREM TypeCorrect == Spec => []TypeOK
  BY SpecIInv, PTL DEF IInv

\* A full batch never waits for the ticker: the non-blocking send of Emit
\* loses no wake-up, however requests, flush loop and Close interleave.
THEOREM WakeupNotLost == Spec => []NoLostWakeup
  BY SpecIInv, PTL DEF IInv

\* Once Close has returned, only events emitted after close(done) are left in
\* the ring.
THEOREM CloseFlushesAll == Spec => []CloseFlushes
<1>1. IInv => CloseFlushes
  BY DEF IInv, ClosedOK, CloseFlushes
<1> QED
  BY <1>1, SpecIInv, PTL

\* The emitter's ring buffer implements the bounded drop-oldest queue: Emit is
\* a Put, drain is a Take, and every other step leaves the queue alone.
THEOREM RingImplementsQueue == Spec => ImplementsQueue
<1>1. Init => Queue!Init
  <2> SUFFICES ASSUME Init PROVE Queue!Init
    OBVIOUS
  <2>1. Len(Contents) = 0 /\ Contents \in Seq(Events)
    BY InitIInv, TypeOKRing, ContentsSeq DEF IInv, Init
  <2> QED
    BY <2>1, EmptySeq DEF Init, Queue!Init
<1>2. IInv /\ [Next]_vars => [Queue!Next]_(Queue!vars)
  <2> SUFFICES ASSUME IInv, [Next]_vars PROVE [Queue!Next]_(Queue!vars)
    OBVIOUS
  <2>1. ASSUME NEW r \in Requests, Put(r) PROVE Queue!Next
    BY <2>1, PutRing, TypeOKRing DEF IInv, Queue!Next
  <2>2. ASSUME NEW s \in Senders, Drain(s), ringLen # 0 PROVE Queue!Next
    BY <2>2, DrainRing, TypeOKRing DEF IInv, TypeOK, Queue!Next
  <2>3. ASSUME NEW s \in Senders, Drain(s), ringLen = 0 PROVE UNCHANGED buffer
    BY <2>3 DEF Drain, buffer
  <2>4. ASSUME UNCHANGED buffer PROVE UNCHANGED Queue!vars
    BY <2>4, RingUnchanged DEF Queue!vars
  <2>5. CASE UNCHANGED vars
    BY <2>5, <2>4 DEF vars
  <2>6. CASE Next
    BY <2>6, <2>1, <2>2, <2>3, <2>4
    DEF Next, Flush, Load, Signal, Stop, Tick, Wake, Posted, Retry, GiveUp,
        Detach, CloseDone, Wait
  <2> QED
    BY <2>5, <2>6
<1> QED
  BY <1>1, <1>2, SpecIInv, PTL DEF Spec, Queue!Spec, ImplementsQueue
=============================================================================
