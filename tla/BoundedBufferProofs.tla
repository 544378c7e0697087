------------------------- MODULE BoundedBufferProofs -------------------------
(***************************************************************************)
(* Proofs about BoundedBuffer for every ring size and stream length.         *)
(***************************************************************************)
EXTENDS BoundedBuffer, SequenceTheorems, TLAPS

\* Who is inside the critical section owns the mutex.
MutexInv ==
  /\ prod \in {"test", "put", "signal", "unlock"} <=> mutex = "producer"
  /\ cons \in {"test", "get", "signal", "unlock"} <=> mutex = "consumer"

\* What the while loops have established when the ring is touched, and where
\* the for loops stand.
Guards ==
  /\ prod = "put" => count < MAX
  /\ cons = "get" => count > 0
  /\ prod # "done" => pi < loops
  /\ cons # "done" => ci < loops

\* The inductive invariant.
IInv == TypeOK /\ RingConsistent /\ NoLostWakeup /\ MutexInv /\ Guards

-----------------------------------------------------------------------------
\* Where a ring of MAX slots wraps.
LEMMA Wrap ==
  ASSUME NEW u \in Slots, NEW k \in 0..MAX
  PROVE  /\ (u + k) % MAX = IF u + k < MAX THEN u + k ELSE u + k - MAX
         /\ (u + k) % MAX \in Slots
<1> USE BufferAssumption DEF Slots
<1>1. CASE u + k < MAX
  <2>1. (u + k) % MAX = u + k
    BY <1>1
  <2> QED
    BY <1>1, <2>1
<1>2. CASE ~(u + k < MAX)
  <2>1. MAX <= u + k /\ u + k < 2 * MAX
    BY <1>2
  <2>2. (u + k) % MAX = u + k - MAX
    BY <2>1
  <2> QED
    BY <1>2, <2>1, <2>2
<1> QED
  BY <1>1, <1>2

\* Fewer than MAX steps along the ring never come back to a slot.
LEMMA DistinctSlots ==
  ASSUME NEW u \in Slots, NEW a \in 0..MAX - 1, NEW b \in 0..MAX - 1, a < b
  PROVE  (u + a) % MAX # (u + b) % MAX
<1> DEFINE ra == (u + a) % MAX
           rb == (u + b) % MAX
<1>1. a \in 0..MAX /\ b \in 0..MAX
  BY BufferAssumption
<1>2. /\ ra = IF u + a < MAX THEN u + a ELSE u + a - MAX
      /\ rb = IF u + b < MAX THEN u + b ELSE u + b - MAX
  BY <1>1, Wrap
<1> HIDE DEF ra, rb
<1>3. ra # rb
  BY <1>2, BufferAssumption DEF Slots
<1> QED
  BY <1>3 DEF ra, rb

\* The empty ring satisfies the inductive invariant.
LEMMA InitIInv == Init => IInv
<1> SUFFICES ASSUME Init PROVE IInv
  OBVIOUS
<1> USE BufferAssumption DEF Init
<1>1. 0 \in Slots /\ 0 \in 0..MAX
  BY DEF Slots
<1>2. RingConsistent
  BY <1>1, Wrap DEF RingConsistent
<1>3. TypeOK
  BY <1>1 DEF TypeOK, LoopAt, ProdLocs, ConsLocs
<1> QED
  BY <1>2, <1>3 DEF IInv, NoLostWakeup, MutexInv, Guards, LoopAt, Free

\* put keeps the counter and the pointers together.
LEMMA PutKeepsRing ==
  ASSUME IInv, Put
  PROVE  /\ TypeOK' /\ RingConsistent'
<1> USE BufferAssumption DEF IInv, Put, Guards
<1>1. use_ptr \in Slots /\ fill_ptr \in Slots /\ count \in 0..MAX
  BY DEF TypeOK
<1>2. count + 1 \in 0..MAX /\ 1 \in 0..MAX
  BY <1>1
<1>3. fill_ptr' = IF fill_ptr + 1 < MAX THEN fill_ptr + 1 ELSE fill_ptr + 1 - MAX
  BY <1>1, <1>2, Wrap
<1>4. fill_ptr = IF use_ptr + count < MAX THEN use_ptr + count ELSE use_ptr + count - MAX
  BY <1>1, Wrap DEF RingConsistent
<1>5. (use_ptr + (count + 1)) % MAX = IF use_ptr + (count + 1) < MAX
                                     THEN use_ptr + (count + 1)
                                     ELSE use_ptr + (count + 1) - MAX
  BY <1>1, <1>2, Wrap
<1>6. fill_ptr' \in Slots
  BY <1>1, <1>2, Wrap
<1>7. RingConsistent'
  BY <1>1, <1>3, <1>4, <1>5 DEF RingConsistent, Slots
<1>8. TypeOK'
  BY <1>1, <1>2, <1>6 DEF TypeOK, ProdLocs
<1> QED
  BY <1>7, <1>8

\* get keeps them together as well.
LEMMA GetKeepsRing ==
  ASSUME IInv, Get
  PROVE  /\ TypeOK' /\ RingConsistent'
<1> USE BufferAssumption DEF IInv, Get, Guards
<1>1. use_ptr \in Slots /\ fill_ptr \in Slots /\ count \in 0..MAX /\ count > 0
  BY DEF TypeOK
<1>2. count - 1 \in 0..MAX /\ 1 \in 0..MAX
  BY <1>1
<1>3. /\ use_ptr' = IF use_ptr + 1 < MAX THEN use_ptr + 1 ELSE use_ptr + 1 - MAX
      /\ use_ptr' \in Slots
  BY <1>1, <1>2, Wrap
<1>4. fill_ptr = IF use_ptr + count < MAX THEN use_ptr + count ELSE use_ptr + count - MAX
  BY <1>1, Wrap DEF RingConsistent
<1>5. (use_ptr' + (count - 1)) % MAX = IF use_ptr' + (count - 1) < MAX
                                      THEN use_ptr' + (count - 1)
                                      ELSE use_ptr' + (count - 1) - MAX
  BY <1>2, <1>3, Wrap
<1>6. RingConsistent'
  <2>1. (use_ptr' + (count - 1)) % MAX = fill_ptr
    <3>1. CASE use_ptr + 1 < MAX
      BY <3>1, <1>1, <1>3, <1>4, <1>5 DEF Slots
    <3>2. CASE ~(use_ptr + 1 < MAX)
      BY <3>2, <1>1, <1>3, <1>4, <1>5 DEF Slots
    <3> QED
      BY <3>1, <3>2
  <2>2. count' = count - 1 /\ fill_ptr' = fill_ptr
    OBVIOUS
  <2> QED
    BY <2>1, <2>2 DEF RingConsistent
<1>7. TypeOK'
  BY <1>1, <1>2, <1>3 DEF TypeOK, ConsLocs
<1> QED
  BY <1>6, <1>7

\* Every step of the producer and of the consumer preserves the inductive
\* invariant.
LEMMA StepIInv == IInv /\ [Next]_vars => IInv'
<1> SUFFICES ASSUME IInv, [Next]_vars PROVE IInv'
  OBVIOUS
<1> USE BufferAssumption DEF IInv, NoLostWakeup, MutexInv, Guards, Free, ring, LoopAt
<1>1. CASE Put
  <2>1. TypeOK' /\ RingConsistent'
    BY <1>1, PutKeepsRing
  <2> QED
    BY <1>1, <2>1 DEF Put, TypeOK
<1>2. CASE Get
  <2>1. TypeOK' /\ RingConsistent'
    BY <1>2, GetKeepsRing
  <2> QED
    BY <1>2, <2>1 DEF Get, TypeOK
<1>3. ASSUME UNCHANGED ring PROVE RingConsistent'
  BY <1>3 DEF RingConsistent
<1> USE DEF TypeOK, ProdLocs, ConsLocs
<1>4. CASE ProducerLocks
  BY <1>3, <1>4 DEF ProducerLocks
<1>5. CASE ProducerWaits
  BY <1>3, <1>5 DEF ProducerWaits
<1>6. CASE ProducerProceeds
  BY <1>3, <1>6 DEF ProducerProceeds
<1>7. CASE SignalFill
  BY <1>3, <1>7 DEF SignalFill
<1>8. CASE ProducerUnlocks
  BY <1>3, <1>8 DEF ProducerUnlocks
<1>9. CASE ConsumerLocks
  BY <1>3, <1>9 DEF ConsumerLocks
<1>10. CASE ConsumerWaits
  BY <1>3, <1>10 DEF ConsumerWaits
<1>11. CASE ConsumerProceeds
  BY <1>3, <1>11 DEF ConsumerProceeds
<1>12. CASE SignalEmpty
  BY <1>3, <1>12 DEF SignalEmpty
<1>13. CASE ConsumerUnlocks
  BY <1>3, <1>13 DEF ConsumerUnlocks
<1>14. CASE SpuriousWakeup
  BY <1>3, <1>14 DEF SpuriousWakeup
<1>15. CASE UNCHANGED vars
  BY <1>3, <1>15 DEF vars
<1> QED
  BY <1>1, <1>2, <1>4, <1>5, <1>6, <1>7, <1>8, <1>9, <1>10, <1>11, <1>12,
     <1>13, <1>14, <1>15 DEF Next, Producer, Consumer, Joined

\* The mutex, the pointers and the sleepers stay consistent for every ring
\* size and every number of items.
THEOREM Invariance == Spec => []IInv
BY InitIInv, StepIInv, PTL DEF Spec

\* The ring's variables keep their types: no index ever leaves the buffer and
\* the counter stays between 0 and MAX.
THEOREM TypeCorrect == Spec => []TypeOK
BY Invariance, PTL DEF IInv

\* count, fill_ptr and use_ptr never disagree.
THEOREM RingAlwaysConsistent == Spec => []RingConsistent
BY Invariance, PTL DEF IInv

\* A thread never sleeps through the event it waits for.
THEOREM WakeupsNotLost == Spec => []NoLostWakeup
BY Invariance, PTL DEF IInv



-----------------------------------------------------------------------------
(* Refinement *)

\* The live part of the ring is a sequence of length count.
ContentsShape ==
  /\ Contents \in Seq(Nat)
  /\ Len(Contents) = count
  /\ \A k \in 1..count : Contents[k] = buffer[(use_ptr + (k - 1)) % MAX]

\* The live part of the ring is a sequence of count items.
LEMMA ContentsIsSeq == TypeOK => ContentsShape
<1> SUFFICES ASSUME TypeOK PROVE ContentsShape
  OBVIOUS
<1> USE BufferAssumption DEF TypeOK
<1>1. \A k \in 1..count : k - 1 \in 0..MAX /\ use_ptr + k - 1 = use_ptr + (k - 1)
  BY DEF Slots
<1>2. \A k \in 1..count : (use_ptr + (k - 1)) % MAX \in Slots
  BY <1>1, Wrap
<1>3. \A k \in 1..count : buffer[(use_ptr + k - 1) % MAX] \in Nat
  BY <1>1, <1>2
<1>4. Contents \in [1..count -> Nat]
  BY <1>3 DEF Contents
<1>5. Contents \in Seq(Nat) /\ Len(Contents) = count
  BY <1>4, SeqDef
<1> QED
  BY <1>1, <1>5 DEF Contents, ContentsShape

\* put appends to the live part: the slot it writes is not a live one.
LEMMA PutAppends ==
  ASSUME IInv, Put
  PROVE  Contents' = Append(Contents, pi)
<1> USE BufferAssumption DEF IInv
<1>1. /\ Contents \in Seq(Nat) /\ Len(Contents) = count
      /\ \A k \in 1..count : Contents[k] = buffer[(use_ptr + (k - 1)) % MAX]
  BY ContentsIsSeq DEF ContentsShape
<1>2. TypeOK'
  BY PutKeepsRing
<1>3. /\ Contents' \in Seq(Nat) /\ Len(Contents') = count'
      /\ \A k \in 1..count' : Contents'[k] = buffer'[(use_ptr' + (k - 1)) % MAX]
  <2>1. ContentsShape'
    BY <1>2, ContentsIsSeq, PTL
  <2> QED
    BY <2>1 DEF ContentsShape
<1>4. /\ count' = count + 1 /\ use_ptr' = use_ptr /\ pi \in Nat
      /\ buffer' = [buffer EXCEPT ![fill_ptr] = pi]
      /\ count \in 0..MAX /\ count < MAX /\ use_ptr \in Slots /\ fill_ptr \in Slots
      /\ buffer \in [Slots -> Nat]
      /\ fill_ptr = (use_ptr + count) % MAX
  BY DEF Put, TypeOK, Guards, RingConsistent
<1>5. /\ Append(Contents, pi) \in Seq(Nat)
      /\ Len(Append(Contents, pi)) = count + 1
      /\ \A k \in 1..count + 1 :
           Append(Contents, pi)[k] = IF k = count + 1 THEN pi ELSE Contents[k]
  BY <1>1, <1>4, AppendProperties
<1>6. ASSUME NEW k \in 1..count + 1
      PROVE  Contents'[k] = Append(Contents, pi)[k]
  <2>1. Contents'[k] = buffer'[(use_ptr + (k - 1)) % MAX]
    BY <1>3, <1>4
  <2>2. CASE k = count + 1
    <3>1. k - 1 = count
      BY <2>2, <1>4
    <3>2. Contents'[k] = pi
      BY <2>1, <3>1, <1>4
    <3> QED
      BY <3>2, <2>2, <1>5
  <2>3. CASE k # count + 1
    <3>1. k \in 1..count /\ k - 1 \in 0..MAX
      BY <2>3, <1>4
    <3>2. (use_ptr + (k - 1)) % MAX # fill_ptr
      <4>1. k - 1 \in 0..MAX - 1 /\ count \in 0..MAX - 1 /\ k - 1 < count
        BY <3>1, <1>4
      <4> QED
        BY <4>1, <1>4, DistinctSlots
    <3>3. (use_ptr + (k - 1)) % MAX \in Slots
      BY <3>1, <1>4, Wrap
    <3>4. Contents'[k] = buffer[(use_ptr + (k - 1)) % MAX]
      BY <2>1, <3>2, <3>3, <1>4
    <3> QED
      BY <3>4, <3>1, <1>1, <1>5, <2>3
  <2> QED
    BY <2>2, <2>3
<1> QED
  BY <1>3, <1>4, <1>5, <1>6, SeqEqual

\* get removes the oldest item of the live part and prints it.
LEMMA GetTakesHead ==
  ASSUME IInv, Get
  PROVE  /\ Contents # <<>>
         /\ buffer[use_ptr] = Head(Contents)
         /\ Contents' = Tail(Contents)
<1> USE BufferAssumption DEF IInv
<1>1. /\ Contents \in Seq(Nat) /\ Len(Contents) = count
      /\ \A k \in 1..count : Contents[k] = buffer[(use_ptr + (k - 1)) % MAX]
  BY ContentsIsSeq DEF ContentsShape
<1>2. TypeOK'
  BY GetKeepsRing
<1>3. /\ Contents' \in Seq(Nat) /\ Len(Contents') = count'
      /\ \A k \in 1..count' : Contents'[k] = buffer'[(use_ptr' + (k - 1)) % MAX]
  <2>1. ContentsShape'
    BY <1>2, ContentsIsSeq, PTL
  <2> QED
    BY <2>1 DEF ContentsShape
<1>4. /\ count' = count - 1 /\ use_ptr' = (use_ptr + 1) % MAX /\ buffer' = buffer
      /\ count \in 1..MAX /\ use_ptr \in Slots
  BY DEF Get, TypeOK, Guards
<1>5. Contents # <<>>
  BY <1>1, <1>4
<1>6. buffer[use_ptr] = Head(Contents)
  <2>1. (use_ptr + (1 - 1)) % MAX = use_ptr
    <3>1. 1 - 1 \in 0..MAX /\ use_ptr + (1 - 1) < MAX /\ use_ptr + (1 - 1) = use_ptr
      BY <1>4 DEF Slots
    <3> QED
      BY <3>1, <1>4, Wrap
  <2>2. Contents[1] = buffer[use_ptr]
    BY <2>1, <1>1, <1>4
  <2> QED
    BY <2>2, <1>1, <1>5
<1>7. /\ Tail(Contents) \in Seq(Nat)
      /\ Len(Tail(Contents)) = count - 1
      /\ \A k \in 1..count - 1 : Tail(Contents)[k] = Contents[k + 1]
  BY <1>1, <1>5, HeadTailProperties
<1>8. ASSUME NEW k \in 1..count - 1
      PROVE  Contents'[k] = Tail(Contents)[k]
  <2>1. Contents'[k] = buffer[(use_ptr' + (k - 1)) % MAX]
    BY <1>3, <1>4
  <2>2. Tail(Contents)[k] = buffer[(use_ptr + k) % MAX]
    <3>1. k + 1 \in 1..count /\ (k + 1) - 1 = k
      BY <1>4
    <3> QED
      BY <3>1, <1>1, <1>7
  <2>3. (use_ptr' + (k - 1)) % MAX = (use_ptr + k) % MAX
    <3>1. k \in 0..MAX /\ k - 1 \in 0..MAX /\ 1 \in 0..MAX
      BY <1>4
    <3>2. /\ use_ptr' = IF use_ptr + 1 < MAX THEN use_ptr + 1 ELSE use_ptr + 1 - MAX
          /\ use_ptr' \in Slots
      BY <3>1, <1>4, Wrap
    <3>3. (use_ptr' + (k - 1)) % MAX = IF use_ptr' + (k - 1) < MAX THEN use_ptr' + (k - 1)
                                       ELSE use_ptr' + (k - 1) - MAX
      BY <3>1, <3>2, Wrap
    <3>4. (use_ptr + k) % MAX = IF use_ptr + k < MAX THEN use_ptr + k ELSE use_ptr + k - MAX
      BY <3>1, <1>4, Wrap
    <3>5. CASE use_ptr + 1 < MAX
      BY <3>1, <3>2, <3>3, <3>4, <3>5, <1>4 DEF Slots
    <3>6. CASE ~(use_ptr + 1 < MAX)
      BY <3>1, <3>2, <3>3, <3>4, <3>6, <1>4 DEF Slots
    <3> QED
      BY <3>5, <3>6
  <2> QED
    BY <2>1, <2>2, <2>3
<1>9. Contents' = Tail(Contents)
  BY <1>3, <1>4, <1>7, <1>8, SeqEqual
<1> QED
  BY <1>5, <1>6, <1>9

\* The initial state is the empty queue; Put is Send, Get is Receive, and
\* every other step leaves queue, sent and received alone.
THEOREM Refinement == Spec => ImplementsFifo
<1>1. Init => Abstract!Init
  <2> SUFFICES ASSUME Init PROVE Abstract!Init
    OBVIOUS
  <2>1. TypeOK
    BY InitIInv DEF IInv
  <2>2. Len(Contents) = 0 /\ Contents \in Seq(Nat)
    BY <2>1, ContentsIsSeq DEF Init, ContentsShape
  <2>3. Contents = <<>>
    BY <2>2
  <2> QED
    BY <2>3 DEF Init, Abstract!Init, Sent, LoopAt
<1>2. IInv /\ [Next]_vars => [Abstract!Next]_Abstract!vars
  <2> SUFFICES ASSUME IInv, [Next]_vars PROVE [Abstract!Next]_Abstract!vars
    OBVIOUS
  <2> USE BufferAssumption
  <2>1. CASE Put
    <3>1. Contents' = Append(Contents, pi)
      BY <2>1, PutAppends
    <3>2. Sent = pi /\ Sent' = Sent + 1 /\ pi < loops /\ consumed' = consumed
      BY <2>1 DEF Put, Sent, IInv, Guards, TypeOK
    <3>3. Len(Contents) < MAX
      BY <2>1, ContentsIsSeq DEF ContentsShape, Put, IInv, Guards
    <3>4. Abstract!Send
      BY <3>1, <3>2, <3>3 DEF Abstract!Send
    <3> QED
      BY <3>4 DEF Abstract!Next
  <2>2. CASE Get
    <3>1. /\ Contents # <<>>
          /\ consumed' = Append(consumed, Head(Contents))
          /\ Contents' = Tail(Contents)
      BY <2>2, GetTakesHead DEF Get
    <3>2. Sent' = Sent
      BY <2>2 DEF Get, Sent
    <3>3. Abstract!Receive
      BY <3>1, <3>2 DEF Abstract!Receive
    <3> QED
      BY <3>3 DEF Abstract!Next
  <2>3. ASSUME UNCHANGED <<ring, consumed>>, Sent' = Sent
        PROVE  UNCHANGED Abstract!vars
    BY <2>3 DEF ring, Contents, Abstract!vars
  <2> USE DEF Sent, LoopAt, IInv, TypeOK
  <2>4. CASE ProducerLocks
    BY <2>3, <2>4 DEF ProducerLocks
  <2>5. CASE ProducerWaits
    BY <2>3, <2>5 DEF ProducerWaits
  <2>6. CASE ProducerProceeds
    BY <2>3, <2>6 DEF ProducerProceeds
  <2>7. CASE SignalFill
    BY <2>3, <2>7 DEF SignalFill
  <2>8. CASE ProducerUnlocks
    BY <2>3, <2>8 DEF ProducerUnlocks
  <2>9. CASE ConsumerLocks \/ ConsumerWaits \/ ConsumerProceeds
    BY <2>3, <2>9 DEF ConsumerLocks, ConsumerWaits, ConsumerProceeds
  <2>10. CASE SignalEmpty
    BY <2>3, <2>10 DEF SignalEmpty
  <2>11. CASE ConsumerUnlocks
    BY <2>3, <2>11 DEF ConsumerUnlocks
  <2>12. CASE SpuriousWakeup
    BY <2>3, <2>12 DEF SpuriousWakeup
  <2>13. CASE UNCHANGED vars
    BY <2>3, <2>13 DEF vars, ring
  <2> QED
    BY <2>1, <2>2, <2>4, <2>5, <2>6, <2>7, <2>8, <2>9, <2>10, <2>11, <2>12, <2>13
       DEF Next, Producer, Consumer, Joined
<1> QED
  BY <1>1, <1>2, Invariance, PTL DEF Spec, ImplementsFifo, Abstract!Spec

=============================================================================
