---------------------------- MODULE BoundedBuffer ----------------------------
(***************************************************************************)
(* 05-threading/examples/src/producer_consumer2.c: one producer and one      *)
(* consumer share a ring of MAX slots under a mutex; each waits on a         *)
(* condition variable for the other.  A thread that waits has released the   *)
(* mutex; signalled (or woken for no reason, as POSIX allows) it must get    *)
(* the mutex back before it tests its condition again.                       *)
(***************************************************************************)
EXTENDS Integers, Sequences

CONSTANTS
  MAX,        \* slots of the ring (10 in the code)
  loops,      \* items to pass (20 in the code)
  NoItem      \* content of a slot never written (a global int, so 0 in C)

ASSUME BufferAssumption == MAX \in Nat \ {0} /\ loops \in Nat /\ NoItem \in Nat

Free == "free"
Slots == 0..MAX - 1

VARIABLES
  buffer, fill_ptr, use_ptr, count,
  mutex,        \* Free, "producer" or "consumer"
  prod,         \* where the producer is
  cons,         \* where the consumer is
  pi,           \* i of the producer
  ci,           \* i of the consumer
  consumed      \* the values printed by the consumer

ring == <<buffer, fill_ptr, use_ptr, count>>
vars == <<buffer, fill_ptr, use_ptr, count, mutex, prod, cons, pi, ci, consumed>>

ProdLocs == {"lock", "test", "waiting", "relock", "put", "signal", "unlock", "done"}
ConsLocs == {"lock", "test", "waiting", "relock", "get", "signal", "unlock", "done"}

\* for(int i=0; i<n; ++i)
LoopAt(i) == IF i < loops THEN "lock" ELSE "done"

Init ==
  /\ buffer = [s \in Slots |-> NoItem]
  /\ fill_ptr = 0 /\ use_ptr = 0 /\ count = 0
  /\ mutex = Free
  /\ prod = LoopAt(0) /\ cons = LoopAt(0)
  /\ pi = 0 /\ ci = 0
  /\ consumed = <<>>

-----------------------------------------------------------------------------
(* The producer *)

\* pthread_mutex_lock, and the lock pthread_cond_wait takes before it returns.
ProducerLocks ==
  /\ prod \in {"lock", "relock"} /\ mutex = Free
  /\ mutex' = "producer"
  /\ prod' = "test"
  /\ UNCHANGED <<ring, cons, pi, ci, consumed>>

ProducerWaits ==
  /\ prod = "test" /\ count = MAX
  /\ mutex' = Free
  /\ prod' = "waiting"
  /\ UNCHANGED <<ring, cons, pi, ci, consumed>>

ProducerProceeds ==
  /\ prod = "test" /\ count # MAX
  /\ prod' = "put"
  /\ UNCHANGED <<ring, mutex, cons, pi, ci, consumed>>

\* Variant: fill_ptr is not wrapped before the last slot.
PutSkipsSlot ==
  /\ prod = "put"
  /\ buffer' = [buffer EXCEPT ![fill_ptr] = pi]
  /\ fill_ptr' = (fill_ptr + 2) % MAX
  /\ count' = count + 1
  /\ prod' = "signal"
  /\ UNCHANGED <<use_ptr, mutex, cons, pi, ci, consumed>>

\* put(i)
Put ==
  /\ prod = "put"
  /\ buffer' = [buffer EXCEPT ![fill_ptr] = pi]
  /\ fill_ptr' = (fill_ptr + 1) % MAX
  /\ count' = count + 1
  /\ prod' = "signal"
  /\ UNCHANGED <<use_ptr, mutex, cons, pi, ci, consumed>>

\* Variant: the signal is sent only when the ring becomes full.
SignalFillWhenFull ==
  /\ prod = "signal"
  /\ cons' = IF cons = "waiting" /\ count = MAX THEN "relock" ELSE cons
  /\ prod' = "unlock"
  /\ UNCHANGED <<ring, mutex, pi, ci, consumed>>

\* pthread_cond_signal(&fill): lost unless the consumer waits.
SignalFill ==
  /\ prod = "signal"
  /\ cons' = IF cons = "waiting" THEN "relock" ELSE cons
  /\ prod' = "unlock"
  /\ UNCHANGED <<ring, mutex, pi, ci, consumed>>

ProducerUnlocks ==
  /\ prod = "unlock"
  /\ mutex' = Free
  /\ pi' = pi + 1
  /\ prod' = LoopAt(pi')
  /\ UNCHANGED <<ring, cons, ci, consumed>>

-----------------------------------------------------------------------------
(* The consumer *)

\* Variant: the consumer does not look again after pthread_cond_wait.
ConsumerLocksOnce ==
  /\ cons \in {"lock", "relock"} /\ mutex = Free
  /\ mutex' = "consumer"
  /\ cons' = IF cons = "lock" THEN "test" ELSE "get"
  /\ UNCHANGED <<ring, prod, pi, ci, consumed>>

ConsumerLocks ==
  /\ cons \in {"lock", "relock"} /\ mutex = Free
  /\ mutex' = "consumer"
  /\ cons' = "test"
  /\ UNCHANGED <<ring, prod, pi, ci, consumed>>

ConsumerWaits ==
  /\ cons = "test" /\ count = 0
  /\ mutex' = Free
  /\ cons' = "waiting"
  /\ UNCHANGED <<ring, prod, pi, ci, consumed>>

ConsumerProceeds ==
  /\ cons = "test" /\ count # 0
  /\ cons' = "get"
  /\ UNCHANGED <<ring, mutex, prod, pi, ci, consumed>>

\* get() and the printf of its result
Get ==
  /\ cons = "get"
  /\ consumed' = Append(consumed, buffer[use_ptr])
  /\ use_ptr' = (use_ptr + 1) % MAX
  /\ count' = count - 1
  /\ cons' = "signal"
  /\ UNCHANGED <<buffer, fill_ptr, mutex, prod, pi, ci>>

\* pthread_cond_signal(&empty)
SignalEmpty ==
  /\ cons = "signal"
  /\ prod' = IF prod = "waiting" THEN "relock" ELSE prod
  /\ cons' = "unlock"
  /\ UNCHANGED <<ring, mutex, pi, ci, consumed>>

ConsumerUnlocks ==
  /\ cons = "unlock"
  /\ mutex' = Free
  /\ ci' = ci + 1
  /\ cons' = LoopAt(ci')
  /\ UNCHANGED <<ring, prod, pi, consumed>>

-----------------------------------------------------------------------------
\* pthread_cond_wait may return although nobody signalled.
SpuriousWakeup ==
  \/ prod = "waiting" /\ prod' = "relock" /\ UNCHANGED <<ring, mutex, cons, pi, ci, consumed>>
  \/ cons = "waiting" /\ cons' = "relock" /\ UNCHANGED <<ring, mutex, prod, pi, ci, consumed>>

\* main has joined both threads.
Joined == prod = "done" /\ cons = "done" /\ UNCHANGED vars

Producer ==
  \/ ProducerLocks \/ ProducerWaits \/ ProducerProceeds \/ Put \/ SignalFill
  \/ ProducerUnlocks

Consumer ==
  \/ ConsumerLocks \/ ConsumerWaits \/ ConsumerProceeds \/ Get \/ SignalEmpty
  \/ ConsumerUnlocks

Next == Producer \/ Consumer \/ SpuriousWakeup \/ Joined

Spec == Init /\ [][Next]_vars

\* Runnable threads run.  The lock is strongly fair: a thread that keeps
\* finding the mutex free gets it although the other one may retake it.
\* Nothing is assumed about spurious wake-ups.
Fairness ==
  /\ WF_vars(Producer) /\ WF_vars(Consumer)
  /\ SF_vars(ProducerLocks) /\ SF_vars(ConsumerLocks)

FairSpec == Spec /\ Fairness

-----------------------------------------------------------------------------
(* Properties *)

\* Each variable has its type: count stays in 0..MAX and both pointers stay in
\* the ring.
TypeOK ==
  /\ buffer \in [Slots -> Nat]
  /\ fill_ptr \in Slots /\ use_ptr \in Slots
  /\ count \in 0..MAX
  /\ mutex \in {Free, "producer", "consumer"}
  /\ prod \in ProdLocs /\ cons \in ConsLocs
  /\ pi \in 0..loops /\ ci \in 0..loops
  /\ consumed \in Seq(Nat)

\* The counter and the two pointers, three records of the same thing that put
\* and get update separately, agree.
RingConsistent == fill_ptr = (use_ptr + count) % MAX

\* No wake-up is lost.  A consumer that sleeps although there is an item is
\* about to be signalled, and so is a producer that sleeps although there is
\* room.
NoLostWakeup ==
  /\ cons = "waiting" /\ count > 0 => prod = "signal"
  /\ prod = "waiting" /\ count < MAX => cons = "signal"

\* The items put so far; ++i comes after the unlock.
Sent == IF prod \in {"signal", "unlock"} THEN pi + 1 ELSE pi

\* The live part of the ring, oldest item first.
Contents == [k \in 1..count |-> buffer[(use_ptr + k - 1) % MAX]]

Abstract == INSTANCE Fifo WITH Capacity <- MAX, Count <- loops,
              queue <- Contents, sent <- Sent, received <- consumed

\* The ring, its pointers and the condition variables implement the FIFO.
ImplementsFifo == Abstract!Spec

\* The program ends, with every item consumed in order.
AllConsumed ==
  <>(/\ prod = "done" /\ cons = "done"
     /\ consumed = [k \in 1..loops |-> k - 1])

=============================================================================
