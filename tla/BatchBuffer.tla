----------------------------- MODULE BatchBuffer -----------------------------
(***************************************************************************)
(* 05-threading/examples/src/producer_consumer1.c: the producer fills a      *)
(* buffer of BUFCAP items one lock acquisition at a time and waits until it   *)
(* is empty; the detached consumer waits until it is full and removes all.    *)
(* The producer counts the times its wait returned and leaves after FILLS;    *)
(* main joins the producer only, so its return ends the process.              *)
(***************************************************************************)
EXTENDS Integers

CONSTANTS
  BUFCAP,      \* 20 in the code
  FILLS,       \* 3 in the code
  MaxSpurious  \* bound: wake-ups without a signal

\* What the model assumes of its constants.
BatchAssumption ==
  /\ BUFCAP \in Nat \ {0} /\ FILLS \in Nat \ {0} /\ MaxSpurious \in Nat

VARIABLES
  n,          \* items in buf; also the index insert_one writes
  mutex,      \* "free", "producer" or "consumer"
  prod, cons, \* where the threads are
  i, done,    \* the producer's locals
  drains,     \* times the consumer has emptied the buffer, up to FILLS
  spurious    \* wake-ups without a signal so far

vars == <<n, mutex, prod, cons, i, done, drains, spurious>>

Init ==
  /\ n = 0 /\ mutex = "free"
  /\ prod = "lock" /\ cons = "lock"
  /\ i = 0 /\ done = FALSE
  /\ drains = 0 /\ spurious = 0

Running == prod # "returned"

\* pthread_mutex_lock
ProducerLocks ==
  /\ prod = "lock" /\ mutex = "free"
  /\ mutex' = "producer" /\ prod' = "test"
  /\ UNCHANGED <<n, cons, i, done, drains, spurious>>

\* Variant: the last wake-up is counted one too early.
ProducerRelocksEarly ==
  /\ prod = "relock" /\ mutex = "free"
  /\ mutex' = "producer" /\ prod' = "test"
  /\ i' = i + 1
  /\ done' = (done \/ i' = FILLS - 1)
  /\ UNCHANGED <<n, cons, drains, spurious>>

\* pthread_cond_wait(&empty_cond) returns: if(++i == FILLS) done = 1
ProducerRelocks ==
  /\ prod = "relock" /\ mutex = "free"
  /\ mutex' = "producer" /\ prod' = "test"
  /\ i' = i + 1
  /\ done' = (done \/ i' = FILLS)
  /\ UNCHANGED <<n, cons, drains, spurious>>

\* while(n == BUFCAP)
ProducerWaits ==
  /\ prod = "test" /\ n = BUFCAP
  /\ mutex' = "free" /\ prod' = "waiting"
  /\ UNCHANGED <<n, cons, i, done, drains, spurious>>

\* insert_one, and the signal of full_cond when that filled the buffer
Insert ==
  /\ prod = "test" /\ n # BUFCAP /\ ~done
  /\ n' = n + 1
  /\ cons' = IF n' = BUFCAP /\ cons = "waiting" THEN "relock" ELSE cons
  /\ prod' = "unlock"
  /\ UNCHANGED <<mutex, i, done, drains, spurious>>

\* if(!done) is skipped
ProducerStops ==
  /\ prod = "test" /\ n # BUFCAP /\ done
  /\ prod' = "unlock"
  /\ UNCHANGED <<n, mutex, cons, i, done, drains, spurious>>

\* unlock; if(done) return NULL
ProducerUnlocks ==
  /\ prod = "unlock"
  /\ mutex' = "free"
  /\ prod' = IF done THEN "returned" ELSE "lock"
  /\ UNCHANGED <<n, cons, i, done, drains, spurious>>

ConsumerLocks ==
  /\ Running /\ cons \in {"lock", "relock"} /\ mutex = "free"
  /\ mutex' = "consumer" /\ cons' = "test"
  /\ UNCHANGED <<n, prod, i, done, drains, spurious>>

\* while(n < BUFCAP)
ConsumerWaits ==
  /\ Running /\ cons = "test" /\ n < BUFCAP
  /\ mutex' = "free" /\ cons' = "waiting"
  /\ UNCHANGED <<n, prod, i, done, drains, spurious>>

\* One iteration of remove_all
RemoveOne ==
  /\ Running /\ cons \in {"test", "remove"} /\ (cons = "test" => n = BUFCAP) /\ n > 0
  /\ n' = n - 1
  /\ cons' = "remove"
  /\ UNCHANGED <<mutex, prod, i, done, drains, spurious>>

\* Variant: the signal is forgotten.
ConsumerDoneSilently ==
  /\ Running /\ cons = "remove" /\ n = 0
  /\ drains' = IF drains < FILLS THEN drains + 1 ELSE drains
  /\ mutex' = "free" /\ cons' = "lock"
  /\ UNCHANGED <<n, prod, i, done, spurious>>

\* remove_all has returned: signal empty_cond, unlock
ConsumerDone ==
  /\ Running /\ cons = "remove" /\ n = 0
  /\ drains' = IF drains < FILLS THEN drains + 1 ELSE drains
  /\ prod' = IF prod = "waiting" THEN "relock" ELSE prod
  /\ mutex' = "free" /\ cons' = "lock"
  /\ UNCHANGED <<n, i, done, spurious>>

SpuriousWakeup ==
  /\ Running /\ spurious < MaxSpurious
  /\ spurious' = spurious + 1
  /\ \/ prod = "waiting" /\ prod' = "relock" /\ UNCHANGED cons
     \/ cons = "waiting" /\ cons' = "relock" /\ UNCHANGED prod
  /\ UNCHANGED <<n, mutex, i, done, drains>>

\* main has joined the producer and returned.
Exited == ~Running /\ UNCHANGED vars

Producer == ProducerLocks \/ ProducerRelocks \/ ProducerWaits \/ Insert
            \/ ProducerStops \/ ProducerUnlocks
Consumer == ConsumerLocks \/ ConsumerWaits \/ RemoveOne \/ ConsumerDone

Next == Producer \/ Consumer \/ SpuriousWakeup \/ Exited

Spec == Init /\ [][Next]_vars

\* Both threads are scheduled, and a free mutex is not withheld from one of
\* them for ever.
Fairness == /\ WF_vars(Producer) /\ WF_vars(Consumer)
            /\ SF_vars(ProducerLocks \/ ProducerRelocks) /\ SF_vars(ConsumerLocks)

FairSpec == Spec /\ Fairness

-----------------------------------------------------------------------------
(* Properties *)

\* Each variable has its type: insert_one never writes outside buf.
TypeOK ==
  /\ n \in 0..BUFCAP
  /\ mutex \in {"free", "producer", "consumer"}
  /\ prod \in {"lock", "test", "waiting", "relock", "unlock", "returned"}
  /\ cons \in {"lock", "test", "waiting", "relock", "remove"}
  /\ i \in Nat /\ done \in BOOLEAN /\ drains \in Nat
  /\ spurious \in 0..MaxSpurious

\* The producer leaves an empty buffer behind, although the process does not
\* wait for the consumer: its FILLS-th wake-up may be spurious, but the while
\* loop still holds it until the consumer has drained.
NothingLeftBehind == prod = "returned" => n = 0

\* Every return of the producer's wait is a drain or a spurious wake-up, so
\* the program does not end before FILLS of them.  (It may drain far more
\* often: a drain the producer did not sleep through is not counted.)
FillsBeforeExit == prod = "returned" => drains + spurious >= FILLS

\* Neither thread sleeps once its condition holds and nobody is going to tell
\* it: a full buffer wakes the consumer, an emptied one the producer.
NoLostWakeup ==
  /\ cons = "waiting" => n < BUFCAP
  /\ prod = "waiting" /\ n = 0 => cons = "remove"

\* Every sleeper is woken: a full buffer is drained and an empty one filled,
\* unless the process has ended.
WaitsEnd ==
  /\ prod = "waiting" ~> prod # "waiting"
  /\ cons = "waiting" ~> (cons # "waiting" \/ ~Running)

=============================================================================
