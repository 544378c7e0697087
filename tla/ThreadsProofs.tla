---------------------------- MODULE ThreadsProofs ----------------------------
(***************************************************************************)
(* Proofs about the programs of MCThreads, for every value of their            *)
(* constants.  Each program has an inductive invariant of its own; a step of   *)
(* the run is a step of one program and a stutter of the others, so the        *)
(* conjunction of the invariants is an invariant of the run.                   *)
(***************************************************************************)
EXTENDS MCThreads, Induction, FiniteSetTheorems, FunctionTheorems, SequenceTheorems, TLAPS

-----------------------------------------------------------------------------
(* producer_consumer1.c *)

\* The mutex belongs to the thread that is between lock and unlock.
BatchLocked ==
  /\ bmutex = "producer" <=> prod \in {"test", "unlock"}
  /\ bmutex = "consumer" <=> cons \in {"test", "remove"}

\* While the producer is about its wait the buffer is full, empty or being
\* emptied; once it is done it is so for good, since nothing is inserted any more.
WholeFills ==
  /\ prod \in {"waiting", "relock"} \/ (done /\ prod = "test") =>
       n \in {0, BUFCAP} \/ cons = "remove"
  /\ done => prod # "lock"
  /\ done /\ prod \in {"unlock", "returned"} => n = 0

\* A wake-up the producer has counted, or is about to count, was a drain or
\* spurious.
WakeupsCounted ==
  /\ drains <= FILLS
  /\ drains = FILLS \/ bi + (IF prod = "relock" THEN 1 ELSE 0) <= drains + spurious
  /\ done => bi >= FILLS
  /\ prod = "returned" => done

\* The inductive invariant of producer_consumer1.c.
BatchInv ==
  Batch!TypeOK /\ BatchLocked /\ WholeFills /\ WakeupsCounted /\ Batch!NoLostWakeup

\* The variables keep their types: the producer inserts below BUFCAP only.
LEMMA BatchTypeStep ==
  ASSUME Batch!BatchAssumption, BatchInv, [Batch!Next]_(Batch!vars)
  PROVE  Batch!TypeOK'
<1> USE DEF BatchInv, Batch!TypeOK, Batch!BatchAssumption, Batch!Running, BatchLocked, WholeFills,
        Batch!NoLostWakeup
<1>1. CASE Batch!ProducerLocks
  BY <1>1 DEF Batch!ProducerLocks
<1>2. CASE Batch!ProducerRelocks
  BY <1>2 DEF Batch!ProducerRelocks
<1>3. CASE Batch!ProducerWaits
  BY <1>3 DEF Batch!ProducerWaits
<1>4. CASE Batch!Insert
  BY <1>4 DEF Batch!Insert
<1>5. CASE Batch!ProducerStops
  BY <1>5 DEF Batch!ProducerStops
<1>6. CASE Batch!ProducerUnlocks
  BY <1>6 DEF Batch!ProducerUnlocks
<1>7. CASE Batch!ConsumerLocks
  BY <1>7 DEF Batch!ConsumerLocks
<1>8. CASE Batch!ConsumerWaits
  BY <1>8 DEF Batch!ConsumerWaits
<1>9. CASE Batch!RemoveOne
  BY <1>9 DEF Batch!RemoveOne
<1>10. CASE Batch!ConsumerDone
  BY <1>10 DEF Batch!ConsumerDone
<1>11. CASE Batch!SpuriousWakeup
  BY <1>11 DEF Batch!SpuriousWakeup
<1>12. CASE Batch!Exited
  BY <1>12 DEF Batch!Exited, Batch!vars
<1>13. CASE UNCHANGED Batch!vars
  BY <1>13 DEF Batch!vars
<1> QED
  BY <1>1, <1>2, <1>3, <1>4, <1>5, <1>6, <1>7, <1>8, <1>9, <1>10, <1>11, <1>12, <1>13
     DEF Batch!Next, Batch!Producer, Batch!Consumer

\* Lock, wait and unlock pass the mutex on.
LEMMA BatchLockedStep ==
  ASSUME Batch!BatchAssumption, BatchInv, [Batch!Next]_(Batch!vars)
  PROVE  BatchLocked'
<1> USE DEF BatchInv, Batch!TypeOK, Batch!BatchAssumption, Batch!Running, BatchLocked, WholeFills,
        Batch!NoLostWakeup
<1>1. CASE Batch!ProducerLocks
  BY <1>1 DEF Batch!ProducerLocks
<1>2. CASE Batch!ProducerRelocks
  BY <1>2 DEF Batch!ProducerRelocks
<1>3. CASE Batch!ProducerWaits
  BY <1>3 DEF Batch!ProducerWaits
<1>4. CASE Batch!Insert
  BY <1>4 DEF Batch!Insert
<1>5. CASE Batch!ProducerStops
  BY <1>5 DEF Batch!ProducerStops
<1>6. CASE Batch!ProducerUnlocks
  BY <1>6 DEF Batch!ProducerUnlocks
<1>7. CASE Batch!ConsumerLocks
  BY <1>7 DEF Batch!ConsumerLocks
<1>8. CASE Batch!ConsumerWaits
  BY <1>8 DEF Batch!ConsumerWaits
<1>9. CASE Batch!RemoveOne
  BY <1>9 DEF Batch!RemoveOne
<1>10. CASE Batch!ConsumerDone
  BY <1>10 DEF Batch!ConsumerDone
<1>11. CASE Batch!SpuriousWakeup
  BY <1>11 DEF Batch!SpuriousWakeup
<1>12. CASE Batch!Exited
  BY <1>12 DEF Batch!Exited, Batch!vars
<1>13. CASE UNCHANGED Batch!vars
  BY <1>13 DEF Batch!vars
<1> QED
  BY <1>1, <1>2, <1>3, <1>4, <1>5, <1>6, <1>7, <1>8, <1>9, <1>10, <1>11, <1>12, <1>13
     DEF Batch!Next, Batch!Producer, Batch!Consumer

\* The producer sleeps on a full buffer, and is woken from an empty or a full one.
LEMMA WholeFillsStep ==
  ASSUME Batch!BatchAssumption, BatchInv, [Batch!Next]_(Batch!vars)
  PROVE  WholeFills'
<1> USE DEF BatchInv, Batch!TypeOK, Batch!BatchAssumption, Batch!Running, BatchLocked, WholeFills,
        Batch!NoLostWakeup
<1>1. CASE Batch!ProducerLocks
  BY <1>1 DEF Batch!ProducerLocks
<1>2. CASE Batch!ProducerRelocks
  BY <1>2 DEF Batch!ProducerRelocks
<1>3. CASE Batch!ProducerWaits
  BY <1>3 DEF Batch!ProducerWaits
<1>4. CASE Batch!Insert
  BY <1>4 DEF Batch!Insert
<1>5. CASE Batch!ProducerStops
  BY <1>5 DEF Batch!ProducerStops
<1>6. CASE Batch!ProducerUnlocks
  BY <1>6 DEF Batch!ProducerUnlocks
<1>7. CASE Batch!ConsumerLocks
  BY <1>7 DEF Batch!ConsumerLocks
<1>8. CASE Batch!ConsumerWaits
  BY <1>8 DEF Batch!ConsumerWaits
<1>9. CASE Batch!RemoveOne
  BY <1>9 DEF Batch!RemoveOne
<1>10. CASE Batch!ConsumerDone
  BY <1>10 DEF Batch!ConsumerDone
<1>11. CASE Batch!SpuriousWakeup
  BY <1>11 DEF Batch!SpuriousWakeup
<1>12. CASE Batch!Exited
  BY <1>12 DEF Batch!Exited, Batch!vars
<1>13. CASE UNCHANGED Batch!vars
  BY <1>13 DEF Batch!vars
<1> QED
  BY <1>1, <1>2, <1>3, <1>4, <1>5, <1>6, <1>7, <1>8, <1>9, <1>10, <1>11, <1>12, <1>13
     DEF Batch!Next, Batch!Producer, Batch!Consumer

\* Every wake-up is a drain or spurious.
LEMMA WakeupsCountedStep ==
  ASSUME Batch!BatchAssumption, BatchInv, [Batch!Next]_(Batch!vars)
  PROVE  WakeupsCounted'
<1> USE DEF BatchInv, Batch!TypeOK, Batch!BatchAssumption, Batch!Running, BatchLocked, WholeFills,
        Batch!NoLostWakeup, WakeupsCounted
<1>1. CASE Batch!ProducerLocks
  BY <1>1 DEF Batch!ProducerLocks
<1>2. CASE Batch!ProducerRelocks
  BY <1>2 DEF Batch!ProducerRelocks
<1>3. CASE Batch!ProducerWaits
  BY <1>3 DEF Batch!ProducerWaits
<1>4. CASE Batch!Insert
  BY <1>4 DEF Batch!Insert
<1>5. CASE Batch!ProducerStops
  BY <1>5 DEF Batch!ProducerStops
<1>6. CASE Batch!ProducerUnlocks
  BY <1>6 DEF Batch!ProducerUnlocks
<1>7. CASE Batch!ConsumerLocks
  BY <1>7 DEF Batch!ConsumerLocks
<1>8. CASE Batch!ConsumerWaits
  BY <1>8 DEF Batch!ConsumerWaits
<1>9. CASE Batch!RemoveOne
  BY <1>9 DEF Batch!RemoveOne
<1>10. CASE Batch!ConsumerDone
  BY <1>10 DEF Batch!ConsumerDone
<1>11. CASE Batch!SpuriousWakeup
  BY <1>11 DEF Batch!SpuriousWakeup
<1>12. CASE Batch!Exited
  BY <1>12 DEF Batch!Exited, Batch!vars
<1>13. CASE UNCHANGED Batch!vars
  BY <1>13 DEF Batch!vars
<1> QED
  BY <1>1, <1>2, <1>3, <1>4, <1>5, <1>6, <1>7, <1>8, <1>9, <1>10, <1>11, <1>12, <1>13
     DEF Batch!Next, Batch!Producer, Batch!Consumer

\* Whoever fills or empties the buffer tells the other thread.
LEMMA BatchWakeupStep ==
  ASSUME Batch!BatchAssumption, BatchInv, [Batch!Next]_(Batch!vars)
  PROVE  Batch!NoLostWakeup'
<1> USE DEF BatchInv, Batch!TypeOK, Batch!BatchAssumption, Batch!Running, BatchLocked, WholeFills,
        Batch!NoLostWakeup
<1>1. CASE Batch!ProducerLocks
  BY <1>1 DEF Batch!ProducerLocks
<1>2. CASE Batch!ProducerRelocks
  BY <1>2 DEF Batch!ProducerRelocks
<1>3. CASE Batch!ProducerWaits
  BY <1>3 DEF Batch!ProducerWaits
<1>4. CASE Batch!Insert
  BY <1>4 DEF Batch!Insert
<1>5. CASE Batch!ProducerStops
  BY <1>5 DEF Batch!ProducerStops
<1>6. CASE Batch!ProducerUnlocks
  BY <1>6 DEF Batch!ProducerUnlocks
<1>7. CASE Batch!ConsumerLocks
  BY <1>7 DEF Batch!ConsumerLocks
<1>8. CASE Batch!ConsumerWaits
  BY <1>8 DEF Batch!ConsumerWaits
<1>9. CASE Batch!RemoveOne
  BY <1>9 DEF Batch!RemoveOne
<1>10. CASE Batch!ConsumerDone
  BY <1>10 DEF Batch!ConsumerDone
<1>11. CASE Batch!SpuriousWakeup
  BY <1>11 DEF Batch!SpuriousWakeup
<1>12. CASE Batch!Exited
  BY <1>12 DEF Batch!Exited, Batch!vars
<1>13. CASE UNCHANGED Batch!vars
  BY <1>13 DEF Batch!vars
<1> QED
  BY <1>1, <1>2, <1>3, <1>4, <1>5, <1>6, <1>7, <1>8, <1>9, <1>10, <1>11, <1>12, <1>13
     DEF Batch!Next, Batch!Producer, Batch!Consumer

\* The buffer starts empty, and nobody holds the mutex.
LEMMA BatchInitially == ASSUME Batch!BatchAssumption, Batch!Init PROVE BatchInv
<1>1. done = FALSE
  BY DEF Batch!Init
<1>2. Batch!TypeOK
  <2>1. done \in BOOLEAN
    BY <1>1
  <2>2. /\ n \in 0..BUFCAP /\ bi \in Nat /\ drains \in Nat /\ spurious \in 0..MaxSpurious
        /\ bmutex = "free" /\ prod = "lock" /\ cons = "lock"
    BY DEF Batch!Init, Batch!BatchAssumption
  <2> QED
    BY <2>1, <2>2 DEF Batch!TypeOK
<1> QED
  BY <1>1, <1>2 DEF BatchInv, Batch!Init, Batch!BatchAssumption, BatchLocked, WholeFills, WakeupsCounted,
     Batch!NoLostWakeup

\* Every step of producer_consumer1.c preserves its invariant.
LEMMA BatchStep ==
  ASSUME Batch!BatchAssumption, BatchInv, [Batch!Next]_(Batch!vars)
  PROVE  BatchInv'
  BY BatchTypeStep, BatchLockedStep, WholeFillsStep, WakeupsCountedStep, BatchWakeupStep
     DEF BatchInv

\* What the invariant says of the end of the program.
LEMMA BatchPromises ==
  ASSUME Batch!BatchAssumption, BatchInv
  PROVE  Batch!NothingLeftBehind /\ Batch!FillsBeforeExit
  BY DEF BatchInv, Batch!TypeOK, Batch!BatchAssumption, WholeFills, WakeupsCounted,
     Batch!NothingLeftBehind, Batch!FillsBeforeExit

-----------------------------------------------------------------------------
(* examples/src/condition.c *)

\* The mutex belongs to the thread between lock and unlock, and for ever to
\* thread 2 once that has returned.
HandoffLocked ==
  /\ hmutex = 1 <=> hpc[1] \in {"test", "unlock"}
  /\ hmutex = 2 <=> hpc[2] \in {"test", "unlock", "returned"}

\* Only thread 1 takes the count to its end, and it leaves the loop when it does.
LastByFirst ==
  /\ hcount = COUNT_DONE => hpc[1] \in {"unlock", "farewell", "returned"}
  /\ hpc[1] \in {"farewell", "returned"} => hcount = COUNT_DONE
  /\ hpc[2] = "unlock" => hcount < COUNT_DONE
  /\ hpc[2] = "returned" => hcount = COUNT_DONE
  /\ hpc[2] # "farewell"

\* The inductive invariant of examples/src/condition.c.
HandoffInv ==
  Handoff!TypeOK /\ HandoffLocked /\ LastByFirst /\ Handoff!NoLostWakeup /\ Handoff!TurnsKept

\* Where a thread of the pair can be.
HandoffPlaces == {"lock", "test", "waiting", "relock", "unlock", "farewell", "returned"}

\* What a signal does to the thread it is for, and what it leaves alone.
LEMMA SignalledIs ==
  ASSUME NEW q \in [{1, 2} -> HandoffPlaces], NEW t \in {1, 2}
  PROVE  /\ Handoff!Signalled(q, t) \in [{1, 2} -> HandoffPlaces]
         /\ \A u \in {1, 2} : Handoff!Signalled(q, t)[u]
              = IF u = t /\ q[u] = "waiting" THEN "relock" ELSE q[u]
  BY DEF Handoff!Signalled, HandoffPlaces

\* Where the threads are after a turn or the farewell.
LEMMA HandoffMoves ==
  ASSUME Handoff!TypeOK
  PROVE  /\ Handoff!Count1 => /\ hpc' \in [{1, 2} -> HandoffPlaces] /\ hpc'[1] = "unlock"
                              /\ hpc'[2] = IF Handoff!Halt1' /\ hpc[2] = "waiting" THEN "relock" ELSE hpc[2]
         /\ Handoff!Count2 => /\ hpc' \in [{1, 2} -> HandoffPlaces] /\ hpc'[2] = "unlock"
                              /\ hpc'[1] = IF (hcount' < COUNT_HALT1 \/ hcount' > COUNT_HALT2) /\ hpc[1] = "waiting"
                                            THEN "relock" ELSE hpc[1]
         /\ Handoff!Farewell => /\ hpc' \in [{1, 2} -> HandoffPlaces] /\ hpc'[1] = "returned"
                                /\ hpc'[2] = IF hpc[2] = "waiting" THEN "relock" ELSE hpc[2]
<1>1. hpc \in [{1, 2} -> HandoffPlaces]
  BY DEF Handoff!TypeOK, Handoff!Pair, HandoffPlaces
<1>2. \A t \in {1, 2} : /\ Handoff!Signalled(hpc, t) \in [{1, 2} -> HandoffPlaces]
                        /\ \A u \in {1, 2} : Handoff!Signalled(hpc, t)[u]
                             = IF u = t /\ hpc[u] = "waiting" THEN "relock" ELSE hpc[u]
  BY <1>1, SignalledIs
<1>3. {"unlock", "returned"} \subseteq HandoffPlaces
  BY DEF HandoffPlaces
<1>4. ASSUME Handoff!Count1
      PROVE  /\ hpc' \in [{1, 2} -> HandoffPlaces] /\ hpc'[1] = "unlock"
             /\ hpc'[2] = IF Handoff!Halt1' /\ hpc[2] = "waiting" THEN "relock" ELSE hpc[2]
  BY <1>1, <1>2, <1>3, <1>4 DEF Handoff!Count1
<1>5. ASSUME Handoff!Count2
      PROVE  /\ hpc' \in [{1, 2} -> HandoffPlaces] /\ hpc'[2] = "unlock"
             /\ hpc'[1] = IF (hcount' < COUNT_HALT1 \/ hcount' > COUNT_HALT2) /\ hpc[1] = "waiting"
                           THEN "relock" ELSE hpc[1]
  BY <1>1, <1>2, <1>3, <1>5 DEF Handoff!Count2
<1>6. ASSUME Handoff!Farewell
      PROVE  /\ hpc' \in [{1, 2} -> HandoffPlaces] /\ hpc'[1] = "returned"
             /\ hpc'[2] = IF hpc[2] = "waiting" THEN "relock" ELSE hpc[2]
  BY <1>1, <1>2, <1>3, <1>6 DEF Handoff!Farewell
<1> QED
  BY <1>4, <1>5, <1>6

\* The variables keep their types: thread 1 leaves before it counts past COUNT_DONE.
LEMMA HandoffTypeStep ==
  ASSUME Handoff!HandoffAssumption, HandoffInv, [Handoff!Next]_(Handoff!vars)
  PROVE  Handoff!TypeOK'
<1> USE DEF HandoffInv, Handoff!TypeOK, Handoff!HandoffAssumption, Handoff!Pair, Handoff!Halt1, Handoff!Halt2,
        Handoff!MustWait, HandoffLocked, LastByFirst, Handoff!NoLostWakeup
<1>1. ASSUME NEW t \in Handoff!Pair, Handoff!Lock(t) PROVE Handoff!TypeOK'
  BY <1>1 DEF Handoff!Lock
<1>2. ASSUME NEW t \in Handoff!Pair, Handoff!Wait(t) PROVE Handoff!TypeOK'
  BY <1>2 DEF Handoff!Wait
<1>3. CASE Handoff!Count1
  BY <1>3, HandoffMoves DEF Handoff!Count1
<1>4. CASE Handoff!Count2
  BY <1>4, HandoffMoves DEF Handoff!Count2
<1>5. CASE Handoff!Return2
  BY <1>5 DEF Handoff!Return2
<1>6. ASSUME NEW t \in Handoff!Pair, Handoff!Unlock(t) PROVE Handoff!TypeOK'
  BY <1>6 DEF Handoff!Unlock
<1>7. CASE Handoff!Farewell
  BY <1>7, HandoffMoves DEF Handoff!Farewell
<1>8. ASSUME NEW t \in Handoff!Pair, Handoff!SpuriousWakeup(t) PROVE Handoff!TypeOK'
  BY <1>8 DEF Handoff!SpuriousWakeup
<1>9. CASE Handoff!Joined
  BY <1>9 DEF Handoff!Joined, Handoff!vars
<1>10. CASE UNCHANGED Handoff!vars
  BY <1>10 DEF Handoff!vars
<1> QED
  BY <1>1, <1>2, <1>3, <1>4, <1>5, <1>6, <1>7, <1>8, <1>9, <1>10
     DEF Handoff!Next, Handoff!Thread1, Handoff!Thread2, Handoff!Pair

\* Lock, wait and unlock pass the mutex on.
LEMMA HandoffLockedStep ==
  ASSUME Handoff!HandoffAssumption, HandoffInv, [Handoff!Next]_(Handoff!vars)
  PROVE  HandoffLocked'
<1> USE DEF HandoffInv, Handoff!TypeOK, Handoff!HandoffAssumption, Handoff!Pair, Handoff!Halt1, Handoff!Halt2,
        Handoff!MustWait, HandoffLocked, LastByFirst, Handoff!NoLostWakeup
<1>1. ASSUME NEW t \in Handoff!Pair, Handoff!Lock(t) PROVE HandoffLocked'
  BY <1>1 DEF Handoff!Lock
<1>2. ASSUME NEW t \in Handoff!Pair, Handoff!Wait(t) PROVE HandoffLocked'
  BY <1>2 DEF Handoff!Wait
<1>3. CASE Handoff!Count1
  BY <1>3, HandoffMoves DEF Handoff!Count1
<1>4. CASE Handoff!Count2
  BY <1>4, HandoffMoves DEF Handoff!Count2
<1>5. CASE Handoff!Return2
  BY <1>5 DEF Handoff!Return2
<1>6. ASSUME NEW t \in Handoff!Pair, Handoff!Unlock(t) PROVE HandoffLocked'
  BY <1>6 DEF Handoff!Unlock
<1>7. CASE Handoff!Farewell
  BY <1>7, HandoffMoves DEF Handoff!Farewell
<1>8. ASSUME NEW t \in Handoff!Pair, Handoff!SpuriousWakeup(t) PROVE HandoffLocked'
  BY <1>8 DEF Handoff!SpuriousWakeup
<1>9. CASE Handoff!Joined
  BY <1>9 DEF Handoff!Joined, Handoff!vars
<1>10. CASE UNCHANGED Handoff!vars
  BY <1>10 DEF Handoff!vars
<1> QED
  BY <1>1, <1>2, <1>3, <1>4, <1>5, <1>6, <1>7, <1>8, <1>9, <1>10
     DEF Handoff!Next, Handoff!Thread1, Handoff!Thread2, Handoff!Pair

\* Thread 2 counts to COUNT_HALT2 + 1 at most, which is below COUNT_DONE.
LEMMA LastByFirstStep ==
  ASSUME Handoff!HandoffAssumption, HandoffInv, [Handoff!Next]_(Handoff!vars)
  PROVE  LastByFirst'
<1> USE DEF HandoffInv, Handoff!TypeOK, Handoff!HandoffAssumption, Handoff!Pair, Handoff!Halt1, Handoff!Halt2,
        Handoff!MustWait, HandoffLocked, LastByFirst, Handoff!NoLostWakeup
<1>1. ASSUME NEW t \in Handoff!Pair, Handoff!Lock(t) PROVE LastByFirst'
  BY <1>1 DEF Handoff!Lock
<1>2. ASSUME NEW t \in Handoff!Pair, Handoff!Wait(t) PROVE LastByFirst'
  BY <1>2 DEF Handoff!Wait
<1>3. CASE Handoff!Count1
  BY <1>3, HandoffMoves DEF Handoff!Count1
<1>4. CASE Handoff!Count2
  BY <1>4, HandoffMoves DEF Handoff!Count2
<1>5. CASE Handoff!Return2
  BY <1>5 DEF Handoff!Return2
<1>6. ASSUME NEW t \in Handoff!Pair, Handoff!Unlock(t) PROVE LastByFirst'
  BY <1>6 DEF Handoff!Unlock
<1>7. CASE Handoff!Farewell
  BY <1>7, HandoffMoves DEF Handoff!Farewell
<1>8. ASSUME NEW t \in Handoff!Pair, Handoff!SpuriousWakeup(t) PROVE LastByFirst'
  BY <1>8 DEF Handoff!SpuriousWakeup
<1>9. CASE Handoff!Joined
  BY <1>9 DEF Handoff!Joined, Handoff!vars
<1>10. CASE UNCHANGED Handoff!vars
  BY <1>10 DEF Handoff!vars
<1> QED
  BY <1>1, <1>2, <1>3, <1>4, <1>5, <1>6, <1>7, <1>8, <1>9, <1>10
     DEF Handoff!Next, Handoff!Thread1, Handoff!Thread2, Handoff!Pair

\* Whoever takes the count over a border tells the other thread.
LEMMA HandoffWakeupStep ==
  ASSUME Handoff!HandoffAssumption, HandoffInv, [Handoff!Next]_(Handoff!vars)
  PROVE  Handoff!NoLostWakeup'
<1> USE DEF HandoffInv, Handoff!TypeOK, Handoff!HandoffAssumption, Handoff!Pair, Handoff!Halt1, Handoff!Halt2,
        Handoff!MustWait, HandoffLocked, LastByFirst, Handoff!NoLostWakeup
<1>1. ASSUME NEW t \in Handoff!Pair, Handoff!Lock(t) PROVE Handoff!NoLostWakeup'
  BY <1>1 DEF Handoff!Lock
<1>2. ASSUME NEW t \in Handoff!Pair, Handoff!Wait(t) PROVE Handoff!NoLostWakeup'
  BY <1>2 DEF Handoff!Wait
<1>3. CASE Handoff!Count1
  BY <1>3, HandoffMoves DEF Handoff!Count1
<1>4. CASE Handoff!Count2
  BY <1>4, HandoffMoves DEF Handoff!Count2
<1>5. CASE Handoff!Return2
  BY <1>5 DEF Handoff!Return2
<1>6. ASSUME NEW t \in Handoff!Pair, Handoff!Unlock(t) PROVE Handoff!NoLostWakeup'
  BY <1>6 DEF Handoff!Unlock
<1>7. CASE Handoff!Farewell
  BY <1>7, HandoffMoves DEF Handoff!Farewell
<1>8. ASSUME NEW t \in Handoff!Pair, Handoff!SpuriousWakeup(t) PROVE Handoff!NoLostWakeup'
  BY <1>8 DEF Handoff!SpuriousWakeup
<1>9. CASE Handoff!Joined
  BY <1>9 DEF Handoff!Joined, Handoff!vars
<1>10. CASE UNCHANGED Handoff!vars
  BY <1>10 DEF Handoff!vars
<1> QED
  BY <1>1, <1>2, <1>3, <1>4, <1>5, <1>6, <1>7, <1>8, <1>9, <1>10
     DEF Handoff!Next, Handoff!Thread1, Handoff!Thread2, Handoff!Pair

\* Each turn prints the count before it goes up.
LEMMA TurnsKeptStep ==
  ASSUME Handoff!HandoffAssumption, HandoffInv, [Handoff!Next]_(Handoff!vars)
  PROVE  Handoff!TurnsKept'
<1> USE DEF HandoffInv, Handoff!TypeOK, Handoff!HandoffAssumption, Handoff!Pair, Handoff!Halt1, Handoff!Halt2,
        Handoff!MustWait, HandoffLocked, LastByFirst, Handoff!NoLostWakeup, Handoff!TurnsKept
<1>1. ASSUME NEW t \in Handoff!Pair, Handoff!Lock(t) PROVE Handoff!TurnsKept'
  BY <1>1 DEF Handoff!Lock
<1>2. ASSUME NEW t \in Handoff!Pair, Handoff!Wait(t) PROVE Handoff!TurnsKept'
  BY <1>2 DEF Handoff!Wait
<1>3. CASE Handoff!Count1
  BY <1>3, HandoffMoves DEF Handoff!Count1
<1>4. CASE Handoff!Count2
  BY <1>4, HandoffMoves DEF Handoff!Count2
<1>5. CASE Handoff!Return2
  BY <1>5 DEF Handoff!Return2
<1>6. ASSUME NEW t \in Handoff!Pair, Handoff!Unlock(t) PROVE Handoff!TurnsKept'
  BY <1>6 DEF Handoff!Unlock
<1>7. CASE Handoff!Farewell
  BY <1>7, HandoffMoves DEF Handoff!Farewell
<1>8. ASSUME NEW t \in Handoff!Pair, Handoff!SpuriousWakeup(t) PROVE Handoff!TurnsKept'
  BY <1>8 DEF Handoff!SpuriousWakeup
<1>9. CASE Handoff!Joined
  BY <1>9 DEF Handoff!Joined, Handoff!vars
<1>10. CASE UNCHANGED Handoff!vars
  BY <1>10 DEF Handoff!vars
<1> QED
  BY <1>1, <1>2, <1>3, <1>4, <1>5, <1>6, <1>7, <1>8, <1>9, <1>10
     DEF Handoff!Next, Handoff!Thread1, Handoff!Thread2, Handoff!Pair

\* The count starts at 0, and nobody holds the mutex.
LEMMA HandoffInitially == ASSUME Handoff!HandoffAssumption, Handoff!Init PROVE HandoffInv
  BY DEF HandoffInv, Handoff!Init, Handoff!HandoffAssumption, Handoff!TypeOK, Handoff!Pair, HandoffLocked,
     LastByFirst, Handoff!NoLostWakeup, Handoff!TurnsKept

\* Every step of examples/src/condition.c preserves its invariant.
LEMMA HandoffStep ==
  ASSUME Handoff!HandoffAssumption, HandoffInv, [Handoff!Next]_(Handoff!vars)
  PROVE  HandoffInv'
  BY HandoffTypeStep, HandoffLockedStep, LastByFirstStep, HandoffWakeupStep, TurnsKeptStep
     DEF HandoffInv

\* Thread 2 returns with the mutex when the count is done, and thread 1, which has
\* not got it, has left its critical section.
LEMMA HandoffPromises == ASSUME HandoffInv PROVE Handoff!AbandonedMutexHarmless
  BY DEF HandoffInv, HandoffLocked, LastByFirst, Handoff!AbandonedMutexHarmless

-----------------------------------------------------------------------------
(* myjoin.c *)

\* The mutex belongs to the thread between lock and unlock, the flag is set from
\* the child's critical section on, and the parent leaves its loop after it.
JoinInv ==
  /\ m = "child" <=> child \in {"set", "signal", "unlock"}
  /\ m = "parent" <=> parent \in {"test", "unlock"}
  /\ jdone = 1 <=> child \in {"signal", "unlock", "ended"}
  /\ jdone \in {0, 1} /\ m \in {"free", "parent", "child"}
  /\ parent \in {"lock", "test", "asleep", "unlock", "ended"}
  /\ child \in {"lock", "set", "signal", "unlock", "ended"}
  /\ TJoin!NoLostWakeup /\ TJoin!JoinsAfterExit

\* Every step of myjoin.c preserves its invariant.
LEMMA JoinStep ==
  ASSUME JoinInv, [TJoin!Next]_(TJoin!vars)
  PROVE  JoinInv'
<1> USE DEF JoinInv, TJoin!NoLostWakeup, TJoin!JoinsAfterExit
<1>1. CASE TJoin!ChildLocks
  BY <1>1 DEF TJoin!ChildLocks
<1>2. CASE TJoin!SetDone
  BY <1>2 DEF TJoin!SetDone
<1>3. CASE TJoin!Signal
  BY <1>3 DEF TJoin!Signal
<1>4. CASE TJoin!ChildUnlocks
  BY <1>4 DEF TJoin!ChildUnlocks
<1>5. CASE TJoin!ParentLocks
  BY <1>5 DEF TJoin!ParentLocks
<1>6. CASE TJoin!Test
  BY <1>6 DEF TJoin!Test
<1>7. CASE TJoin!Spurious
  BY <1>7 DEF TJoin!Spurious
<1>8. CASE TJoin!ParentUnlocks
  BY <1>8 DEF TJoin!ParentUnlocks
<1>9. CASE TJoin!Exited
  BY <1>9 DEF TJoin!Exited, TJoin!vars
<1>10. CASE UNCHANGED TJoin!vars
  BY <1>10 DEF TJoin!vars
<1> QED
  BY <1>1, <1>2, <1>3, <1>4, <1>5, <1>6, <1>7, <1>8, <1>9, <1>10
     DEF TJoin!Next, TJoin!Parent, TJoin!Child

\* The flag starts as 0.
LEMMA JoinInitially == ASSUME TJoin!Init PROVE JoinInv
  BY DEF TJoin!Init, JoinInv, TJoin!NoLostWakeup, TJoin!JoinsAfterExit

-----------------------------------------------------------------------------
(* The programs that fork one child and wait for it *)

\* The child exists from fork to wait, and has executed its program while it
\* runs or is stopped.
ChildKept ==
  /\ wparent = "fork" => wchild = "none"
  /\ wparent = "wait" => wchild \notin {"none", "reaped"}
  /\ wparent # "ended" => report = Spawn!Error
  /\ wchild \in {"running", "stopped"} => execed
  /\ wchild \in {"none", "exec"} => ~execed
  /\ report = Spawn!Stopped => execed /\ wparent = "ended"
  /\ forker = "system" /\ how = Spawn!Signal => execed
  /\ wchild = "reaped" => wparent = "ended"

\* The inductive invariant of those programs.
SpawnInv == Spawn!TypeOK /\ ChildKept /\ Spawn!OutlivesChild /\ Spawn!ReportsEnd

\* The low eight bits of -1.
LEMMA MinusOneIs255 == (-1) % 256 = 255
<1>1. \A a \in Int : a % 256 \in 0..255
  OBVIOUS
<1>2. \A a \in Int : a = 256 * (a \div 256) + (a % 256)
  OBVIOUS
<1>3. \A a \in Int : a \div 256 \in Int
  OBVIOUS
<1>4. PICK a \in Int : a = -1
  OBVIOUS
<1>5. PICK low \in 0..255 : low = a % 256
  BY <1>1
<1>6. PICK high \in Int : high = a \div 256
  BY <1>3
<1>7. a = 256 * high + low
  BY <1>2, <1>5, <1>6
<1>8. low = 255
  BY <1>4, <1>7
<1> QED
  BY <1>4, <1>5, <1>8

\* The variables keep their types: exit(-1) is seen as 255.
LEMMA SpawnTypeStep ==
  ASSUME Spawn!SpawnAssumption, SpawnInv, [Spawn!Next]_(Spawn!vars)
  PROVE  Spawn!TypeOK'
<1> USE DEF SpawnInv, Spawn!TypeOK, Spawn!SpawnAssumption, Spawn!Forkers, ChildKept, Spawn!OutlivesChild,
        Spawn!ReportsEnd, Spawn!Error, Spawn!Signal, Spawn!Stopped, Spawn!Garbage
<1>1. CASE Spawn!Fork
  BY <1>1 DEF Spawn!Fork
<1>2. CASE Spawn!ForkFails
  BY <1>2 DEF Spawn!ForkFails
<1>3. CASE Spawn!Exec
  BY <1>3 DEF Spawn!Exec
<1>4. CASE Spawn!NoExec
  BY <1>4, MinusOneIs255 DEF Spawn!NoExec
<1>5. CASE Spawn!ChildEnds
  BY <1>5 DEF Spawn!ChildEnds
<1>6. CASE Spawn!ChildStops
  BY <1>6 DEF Spawn!ChildStops
<1>7. CASE Spawn!Wait
  BY <1>7 DEF Spawn!Wait
<1>8. CASE Spawn!WaitStopped
  BY <1>8 DEF Spawn!WaitStopped
<1>9. CASE Spawn!Ended
  BY <1>9 DEF Spawn!Ended, Spawn!vars
<1>10. CASE UNCHANGED Spawn!vars
  BY <1>10 DEF Spawn!vars
<1> QED
  BY <1>1, <1>2, <1>3, <1>4, <1>5, <1>6, <1>7, <1>8, <1>9, <1>10
     DEF Spawn!Next

\* A child is executed once, ends once and is reaped once.
LEMMA ChildKeptStep ==
  ASSUME Spawn!SpawnAssumption, SpawnInv, [Spawn!Next]_(Spawn!vars)
  PROVE  ChildKept'
<1> USE DEF SpawnInv, Spawn!TypeOK, Spawn!SpawnAssumption, Spawn!Forkers, ChildKept, Spawn!OutlivesChild,
        Spawn!ReportsEnd, Spawn!Error, Spawn!Signal, Spawn!Stopped, Spawn!Garbage
<1>1. CASE Spawn!Fork
  BY <1>1 DEF Spawn!Fork
<1>2. CASE Spawn!ForkFails
  BY <1>2 DEF Spawn!ForkFails
<1>3. CASE Spawn!Exec
  BY <1>3 DEF Spawn!Exec
<1>4. CASE Spawn!NoExec
  BY <1>4, MinusOneIs255 DEF Spawn!NoExec
<1>5. CASE Spawn!ChildEnds
  BY <1>5 DEF Spawn!ChildEnds
<1>6. CASE Spawn!ChildStops
  BY <1>6 DEF Spawn!ChildStops
<1>7. CASE Spawn!Wait
  BY <1>7 DEF Spawn!Wait
<1>8. CASE Spawn!WaitStopped
  BY <1>8 DEF Spawn!WaitStopped
<1>9. CASE Spawn!Ended
  BY <1>9 DEF Spawn!Ended, Spawn!vars
<1>10. CASE UNCHANGED Spawn!vars
  BY <1>10 DEF Spawn!vars
<1> QED
  BY <1>1, <1>2, <1>3, <1>4, <1>5, <1>6, <1>7, <1>8, <1>9, <1>10
     DEF Spawn!Next

\* The parent ends when it has reaped the child, or command.c has seen it stopped.
LEMMA OutlivesStep ==
  ASSUME Spawn!SpawnAssumption, SpawnInv, [Spawn!Next]_(Spawn!vars)
  PROVE  Spawn!OutlivesChild'
<1> USE DEF SpawnInv, Spawn!TypeOK, Spawn!SpawnAssumption, Spawn!Forkers, ChildKept, Spawn!OutlivesChild,
        Spawn!ReportsEnd, Spawn!Error, Spawn!Signal, Spawn!Stopped, Spawn!Garbage
<1>1. CASE Spawn!Fork
  BY <1>1 DEF Spawn!Fork
<1>2. CASE Spawn!ForkFails
  BY <1>2 DEF Spawn!ForkFails
<1>3. CASE Spawn!Exec
  BY <1>3 DEF Spawn!Exec
<1>4. CASE Spawn!NoExec
  BY <1>4 DEF Spawn!NoExec
<1>5. CASE Spawn!ChildEnds
  BY <1>5 DEF Spawn!ChildEnds
<1>6. CASE Spawn!ChildStops
  BY <1>6 DEF Spawn!ChildStops
<1>7. CASE Spawn!Wait
  BY <1>7 DEF Spawn!Wait
<1>8. CASE Spawn!WaitStopped
  BY <1>8 DEF Spawn!WaitStopped
<1>9. CASE Spawn!Ended
  BY <1>9 DEF Spawn!Ended, Spawn!vars
<1>10. CASE UNCHANGED Spawn!vars
  BY <1>10 DEF Spawn!vars
<1> QED
  BY <1>1, <1>2, <1>3, <1>4, <1>5, <1>6, <1>7, <1>8, <1>9, <1>10
     DEF Spawn!Next

\* The parent reports the status it has waited for.
LEMMA ReportsStep ==
  ASSUME Spawn!SpawnAssumption, SpawnInv, [Spawn!Next]_(Spawn!vars)
  PROVE  Spawn!ReportsEnd'
<1> USE DEF SpawnInv, Spawn!TypeOK, Spawn!SpawnAssumption, Spawn!Forkers, ChildKept, Spawn!OutlivesChild,
        Spawn!ReportsEnd, Spawn!Error, Spawn!Signal, Spawn!Stopped, Spawn!Garbage
<1>1. CASE Spawn!Fork
  BY <1>1 DEF Spawn!Fork
<1>2. CASE Spawn!ForkFails
  BY <1>2 DEF Spawn!ForkFails
<1>3. CASE Spawn!Exec
  BY <1>3 DEF Spawn!Exec
<1>4. CASE Spawn!NoExec
  BY <1>4 DEF Spawn!NoExec
<1>5. CASE Spawn!ChildEnds
  BY <1>5 DEF Spawn!ChildEnds
<1>6. CASE Spawn!ChildStops
  BY <1>6 DEF Spawn!ChildStops
<1>7. CASE Spawn!Wait
  BY <1>7 DEF Spawn!Wait
<1>8. CASE Spawn!WaitStopped
  BY <1>8 DEF Spawn!WaitStopped
<1>9. CASE Spawn!Ended
  BY <1>9 DEF Spawn!Ended, Spawn!vars
<1>10. CASE UNCHANGED Spawn!vars
  BY <1>10 DEF Spawn!vars
<1> QED
  BY <1>1, <1>2, <1>3, <1>4, <1>5, <1>6, <1>7, <1>8, <1>9, <1>10
     DEF Spawn!Next

\* There is no child at the start.
LEMMA SpawnInitially == ASSUME Spawn!Init PROVE SpawnInv
<1>1. execed = FALSE
  BY DEF Spawn!Init
<1>2. Spawn!TypeOK
  <2>1. execed \in BOOLEAN /\ forker \in Spawn!Forkers
    BY <1>1 DEF Spawn!Init
  <2>2. /\ how \in 0..255 /\ report = Spawn!Error
        /\ wparent = "fork" /\ wchild = "none"
    BY DEF Spawn!Init
  <2> QED
    BY <2>1, <2>2 DEF Spawn!TypeOK
<1>3. ChildKept
  BY <1>1 DEF Spawn!Init, ChildKept, Spawn!Error, Spawn!Signal, Spawn!Stopped
<1> QED
  BY <1>1, <1>2, <1>3 DEF SpawnInv, Spawn!Init, Spawn!OutlivesChild, Spawn!ReportsEnd

\* Every step of those programs preserves their invariant.
LEMMA SpawnStep ==
  ASSUME Spawn!SpawnAssumption, SpawnInv, [Spawn!Next]_(Spawn!vars)
  PROVE  SpawnInv'
  BY SpawnTypeStep, ChildKeptStep, OutlivesStep, ReportsStep DEF SpawnInv

-----------------------------------------------------------------------------
(* class/condition.c *)

\* The mutex belongs to the thread between lock and unlock, and what that has
\* loaded is still the count.
WatchLocked ==
  /\ wmutex = "watch" <=> watch = "test"
  /\ \A t \in Incs : wmutex = t <=> inc[t] \in {"load", "store", "unlock"}
  /\ \A t \in Incs : inc[t] = "store" => reg[t] = wcount
  /\ \A t \in Incs : inc[t] # "exited" => wi[t] < TCOUNT

\* The bonus takes the count over the limit, so that the watcher's loop ends.
BonusEnds ==
  /\ added <= 1
  /\ added > 0 => wcount >= COUNT_LIMIT /\ watch \in {"test", "exited"}

\* The inductive invariant of class/condition.c.
WatchInv ==
  /\ Watch!TypeOK /\ WatchLocked /\ BonusEnds /\ Watch!NoLostWakeup
  /\ Watch!CountExact

\* The variables keep their types.
LEMMA WatchTypeStep ==
  ASSUME Watch!WatchAssumption, WatchInv, [Watch!Next]_(Watch!vars)
  PROVE  Watch!TypeOK'
<1> USE DEF WatchInv, Watch!TypeOK, Watch!WatchAssumption, WatchLocked, Watch!NoLostWakeup, BonusEnds
<1>1. ASSUME NEW t \in Incs, Watch!IncLocks(t) PROVE Watch!TypeOK'
  BY <1>1 DEF Watch!IncLocks
<1>2. ASSUME NEW t \in Incs, Watch!Load(t) PROVE Watch!TypeOK'
  BY <1>2 DEF Watch!Load
<1>3. ASSUME NEW t \in Incs, Watch!Store(t) PROVE Watch!TypeOK'
  BY <1>3 DEF Watch!Store
<1>4. ASSUME NEW t \in Incs, Watch!IncUnlocks(t) PROVE Watch!TypeOK'
  BY <1>4 DEF Watch!IncUnlocks
<1>5. CASE Watch!WatchLocks
  BY <1>5 DEF Watch!WatchLocks
<1>6. CASE Watch!WatchWaits
  BY <1>6 DEF Watch!WatchWaits
<1>7. CASE Watch!WatchBonus
  BY <1>7 DEF Watch!WatchBonus
<1>8. CASE Watch!WatchExits
  BY <1>8 DEF Watch!WatchExits
<1>9. CASE Watch!SpuriousWakeup
  BY <1>9 DEF Watch!SpuriousWakeup
<1>10. CASE Watch!Joined
  BY <1>10 DEF Watch!Joined, Watch!vars
<1>11. CASE UNCHANGED Watch!vars
  BY <1>11 DEF Watch!vars
<1> QED
  BY <1>1, <1>2, <1>3, <1>4, <1>5, <1>6, <1>7, <1>8, <1>9, <1>10, <1>11
     DEF Watch!Next, Watch!Watch, Watch!Inc

\* Lock, wait and unlock pass the mutex on.
LEMMA WatchLockedStep ==
  ASSUME Watch!WatchAssumption, WatchInv, [Watch!Next]_(Watch!vars)
  PROVE  WatchLocked'
<1> USE DEF WatchInv, Watch!TypeOK, Watch!WatchAssumption, WatchLocked, Watch!NoLostWakeup, BonusEnds
<1>1. ASSUME NEW t \in Incs, Watch!IncLocks(t) PROVE WatchLocked'
  BY <1>1 DEF Watch!IncLocks
<1>2. ASSUME NEW t \in Incs, Watch!Load(t) PROVE WatchLocked'
  BY <1>2 DEF Watch!Load
<1>3. ASSUME NEW t \in Incs, Watch!Store(t) PROVE WatchLocked'
  BY <1>3 DEF Watch!Store
<1>4. ASSUME NEW t \in Incs, Watch!IncUnlocks(t) PROVE WatchLocked'
  BY <1>4 DEF Watch!IncUnlocks
<1>5. CASE Watch!WatchLocks
  BY <1>5 DEF Watch!WatchLocks
<1>6. CASE Watch!WatchWaits
  BY <1>6 DEF Watch!WatchWaits
<1>7. CASE Watch!WatchBonus
  BY <1>7 DEF Watch!WatchBonus
<1>8. CASE Watch!WatchExits
  BY <1>8 DEF Watch!WatchExits
<1>9. CASE Watch!SpuriousWakeup
  BY <1>9 DEF Watch!SpuriousWakeup
<1>10. CASE Watch!Joined
  BY <1>10 DEF Watch!Joined, Watch!vars
<1>11. CASE UNCHANGED Watch!vars
  BY <1>11 DEF Watch!vars
<1> QED
  BY <1>1, <1>2, <1>3, <1>4, <1>5, <1>6, <1>7, <1>8, <1>9, <1>10, <1>11
     DEF Watch!Next, Watch!Watch, Watch!Inc

\* The bonus is added at a wake-up, and the loop ends after it.
LEMMA BonusEndsStep ==
  ASSUME Watch!WatchAssumption, WatchInv, [Watch!Next]_(Watch!vars)
  PROVE  BonusEnds'
<1> USE DEF WatchInv, Watch!TypeOK, Watch!WatchAssumption, WatchLocked, Watch!NoLostWakeup, BonusEnds
<1>1. ASSUME NEW t \in Incs, Watch!IncLocks(t) PROVE BonusEnds'
  BY <1>1 DEF Watch!IncLocks
<1>2. ASSUME NEW t \in Incs, Watch!Load(t) PROVE BonusEnds'
  BY <1>2 DEF Watch!Load
<1>3. ASSUME NEW t \in Incs, Watch!Store(t) PROVE BonusEnds'
  BY <1>3 DEF Watch!Store
<1>4. ASSUME NEW t \in Incs, Watch!IncUnlocks(t) PROVE BonusEnds'
  BY <1>4 DEF Watch!IncUnlocks
<1>5. CASE Watch!WatchLocks
  BY <1>5 DEF Watch!WatchLocks
<1>6. CASE Watch!WatchWaits
  BY <1>6 DEF Watch!WatchWaits
<1>7. CASE Watch!WatchBonus
  BY <1>7 DEF Watch!WatchBonus
<1>8. CASE Watch!WatchExits
  BY <1>8 DEF Watch!WatchExits
<1>9. CASE Watch!SpuriousWakeup
  BY <1>9 DEF Watch!SpuriousWakeup
<1>10. CASE Watch!Joined
  BY <1>10 DEF Watch!Joined, Watch!vars
<1>11. CASE UNCHANGED Watch!vars
  BY <1>11 DEF Watch!vars
<1> QED
  BY <1>1, <1>2, <1>3, <1>4, <1>5, <1>6, <1>7, <1>8, <1>9, <1>10, <1>11
     DEF Watch!Next, Watch!Watch, Watch!Inc

\* The increment that reaches the limit wakes the watcher.
LEMMA WatchWakeupStep ==
  ASSUME Watch!WatchAssumption, WatchInv, [Watch!Next]_(Watch!vars)
  PROVE  Watch!NoLostWakeup'
<1> USE DEF WatchInv, Watch!TypeOK, Watch!WatchAssumption, WatchLocked, Watch!NoLostWakeup, BonusEnds
<1>1. ASSUME NEW t \in Incs, Watch!IncLocks(t) PROVE Watch!NoLostWakeup'
  BY <1>1 DEF Watch!IncLocks
<1>2. ASSUME NEW t \in Incs, Watch!Load(t) PROVE Watch!NoLostWakeup'
  BY <1>2 DEF Watch!Load
<1>3. ASSUME NEW t \in Incs, Watch!Store(t) PROVE Watch!NoLostWakeup'
  BY <1>3 DEF Watch!Store
<1>4. ASSUME NEW t \in Incs, Watch!IncUnlocks(t) PROVE Watch!NoLostWakeup'
  BY <1>4 DEF Watch!IncUnlocks
<1>5. CASE Watch!WatchLocks
  BY <1>5 DEF Watch!WatchLocks
<1>6. CASE Watch!WatchWaits
  BY <1>6 DEF Watch!WatchWaits
<1>7. CASE Watch!WatchBonus
  BY <1>7 DEF Watch!WatchBonus
<1>8. CASE Watch!WatchExits
  BY <1>8 DEF Watch!WatchExits
<1>9. CASE Watch!SpuriousWakeup
  BY <1>9 DEF Watch!SpuriousWakeup
<1>10. CASE Watch!Joined
  BY <1>10 DEF Watch!Joined, Watch!vars
<1>11. CASE UNCHANGED Watch!vars
  BY <1>11 DEF Watch!vars
<1> QED
  BY <1>1, <1>2, <1>3, <1>4, <1>5, <1>6, <1>7, <1>8, <1>9, <1>10, <1>11
     DEF Watch!Next, Watch!Watch, Watch!Inc

\* There are finitely many increments.
LEMMA IncrementsFinite ==
  ASSUME Watch!WatchAssumption
  PROVE  /\ IsFiniteSet(Watch!Increments) /\ Cardinality(Watch!Increments) \in Nat
         /\ \A S : Watch!Cardinality(S) = Cardinality(S)
<1>1. IsFiniteSet(Incs)
  BY DEF Watch!WatchAssumption, Watch!IsFiniteSet, IsFiniteSet
<1>2. IsFiniteSet(1..TCOUNT)
  BY FS_Interval DEF Watch!WatchAssumption
<1>3. IsFiniteSet(Incs \X (1..TCOUNT))
  BY <1>1, <1>2, FS_Product
<1>4. Watch!Increments \subseteq Incs \X (1..TCOUNT)
  BY DEF Watch!Increments
<1>5. IsFiniteSet(Watch!Increments) /\ Cardinality(Watch!Increments) \in Nat
  BY <1>3, <1>4, FS_Subset, FS_CardinalityType
<1> QED
  BY <1>5 DEF Watch!Cardinality, Cardinality

\* The store of ++count, and nothing else a thread does, makes one increment.
LEMMA IncrementsStep ==
  ASSUME Watch!WatchAssumption, WatchInv, NEW t \in Incs
  PROVE  /\ Watch!IncLocks(t) \/ Watch!Load(t) \/ Watch!IncUnlocks(t) => Watch!Increments' = Watch!Increments
         /\ Watch!Store(t) => /\ Watch!Increments' = Watch!Increments \union {<<t, wi[t] + 1>>}
                              /\ <<t, wi[t] + 1>> \notin Watch!Increments
<1> USE DEF WatchInv, Watch!TypeOK, WatchLocked
<1> DEFINE Upto(u) == wi[u] + (IF inc[u] = "unlock" THEN 1 ELSE 0)
<1>1. ASSUME Watch!IncLocks(t) \/ Watch!Load(t) \/ Watch!IncUnlocks(t), NEW u \in Incs
      PROVE  Upto(u)' = Upto(u)
  BY <1>1 DEF Watch!IncLocks, Watch!Load, Watch!IncUnlocks
<1>2. ASSUME Watch!Store(t), NEW u \in Incs
      PROVE  Upto(u)' = IF u = t THEN wi[t] + 1 ELSE Upto(u)
  BY <1>2 DEF Watch!Store
<1>3. /\ Watch!Increments = {p \in Incs \X (1..TCOUNT) : p[2] <= Upto(p[1])}
      /\ Watch!Increments' = {p \in Incs \X (1..TCOUNT) : p[2] <= Upto(p[1])'}
  BY DEF Watch!Increments
<1>4. ASSUME Watch!Store(t) PROVE Upto(t) = wi[t] /\ wi[t] \in Nat /\ wi[t] + 1 \in 1..TCOUNT
  BY <1>4 DEF Watch!Store, Watch!WatchAssumption
<1> HIDE DEF Upto
<1>5. ASSUME Watch!IncLocks(t) \/ Watch!Load(t) \/ Watch!IncUnlocks(t)
      PROVE  Watch!Increments' = Watch!Increments
  BY <1>1, <1>3, <1>5
<1>6. ASSUME Watch!Store(t)
      PROVE  /\ Watch!Increments' = Watch!Increments \union {<<t, wi[t] + 1>>}
             /\ <<t, wi[t] + 1>> \notin Watch!Increments
  <2>1. <<t, wi[t] + 1>> \notin Watch!Increments
    BY <1>3, <1>4, <1>6
  <2>2. ASSUME NEW u \in Incs, NEW e \in 1..TCOUNT
        PROVE  e <= Upto(u)' <=> (e <= Upto(u) \/ (u = t /\ e = wi[t] + 1))
    <3>1. CASE u = t
      BY <1>2, <1>4, <1>6, <3>1
    <3>2. CASE u # t
      BY <1>2, <1>6, <3>2
    <3> QED
      BY <3>1, <3>2
  <2>3. Watch!Increments' = Watch!Increments \union {<<t, wi[t] + 1>>}
    BY <1>3, <1>4, <1>6, <2>2
  <2> QED
    BY <2>1, <2>3
<1> QED
  BY <1>5, <1>6

\* No increment is lost: what a thread stores is one more than what was there.
LEMMA CountExactStep ==
  ASSUME Watch!WatchAssumption, WatchInv, [Watch!Next]_(Watch!vars)
  PROVE  Watch!CountExact'
<1>1. /\ wcount = Cardinality(Watch!Increments) + Bonus * added
      /\ Cardinality(Watch!Increments) \in Nat /\ IsFiniteSet(Watch!Increments)
      /\ Bonus \in Nat /\ added \in Nat
      /\ Watch!CountExact' <=> wcount' = Cardinality(Watch!Increments') + Bonus * added'
  BY IncrementsFinite DEF WatchInv, Watch!CountExact, Watch!WatchAssumption, Watch!TypeOK
<1>2. ASSUME NEW t \in Incs, Watch!IncLocks(t) \/ Watch!Load(t) \/ Watch!IncUnlocks(t)
      PROVE  Watch!CountExact'
  <2>1. wcount' = wcount /\ added' = added
    BY <1>2 DEF Watch!IncLocks, Watch!Load, Watch!IncUnlocks
  <2> QED
    BY <1>1, <1>2, <2>1, IncrementsStep
<1>3. ASSUME NEW t \in Incs, Watch!Store(t) PROVE Watch!CountExact'
  <2>1. wcount' = wcount + 1 /\ added' = added
    BY <1>3 DEF Watch!Store, WatchInv, WatchLocked
  <2>2. Cardinality(Watch!Increments') = Cardinality(Watch!Increments) + 1
    BY <1>1, <1>3, IncrementsStep, FS_AddElement
  <2>3. Bonus * added \in Int
    BY <1>1
  <2> HIDE DEF Watch!Increments
  <2> QED
    BY <1>1, <2>1, <2>2, <2>3
<1>4. CASE Watch!WatchBonus
  <2>1. wcount' = wcount + Bonus /\ added' = added + 1 /\ Watch!Increments' = Watch!Increments
    BY <1>4 DEF Watch!WatchBonus, Watch!Increments
  <2>2. Bonus * (added + 1) = Bonus * added + Bonus
    BY <1>1
  <2>3. Bonus * added \in Int
    BY <1>1
  <2> QED
    BY <1>1, <2>1, <2>2, <2>3
<1>5. CASE Watch!WatchLocks \/ Watch!WatchWaits \/ Watch!WatchExits \/ Watch!SpuriousWakeup
           \/ Watch!Joined \/ UNCHANGED Watch!vars
  <2>1. wcount' = wcount /\ added' = added /\ Watch!Increments' = Watch!Increments
    BY <1>5 DEF Watch!WatchLocks, Watch!WatchWaits, Watch!WatchExits, Watch!SpuriousWakeup,
       Watch!Joined, Watch!vars, Watch!Increments
  <2> QED
    BY <1>1, <2>1
<1> QED
  BY <1>2, <1>3, <1>4, <1>5 DEF Watch!Next, Watch!Watch, Watch!Inc

\* The count starts at 0, and every thread has an increment to make.
LEMMA WatchInitially == ASSUME Watch!WatchAssumption, Watch!Init PROVE WatchInv
<1>1. TCOUNT \in Nat \ {0}
  <2>1. IsFiniteSet(Incs) /\ Watch!Cardinality(Incs) = Cardinality(Incs)
    BY IncrementsFinite DEF Watch!WatchAssumption, Watch!IsFiniteSet, IsFiniteSet
  <2>2. PICK c \in Nat : c = Watch!Cardinality(Incs)
    BY <2>1, FS_CardinalityType
  <2> QED
    BY <2>2 DEF Watch!WatchAssumption
<1>2. Watch!TypeOK
  BY <1>1 DEF Watch!Init, Watch!TypeOK
<1>3. Watch!CountExact
  <2>1. Watch!Increments = {}
    BY DEF Watch!Init, Watch!Increments
  <2>2. Watch!Cardinality(Watch!Increments) = 0
    BY <2>1, FS_EmptySet, IncrementsFinite
  <2> QED
    BY <2>2 DEF Watch!Init, Watch!CountExact, Watch!WatchAssumption
<1> QED
  BY <1>1, <1>2, <1>3 DEF WatchInv, Watch!Init, Watch!WatchAssumption, WatchLocked, BonusEnds,
     Watch!NoLostWakeup

\* Every step of class/condition.c preserves its invariant.
LEMMA WatchStep ==
  ASSUME Watch!WatchAssumption, WatchInv, [Watch!Next]_(Watch!vars)
  PROVE  WatchInv'
  BY WatchTypeStep, WatchLockedStep, BonusEndsStep, WatchWakeupStep, CountExactStep DEF WatchInv

-----------------------------------------------------------------------------
(* semaphore.txt *)

\* The threads between the decrement of sem_wait and the increment of sem_post.
Inside == {t \in Threads : spc[t] \in {"test", "waiting", "woken", "critical"}}

\* The inductive invariant of semaphore.txt: the counter says how many threads are
\* inside.  A thread passes the test unless the counter is -1, so with at most one
\* thread more than the semaphore was initialised for no counter below -1 lets
\* another one through.
SemInv ==
  /\ scount = Initial - Cardinality(Inside)
  /\ spc \in [Threads -> {"enter", "test", "waiting", "woken", "critical", "signal"}]
  /\ Cardinality(Threads) <= Initial + 1 => Sem!MutualExclusion

\* The threads inside are finitely many, and those in the critical section among them.
LEMMA InsideFinite ==
  ASSUME Sem!SemaphoreAssumption
  PROVE  /\ IsFiniteSet(Threads) /\ Cardinality(Threads) \in Nat
         /\ \A S : S \subseteq Threads => /\ IsFiniteSet(S) /\ Cardinality(S) \in Nat
                                        /\ Cardinality(S) <= Cardinality(Threads)
         /\ \A S : Sem!Cardinality(S) = Cardinality(S)
<1>1. IsFiniteSet(Threads)
  BY DEF Sem!SemaphoreAssumption, Sem!IsFiniteSet, IsFiniteSet
<1>2. \A S : Sem!Cardinality(S) = Cardinality(S)
  BY DEF Sem!Cardinality, Cardinality
<1> QED
  BY <1>1, <1>2, FS_Subset, FS_CardinalityType

\* What a step does to the threads inside and to the counter.
LEMMA InsideStep ==
  ASSUME SemInv, NEW t \in Threads
  PROVE  /\ Sem!Enter(t) => t \notin Inside /\ Inside' = Inside \union {t} /\ scount' = scount - 1
         /\ Sem!Leave(t) => t \in Inside /\ Inside' = Inside \ {t} /\ scount' = scount + 1
         /\ Sem!Test(t) \/ Sem!Relock(t) \/ Sem!Spurious(t) \/ Sem!Signal(t) =>
              Inside' = Inside /\ scount' = scount
<1> USE DEF SemInv, Inside, Sem!Move
<1>1. Sem!Enter(t) => t \notin Inside /\ Inside' = Inside \union {t} /\ scount' = scount - 1
  BY DEF Sem!Enter
<1>2. Sem!Leave(t) => t \in Inside /\ Inside' = Inside \ {t} /\ scount' = scount + 1
  BY DEF Sem!Leave
<1>3. Sem!Test(t) => Inside' = Inside /\ scount' = scount
  BY DEF Sem!Test
<1>4. Sem!Relock(t) \/ Sem!Spurious(t) => Inside' = Inside /\ scount' = scount
  BY DEF Sem!Relock, Sem!Spurious
<1>5. Sem!Signal(t) => Inside' = Inside /\ scount' = scount
  BY DEF Sem!Signal
<1> QED
  BY <1>1, <1>2, <1>3, <1>4, <1>5

\* Every step of semaphore.txt preserves its invariant.
LEMMA SemStep ==
  ASSUME Sem!SemaphoreAssumption, SemInv, [Sem!Next]_(Sem!vars)
  PROVE  SemInv'
<1> DEFINE Critical == {t \in Threads : spc[t] = "critical"}
           Places == {"enter", "test", "waiting", "woken", "critical", "signal"}
<1>1. /\ IsFiniteSet(Threads) /\ Cardinality(Threads) \in Nat /\ Initial \in Nat
      /\ \A S : S \subseteq Threads => /\ IsFiniteSet(S) /\ Cardinality(S) \in Nat
                                     /\ Cardinality(S) <= Cardinality(Threads)
      /\ \A S : Sem!Cardinality(S) = Cardinality(S)
  BY InsideFinite DEF Sem!SemaphoreAssumption
<1>2. Inside \subseteq Threads /\ Critical \subseteq Inside /\ Inside' \subseteq Threads
  BY DEF Inside
<1>3. /\ Sem!MutualExclusion <=> Cardinality(Critical) <= Initial
      /\ Sem!MutualExclusion' <=> Cardinality(Critical') <= Initial
  BY <1>1 DEF Sem!MutualExclusion
<1>4. spc' \in [Threads -> Places]
  <2>1. ASSUME NEW t \in Threads, Sem!Step(t) PROVE spc' \in [Threads -> Places]
    BY <2>1 DEF SemInv, Sem!Step, Sem!Enter, Sem!Test, Sem!Relock, Sem!Spurious, Sem!Leave,
       Sem!Signal, Sem!Move
  <2>2. CASE Sem!Settled \/ UNCHANGED Sem!vars
    BY <2>2 DEF SemInv, Sem!Settled, Sem!vars
  <2> QED
    BY <2>1, <2>2 DEF Sem!Next
<1>5. scount' = Initial - Cardinality(Inside')
  <2>1. scount = Initial - Cardinality(Inside)
    BY DEF SemInv
  <2>2. ASSUME NEW t \in Threads, Sem!Enter(t) PROVE scount' = Initial - Cardinality(Inside')
    BY <1>1, <1>2, <2>1, <2>2, InsideStep, FS_AddElement
  <2>3. ASSUME NEW t \in Threads, Sem!Leave(t) PROVE scount' = Initial - Cardinality(Inside')
    BY <1>1, <1>2, <2>1, <2>3, InsideStep, FS_RemoveElement
  <2>4. ASSUME NEW t \in Threads, Sem!Test(t) \/ Sem!Relock(t) \/ Sem!Spurious(t) \/ Sem!Signal(t)
        PROVE  scount' = Initial - Cardinality(Inside')
    BY <2>1, <2>4, InsideStep
  <2>5. CASE Sem!Settled \/ UNCHANGED Sem!vars
    BY <2>1, <2>5 DEF Sem!Settled, Sem!vars, Inside
  <2> QED
    BY <2>2, <2>3, <2>4, <2>5 DEF Sem!Next, Sem!Step
<1>6. ASSUME Cardinality(Threads) <= Initial + 1 PROVE Sem!MutualExclusion'
  <2>1. Cardinality(Critical) <= Initial
    BY <1>3, <1>6 DEF SemInv
  <2>2. CASE Critical' \subseteq Critical
    <3>1. IsFiniteSet(Critical) /\ Cardinality(Critical) \in Nat
      BY <1>1, <1>2
    <3>2. Cardinality(Critical') <= Cardinality(Critical) /\ Cardinality(Critical') \in Nat
      BY <2>2, <3>1, FS_Subset, FS_CardinalityType
    <3> HIDE DEF Critical
    <3> QED
      BY <1>1, <1>3, <2>1, <3>1, <3>2
  <2>3. ASSUME NEW t \in Threads, Sem!Test(t), ~(Critical' \subseteq Critical)
        PROVE  Sem!MutualExclusion'
    <3>1. scount # -1
      BY <2>3 DEF SemInv, Sem!Test, Sem!Move
    <3>2. Cardinality(Inside) <= Initial + 1 /\ Cardinality(Inside) \in Nat
      BY <1>1, <1>2, <1>6
    <3>3. Cardinality(Inside) <= Initial
      BY <1>1, <3>1, <3>2 DEF SemInv
    <3>4. Critical' \subseteq Inside'
      BY DEF Inside
    <3>5. Inside' = Inside /\ IsFiniteSet(Inside)
      BY <1>1, <1>2, <2>3, InsideStep
    <3>6. Cardinality(Critical') <= Cardinality(Inside) /\ Cardinality(Critical') \in Nat
      BY <3>4, <3>5, FS_Subset, FS_CardinalityType
    <3> HIDE DEF Critical
    <3> QED
      BY <1>1, <1>3, <3>2, <3>3, <3>6
  <2>4. ASSUME NEW t \in Threads,
               Sem!Enter(t) \/ Sem!Relock(t) \/ Sem!Spurious(t) \/ Sem!Leave(t) \/ Sem!Signal(t)
        PROVE  Critical' \subseteq Critical
    BY <2>4 DEF SemInv, Sem!Enter, Sem!Relock, Sem!Spurious, Sem!Leave, Sem!Signal, Sem!Move
  <2>5. CASE Sem!Settled \/ UNCHANGED Sem!vars
    <3>1. Critical' \subseteq Critical
      BY <2>5 DEF Sem!Settled, Sem!vars
    <3> QED
      BY <2>2, <3>1
  <2> QED
    BY <2>2, <2>3, <2>4, <2>5 DEF Sem!Next, Sem!Step
<1> QED
  BY <1>4, <1>5, <1>6 DEF SemInv

\* Nobody is inside at the start.
LEMMA SemInitially == ASSUME Sem!SemaphoreAssumption, Sem!Init PROVE SemInv
<1>1. Inside = {} /\ {t \in Threads : spc[t] = "critical"} = {}
  BY DEF Sem!Init, Inside
<1>2. Cardinality({}) = 0 /\ Sem!Cardinality({}) = Cardinality({})
  BY FS_EmptySet, InsideFinite
<1>3. Sem!MutualExclusion
  BY <1>1, <1>2 DEF Sem!MutualExclusion, Sem!SemaphoreAssumption
<1>4. scount = Initial - Cardinality(Inside)
  BY <1>1, <1>2 DEF Sem!Init, Sem!SemaphoreAssumption
<1>5. spc \in [Threads -> {"enter", "test", "waiting", "woken", "critical", "signal"}]
  BY DEF Sem!Init
<1> QED
  BY <1>3, <1>4, <1>5 DEF SemInv

-----------------------------------------------------------------------------
(* join.c, mutex.c and semaphores.c *)

\* The threads that have passed the increment.
Counted == {t \in Counts!Pool : thr[t] \in {"unlock", "ended"}}

\* The lock is free when nobody is in the critical section, where one thread is at
\* most, and what that has loaded is still x.
CountLocked ==
  /\ lock <=> \A t \in Counts!Pool : thr[t] \notin {"load", "store", "unlock"}
  /\ Counts!Exclusive
  /\ \A t \in Counts!Pool : thr[t] = "store" => creg[t] = x

\* x is the number of threads that have passed the increment.
CountKept ==
  /\ code # "sem" => x = Cardinality(Counted)
  /\ code = "sem" => x = 0 /\ \A t \in Counts!Pool : thr[t] \notin {"load", "store"}

\* The threads main has not come to do not exist, and those it has joined have ended.
MainKept ==
  /\ cmain \in {"create", "join"} => k <= NUMTHREADS
  /\ cmain = "create" => \A t \in k..NUMTHREADS : thr[t] = "none"
  /\ cmain = "join" => \A t \in 1..k - 1 : thr[t] \in {"none", "ended"}
  /\ cmain = "returned" => \A t \in Counts!Pool : thr[t] \in {"none", "ended"}

\* What has been printed.
LinesKept ==
  /\ code = "mutex" => Len(prints) = x /\ \A l \in 1..x : prints[l] = l
  /\ code = "join" => IF cmain = "returned" THEN prints = <<x>> ELSE prints = <<>>

\* The inductive invariant of the three programs.
CountsInv == Counts!TypeOK /\ CountLocked /\ CountKept /\ MainKept /\ LinesKept

\* At most NUMTHREADS threads have counted, and a thread that has not counts for one more.
LEMMA CountedFinite ==
  ASSUME Counts!JoinedAssumption
  PROVE  /\ IsFiniteSet(Counted) /\ Cardinality(Counted) \in 0..NUMTHREADS
         /\ \A t \in Counts!Pool \ Counted : Cardinality(Counted \union {t}) = Cardinality(Counted) + 1
         /\ \A t \in Counts!Pool : Cardinality(Counted \union {t}) \in 0..NUMTHREADS
         /\ \A S : Counts!Cardinality(S) = Cardinality(S)
<1>1. IsFiniteSet(1..NUMTHREADS) /\ Cardinality(1..NUMTHREADS) = NUMTHREADS /\ NUMTHREADS \in Nat
  BY FS_Interval DEF Counts!JoinedAssumption
<1>2. ASSUME NEW S, S \subseteq 1..NUMTHREADS
      PROVE  IsFiniteSet(S) /\ Cardinality(S) \in 0..NUMTHREADS
  <2>1. IsFiniteSet(S) /\ Cardinality(S) <= NUMTHREADS
    BY <1>1, <1>2, FS_Subset
  <2>2. Cardinality(S) \in Nat
    BY <2>1, FS_CardinalityType
  <2> QED
    BY <1>1, <2>1, <2>2
<1>3. Counted \subseteq 1..NUMTHREADS
  BY DEF Counted, Counts!Pool
<1>4. IsFiniteSet(Counted) /\ Cardinality(Counted) \in 0..NUMTHREADS
  BY <1>2, <1>3
<1>5. ASSUME NEW t \in Counts!Pool PROVE Cardinality(Counted \union {t}) \in 0..NUMTHREADS
  <2>1. Counted \union {t} \subseteq 1..NUMTHREADS
    BY <1>3 DEF Counts!Pool
  <2> QED
    BY <1>2, <2>1
<1>6. ASSUME NEW t \in Counts!Pool \ Counted
      PROVE  Cardinality(Counted \union {t}) = Cardinality(Counted) + 1
  BY <1>4, FS_AddElement
<1>7. \A S : Counts!Cardinality(S) = Cardinality(S)
  BY DEF Counts!Cardinality, Cardinality
<1> QED
  BY <1>4, <1>5, <1>6, <1>7

\* The store of x++, and in the programs that count nothing else, makes one thread
\* more that has counted.
LEMMA CountedStep ==
  ASSUME Counts!JoinedAssumption, CountsInv
  PROVE  /\ \A t \in Counts!Pool : Counts!Store(t) => /\ t \notin Counted /\ Counted' = Counted \union {t}
                                                     /\ x' = x + 1 /\ code # "sem"
         /\ \A t \in Counts!Pool : Counts!Load(t) \/ Counts!Unlock(t) \/ (Counts!Lock(t) /\ code # "sem") => Counted' = Counted
         /\ Counts!Create \/ Counts!Join \/ Counts!JoinGarbage => Counted' = Counted
<1> USE DEF CountsInv, Counts!TypeOK, Counts!Pool, Counts!Step, Counted, MainKept
<1>1. ASSUME NEW t \in Counts!Pool, Counts!Store(t)
      PROVE  t \notin Counted /\ Counted' = Counted \union {t} /\ x' = x + 1 /\ code # "sem"
  BY <1>1 DEF Counts!Store, CountLocked, CountKept
<1>2. ASSUME NEW t \in Counts!Pool, Counts!Load(t) \/ Counts!Unlock(t) \/ (Counts!Lock(t) /\ code # "sem")
      PROVE  Counted' = Counted
  BY <1>2 DEF Counts!Load, Counts!Unlock, Counts!Lock
<1>3. Counts!Join \/ Counts!JoinGarbage => Counted' = Counted
  BY DEF Counts!Join, Counts!JoinGarbage
<1>4. ASSUME Counts!Create PROVE Counted' = Counted
  <2>1. thr[k] = "none" /\ k \in 1..NUMTHREADS
    BY <1>4 DEF Counts!Create, Counts!JoinedAssumption
  <2>2. \A t \in Counts!Pool : thr'[t] = thr[t] \/ (t = k /\ thr'[t] = "lock")
    BY <1>4, <2>1 DEF Counts!Create
  <2> QED
    BY <2>1, <2>2
<1> QED
  BY <1>1, <1>2, <1>3, <1>4

\* A number printed is one of those up to NUMTHREADS.
LEMMA PrintsAppend ==
  ASSUME Counts!TypeOK, NEW e \in 0..NUMTHREADS
  PROVE  Append(prints, e) \in Seq(0..NUMTHREADS)
<1> DEFINE Numbers == 0..NUMTHREADS
<1>1. prints \in Seq(Numbers) /\ e \in Numbers
  BY DEF Counts!TypeOK
<1> HIDE DEF Numbers
<1>2. Append(prints, e) \in Seq(Numbers)
  BY <1>1
<1> QED
  BY <1>2 DEF Numbers

\* The variables keep their types: no more threads than NUMTHREADS count.
LEMMA CountsTypeStep ==
  ASSUME Counts!JoinedAssumption, CountsInv, [Counts!Next]_(Counts!vars)
  PROVE  Counts!TypeOK'
<1> USE DEF CountsInv, Counts!TypeOK, Counts!JoinedAssumption, Counts!Pool, Counts!Alive, Counts!Joined, Counts!Step,
        CountLocked, CountKept, MainKept
<1>1. CASE Counts!Create
  BY <1>1 DEF Counts!Create
<1>2. CASE Counts!Join
  <2>1. UNCHANGED <<code, x, lock, thr, creg>> /\ k \in 1..NUMTHREADS
    BY <1>2 DEF Counts!Join
  <2>2. k' \in {k, k + 1} /\ cmain' \in {"join", "returned", "crashed"}
    BY <1>2 DEF Counts!Join
  <2>3. prints' = prints \/ prints' = Append(prints, x)
    BY <1>2 DEF Counts!Join
  <2>4. prints' \in Seq(0..NUMTHREADS)
    BY <2>3, PrintsAppend
  <2> QED
    BY <2>1, <2>2, <2>4
<1>3. CASE Counts!JoinGarbage
  <2>1. UNCHANGED <<code, x, lock, thr, creg>> /\ k \in 1..NUMTHREADS
    BY <1>3 DEF Counts!JoinGarbage
  <2>2. k' \in {k, k + 1} /\ cmain' \in {"join", "returned", "crashed"}
    BY <1>3 DEF Counts!JoinGarbage
  <2>3. prints' = prints \/ prints' = Append(prints, x)
    BY <1>3 DEF Counts!JoinGarbage
  <2>4. prints' \in Seq(0..NUMTHREADS)
    BY <2>3, PrintsAppend
  <2> QED
    BY <2>1, <2>2, <2>4
<1>4. ASSUME NEW t \in Counts!Pool, Counts!Lock(t) PROVE Counts!TypeOK'
  BY <1>4 DEF Counts!Lock
<1>5. ASSUME NEW t \in Counts!Pool, Counts!Load(t) PROVE Counts!TypeOK'
  BY <1>5 DEF Counts!Load
<1>6. ASSUME NEW t \in Counts!Pool, Counts!Store(t) PROVE Counts!TypeOK'
  <2>1. x' = Cardinality(Counted \union {t})
    BY <1>6, CountedStep, CountedFinite
  <2>2. x' \in 0..NUMTHREADS
    BY <2>1, CountedFinite
  <2>3. prints' \in Seq(0..NUMTHREADS)
    <3>1. prints' = prints \/ prints' = Append(prints, x')
      BY <1>6 DEF Counts!Store
    <3> QED
      BY <2>2, <3>1, PrintsAppend
  <2>4. lock' \in BOOLEAN
    BY <1>6 DEF Counts!Store
  <2> QED
    BY <1>6, <2>2, <2>3, <2>4 DEF Counts!Store
<1>7. ASSUME NEW t \in Counts!Pool, Counts!Unlock(t) PROVE Counts!TypeOK'
  BY <1>7 DEF Counts!Unlock
<1>8. CASE Counts!Ended
  BY <1>8 DEF Counts!Ended, Counts!vars
<1>9. CASE UNCHANGED Counts!vars
  BY <1>9 DEF Counts!vars
<1> QED
  BY <1>1, <1>2, <1>3, <1>4, <1>5, <1>6, <1>7, <1>8, <1>9
     DEF Counts!Next, Counts!Main, Counts!Thread

\* Lock and unlock pass the lock on.
LEMMA CountLockedStep ==
  ASSUME Counts!JoinedAssumption, CountsInv, [Counts!Next]_(Counts!vars)
  PROVE  CountLocked'
<1> USE DEF CountsInv, Counts!TypeOK, Counts!JoinedAssumption, Counts!Pool, Counts!Alive, Counts!Joined, Counts!Step,
        CountLocked, CountKept, MainKept, Counts!Exclusive
<1>1. CASE Counts!Create
  BY <1>1, SMTT(30) DEF Counts!Create
<1>2. CASE Counts!Join
  BY <1>2 DEF Counts!Join
<1>3. CASE Counts!JoinGarbage
  BY <1>3 DEF Counts!JoinGarbage
<1>4. ASSUME NEW t \in Counts!Pool, Counts!Lock(t) PROVE CountLocked'
  BY <1>4 DEF Counts!Lock
<1>5. ASSUME NEW t \in Counts!Pool, Counts!Load(t) PROVE CountLocked'
  BY <1>5 DEF Counts!Load
<1>6. ASSUME NEW t \in Counts!Pool, Counts!Store(t) PROVE CountLocked'
  BY <1>6 DEF Counts!Store
<1>7. ASSUME NEW t \in Counts!Pool, Counts!Unlock(t) PROVE CountLocked'
  BY <1>7 DEF Counts!Unlock
<1>8. CASE Counts!Ended
  BY <1>8 DEF Counts!Ended, Counts!vars
<1>9. CASE UNCHANGED Counts!vars
  BY <1>9 DEF Counts!vars
<1> QED
  BY <1>1, <1>2, <1>3, <1>4, <1>5, <1>6, <1>7, <1>8, <1>9
     DEF Counts!Next, Counts!Main, Counts!Thread

\* x goes up with the threads that have counted.
LEMMA CountKeptStep ==
  ASSUME Counts!JoinedAssumption, CountsInv, [Counts!Next]_(Counts!vars)
  PROVE  CountKept'
<1> USE DEF CountsInv, Counts!TypeOK, Counts!JoinedAssumption, Counts!Pool, Counts!Alive, Counts!Joined, Counts!Step,
        CountLocked, CountKept, MainKept
<1>1. CASE Counts!Create
  BY <1>1, CountedStep DEF Counts!Create
<1>2. CASE Counts!Join
  BY <1>2, CountedStep DEF Counts!Join
<1>3. CASE Counts!JoinGarbage
  BY <1>3, CountedStep DEF Counts!JoinGarbage
<1>4. ASSUME NEW t \in Counts!Pool, Counts!Lock(t) PROVE CountKept'
  BY <1>4, CountedStep DEF Counts!Lock
<1>5. ASSUME NEW t \in Counts!Pool, Counts!Load(t) PROVE CountKept'
  BY <1>5, CountedStep DEF Counts!Load
<1>6. ASSUME NEW t \in Counts!Pool, Counts!Store(t) PROVE CountKept'
  BY <1>6, CountedStep, CountedFinite DEF Counts!Store
<1>7. ASSUME NEW t \in Counts!Pool, Counts!Unlock(t) PROVE CountKept'
  BY <1>7, CountedStep DEF Counts!Unlock
<1>8. CASE Counts!Ended
  BY <1>8 DEF Counts!Ended, Counts!vars, Counted
<1>9. CASE UNCHANGED Counts!vars
  BY <1>9 DEF Counts!vars, Counted
<1> QED
  BY <1>1, <1>2, <1>3, <1>4, <1>5, <1>6, <1>7, <1>8, <1>9
     DEF Counts!Next, Counts!Main, Counts!Thread

\* Main creates the threads in order and joins them in order.
LEMMA MainKeptStep ==
  ASSUME Counts!JoinedAssumption, CountsInv, [Counts!Next]_(Counts!vars)
  PROVE  MainKept'
<1> USE DEF CountsInv, Counts!TypeOK, Counts!JoinedAssumption, Counts!Pool, Counts!Alive, Counts!Joined, Counts!Step,
        CountLocked, CountKept, MainKept
<1>1. CASE Counts!Create
  BY <1>1 DEF Counts!Create
<1>2. CASE Counts!Join
  BY <1>2, SMTT(30) DEF Counts!Join
<1>3. CASE Counts!JoinGarbage
  BY <1>3 DEF Counts!JoinGarbage
<1>4. ASSUME NEW t \in Counts!Pool, Counts!Lock(t) PROVE MainKept'
  BY <1>4 DEF Counts!Lock
<1>5. ASSUME NEW t \in Counts!Pool, Counts!Load(t) PROVE MainKept'
  <2>1. \A u \in 1..NUMTHREADS : thr[u] \in {"none", "ended"} => thr'[u] = thr[u]
    BY <1>5 DEF Counts!Load
  <2>2. UNCHANGED <<cmain, k>> /\ k \in 1..NUMTHREADS + 1 /\ NUMTHREADS \in Nat /\ MainKept
    BY <1>5 DEF Counts!Load
  <2> HIDE DEF CountsInv, Counts!TypeOK, CountLocked, CountKept
  <2> QED
    BY <2>1, <2>2
<1>6. ASSUME NEW t \in Counts!Pool, Counts!Store(t) PROVE MainKept'
  <2>1. \A u \in 1..NUMTHREADS : thr[u] \in {"none", "ended"} => thr'[u] = thr[u]
    BY <1>6 DEF Counts!Store
  <2>2. UNCHANGED <<cmain, k>> /\ k \in 1..NUMTHREADS + 1 /\ NUMTHREADS \in Nat /\ MainKept
    BY <1>6 DEF Counts!Store
  <2> HIDE DEF CountsInv, Counts!TypeOK, CountLocked, CountKept
  <2> QED
    BY <2>1, <2>2
<1>7. ASSUME NEW t \in Counts!Pool, Counts!Unlock(t) PROVE MainKept'
  BY <1>7 DEF Counts!Unlock
<1>8. CASE Counts!Ended
  BY <1>8 DEF Counts!Ended, Counts!vars
<1>9. CASE UNCHANGED Counts!vars
  BY <1>9 DEF Counts!vars
<1> QED
  BY <1>1, <1>2, <1>3, <1>4, <1>5, <1>6, <1>7, <1>8, <1>9
     DEF Counts!Next, Counts!Main, Counts!Thread

\* mutex.c prints x after each increment, join.c when all threads are joined.
LEMMA LinesKeptStep ==
  ASSUME Counts!JoinedAssumption, CountsInv, [Counts!Next]_(Counts!vars)
  PROVE  LinesKept'
<1> USE DEF CountsInv, Counts!TypeOK, Counts!JoinedAssumption, Counts!Pool, Counts!Alive, Counts!Joined, Counts!Step,
        CountLocked, CountKept, MainKept, LinesKept
<1>1. CASE Counts!Create
  BY <1>1 DEF Counts!Create
<1>2. CASE Counts!Join
  <2>1. UNCHANGED <<code, x>> /\ cmain = "join"
    BY <1>2 DEF Counts!Join
  <2>2. prints' = IF cmain' = "returned" /\ code = "join" THEN Append(prints, x) ELSE prints
    BY <1>2 DEF Counts!Join
  <2>3. Append(<<>>, x) = <<x>>
    OBVIOUS
  <2> QED
    BY <2>1, <2>2, <2>3
<1>3. CASE Counts!JoinGarbage
  <2>1. UNCHANGED <<code, x>> /\ cmain = "join"
    BY <1>3 DEF Counts!JoinGarbage
  <2>2. prints' = IF cmain' = "returned" /\ code = "join" THEN Append(prints, x) ELSE prints
    BY <1>3 DEF Counts!JoinGarbage
  <2>3. Append(<<>>, x) = <<x>>
    OBVIOUS
  <2> QED
    BY <2>1, <2>2, <2>3
<1>4. ASSUME NEW t \in Counts!Pool, Counts!Lock(t) PROVE LinesKept'
  BY <1>4 DEF Counts!Lock
<1>5. ASSUME NEW t \in Counts!Pool, Counts!Load(t) PROVE LinesKept'
  BY <1>5 DEF Counts!Load
<1>6. ASSUME NEW t \in Counts!Pool, Counts!Store(t) PROVE LinesKept'
  BY <1>6 DEF Counts!Store
<1>7. ASSUME NEW t \in Counts!Pool, Counts!Unlock(t) PROVE LinesKept'
  BY <1>7 DEF Counts!Unlock
<1>8. CASE Counts!Ended
  BY <1>8 DEF Counts!Ended, Counts!vars
<1>9. CASE UNCHANGED Counts!vars
  BY <1>9 DEF Counts!vars
<1> QED
  BY <1>1, <1>2, <1>3, <1>4, <1>5, <1>6, <1>7, <1>8, <1>9
     DEF Counts!Next, Counts!Main, Counts!Thread

\* There are no threads at the start.
LEMMA CountsInitially == ASSUME Counts!JoinedAssumption, Counts!Init PROVE CountsInv
<1>1. lock = TRUE /\ \A t \in Counts!Pool : thr[t] = "none"
  BY DEF Counts!Init
<1>2. Counts!TypeOK
  <2>1. lock \in BOOLEAN
    BY <1>1
  <2>2. prints \in Seq(0..NUMTHREADS)
    BY DEF Counts!Init
  <2> QED
    BY <2>1, <2>2 DEF Counts!Init, Counts!TypeOK, Counts!JoinedAssumption
<1>3. CountLocked
  BY <1>1 DEF CountLocked, Counts!Exclusive
<1>4. Counted = {} /\ Cardinality({}) = 0
  BY <1>1, FS_EmptySet DEF Counted
<1>5. CountKept
  BY <1>1, <1>4 DEF CountKept, Counts!Init
<1>6. MainKept /\ LinesKept
  BY <1>1 DEF Counts!Init, Counts!JoinedAssumption, Counts!Pool, MainKept, LinesKept
<1> QED
  BY <1>2, <1>3, <1>5, <1>6 DEF CountsInv

\* Every step of the three programs preserves their invariant.
LEMMA CountsStep ==
  ASSUME Counts!JoinedAssumption, CountsInv, [Counts!Next]_(Counts!vars)
  PROVE  CountsInv'
  BY CountsTypeStep, CountLockedStep, CountKeptStep, MainKeptStep, LinesKeptStep DEF CountsInv

\* What the invariant says of a program that has returned.
LEMMA CountsPromises == ASSUME Counts!JoinedAssumption, CountsInv PROVE Counts!AllCounted
<1> SUFFICES ASSUME cmain = "returned" PROVE Counts!AllCounted
  BY DEF Counts!AllCounted
<1>1. \A t \in Counts!Pool : thr[t] \in {"none", "ended"}
  BY DEF CountsInv, MainKept
<1>2. Counts!Created = Counted
  BY <1>1 DEF Counts!Created, Counted
<1>3. code # "sem" => x = Counts!Cardinality(Counts!Created)
  BY <1>2, CountedFinite DEF CountsInv, CountKept
<1>4. \A t \in Counts!Created : thr[t] = "ended"
  BY <1>1 DEF Counts!Created
<1>5. code = "join" => prints = <<x>>
  BY DEF CountsInv, LinesKept
<1>6. code = "mutex" => prints = [l \in 1..x |-> l]
  BY DEF CountsInv, Counts!TypeOK, LinesKept
<1> QED
  BY <1>3, <1>4, <1>5, <1>6 DEF Counts!AllCounted

-----------------------------------------------------------------------------
(* linkedlist.c *)

\* Between sem_wait and sem_post.
Pushing == {"link", "head", "count", "post"}

\* The semaphore is 0 while one thread is between its two calls, and never two are;
\* main goes on when all of them have ended.
ListLocked ==
  /\ lat \in [Pushers -> {"alloc", "wait", "ended"} \union Pushing]
  /\ li \in [Pushers -> 1..PUSHES + 1]
  /\ lsem \in {0, 1} /\ size \in Nat
  /\ main \in {"join", "walk", "free", "ended"}
  /\ \A t \in Pushers : lat[t] # "ended" => li[t] <= PUSHES
  /\ lsem = 1 <=> \A t \in Pushers : lat[t] \notin Pushing
  /\ \A t, u \in Pushers : {lat[t], lat[u]} \subseteq Pushing => t = u
  /\ main # "join" => \A t \in Pushers : lat[t] = "ended"

\* The nodes on the list; the thread about to count has put one there already.
Length == size + (IF \E t \in Pushers : lat[t] = "count" THEN 1 ELSE 0)

\* What the threads have allocated and not yet put on the list.
InHand == {Locked!Mine(t) : t \in {u \in Pushers : lat[u] \in {"wait", "link", "head"}}}

\* The node at a place of the list L, or the NULL behind it.
NodeAt(L, e) == IF e \in 1..Length THEN L[e] ELSE Locked!NULL

\* Head and the links lead through L, and tail is its last node.
Chained(L) ==
  /\ next \in [Locked!Nodes -> Locked!Nodes \union {Locked!NULL}]
  /\ head = NodeAt(L, 1)
  /\ \A e \in 1..Length : next[L[e]] = NodeAt(L, e + 1)
  /\ \A t \in Pushers : lat[t] = "head" => next[Locked!Mine(t)] = head
  /\ \A t \in Pushers : lat[t] \in {"count", "post"} => Length > 0 /\ L[1] = Locked!Mine(t)
  /\ size > 0 => tail = L[Length]

\* Newer nodes of a thread come before older ones, and none of them comes twice; the
\* node a thread is about is on the list from the store of head on.
NewestFirst(L) ==
  /\ \A e, f \in 1..Length :
       e < f => L[e] # L[f] /\ (L[e][1] = L[f][1] => L[e][2] > L[f][2])
  /\ \A e \in 1..Length :
       /\ L[e][2] <= li[L[e][1]]
       /\ L[e][2] = li[L[e][1]] => lat[L[e][1]] \in {"count", "post"}

\* What is allocated is on the list or in a thread's hand, and main's walks are
\* through the list.
Walking(L) ==
  /\ main = "join" =>
       walked = <<>> /\ made = {L[e] : e \in 1..Length} \union InHand
  /\ main = "walk" =>
       /\ made = {L[e] : e \in 1..Length}
       /\ walked \in Seq(Locked!Nodes) /\ Len(walked) <= Length
       /\ \A e \in 1..Len(walked) : walked[e] = L[e]
       /\ node = NodeAt(L, Len(walked) + 1)
  /\ main = "free" =>
       /\ walked \in Seq(Locked!Nodes) /\ Len(walked) = Length
       /\ \A e \in 1..Length : walked[e] = L[e]
       /\ \E f \in 1..Length + 1 : /\ node = NodeAt(L, f)
                                   /\ made = {L[e] : e \in f..Length}
  /\ main = "ended" => made = {}

\* The inductive invariant of linkedlist.c: there is a list.
LockedInv ==
  ListLocked /\ \E L \in [1..Length -> Locked!Nodes] : Chained(L) /\ NewestFirst(L) /\ Walking(L)

\* sem_wait and sem_post pass the semaphore on.
LEMMA ListLockedStep ==
  ASSUME Locked!ListAssumption, ListLocked, [Locked!Next]_(Locked!vars)
  PROVE  ListLocked'
<1> USE DEF ListLocked, Pushing, Locked!ListAssumption, Locked!Goto, Locked!NextPush
<1>1. ASSUME NEW t \in Pushers, Locked!Alloc(t) PROVE ListLocked'
  BY <1>1 DEF Locked!Alloc
<1>2. ASSUME NEW t \in Pushers, Locked!AllocFails(t) PROVE ListLocked'
  BY <1>2 DEF Locked!AllocFails
<1>3. ASSUME NEW t \in Pushers, Locked!SemWait(t) PROVE ListLocked'
  BY <1>3 DEF Locked!SemWait
<1>4. ASSUME NEW t \in Pushers, Locked!Link(t) PROVE ListLocked'
  BY <1>4 DEF Locked!Link
<1>5. ASSUME NEW t \in Pushers, Locked!SetHead(t) PROVE ListLocked'
  BY <1>5 DEF Locked!SetHead
<1>6. ASSUME NEW t \in Pushers, Locked!Count(t) PROVE ListLocked'
  BY <1>6 DEF Locked!Count
<1>7. ASSUME NEW t \in Pushers, Locked!SemPost(t) PROVE ListLocked'
  BY <1>7 DEF Locked!SemPost
<1>8. CASE Locked!Join
  BY <1>8 DEF Locked!Join
<1>9. CASE Locked!Walk
  BY <1>9 DEF Locked!Walk
<1>10. CASE Locked!Free
  BY <1>10 DEF Locked!Free
<1>11. CASE Locked!Ended
  BY <1>11 DEF Locked!Ended, Locked!vars
<1>12. CASE UNCHANGED Locked!vars
  BY <1>12 DEF Locked!vars
<1> QED
  BY <1>1, <1>2, <1>3, <1>4, <1>5, <1>6, <1>7, <1>8, <1>9, <1>10, <1>11, <1>12
     DEF Locked!Next, Locked!Main, Locked!Pusher

\* Only the store of head makes the list longer.
LEMMA LengthStep ==
  ASSUME Locked!ListAssumption, ListLocked
  PROVE  /\ Length \in Nat
         /\ \A t \in Pushers : Locked!SetHead(t) => Length' = Length + 1 /\ Length = size
         /\ \A t \in Pushers : lat[t] = "count" => Length = size + 1
         /\ (\A t \in Pushers : lat[t] # "count") => Length = size
         /\ \A t \in Pushers : Locked!Pusher(t) /\ ~Locked!SetHead(t) => Length' = Length
         /\ Locked!Main => Length' = Length
<1> USE DEF ListLocked, Pushing, Locked!ListAssumption, Locked!Goto, Locked!NextPush, Length
<1>1. ASSUME NEW t \in Pushers, Locked!SetHead(t) PROVE Length' = Length + 1 /\ Length = size
  BY <1>1 DEF Locked!SetHead
<1>2. ASSUME NEW t \in Pushers, Locked!Count(t) PROVE Length' = Length
  BY <1>2 DEF Locked!Count
<1>3. ASSUME NEW t \in Pushers, Locked!Alloc(t) \/ Locked!AllocFails(t) \/ Locked!SemWait(t)
      PROVE  Length' = Length
  BY <1>3 DEF Locked!Alloc, Locked!AllocFails, Locked!SemWait
<1>4. ASSUME NEW t \in Pushers, Locked!Link(t) \/ Locked!SemPost(t) PROVE Length' = Length
  BY <1>4 DEF Locked!Link, Locked!SemPost
<1>5. ASSUME Locked!Main PROVE Length' = Length
  BY <1>5 DEF Locked!Main, Locked!Join, Locked!Walk, Locked!Free
<1>6. /\ Length \in Nat
      /\ \A t \in Pushers : lat[t] = "count" => Length = size + 1
      /\ (\A t \in Pushers : lat[t] # "count") => Length = size
  OBVIOUS
<1> HIDE DEF Length
<1> QED
  BY <1>1, <1>2, <1>3, <1>4, <1>5, <1>6 DEF Locked!Pusher

\* What the steps of a thread do to the nodes in the threads' hands.
LEMMA InHandStep ==
  ASSUME ListLocked, NEW t \in Pushers
  PROVE  /\ Locked!Alloc(t) => InHand' = InHand \union {Locked!Mine(t)}
         /\ Locked!SetHead(t) => InHand = InHand' \union {Locked!Mine(t)}
         /\ Locked!AllocFails(t) \/ Locked!SemWait(t) \/ Locked!Link(t) \/ Locked!Count(t) \/ Locked!SemPost(t)
              => InHand' = InHand
<1> DEFINE Has(u) == lat[u] \in {"wait", "link", "head"}
<1>1. /\ \A y : y \in InHand <=> \E u \in Pushers : Has(u) /\ y = <<u, li[u]>>
      /\ \A y : y \in InHand' <=> \E u \in Pushers : Has(u)' /\ y = <<u, li'[u]>>
  BY DEF InHand, Locked!Mine
<1> USE DEF ListLocked, Pushing, Locked!Goto, Locked!NextPush
<1>2. ASSUME Locked!Alloc(t)
      PROVE  \A u \in Pushers : li'[u] = li[u] /\ (Has(u)' <=> Has(u) \/ u = t)
  BY <1>2 DEF Locked!Alloc
<1>3. ASSUME Locked!SetHead(t)
      PROVE  Has(t) /\ \A u \in Pushers : li'[u] = li[u] /\ (Has(u)' <=> Has(u) /\ u # t)
  BY <1>3 DEF Locked!SetHead
<1>4. ASSUME Locked!AllocFails(t) \/ Locked!SemPost(t)
      PROVE  \A u \in Pushers : (Has(u)' <=> Has(u)) /\ (Has(u) => li'[u] = li[u])
  BY <1>4 DEF Locked!AllocFails, Locked!SemPost
<1>5. ASSUME Locked!SemWait(t) \/ Locked!Link(t) \/ Locked!Count(t)
      PROVE  \A u \in Pushers : (Has(u)' <=> Has(u)) /\ (Has(u) => li'[u] = li[u])
  BY <1>5 DEF Locked!SemWait, Locked!Link, Locked!Count
<1> HIDE DEF Has, ListLocked
<1>6. ASSUME Locked!Alloc(t) PROVE InHand' = InHand \union {Locked!Mine(t)}
  BY <1>1, <1>2, <1>6 DEF Locked!Mine
<1>7. ASSUME Locked!SetHead(t) PROVE InHand = InHand' \union {Locked!Mine(t)}
  BY <1>1, <1>3, <1>7 DEF Locked!Mine
<1>8. ASSUME Locked!AllocFails(t) \/ Locked!SemWait(t) \/ Locked!Link(t) \/ Locked!Count(t) \/ Locked!SemPost(t)
      PROVE  InHand' = InHand
  <2>1. \A u \in Pushers : (Has(u)' <=> Has(u)) /\ (Has(u) => li'[u] = li[u])
    BY <1>4, <1>5, <1>8
  <2> QED
    BY <1>1, <2>1
<1> QED
  BY <1>6, <1>7, <1>8

\* A node a thread is about to push is not yet on the list, and is no NULL.
LEMMA MineIsNew ==
  ASSUME Locked!ListAssumption, ListLocked, NEW L \in [1..Length -> Locked!Nodes], NewestFirst(L),
         NEW t \in Pushers, lat[t] # "ended"
  PROVE  /\ Locked!Mine(t) \in Locked!Nodes /\ Locked!NULL \notin Locked!Nodes
         /\ lat[t] \notin {"count", "post"} => \A e \in 1..Length : L[e] # Locked!Mine(t)
<1>1. Locked!Mine(t) \in Locked!Nodes
  BY DEF ListLocked, Locked!Mine, Locked!Nodes
<1>2. Locked!NULL \notin Locked!Nodes
  BY DEF Locked!NULL, Locked!Nodes
<1>3. ASSUME lat[t] \notin {"count", "post"}, NEW e \in 1..Length, L[e] = Locked!Mine(t) PROVE FALSE
  BY <1>3 DEF NewestFirst, Locked!Mine
<1> QED
  BY <1>1, <1>2, <1>3

\* A step of a thread other than the store of head leaves the list as it is.
LEMMA SameListStep ==
  ASSUME Locked!ListAssumption, ListLocked, NEW L \in [1..Length -> Locked!Nodes],
         Chained(L), NewestFirst(L), Walking(L), NEW t \in Pushers, Locked!Pusher(t), ~Locked!SetHead(t)
  PROVE  Length' = Length /\ Chained(L)' /\ NewestFirst(L)' /\ Walking(L)'
<1>1. Length' = Length /\ Length \in Nat
  BY LengthStep
<1>2. \A e : NodeAt(L, e)' = NodeAt(L, e)
  BY <1>1 DEF NodeAt
<1>3. /\ Locked!Mine(t) \in Locked!Nodes /\ lat[t] # "ended"
      /\ lat[t] \notin {"count", "post"} => \A e \in 1..Length : L[e] # Locked!Mine(t)
  <2>1. lat[t] # "ended"
    BY DEF Locked!Pusher, Locked!Alloc, Locked!AllocFails, Locked!SemWait, Locked!Link, Locked!SetHead,
       Locked!Count, Locked!SemPost
  <2> QED
    BY <2>1, MineIsNew
<1>4. main = "join" /\ main' = "join" /\ walked' = walked
  BY <1>3 DEF ListLocked, Locked!Pusher, Locked!Alloc, Locked!AllocFails, Locked!SemWait, Locked!Link, Locked!SetHead,
       Locked!Count, Locked!SemPost
<1>5. \A u \in Pushers : u # t => /\ lat'[u] = lat[u] /\ li'[u] = li[u]
                                  /\ Locked!Mine(u)' = Locked!Mine(u)
  BY DEF ListLocked, Locked!Pusher, Locked!Alloc, Locked!AllocFails, Locked!SemWait, Locked!Link, Locked!SetHead,
       Locked!Count, Locked!SemPost, Locked!Goto, Locked!NextPush, Locked!Mine
<1>6. /\ li'[t] \in {li[t], li[t] + 1} /\ li[t] \in Nat /\ (li'[t] = li[t] => Locked!Mine(t)' = Locked!Mine(t))
      /\ lat[t] \in {"count", "post"} => li'[t] = li[t] + 1 \/ lat'[t] = "post"
  BY DEF ListLocked, Locked!Pusher, Locked!Alloc, Locked!AllocFails, Locked!SemWait, Locked!Link, Locked!SetHead,
       Locked!Count, Locked!SemPost, Locked!Goto, Locked!NextPush, Locked!Mine
<1>7. /\ \A e \in 1..Length : L[e] \in Locked!Nodes
      /\ \A e \in 1..Length : L[e][1] \in Pushers /\ L[e][2] \in Nat
  BY DEF Locked!Nodes
<1> HIDE DEF Length, NodeAt, Locked!Nodes
<1>8. NewestFirst(L)'
  <2>1. \A e \in 1..Length : /\ L[e][2] <= li'[L[e][1]]
                             /\ L[e][2] = li'[L[e][1]] => lat'[L[e][1]] \in {"count", "post"}
    BY <1>5, <1>6, <1>7 DEF NewestFirst
  <2> QED
    BY <1>1, <2>1 DEF NewestFirst
<1>9. Walking(L)'
  <2>1. CASE Locked!Alloc(t)
    BY <1>1, <1>4, <2>1, InHandStep DEF Walking, Locked!Alloc
  <2>2. CASE ~Locked!Alloc(t)
    <3>1. InHand' = InHand
      BY <2>2, InHandStep DEF Locked!Pusher
    <3>2. made' = made
      BY <2>2 DEF Locked!Pusher, Locked!AllocFails, Locked!SemWait, Locked!Link, Locked!Count, Locked!SemPost
    <3> QED
      BY <1>1, <1>4, <3>1, <3>2 DEF Walking
  <2> QED
    BY <2>1, <2>2
<1>10. Chained(L)'
  <2> USE DEF ListLocked, Pushing, Chained, Locked!Goto, Locked!NextPush
  <2>1. CASE Locked!Alloc(t)
    BY <1>1, <1>2, <1>5, <1>6, <2>1 DEF Locked!Alloc
  <2>2. CASE Locked!AllocFails(t)
    BY <1>1, <1>2, <1>5, <1>6, <2>2 DEF Locked!AllocFails
  <2>3. CASE Locked!SemWait(t)
    BY <1>1, <1>2, <1>5, <1>6, <2>3 DEF Locked!SemWait
  <2>4. CASE Locked!Link(t)
    <3>1. head \in Locked!Nodes \union {Locked!NULL}
      BY <1>7 DEF NodeAt
    <3>2. /\ next' \in [Locked!Nodes -> Locked!Nodes \union {Locked!NULL}]
          /\ next'[Locked!Mine(t)] = head
          /\ \A e \in 1..Length : next'[L[e]] = next[L[e]]
      BY <1>3, <1>7, <2>4, <3>1 DEF Locked!Link
    <3>3. /\ lat'[t] = "head" /\ UNCHANGED <<head, tail, size>>
          /\ \A u \in Pushers : u # t => lat[u] # "head" /\ lat[u] \notin {"count", "post"}
      BY <2>4 DEF Locked!Link
    <3> QED
      BY <1>1, <1>2, <1>5, <1>6, <2>4, <3>2, <3>3 DEF Locked!Link
  <2>5. CASE Locked!Count(t)
    BY <1>1, <1>2, <1>5, <1>6, <2>5, LengthStep DEF Locked!Count
  <2>6. CASE Locked!SemPost(t)
    BY <1>1, <1>2, <1>5, <1>6, <2>6 DEF Locked!SemPost
  <2> QED
    BY <2>1, <2>2, <2>3, <2>4, <2>5, <2>6 DEF Locked!Pusher
<1> QED
  BY <1>1, <1>8, <1>9, <1>10

\* The store of head puts the thread's node before the others.
LEMMA SetHeadStep ==
  ASSUME Locked!ListAssumption, ListLocked, NEW L \in [1..Length -> Locked!Nodes],
         Chained(L), NewestFirst(L), Walking(L), NEW t \in Pushers, Locked!SetHead(t)
  PROVE  \E R \in [1..Length' -> Locked!Nodes] : Chained(R)' /\ NewestFirst(R)' /\ Walking(R)'
<1>1. Length' = Length + 1 /\ Length \in Nat /\ Length = size
  BY LengthStep
<1>2. /\ lat[t] = "head" /\ lat'[t] = "count" /\ head' = Locked!Mine(t)
      /\ UNCHANGED <<tail, size, next, li, made, main, walked>>
      /\ \A u \in Pushers : u # t => lat'[u] = lat[u] /\ lat[u] \notin Pushing
  BY DEF ListLocked, Locked!SetHead, Locked!Goto, Pushing
<1>3. main = "join"
  BY <1>2 DEF ListLocked
<1>4. /\ Locked!Mine(t) \in Locked!Nodes
      /\ \A e \in 1..Length : L[e] # Locked!Mine(t)
  BY <1>2, MineIsNew
<1>5. \A u \in Pushers : Locked!Mine(u)' = Locked!Mine(u)
  BY <1>2 DEF Locked!Mine
<1>6. InHand = InHand' \union {Locked!Mine(t)}
  BY InHandStep
<1> DEFINE R == [e \in 1..Length + 1 |-> IF e = 1 THEN Locked!Mine(t) ELSE L[e - 1]]
<1> HIDE DEF Length, Locked!Nodes
<1>7. /\ R \in [1..Length + 1 -> Locked!Nodes] /\ R[1] = Locked!Mine(t)
      /\ \A e \in 1..Length : R[e + 1] = L[e]
      /\ \A e \in 2..Length + 1 : R[e] = L[e - 1] /\ e - 1 \in 1..Length
  BY <1>1, <1>4
<1> HIDE DEF R
<1>8. PICK Q : Q = R
  OBVIOUS
<1>9. /\ \A e \in 1..Length + 1 : NodeAt(Q, e)' = Q[e]
      /\ \A e \in Int : e \notin 1..Length + 1 => NodeAt(Q, e)' = Locked!NULL
      /\ \A e \in 1..Length : NodeAt(L, e) = L[e]
      /\ \A e \in Int : e \notin 1..Length => NodeAt(L, e) = Locked!NULL
  BY <1>1 DEF NodeAt
<1> HIDE DEF NodeAt
<1>10. Chained(Q)'
  <2>1. next \in [Locked!Nodes -> Locked!Nodes \union {Locked!NULL}]
    BY DEF Chained
  <2>2. \A e \in 1..Length + 1 : next[Q[e]] = NodeAt(Q, e + 1)'
    <3>1. \A e \in 0..Length : NodeAt(L, e + 1) = NodeAt(Q, e + 2)'
      <4> SUFFICES ASSUME NEW e \in 0..Length PROVE NodeAt(L, e + 1) = NodeAt(Q, e + 2)'
        OBVIOUS
      <4>1. CASE e = Length
        BY <1>1, <1>9, <4>1
      <4>2. CASE e # Length
        <5>1. e + 1 \in 1..Length /\ e + 2 \in 1..Length + 1 /\ Q[(e + 1) + 1] = L[e + 1]
          BY <1>1, <1>7, <1>8, <4>2
        <5> QED
          BY <1>9, <5>1
      <4> QED
        BY <4>1, <4>2
    <3>2. next[Locked!Mine(t)] = NodeAt(L, 1)
      BY <1>2 DEF Chained
    <3>3. NodeAt(L, 1) = NodeAt(Q, 2)'
      BY <1>1, <3>1
    <3>4. ASSUME NEW e \in 2..Length + 1 PROVE next[Q[e]] = NodeAt(Q, e + 1)'
      <4>1. e - 1 \in 1..Length /\ Q[e] = L[e - 1]
        BY <1>7, <1>8
      <4>2. next[L[e - 1]] = NodeAt(L, (e - 1) + 1)
        BY <4>1 DEF Chained
      <4>3. NodeAt(L, (e - 1) + 1) = NodeAt(Q, (e - 1) + 2)'
        BY <1>1, <3>1, <4>1
      <4>4. (e - 1) + 2 = e + 1
        BY <1>1
      <4> QED
        BY <4>1, <4>2, <4>3, <4>4
    <3> QED
      BY <1>1, <1>7, <1>8, <3>2, <3>3, <3>4
  <2>3. head' = NodeAt(Q, 1)'
    BY <1>1, <1>2, <1>7, <1>8, <1>9
  <2>4. size > 0 => tail = Q[Length + 1]
    BY <1>1, <1>7, <1>8 DEF Chained
  <2>5. \A u \in Pushers : lat'[u] # "head" /\ (lat'[u] \in {"count", "post"} => u = t)
    BY <1>2 DEF Pushing
  <2>6. \A u \in Pushers : lat'[u] \in {"count", "post"} => Length + 1 > 0 /\ Q[1] = Locked!Mine(u)'
    BY <1>1, <1>5, <1>7, <1>8, <2>5
  <2>7. UNCHANGED <<tail, size, next>>
    BY <1>2
  <2> QED
    BY <1>1, <2>1, <2>2, <2>3, <2>4, <2>5, <2>6, <2>7 DEF Chained
<1>11. NewestFirst(Q)'
  <2>1. Locked!Mine(t) = <<t, li[t]>> /\ li[t] \in Nat
    BY DEF Locked!Mine, ListLocked
  <2>2. \A e \in 1..Length : /\ L[e][2] \in Nat /\ L[e][1] \in Pushers /\ li[L[e][1]] \in Nat
                             /\ L[e][2] <= li[L[e][1]]
                             /\ L[e][2] = li[L[e][1]] => lat[L[e][1]] \in {"count", "post"}
    BY DEF Locked!Nodes, NewestFirst, ListLocked
  <2>3. \A e \in 1..Length : L[e][1] = t => L[e][2] < li[t]
    BY <1>2, <2>1, <2>2
  <2>4. ASSUME NEW e \in 1..Length + 1, NEW f \in 1..Length + 1, e < f
        PROVE  Q[e] # Q[f] /\ (Q[e][1] = Q[f][1] => Q[e][2] > Q[f][2])
    <3>1. Q[f] = L[f - 1] /\ f - 1 \in 1..Length
      BY <1>1, <1>7, <1>8, <2>4
    <3>2. CASE e = 1
      BY <1>4, <1>7, <1>8, <2>1, <2>2, <2>3, <3>1, <3>2
    <3>3. CASE e # 1
      <4>1. Q[e] = L[e - 1] /\ e - 1 \in 1..Length /\ e - 1 < f - 1
        BY <1>1, <1>7, <1>8, <2>4, <3>3
      <4> QED
        BY <3>1, <4>1 DEF NewestFirst
    <3> QED
      BY <3>2, <3>3
  <2>5. ASSUME NEW e \in 1..Length + 1
        PROVE  /\ Q[e][2] <= li[Q[e][1]]
               /\ Q[e][2] = li[Q[e][1]] => lat'[Q[e][1]] \in {"count", "post"}
    <3>1. CASE e = 1
      BY <1>2, <1>7, <1>8, <2>1, <3>1
    <3>2. CASE e # 1
      <4>1. Q[e] = L[e - 1] /\ e - 1 \in 1..Length
        BY <1>1, <1>7, <1>8, <3>2
      <4> QED
        BY <1>2, <2>2, <2>3, <4>1 DEF Pushing
    <3> QED
      BY <3>1, <3>2
  <2> QED
    BY <1>1, <1>2, <2>4, <2>5 DEF NewestFirst
<1>12. Walking(Q)'
  <2>1. {Q[e] : e \in 1..Length + 1} = {L[e] : e \in 1..Length} \union {Locked!Mine(t)}
    <3>1. ASSUME NEW e \in 1..Length + 1 PROVE Q[e] \in {L[f] : f \in 1..Length} \union {Locked!Mine(t)}
      BY <1>1, <1>7, <1>8
    <3>2. ASSUME NEW e \in 1..Length PROVE L[e] \in {Q[f] : f \in 1..Length + 1}
      BY <1>1, <1>7, <1>8
    <3>3. Locked!Mine(t) \in {Q[f] : f \in 1..Length + 1}
      BY <1>1, <1>7, <1>8
    <3> QED
      BY <3>1, <3>2, <3>3
  <2>2. made = {L[e] : e \in 1..Length} \union InHand /\ walked = <<>>
    BY <1>3 DEF Walking
  <2>3. made = {Q[e] : e \in 1..Length + 1} \union InHand'
    BY <1>6, <2>1, <2>2
  <2> QED
    BY <1>1, <1>2, <1>3, <2>2, <2>3 DEF Walking
<1> QED
  BY <1>1, <1>7, <1>8, <1>10, <1>11, <1>12

\* Main joins the threads, walks the list and frees it.
LEMMA WalkStep ==
  ASSUME Locked!ListAssumption, ListLocked, NEW L \in [1..Length -> Locked!Nodes],
         Chained(L), NewestFirst(L), Walking(L), Locked!Main
  PROVE  Length' = Length /\ Chained(L)' /\ NewestFirst(L)' /\ Walking(L)'
<1>1. Length' = Length /\ Length \in Nat
  BY LengthStep
<1>2. UNCHANGED <<head, tail, size, next, lat, li>>
  BY DEF Locked!Main, Locked!Join, Locked!Walk, Locked!Free
<1>3. \A e : NodeAt(L, e)' = NodeAt(L, e)
  BY <1>1 DEF NodeAt
<1>4. \A u \in Pushers : Locked!Mine(u)' = Locked!Mine(u)
  BY <1>2 DEF Locked!Mine
<1>5. Locked!NULL \notin Locked!Nodes
  BY DEF Locked!NULL, Locked!Nodes
<1>6. /\ \A e \in 1..Length : NodeAt(L, e) = L[e] /\ L[e] \in Locked!Nodes /\ next[L[e]] = NodeAt(L, e + 1)
      /\ \A e \in Int : e \notin 1..Length => NodeAt(L, e) = Locked!NULL
      /\ head = NodeAt(L, 1)
  BY DEF NodeAt, Chained
<1> HIDE DEF Length, NodeAt, Locked!Nodes, Locked!NULL
<1>7. Chained(L)'
  BY <1>1, <1>2, <1>3, <1>4 DEF Chained
<1>8. NewestFirst(L)'
  BY <1>1, <1>2 DEF NewestFirst
<1>9. ASSUME Locked!Join PROVE Walking(L)'
  <2>1. InHand = {}
    BY <1>9 DEF Locked!Join, InHand
  <2>2. made = {L[e] : e \in 1..Length} /\ walked = <<>> /\ main = "join"
    BY <1>9, <2>1 DEF Locked!Join, Walking
  <2>3. walked \in Seq(Locked!Nodes) /\ Len(walked) = 0
    BY <2>2
  <2>4. main' = "walk" /\ node' = NodeAt(L, 1) /\ made' = made /\ walked' = walked
    BY <1>6, <1>9 DEF Locked!Join
  <2> QED
    BY <1>1, <1>3, <2>2, <2>3, <2>4 DEF Walking
<1>10. ASSUME Locked!Walk PROVE Walking(L)'
  <2>1. /\ main = "walk" /\ made = {L[e] : e \in 1..Length}
        /\ walked \in Seq(Locked!Nodes) /\ Len(walked) <= Length
        /\ \A e \in 1..Len(walked) : walked[e] = L[e]
        /\ node = NodeAt(L, Len(walked) + 1) /\ Len(walked) \in Nat
    BY <1>10 DEF Locked!Walk, Walking
  <2>2. CASE node # Locked!NULL
    <3>1. Len(walked) + 1 \in 1..Length
      BY <1>1, <1>6, <2>1, <2>2
    <3>2. /\ walked' = Append(walked, node) /\ node \in Locked!Nodes /\ node = L[Len(walked) + 1]
          /\ node' = NodeAt(L, (Len(walked) + 1) + 1) /\ main' = "walk" /\ made' = made
      BY <1>6, <1>10, <2>1, <2>2, <3>1 DEF Locked!Walk
    <3>3. /\ walked' \in Seq(Locked!Nodes) /\ Len(walked') = Len(walked) + 1
          /\ \A e \in 1..Len(walked) : walked'[e] = walked[e]
          /\ walked'[Len(walked) + 1] = node
      BY <2>1, <3>2, AppendProperties
    <3>4. \A e \in 1..Len(walked') : walked'[e] = L[e]
      BY <2>1, <3>2, <3>3
    <3> QED
      BY <1>1, <1>3, <2>1, <3>1, <3>2, <3>3, <3>4 DEF Walking
  <2>3. CASE node = Locked!NULL
    <3>1. Len(walked) = Length
      <4>1. Len(walked) + 1 \notin 1..Length
        BY <1>5, <1>6, <2>1, <2>3
      <4> QED
        BY <1>1, <2>1, <4>1
    <3>2. main' = "free" /\ node' = NodeAt(L, 1) /\ made' = made /\ walked' = walked
      BY <1>6, <1>10, <2>3 DEF Locked!Walk
    <3> QED
      BY <1>1, <1>3, <2>1, <3>1, <3>2 DEF Walking
  <2> QED
    BY <2>2, <2>3
<1>11. ASSUME Locked!Free PROVE Walking(L)'
  <2>1. /\ main = "free" /\ walked \in Seq(Locked!Nodes) /\ Len(walked) = Length
        /\ \A e \in 1..Length : walked[e] = L[e]
        /\ \E f \in 1..Length + 1 : node = NodeAt(L, f) /\ made = {L[e] : e \in f..Length}
    BY <1>11 DEF Locked!Free, Walking
  <2>2. PICK f \in 1..Length + 1 : node = NodeAt(L, f) /\ made = {L[e] : e \in f..Length}
    BY <2>1
  <2>3. CASE node # Locked!NULL
    <3>1. f \in 1..Length
      BY <1>1, <1>6, <2>2, <2>3
    <3>2. /\ made' = made \ {L[f]} /\ node' = NodeAt(L, f + 1) /\ main' = "free" /\ walked' = walked
      BY <1>6, <1>11, <2>1, <2>2, <2>3, <3>1 DEF Locked!Free
    <3>3. \A e \in f + 1..Length : L[e] # L[f]
      BY <1>1, <3>1 DEF NewestFirst
    <3>4. made \ {L[f]} = {L[e] : e \in f + 1..Length}
      BY <1>1, <2>2, <3>1, <3>3
    <3>5. f + 1 \in 1..Length + 1
      BY <1>1, <3>1
    <3> QED
      BY <1>1, <1>3, <2>1, <3>2, <3>4, <3>5, ZenonT(60) DEF Walking
  <2>4. CASE node = Locked!NULL
    <3>1. f = Length + 1
      <4>1. f \notin 1..Length
        BY <1>5, <1>6, <2>2, <2>4
      <4> QED
        BY <1>1, <4>1
    <3>2. made = {}
      BY <1>1, <2>2, <3>1
    <3>3. made' = made /\ main' = "ended"
      BY <1>11, <2>4 DEF Locked!Free
    <3> QED
      BY <3>2, <3>3 DEF Walking
  <2> QED
    BY <2>3, <2>4
<1> QED
  BY <1>1, <1>7, <1>8, <1>9, <1>10, <1>11 DEF Locked!Main

\* Every step of linkedlist.c preserves its invariant.
LEMMA LockedStep ==
  ASSUME Locked!ListAssumption, LockedInv, [Locked!Next]_(Locked!vars)
  PROVE  LockedInv'
<1>1. ListLocked /\ ListLocked'
  BY ListLockedStep DEF LockedInv
<1>2. PICK L \in [1..Length -> Locked!Nodes] : Chained(L) /\ NewestFirst(L) /\ Walking(L)
  BY DEF LockedInv
<1>3. CASE \E t \in Pushers : Locked!SetHead(t)
  BY <1>1, <1>2, <1>3, SetHeadStep DEF LockedInv
<1>4. CASE \E t \in Pushers : Locked!Pusher(t) /\ ~Locked!SetHead(t)
  <2>1. Length' = Length /\ Chained(L)' /\ NewestFirst(L)' /\ Walking(L)'
    BY <1>1, <1>2, <1>4, SameListStep
  <2> QED
    BY <1>1, <2>1 DEF LockedInv
<1>5. CASE Locked!Main
  <2>1. Length' = Length /\ Chained(L)' /\ NewestFirst(L)' /\ Walking(L)'
    BY <1>1, <1>2, <1>5, WalkStep
  <2> QED
    BY <1>1, <2>1 DEF LockedInv
<1>6. CASE UNCHANGED Locked!vars
  <2>1. Length' = Length
    BY <1>6 DEF Length, Locked!vars
  <2>2. InHand' = InHand /\ \A u : Locked!Mine(u)' = Locked!Mine(u)
    BY <1>6 DEF InHand, Locked!Mine, Locked!vars
  <2>3. \A e : NodeAt(L, e)' = NodeAt(L, e)
    BY <2>1 DEF NodeAt
  <2> HIDE DEF Length, NodeAt, InHand
  <2>4. Chained(L)' /\ NewestFirst(L)' /\ Walking(L)'
    BY <1>2, <1>6, <2>1, <2>2, <2>3 DEF Locked!vars, Chained, NewestFirst, Walking
  <2> QED
    BY <1>1, <2>1, <2>4 DEF LockedInv
<1> QED
  BY <1>3, <1>4, <1>5, <1>6 DEF Locked!Next, Locked!Ended

\* The list is empty at the start.
LEMMA LockedInitially == ASSUME Locked!ListAssumption, Locked!Init PROVE LockedInv
<1>1. ListLocked
  BY DEF Locked!Init, Locked!ListAssumption, ListLocked, Pushing
<1>2. Length = 0 /\ InHand = {}
  BY DEF Locked!Init, Length, InHand
<1>3. PICK L \in [1..0 -> Locked!Nodes] : TRUE
  <2>1. [e \in 1..0 |-> Locked!NULL] \in [1..0 -> Locked!Nodes]
    OBVIOUS
  <2> QED
    BY <2>1
<1>4. Chained(L)
  BY <1>2 DEF Locked!Init, Chained, NodeAt
<1>5. NewestFirst(L) /\ Walking(L)
  BY <1>2 DEF Locked!Init, NewestFirst, Walking
<1> QED
  BY <1>1, <1>2, <1>3, <1>4, <1>5 DEF LockedInv

\* What the invariant says of main's walks.
LEMMA LockedPromises ==
  ASSUME Locked!ListAssumption, LockedInv
  PROVE  Locked!NoPushLost
<1>1. PICK L \in [1..Length -> Locked!Nodes] : Chained(L) /\ NewestFirst(L) /\ Walking(L)
  BY DEF LockedInv
<1>2. ASSUME main = "free"
      PROVE  /\ Len(walked) = size
             /\ made \subseteq {walked[e] : e \in 1..Len(walked)}
             /\ \A e, f \in 1..Len(walked) :
                  e < f => walked[e] # walked[f]
                           /\ (walked[e][1] = walked[f][1] => walked[e][2] > walked[f][2])
             /\ size > 0 => tail = walked[size]
  <2>1. /\ Length = size /\ Length \in Nat /\ Len(walked) = Length
        /\ \A e \in 1..Length : walked[e] = L[e]
        /\ \E f \in 1..Length + 1 : made = {L[e] : e \in f..Length}
    BY <1>1, <1>2, LengthStep DEF LockedInv, ListLocked, Walking
  <2> HIDE DEF Length
  <2>2. made \subseteq {walked[e] : e \in 1..Length}
    BY <2>1
  <2> QED
    BY <1>1, <2>1, <2>2 DEF NewestFirst, Chained
<1>3. main = "ended" => made = {}
  BY <1>1 DEF Walking
<1> QED
  BY <1>2, <1>3 DEF Locked!NoPushLost

-----------------------------------------------------------------------------
(* merge_sort.c: the ranges it is called with *)

\* One range lies in another, in one of the other's halves, or outside it.
Within(r, q) == q[1] <= r[1] /\ r[2] <= q[2]
Below(r, q) == q[1] < q[2] /\ (Within(r, Sort!Left(q)) \/ Within(r, Sort!Right(q)))
Apart(r, q) == r[2] < q[1] \/ q[2] < r[1]

\* What merge_sort is called with when it is called with the ranges of a set.
Grown(T) == T \union UNION {{Sort!Left(r), Sort!Right(r)} : r \in {q \in T : q[1] < q[2]}}

\* lev[d] are the ranges of the first d levels of calls.
Levels(lev) == lev[0] = {Sort!Root} /\ \A d \in 1..Size : lev[d] = Grown(lev[d - 1])

\* Those of level d and of no level above.
Generation(lev, d) == {r \in lev[d] : \A e \in 0..d - 1 : r \notin lev[e]}

\* A part of the array.
IsRange(r) == r \in Int \X Int /\ 0 <= r[1] /\ r[1] <= r[2] /\ r[2] <= Size - 1

\* The recursion that defines Calls has a solution.
LEMMA CallLevels ==
  ASSUME Sort!SortAssumption
  PROVE  \E lev : Levels(lev) /\ Sort!Calls = lev[Size]
<1> DEFINE Along(b, f) == [d \in 0..b |-> IF d = 0 THEN {Sort!Root} ELSE Grown(f[d - 1])]
           S == {b \in Nat : \E f : f = Along(b, f)}
<1>1. Size \in Nat
  BY DEF Sort!SortAssumption
<1>2. 0 \in S
  <2> DEFINE f == [d \in 0..0 |-> {Sort!Root}]
  <2>1. f = Along(0, f)
    <3>1. \A d \in 0..0 : d = 0
      OBVIOUS
    <3> HIDE DEF Grown
    <3> QED
      BY <3>1
  <2> HIDE DEF f, Along
  <2> QED
    BY <2>1
<1>3. ASSUME NEW b \in Nat, b \in S PROVE b + 1 \in S
  <2>1. PICK f : f = Along(b, f)
    BY <1>3
  <2> DEFINE h == [d \in 0..b + 1 |-> IF d <= b THEN f[d] ELSE Grown(f[b])]
  <2> HIDE DEF Grown
  <2>2. \A d \in 0..b : f[d] = IF d = 0 THEN {Sort!Root} ELSE Grown(f[d - 1])
    BY <2>1
  <2>3. ASSUME NEW d \in 0..b + 1 PROVE h[d] = IF d = 0 THEN {Sort!Root} ELSE Grown(h[d - 1])
    <3>1. CASE d = 0
      BY <2>2, <3>1
    <3>2. CASE d \in 1..b
      <4>1. h[d] = f[d] /\ h[d - 1] = f[d - 1] /\ d # 0 /\ d \in 0..b
        BY <3>2
      <4> HIDE DEF h
      <4> QED
        BY <2>2, <4>1
    <3>3. CASE d = b + 1
      <4>1. h[d] = Grown(f[b]) /\ h[b] = f[b] /\ d # 0 /\ d - 1 = b
        BY <3>3
      <4> HIDE DEF h
      <4> QED
        BY <4>1
    <3> QED
      BY <3>1, <3>2, <3>3
  <2>4. h = Along(b + 1, h)
    <3>1. h = [d \in 0..b + 1 |-> h[d]]
      OBVIOUS
    <3> HIDE DEF h
    <3> QED
      BY <2>3, <3>1
  <2> HIDE DEF h, Along
  <2> QED
    BY <2>4
<1>4. Size \in S
  <2> HIDE DEF S
  <2>1. \A b \in Nat : b \in S
    BY <1>2, <1>3, NatSetInduction
  <2> QED
    BY <1>1, <2>1
<1> DEFINE level == CHOOSE f : f = Along(Size, f)
<1>5. level = Along(Size, level)
  <2>1. \E f : f = Along(Size, f)
    BY <1>4
  <2> QED
    BY <2>1, Zenon
<1>6. Sort!Calls = level[Size]
  BY DEF Sort!Calls, Grown
<1> HIDE DEF level, Grown
<1>7. Levels(level)
  <2>1. \A d \in 0..Size : level[d] = IF d = 0 THEN {Sort!Root} ELSE Grown(level[d - 1])
    BY <1>5
  <2>2. 0 \in 0..Size /\ \A d \in 1..Size : d \in 0..Size /\ d # 0
    BY <1>1
  <2> QED
    BY <2>1, <2>2 DEF Levels
<1> QED
  BY <1>6, <1>7

\* What is in the next level.
LEMMA GrownIs ==
  ASSUME NEW T, NEW r
  PROVE  r \in Grown(T) <=> r \in T \/ \E q \in T : q[1] < q[2] /\ (r = Sort!Left(q) \/ r = Sort!Right(q))
  BY DEF Grown

\* The halves of a range of two or more elements.
LEMMA Halves ==
  ASSUME NEW r \in Int \X Int, r[1] < r[2]
  PROVE  /\ Sort!Middle(r) \in Int /\ r[1] <= Sort!Middle(r) /\ Sort!Middle(r) < r[2]
         /\ Sort!MergeMiddle(r) = Sort!Middle(r)
         /\ Sort!Left(r) = <<r[1], Sort!Middle(r)>> /\ Sort!Left(r) \in Int \X Int
         /\ Sort!Right(r) = <<Sort!Middle(r) + 1, r[2]>> /\ Sort!Right(r) \in Int \X Int
<1>1. r[1] \in Int /\ r[2] \in Int
  OBVIOUS
<1>2. /\ Sort!Middle(r) \in Int /\ r[1] <= Sort!Middle(r) /\ Sort!Middle(r) < r[2]
      /\ Sort!MergeMiddle(r) = Sort!Middle(r)
  BY <1>1 DEF Sort!Middle, Sort!MergeMiddle
<1> QED
  BY <1>1, <1>2 DEF Sort!Left, Sort!Right

\* A range of the next generation is a half of one of this generation.
LEMMA NextGeneration ==
  ASSUME Sort!SortAssumption, NEW lev, Levels(lev), NEW d \in 0..Size - 1, NEW r \in Generation(lev, d + 1)
  PROVE  \E p \in Generation(lev, d) : p[1] < p[2] /\ (r = Sort!Left(p) \/ r = Sort!Right(p))
<1>1. Size \in Nat /\ d + 1 \in 1..Size /\ (d + 1) - 1 = d
  BY DEF Sort!SortAssumption
<1>2. r \in Grown(lev[d]) /\ \A e \in 0..d : r \notin lev[e]
  BY <1>1 DEF Generation, Levels
<1>3. PICK p \in lev[d] : p[1] < p[2] /\ (r = Sort!Left(p) \/ r = Sort!Right(p))
  BY <1>1, <1>2, GrownIs
<1>4. ASSUME NEW e \in 0..d - 1, p \in lev[e] PROVE FALSE
  <2>1. e + 1 \in 1..Size /\ (e + 1) - 1 = e /\ e + 1 \in 0..d
    BY <1>1
  <2>2. lev[e + 1] = Grown(lev[e])
    BY <2>1 DEF Levels
  <2>3. r \in Grown(lev[e])
    BY <1>3, <1>4, GrownIs
  <2> QED
    BY <1>2, <2>1, <2>2, <2>3
<1> QED
  BY <1>3, <1>4 DEF Generation

\* Every range of a level is of one generation.
LEMMA OfGeneration ==
  ASSUME NEW lev, NEW d \in Nat, NEW r \in lev[d]
  PROVE  \E e \in 0..d : r \in Generation(lev, e)
<1> DEFINE E == {e \in 0..d : r \in lev[e]}
<1>1. E \subseteq Nat /\ d \in E
  OBVIOUS
<1>2. PICK e \in E : \A f \in E : e <= f
  BY <1>1, LeastNatural
<1>3. r \in Generation(lev, e)
  BY <1>2 DEF Generation
<1> QED
  BY <1>2, <1>3

\* A level holds those above it.
LEMMA LevelsGrow ==
  ASSUME Sort!SortAssumption, NEW lev, Levels(lev)
  PROVE  \A d \in 0..Size : \A e \in 0..d : lev[e] \subseteq lev[d]
<1> DEFINE S == {d \in Nat : d <= Size => \A e \in 0..d : lev[e] \subseteq lev[d]}
<1>1. Size \in Nat
  BY DEF Sort!SortAssumption
<1>2. 0 \in S
  OBVIOUS
<1>3. ASSUME NEW d \in Nat, d \in S PROVE d + 1 \in S
  <2> SUFFICES ASSUME d + 1 <= Size, NEW e \in 0..d + 1 PROVE lev[e] \subseteq lev[d + 1]
    OBVIOUS
  <2>1. d + 1 \in 1..Size /\ (d + 1) - 1 = d
    BY <1>1
  <2>2. lev[d] \subseteq lev[d + 1]
    BY <2>1 DEF Levels, Grown
  <2>3. CASE e \in 0..d
    BY <1>1, <1>3, <2>2, <2>3
  <2>4. CASE e = d + 1
    BY <2>4
  <2> QED
    BY <2>3, <2>4
<1> HIDE DEF S
<1>4. \A d \in Nat : d \in S
  BY <1>2, <1>3, NatSetInduction
<1> QED
  BY <1>1, <1>4 DEF S

\* A half lies in what its range lies in, and apart from what that is apart from.
LEMMA HalfWithin ==
  ASSUME Sort!SortAssumption, NEW p, IsRange(p), p[1] < p[2], NEW r, r = Sort!Left(p) \/ r = Sort!Right(p)
  PROVE  /\ IsRange(r) /\ Within(r, p) /\ Below(r, p) /\ r[2] - r[1] < p[2] - p[1]
         /\ \A q : q \in Int \X Int /\ Apart(p, q) => Apart(r, q)
         /\ \A q : IsRange(q) /\ Below(p, q) => Below(r, q)
<1>1. /\ Sort!Middle(p) \in Int /\ p[1] <= Sort!Middle(p) /\ Sort!Middle(p) < p[2]
      /\ Sort!Left(p) = <<p[1], Sort!Middle(p)>> /\ Sort!Right(p) = <<Sort!Middle(p) + 1, p[2]>>
  BY Halves DEF IsRange
<1>2. p \in Int \X Int /\ p[1] \in Int /\ p[2] \in Int /\ Size \in Nat
  BY DEF IsRange, Sort!SortAssumption
<1>3. IsRange(r) /\ Within(r, p) /\ Below(r, p) /\ r[2] - r[1] < p[2] - p[1]
  BY <1>1, <1>2 DEF IsRange, Within, Below
<1>4. r[1] \in Int /\ r[2] \in Int
  BY <1>3 DEF IsRange
<1>5. ASSUME NEW q \in Int \X Int, Apart(p, q) PROVE Apart(r, q)
  BY <1>2, <1>3, <1>4, <1>5 DEF Apart, Within
<1>6. ASSUME NEW q, IsRange(q), Below(p, q) PROVE Below(r, q)
  <2>1. /\ Sort!Left(q) \in Int \X Int /\ Sort!Right(q) \in Int \X Int
    BY <1>6, Halves DEF IsRange, Below
  <2>2. ASSUME NEW h \in Int \X Int, Within(p, h) PROVE Within(r, h)
    BY <1>2, <1>3, <1>4, <2>2 DEF Within
  <2> QED
    BY <1>6, <2>1, <2>2 DEF Below
<1> QED
  BY <1>3, <1>5, <1>6

\* The ranges are parts of the array.
LEMMA LevelRanges ==
  ASSUME Sort!SortAssumption, NEW lev, Levels(lev)
  PROVE  \A d \in 0..Size : \A r \in lev[d] : IsRange(r)
<1> DEFINE S == {d \in Nat : d <= Size => \A r \in lev[d] : IsRange(r)}
<1>1. Size \in Nat /\ Size > 0
  BY DEF Sort!SortAssumption
<1>2. 0 \in S
  BY <1>1 DEF Levels, Sort!Root, IsRange
<1>3. ASSUME NEW d \in Nat, d \in S PROVE d + 1 \in S
  <2> SUFFICES ASSUME d + 1 <= Size, NEW r \in lev[d + 1] PROVE IsRange(r)
    OBVIOUS
  <2>1. d + 1 \in 1..Size /\ (d + 1) - 1 = d /\ d <= Size
    BY <1>1
  <2>2. r \in Grown(lev[d])
    BY <2>1 DEF Levels
  <2>3. \A q \in lev[d] : IsRange(q)
    BY <1>3, <2>1
  <2>4. CASE r \in lev[d]
    BY <2>3, <2>4
  <2>5. CASE \E q \in lev[d] : q[1] < q[2] /\ (r = Sort!Left(q) \/ r = Sort!Right(q))
    BY <2>3, <2>5, HalfWithin
  <2> QED
    BY <2>2, <2>4, <2>5, GrownIs
<1> HIDE DEF S
<1>4. \A d \in Nat : d \in S
  BY <1>2, <1>3, NatSetInduction
<1> QED
  BY <1>1, <1>4 DEF S

\* The ranges of one generation are apart, shorter the deeper they are, and each of
\* them lies in a half of one of every generation above.
LEMMA Generations ==
  ASSUME Sort!SortAssumption, NEW lev, Levels(lev)
  PROVE  \A d \in 0..Size :
           /\ \A r \in Generation(lev, d) : IsRange(r) /\ r[2] - r[1] + 1 <= Size - d
           /\ \A q, r \in Generation(lev, d) : q = r \/ Apart(q, r)
           /\ \A e \in 0..d - 1 : \A r \in Generation(lev, d) : \E q \in Generation(lev, e) : Below(r, q)
<1> DEFINE Short(d) == \A r \in Generation(lev, d) : IsRange(r) /\ r[2] - r[1] + 1 <= Size - d
           Disjoint(d) == \A q, r \in Generation(lev, d) : q = r \/ Apart(q, r)
           Under(d) == \A e \in 0..d - 1 : \A r \in Generation(lev, d) : \E q \in Generation(lev, e) : Below(r, q)
           S == {d \in Nat : d <= Size => Short(d) /\ Disjoint(d) /\ Under(d)}
<1>1. Size \in Nat /\ Size > 0
  BY DEF Sort!SortAssumption
<1>2. 0 \in S
  <2>1. Generation(lev, 0) = {Sort!Root}
    BY DEF Generation, Levels
  <2>2. IsRange(Sort!Root) /\ Sort!Root[2] - Sort!Root[1] + 1 <= Size - 0
    BY <1>1 DEF Sort!Root, IsRange
  <2>3. 0..0 - 1 = {}
    OBVIOUS
  <2> QED
    BY <2>1, <2>2, <2>3
<1>3. ASSUME NEW d \in Nat, d \in S PROVE d + 1 \in S
  <2> SUFFICES ASSUME d + 1 <= Size PROVE Short(d + 1) /\ Disjoint(d + 1) /\ Under(d + 1)
    OBVIOUS
  <2>1. d \in 0..Size - 1 /\ d <= Size /\ Short(d) /\ Disjoint(d) /\ Under(d)
    BY <1>1, <1>3
  <2>2. \A r \in Generation(lev, d + 1) : \E p \in Generation(lev, d) :
          p[1] < p[2] /\ (r = Sort!Left(p) \/ r = Sort!Right(p))
    BY <2>1, NextGeneration
  <2> HIDE DEF Generation
  <2>3. Short(d + 1)
    <3> SUFFICES ASSUME NEW r \in Generation(lev, d + 1)
                 PROVE  IsRange(r) /\ r[2] - r[1] + 1 <= Size - (d + 1)
      OBVIOUS
    <3>1. PICK p \in Generation(lev, d) : p[1] < p[2] /\ (r = Sort!Left(p) \/ r = Sort!Right(p))
      BY <2>2
    <3>2. IsRange(p) /\ p[2] - p[1] + 1 <= Size - d
      BY <2>1
    <3>3. IsRange(r) /\ r[2] - r[1] < p[2] - p[1]
      BY <3>1, <3>2, HalfWithin
    <3> QED
      BY <1>1, <3>2, <3>3 DEF IsRange
  <2>4. Disjoint(d + 1)
    <3> SUFFICES ASSUME NEW q \in Generation(lev, d + 1), NEW r \in Generation(lev, d + 1), q # r
                 PROVE  Apart(q, r)
      OBVIOUS
    <3>1. PICK p \in Generation(lev, d) : p[1] < p[2] /\ (r = Sort!Left(p) \/ r = Sort!Right(p))
      BY <2>2
    <3>2. PICK o \in Generation(lev, d) : o[1] < o[2] /\ (q = Sort!Left(o) \/ q = Sort!Right(o))
      BY <2>2
    <3>3. IsRange(p) /\ IsRange(o) /\ p \in Int \X Int
      BY <2>1 DEF IsRange
    <3>4. IsRange(q) /\ IsRange(r) /\ q \in Int \X Int /\ r \in Int \X Int
      BY <3>1, <3>2, <3>3, HalfWithin DEF IsRange
    <3>5. CASE o = p
      <4>1. /\ Sort!Middle(p) \in Int
            /\ Sort!Left(p) = <<p[1], Sort!Middle(p)>> /\ Sort!Right(p) = <<Sort!Middle(p) + 1, p[2]>>
        BY <3>1, <3>3, Halves
      <4>2. Apart(Sort!Left(p), Sort!Right(p)) /\ Apart(Sort!Right(p), Sort!Left(p))
        BY <4>1 DEF Apart
      <4> QED
        BY <3>1, <3>2, <3>5, <4>2
    <3>6. CASE o # p
      <4>1. Apart(o, p)
        BY <2>1, <3>6
      <4>2. Apart(q, p)
        BY <3>2, <3>3, <4>1, HalfWithin
      <4>3. Apart(p, q)
        BY <4>2 DEF Apart
      <4>4. Apart(r, q)
        BY <3>1, <3>3, <3>4, <4>3, HalfWithin
      <4> QED
        BY <4>4 DEF Apart
    <3> QED
      BY <3>5, <3>6
  <2>5. Under(d + 1)
    <3> SUFFICES ASSUME NEW e \in 0..(d + 1) - 1, NEW r \in Generation(lev, d + 1)
                 PROVE  \E q \in Generation(lev, e) : Below(r, q)
      OBVIOUS
    <3>1. PICK p \in Generation(lev, d) : p[1] < p[2] /\ (r = Sort!Left(p) \/ r = Sort!Right(p))
      BY <2>2
    <3>2. IsRange(p)
      BY <2>1
    <3>3. CASE e = d
      BY <3>1, <3>2, <3>3, HalfWithin
    <3>4. CASE e # d
      <4>1. e \in 0..d - 1 /\ e \in 0..Size
        BY <1>1, <2>1, <3>4
      <4>2. PICK q \in Generation(lev, e) : Below(p, q)
        BY <2>1, <4>1
      <4>3. IsRange(q)
        BY <4>1, <4>2, LevelRanges DEF Generation
      <4>4. Below(r, q)
        BY <3>1, <3>2, <4>2, <4>3, HalfWithin
      <4> QED
        BY <4>4
    <3> QED
      BY <3>3, <3>4
  <2> QED
    BY <2>3, <2>4, <2>5
<1> HIDE DEF S
<1>4. \A d \in Nat : d \in S
  BY <1>2, <1>3, NatSetInduction
<1> QED
  BY <1>1, <1>4 DEF S

\* What lies in a half of a range lies in the range and is shorter.
LEMMA BelowWithin ==
  ASSUME NEW q, IsRange(q), NEW r, IsRange(r), Below(r, q)
  PROVE  Within(r, q) /\ r[2] - r[1] < q[2] - q[1]
<1>1. /\ Sort!Middle(q) \in Int /\ q[1] <= Sort!Middle(q) /\ Sort!Middle(q) < q[2]
      /\ Sort!Left(q) = <<q[1], Sort!Middle(q)>> /\ Sort!Right(q) = <<Sort!Middle(q) + 1, q[2]>>
  BY Halves DEF IsRange, Below
<1>2. q[1] \in Int /\ q[2] \in Int /\ r[1] \in Int /\ r[2] \in Int /\ r[1] <= r[2]
  BY DEF IsRange
<1> QED
  BY <1>1, <1>2 DEF Below, Within

\* The calls form a tree of ranges.
LEMMA CallTree ==
  ASSUME Sort!SortAssumption
  PROVE  /\ Sort!Root \in Sort!Calls
         /\ \A r \in Sort!Calls : IsRange(r)
         /\ \A r \in Sort!Calls : r[1] < r[2] => Sort!Left(r) \in Sort!Calls /\ Sort!Right(r) \in Sort!Calls
         /\ \A q, r \in Sort!Calls : q = r \/ Apart(q, r) \/ Below(q, r) \/ Below(r, q)
<1>1. PICK lev : Levels(lev) /\ Sort!Calls = lev[Size]
  BY CallLevels
<1>2. Size \in Nat /\ Size > 0
  BY DEF Sort!SortAssumption
<1>3. Sort!Root \in Sort!Calls
  <2>1. lev[0] \subseteq lev[Size]
    BY <1>1, <1>2, LevelsGrow
  <2> QED
    BY <1>1, <2>1 DEF Levels
<1>4. \A r \in Sort!Calls : IsRange(r)
  BY <1>1, <1>2, LevelRanges
<1>5. \A r \in Sort!Calls : \E e \in 0..Size : r \in Generation(lev, e)
  BY <1>1, <1>2, OfGeneration
<1>6. \A d \in 0..Size :
           /\ \A r \in Generation(lev, d) : IsRange(r) /\ r[2] - r[1] + 1 <= Size - d
           /\ \A q, r \in Generation(lev, d) : q = r \/ Apart(q, r)
           /\ \A e \in 0..d - 1 : \A r \in Generation(lev, d) : \E q \in Generation(lev, e) : Below(r, q)
  BY <1>1, Generations
<1>7. ASSUME NEW r \in Sort!Calls, r[1] < r[2]
      PROVE  Sort!Left(r) \in Sort!Calls /\ Sort!Right(r) \in Sort!Calls
  <2>1. PICK e \in 0..Size : r \in Generation(lev, e)
    BY <1>5
  <2>2. r[2] - r[1] + 1 <= Size - e /\ r[1] \in Int /\ r[2] \in Int
    BY <1>6, <2>1 DEF IsRange
  <2>3. e + 1 \in 1..Size /\ (e + 1) - 1 = e
    BY <1>2, <1>7, <2>2
  <2>4. r \in lev[e] /\ lev[e + 1] = Grown(lev[e])
    BY <1>1, <2>1, <2>3 DEF Generation, Levels
  <2>5. Sort!Left(r) \in lev[e + 1] /\ Sort!Right(r) \in lev[e + 1]
    BY <1>7, <2>4, GrownIs
  <2>6. lev[e + 1] \subseteq lev[Size]
    BY <1>1, <1>2, <2>3, LevelsGrow
  <2> QED
    BY <1>1, <2>5, <2>6
<1>8. ASSUME NEW d \in 0..Size, NEW e \in 0..d - 1, NEW r \in Generation(lev, d), NEW q \in Generation(lev, e)
      PROVE  Apart(q, r) \/ Below(r, q)
  <2>1. PICK z \in Generation(lev, e) : Below(r, z)
    BY <1>6
  <2>2. z = q \/ Apart(z, q)
    BY <1>2, <1>6
  <2>3. CASE Apart(z, q)
    <3>1. IsRange(z) /\ IsRange(q) /\ IsRange(r)
      BY <1>2, <1>6
    <3>2. Within(r, z)
      BY <2>1, <3>1, BelowWithin
    <3> QED
      BY <2>3, <3>1, <3>2 DEF IsRange, Apart, Within
  <2> QED
    BY <2>1, <2>2, <2>3
<1>9. ASSUME NEW q \in Sort!Calls, NEW r \in Sort!Calls
      PROVE  q = r \/ Apart(q, r) \/ Below(q, r) \/ Below(r, q)
  <2>1. PICK e \in 0..Size : q \in Generation(lev, e)
    BY <1>5
  <2>2. PICK d \in 0..Size : r \in Generation(lev, d)
    BY <1>5
  <2>3. CASE e < d
    BY <1>8, <2>1, <2>2, <2>3
  <2>4. CASE d < e
    <3>1. Apart(r, q) \/ Below(q, r)
      BY <1>8, <2>1, <2>2, <2>4
    <3> QED
      BY <3>1 DEF Apart
  <2>5. CASE d = e
    BY <1>6, <2>1, <2>2, <2>5
  <2> QED
    BY <2>3, <2>4, <2>5
<1> QED
  BY <1>3, <1>4, <1>7, <1>9

\* Two calls of the tree, one of them below the other or not.
LEMMA TwoCalls ==
  ASSUME Sort!SortAssumption, NEW q \in Sort!Calls, NEW r \in Sort!Calls
  PROVE  /\ Below(r, q) => Within(r, q) /\ r # q /\ ~Below(q, r) /\ ~Apart(r, q)
         /\ q # r /\ Within(r, q) => Below(r, q)
         /\ Apart(q, r) => q # r
<1>1. IsRange(q) /\ IsRange(r)
  BY CallTree
<1>2. Below(r, q) => Within(r, q) /\ r[2] - r[1] < q[2] - q[1]
  BY <1>1, BelowWithin
<1>3. Below(q, r) => Within(q, r) /\ q[2] - q[1] < r[2] - r[1]
  BY <1>1, BelowWithin
<1>4. q = r \/ Apart(q, r) \/ Below(q, r) \/ Below(r, q)
  BY CallTree
<1>5. Below(r, q) => Within(r, q) /\ r # q /\ ~Below(q, r) /\ ~Apart(r, q)
  BY <1>1, <1>2, <1>3 DEF IsRange, Apart, Within
<1>6. q # r /\ Within(r, q) => Below(r, q)
  BY <1>1, <1>3, <1>4 DEF IsRange, Apart, Within
<1>7. Apart(q, r) => q # r
  BY <1>1 DEF IsRange, Apart
<1> QED
  BY <1>5, <1>6, <1>7

\* A call and the two it makes.
LEMMA ItsHalves ==
  ASSUME Sort!SortAssumption, NEW r \in Sort!Calls, r[1] < r[2]
  PROVE  /\ Sort!Left(r) \in Sort!Calls /\ Sort!Right(r) \in Sort!Calls
         /\ Below(Sort!Left(r), r) /\ Below(Sort!Right(r), r) /\ Apart(Sort!Left(r), Sort!Right(r))
         /\ \A q \in Sort!Calls :
              Below(q, r) => \/ q = Sort!Left(r) \/ q = Sort!Right(r)
                             \/ Below(q, Sort!Left(r)) \/ Below(q, Sort!Right(r))
<1>1. Sort!Left(r) \in Sort!Calls /\ Sort!Right(r) \in Sort!Calls /\ IsRange(r)
  BY CallTree
<1>2. Below(Sort!Left(r), r) /\ Below(Sort!Right(r), r)
  BY <1>1, HalfWithin
<1>3. Apart(Sort!Left(r), Sort!Right(r))
  BY <1>1, Halves DEF IsRange, Apart
<1>4. ASSUME NEW q \in Sort!Calls, Below(q, r)
      PROVE  \/ q = Sort!Left(r) \/ q = Sort!Right(r)
             \/ Below(q, Sort!Left(r)) \/ Below(q, Sort!Right(r))
  BY <1>1, <1>4, TwoCalls DEF Below
<1> QED
  BY <1>1, <1>2, <1>3, <1>4

\* What is above a half is its caller or above that.
LEMMA AboveHalf ==
  ASSUME Sort!SortAssumption, NEW r \in Sort!Calls, r[1] < r[2],
         NEW h \in {Sort!Left(r), Sort!Right(r)}, NEW q \in Sort!Calls, Below(h, q)
  PROVE  q = r \/ Below(r, q)
<1>1. /\ Sort!Left(r) \in Sort!Calls /\ Sort!Right(r) \in Sort!Calls /\ h \in Sort!Calls
      /\ Below(Sort!Left(r), r) /\ Below(Sort!Right(r), r) /\ Apart(Sort!Left(r), Sort!Right(r))
  BY ItsHalves
<1>2. q = r \/ Apart(q, r) \/ Below(q, r) \/ Below(r, q)
  BY CallTree
<1>3. Apart(q, r) => Apart(q, h)
  BY <1>1, CallTree, HalfWithin DEF Apart, IsRange
<1>4. ~Apart(q, h)
  BY <1>1, TwoCalls DEF Apart
<1>5. ASSUME Below(q, r) PROVE FALSE
  <2>1. \/ q = Sort!Left(r) \/ q = Sort!Right(r)
        \/ Below(q, Sort!Left(r)) \/ Below(q, Sort!Right(r))
    BY <1>5, ItsHalves
  <2>2. ~Below(q, h) /\ q # h
    BY <1>1, TwoCalls
  <2>3. PICK o \in Sort!Calls : Apart(o, h) /\ (q = o \/ Below(q, o))
    BY <1>1, <2>1, <2>2 DEF Apart
  <2>4. Apart(q, h)
    <3>1. Below(q, o) => Within(q, o)
      BY TwoCalls
    <3>2. IsRange(q) /\ IsRange(o) /\ IsRange(h)
      BY <1>1, CallTree
    <3> QED
      BY <2>3, <3>1, <3>2 DEF Apart, Within, IsRange
  <2> QED
    BY <1>4, <2>4
<1> QED
  BY <1>2, <1>3, <1>4, <1>5

\* Nothing is above the first call.
LEMMA RootOnTop ==
  ASSUME Sort!SortAssumption, NEW q \in Sort!Calls
  PROVE  ~Below(Sort!Root, q)
<1>1. IsRange(q) /\ IsRange(Sort!Root)
  BY CallTree
<1>2. ASSUME Below(Sort!Root, q) PROVE FALSE
  <2>1. Sort!Root[2] - Sort!Root[1] < q[2] - q[1]
    BY <1>1, <1>2, BelowWithin
  <2> QED
    BY <1>1, <2>1 DEF Sort!Root, IsRange, Sort!SortAssumption
<1> QED
  BY <1>2

-----------------------------------------------------------------------------
(* merge_sort.c: what the calls do *)

\* Each variable has its type.
SortTypes ==
  /\ A \in [Sort!Index -> Values] /\ given \in [Sort!Index -> Values]
  /\ sat \in [Sort!Calls -> {"none", "entry", "halves", "merge", "copy", "done"}]
  /\ tmp \in [Sort!Calls -> Seq(Values)]
  /\ ai \in [Sort!Calls -> Int] /\ mbi \in [Sort!Calls -> Int]

\* Before a call has split nothing below it has started, and after the join
\* everything below it is done.
TreeKept ==
  \A q, r \in Sort!Calls : Below(r, q) =>
    /\ sat[q] \in {"none", "entry"} => sat[r] = "none"
    /\ sat[q] \in {"merge", "copy", "done"} => sat[r] = "done"

\* The part of a call that has not started is as it was given.
Untouched(r) ==
  sat[r] \in {"none", "entry"} => \A e \in r[1]..r[2] : A[e] = given[e]

SortedOn(f, r) == \A d, e \in r[1]..r[2] : d < e => f[d] <= f[e]

\* Nobody above has begun to copy over the part of this call.
Quiet(r) == \A q \in Sort!Calls : Below(r, q) => sat[q] \in {"halves", "merge"}

\* The part of a call that has returned is sorted and complete, until the merge of
\* its caller is copied back.
Finished(r) ==
  sat[r] = "done" /\ Quiet(r) =>
    /\ SortedOn(A, r)
    /\ \A v \in Values : Sort!Occurs(A, r, v) = Sort!Occurs(given, r, v)

\* The merged elements, at the places they are going to.
Merge(r) == [e \in Sort!Index |-> tmp[r][e - r[1] + 1]]
MergedTo(r) == <<r[1], r[1] + Len(tmp[r]) - 1>>

\* tmp holds, sorted, the elements before the two indices, none of them greater
\* than one that is left.
Merging(r) ==
  /\ sat[r] \in {"none", "entry", "halves"} => tmp[r] = <<>>
  /\ sat[r] = "halves" => r[1] < r[2]
  /\ sat[r] = "merge" =>
       LET mid == Sort!Middle(r) IN
       /\ r[1] < r[2] /\ ai[r] \in r[1]..mid + 1 /\ mbi[r] \in mid + 1..r[2] + 1
       /\ Len(tmp[r]) = (ai[r] - r[1]) + (mbi[r] - (mid + 1))
       /\ SortedOn(Merge(r), MergedTo(r))
       /\ \A e \in r[1]..MergedTo(r)[2] : \A f \in ai[r]..mid \union mbi[r]..r[2] : Merge(r)[e] <= A[f]
       /\ \A v \in Values : Sort!Occurs(Merge(r), MergedTo(r), v)
            = Sort!Occurs(A, <<r[1], ai[r] - 1>>, v) + Sort!Occurs(A, <<mid + 1, mbi[r] - 1>>, v)

\* The merge is sorted and complete, and copied back up to the index.
Copying(r) ==
  sat[r] = "copy" =>
    /\ r[1] < r[2] /\ ai[r] \in r[1]..r[2] /\ Len(tmp[r]) = r[2] - r[1] + 1
    /\ SortedOn(Merge(r), r)
    /\ \A v \in Values : Sort!Occurs(Merge(r), r, v) = Sort!Occurs(given, r, v)
    /\ \A e \in r[1]..ai[r] - 1 : A[e] = Merge(r)[e]

\* The inductive invariant of merge_sort.c.
SortInv ==
  /\ SortTypes /\ TreeKept
  /\ \A r \in Sort!Calls : Untouched(r) /\ Finished(r) /\ Merging(r) /\ Copying(r)

\* How often a value occurs in a part: a number, which depends on that part only.
LEMMA OccursPart ==
  ASSUME NEW f, NEW g, NEW r \in Int \X Int, \A e \in r[1]..r[2] : f[e] = g[e], NEW v
  PROVE  Sort!Occurs(f, r, v) \in Nat /\ Sort!Occurs(f, r, v) = Sort!Occurs(g, r, v)
<1>1. {e \in r[1]..r[2] : f[e] = v} = {e \in r[1]..r[2] : g[e] = v}
  OBVIOUS
<1>2. \A S : Sort!Cardinality(S) = Cardinality(S)
  BY DEF Sort!Cardinality, Cardinality
<1>3. IsFiniteSet(r[1]..r[2])
  BY FS_Interval
<1>4. IsFiniteSet({e \in r[1]..r[2] : f[e] = v})
  BY <1>3, FS_Subset
<1>5. Cardinality({e \in r[1]..r[2] : f[e] = v}) \in Nat
  BY <1>4, FS_CardinalityType
<1> QED
  BY <1>1, <1>2, <1>5 DEF Sort!Occurs

\* Nothing occurs in an empty part.
LEMMA OccursNowhere ==
  ASSUME NEW f, NEW a \in Int, NEW v
  PROVE  Sort!Occurs(f, <<a, a - 1>>, v) = 0
<1>1. {e \in a..a - 1 : f[e] = v} = {}
  OBVIOUS
<1>2. Sort!Cardinality({}) = 0
  BY FS_EmptySet DEF Sort!Cardinality, Cardinality
<1> QED
  BY <1>1, <1>2 DEF Sort!Occurs

\* Two parts that follow each other make one.
LEMMA OccursJoined ==
  ASSUME NEW f, NEW r \in Int \X Int, NEW b \in Int, r[1] - 1 <= b, b <= r[2], NEW v
  PROVE  Sort!Occurs(f, r, v) = Sort!Occurs(f, <<r[1], b>>, v) + Sort!Occurs(f, <<b + 1, r[2]>>, v)
<1> DEFINE S == {e \in r[1]..b : f[e] = v}
           T == {e \in b + 1..r[2] : f[e] = v}
           U == {e \in r[1]..r[2] : f[e] = v}
<1>1. r[1] \in Int /\ r[2] \in Int
  OBVIOUS
<1>2. U = S \union T /\ S \cap T = {}
  BY <1>1
<1>3. IsFiniteSet(r[1]..b) /\ IsFiniteSet(b + 1..r[2])
  BY <1>1, FS_Interval
<1>4. IsFiniteSet(S) /\ IsFiniteSet(T)
  BY <1>3, FS_Subset
<1>5. /\ Sort!Occurs(f, r, v) = Cardinality(U) /\ Sort!Occurs(f, <<r[1], b>>, v) = Cardinality(S)
      /\ Sort!Occurs(f, <<b + 1, r[2]>>, v) = Cardinality(T)
  BY DEF Sort!Occurs, Sort!Cardinality, Cardinality
<1> HIDE DEF S, T, U
<1>6. Cardinality(S) \in Nat /\ Cardinality(T) \in Nat /\ Cardinality({}) = 0
  BY <1>4, FS_CardinalityType, FS_EmptySet
<1>7. Cardinality(U) = Cardinality(S) + Cardinality(T) - Cardinality({})
  BY <1>2, <1>4, FS_Union
<1> QED
  BY <1>5, <1>6, <1>7

\* One element more.
LEMMA OccursMore ==
  ASSUME NEW f, NEW a \in Int, NEW b \in Int, a - 1 <= b, NEW v
  PROVE  Sort!Occurs(f, <<a, b + 1>>, v) = Sort!Occurs(f, <<a, b>>, v) + (IF f[b + 1] = v THEN 1 ELSE 0)
<1>1. Sort!Occurs(f, <<a, b + 1>>, v) = Sort!Occurs(f, <<a, b>>, v) + Sort!Occurs(f, <<b + 1, b + 1>>, v)
  <2> DEFINE r == <<a, b + 1>>
  <2>1. r \in Int \X Int /\ r[1] = a /\ r[2] = b + 1
    OBVIOUS
  <2> HIDE DEF r
  <2>2. Sort!Occurs(f, r, v) = Sort!Occurs(f, <<r[1], b>>, v) + Sort!Occurs(f, <<b + 1, r[2]>>, v)
    BY <2>1, OccursJoined
  <2> QED
    BY <2>1, <2>2 DEF r
<1>2. Sort!Occurs(f, <<b + 1, b + 1>>, v) = IF f[b + 1] = v THEN 1 ELSE 0
  <2>1. {e \in b + 1..b + 1 : f[e] = v} = IF f[b + 1] = v THEN {b + 1} ELSE {}
    OBVIOUS
  <2>2. Sort!Cardinality({}) = 0 /\ Sort!Cardinality({b + 1}) = 1
    BY FS_EmptySet, FS_Singleton DEF Sort!Cardinality, Cardinality
  <2> QED
    BY <2>1, <2>2 DEF Sort!Occurs
<1> QED
  BY <1>1, <1>2

\* g continues f with w, and nothing before it is greater.
Continues(g, f, lo, hi, w) ==
  g[hi + 1] = w /\ \A e \in lo..hi : g[e] = f[e] /\ f[e] \in Int /\ f[e] <= w

\* A sorted part may be continued by a value that is not less than the others.
LEMMA OneMore ==
  ASSUME NEW lo \in Int, NEW hi \in Int, lo - 1 <= hi, NEW f, NEW g, NEW w \in Int,
         Continues(g, f, lo, hi, w), SortedOn(f, <<lo, hi>>)
  PROVE  /\ SortedOn(g, <<lo, hi + 1>>)
         /\ \A v : Sort!Occurs(g, <<lo, hi + 1>>, v)
                     = Sort!Occurs(f, <<lo, hi>>, v) + (IF w = v THEN 1 ELSE 0)
<1> USE DEF Continues
<1>1. ASSUME NEW d \in lo..hi + 1, NEW e \in lo..hi + 1, d < e PROVE g[d] <= g[e]
  <2>1. d \in lo..hi
    BY <1>1
  <2>2. CASE e = hi + 1
    BY <2>1, <2>2
  <2>3. CASE e # hi + 1
    <3>1. e \in lo..hi
      BY <2>3
    <3> QED
      BY <1>1, <2>1, <3>1 DEF SortedOn
  <2> QED
    BY <2>2, <2>3
<1>2. SortedOn(g, <<lo, hi + 1>>)
  BY <1>1 DEF SortedOn
<1>3. ASSUME NEW v
      PROVE  Sort!Occurs(g, <<lo, hi + 1>>, v) = Sort!Occurs(f, <<lo, hi>>, v) + (IF w = v THEN 1 ELSE 0)
  <2>1. Sort!Occurs(g, <<lo, hi + 1>>, v) = Sort!Occurs(g, <<lo, hi>>, v) + (IF w = v THEN 1 ELSE 0)
    BY OccursMore
  <2> DEFINE r == <<lo, hi>>
  <2>2. r \in Int \X Int /\ \A e \in r[1]..r[2] : g[e] = f[e]
    OBVIOUS
  <2> HIDE DEF r
  <2>3. Sort!Occurs(g, r, v) = Sort!Occurs(f, r, v)
    BY <2>2, OccursPart
  <2> QED
    BY <2>1, <2>3 DEF r
<1> QED
  BY <1>2, <1>3

\* Above a call that is under way all calls wait for their halves.
LEMMA AboveWaits ==
  ASSUME SortTypes, TreeKept, NEW r \in Sort!Calls, NEW q \in Sort!Calls, Below(r, q),
         sat[r] \notin {"none", "done"}
  PROVE  sat[q] = "halves"
  BY DEF SortTypes, TreeKept

\* A call changes its own variables, and Split the places of the two calls it makes.
LEMMA OwnVariables ==
  ASSUME Sort!SortAssumption, SortTypes, NEW r \in Sort!Calls, NEW s \in Sort!Calls, s # r, Sort!Step(r)
  PROVE  /\ tmp'[s] = tmp[s] /\ ai'[s] = ai[s] /\ mbi'[s] = mbi[s] /\ given' = given
         /\ Sort!Split(r) /\ s \in {Sort!Left(r), Sort!Right(r)} => sat'[s] = "entry"
         /\ ~(Sort!Split(r) /\ s \in {Sort!Left(r), Sort!Right(r)}) => sat'[s] = sat[s]
<1> USE DEF SortTypes
<1>1. CASE Sort!Nothing(r)
  BY <1>1 DEF Sort!Nothing, Sort!Split
<1>2. CASE Sort!Split(r)
  BY <1>2, ItsHalves DEF Sort!Split
<1>3. CASE Sort!Join(r)
  BY <1>3 DEF Sort!Join, Sort!Split
<1>4. CASE Sort!Take(r)
  BY <1>4 DEF Sort!Take, Sort!Split
<1>5. CASE Sort!Merged(r)
  BY <1>5 DEF Sort!Merged, Sort!Split
<1>6. CASE Sort!CopyBack(r)
  BY <1>6 DEF Sort!CopyBack, Sort!Split
<1> QED
  BY <1>1, <1>2, <1>3, <1>4, <1>5, <1>6 DEF Sort!Step

\* Where a call goes.
LEMMA OwnPlace ==
  ASSUME Sort!SortAssumption, SortTypes, NEW r \in Sort!Calls
  PROVE  /\ Sort!Nothing(r) => sat[r] = "entry" /\ sat'[r] = "done" /\ A' = A
         /\ Sort!Split(r) => sat[r] = "entry" /\ sat'[r] = "halves" /\ A' = A
         /\ Sort!Join(r) => sat[r] = "halves" /\ sat'[r] = "merge" /\ A' = A
         /\ Sort!Take(r) => sat[r] = "merge" /\ sat'[r] = "merge" /\ A' = A
         /\ Sort!Merged(r) => sat[r] = "merge" /\ sat'[r] = "copy" /\ A' = A
         /\ Sort!CopyBack(r) => sat[r] = "copy" /\ sat'[r] \in {"copy", "done"}
<1> USE DEF SortTypes
<1>1. Sort!Nothing(r) => sat[r] = "entry" /\ sat'[r] = "done" /\ A' = A
  BY DEF Sort!Nothing
<1>2. ASSUME Sort!Split(r) PROVE sat[r] = "entry" /\ sat'[r] = "halves" /\ A' = A
  <2>1. Sort!Left(r) # r /\ Sort!Right(r) # r
    BY <1>2, ItsHalves, TwoCalls DEF Sort!Split
  <2> QED
    BY <1>2, <2>1 DEF Sort!Split
<1>3. Sort!Join(r) => sat[r] = "halves" /\ sat'[r] = "merge" /\ A' = A
  BY DEF Sort!Join
<1>4. Sort!Take(r) => sat[r] = "merge" /\ sat'[r] = "merge" /\ A' = A
  BY DEF Sort!Take
<1>5. Sort!Merged(r) => sat[r] = "merge" /\ sat'[r] = "copy" /\ A' = A
  BY DEF Sort!Merged
<1>6. Sort!CopyBack(r) => sat[r] = "copy" /\ sat'[r] \in {"copy", "done"}
  BY DEF Sort!CopyBack
<1> QED
  BY <1>1, <1>2, <1>3, <1>4, <1>5, <1>6

\* A call starts what is below it when it splits, and merges when that is done.
LEMMA TreeStep ==
  ASSUME Sort!SortAssumption, SortTypes, TreeKept, NEW r \in Sort!Calls, Sort!Step(r)
  PROVE  TreeKept'
<1> SUFFICES ASSUME NEW q \in Sort!Calls, NEW s \in Sort!Calls, Below(s, q)
             PROVE  /\ sat'[q] \in {"none", "entry"} => sat'[s] = "none"
                    /\ sat'[q] \in {"merge", "copy", "done"} => sat'[s] = "done"
  BY DEF TreeKept
<1>1. /\ sat[q] \in {"none", "entry"} => sat[s] = "none"
      /\ sat[q] \in {"merge", "copy", "done"} => sat[s] = "done"
  BY DEF TreeKept
<1>2. q # s
  BY TwoCalls
<1>3. CASE Sort!Split(r)
  <2>1. r[1] < r[2] /\ sat[r] = "entry" /\ sat'[r] = "halves"
    BY <1>3, OwnPlace DEF Sort!Split
  <2>2. /\ Sort!Left(r) \in Sort!Calls /\ Sort!Right(r) \in Sort!Calls
        /\ Below(Sort!Left(r), r) /\ Below(Sort!Right(r), r) /\ Apart(Sort!Left(r), Sort!Right(r))
    BY <2>1, ItsHalves
  <2>3. CASE q = r
    BY <2>1, <2>3
  <2>4. s \in {Sort!Left(r), Sort!Right(r)} => sat[q] = "halves" \/ q = r
    BY <2>1, AboveHalf, AboveWaits
  <2>5. CASE q # r /\ s # r
    <3>1. CASE s = Sort!Left(r) \/ s = Sort!Right(r)
      <4>1. sat[q] = "halves"
        BY <2>4, <2>5, <3>1
      <4>2. q \notin {Sort!Left(r), Sort!Right(r)}
        BY <2>1, <2>2, <4>1 DEF TreeKept
      <4>3. sat'[q] = "halves"
        BY <2>5, <4>1, <4>2, OwnVariables
      <4> QED
        BY <4>3
    <3>2. CASE s \notin {Sort!Left(r), Sort!Right(r)}
      <4>1. sat'[s] = sat[s]
        BY <2>5, <3>2, OwnVariables
      <4>2. CASE q \in {Sort!Left(r), Sort!Right(r)}
        <5>1. sat'[q] = "entry" /\ sat[q] = "none"
          BY <1>3, <2>1, <2>2, <2>5, <4>2, OwnVariables DEF TreeKept
        <5> QED
          BY <1>1, <4>1, <5>1
      <4>3. CASE q \notin {Sort!Left(r), Sort!Right(r)}
        BY <1>1, <2>5, <4>1, <4>3, OwnVariables
      <4> QED
        BY <4>2, <4>3
    <3> QED
      BY <3>1, <3>2
  <2>6. CASE s = r
    <3>1. sat[q] = "halves"
      BY <2>1, <2>6, AboveWaits
    <3>2. q \notin {Sort!Left(r), Sort!Right(r)}
      BY <2>1, <2>2, <3>1 DEF TreeKept
    <3>3. sat'[q] = "halves"
      BY <1>2, <2>6, <3>1, <3>2, OwnVariables
    <3> QED
      BY <3>3
  <2> QED
    BY <2>3, <2>5, <2>6
<1>4. CASE Sort!Join(r)
  <2>1. sat[r] = "halves" /\ sat'[r] = "merge" /\ sat[Sort!Left(r)] = "done" /\ sat[Sort!Right(r)] = "done"
    BY <1>4, OwnPlace DEF Sort!Join
  <2>2. \A o \in Sort!Calls : o # r => sat'[o] = sat[o]
    BY <1>4, <2>1, OwnVariables DEF Sort!Split
  <2>3. CASE q = r
    <3>1. r[1] < r[2]
      BY <2>3 DEF Below
    <3>2. sat[s] = "done"
      BY <2>1, <2>3, <3>1, ItsHalves DEF TreeKept
    <3> QED
      BY <1>2, <2>1, <2>2, <2>3, <3>2
  <2>4. CASE s = r
    BY <1>1, <1>2, <2>1, <2>2, <2>4
  <2>5. CASE q # r /\ s # r
    BY <1>1, <2>2, <2>5
  <2> QED
    BY <2>3, <2>4, <2>5
<1>5. CASE Sort!Nothing(r)
  <2>1. sat[r] = "entry" /\ sat'[r] = "done" /\ r[1] >= r[2]
    BY <1>5, OwnPlace DEF Sort!Nothing
  <2>2. \A o \in Sort!Calls : o # r => sat'[o] = sat[o]
    BY <1>5, <2>1, OwnVariables, CallTree DEF Sort!Split, IsRange
  <2>3. q # r
    BY <2>1, CallTree DEF Below, IsRange
  <2>4. CASE s = r
    BY <1>1, <2>1, <2>2, <2>3, <2>4
  <2>5. CASE s # r
    BY <1>1, <2>2, <2>3, <2>5
  <2> QED
    BY <2>4, <2>5
<1>6. CASE Sort!Take(r) \/ Sort!Merged(r) \/ Sort!CopyBack(r)
  <2>1. sat[r] \in {"merge", "copy"} /\ sat'[r] \in {"merge", "copy", "done"}
    BY <1>6, OwnPlace
  <2>2. \A o \in Sort!Calls : o # r => sat'[o] = sat[o]
    BY <1>6, <2>1, OwnVariables DEF Sort!Split
  <2>3. CASE q = r
    BY <1>1, <1>2, <2>1, <2>2, <2>3
  <2>4. CASE s = r
    BY <1>1, <1>2, <2>1, <2>2, <2>4 DEF SortTypes
  <2>5. CASE q # r /\ s # r
    BY <1>1, <2>2, <2>5
  <2> QED
    BY <2>3, <2>4, <2>5
<1> QED
  BY <1>3, <1>4, <1>5, <1>6 DEF Sort!Step

\* Where the merge reads and where it writes is in the array.
LEMMA InArray ==
  ASSUME Sort!SortAssumption, NEW r \in Sort!Calls
  PROVE  r[1] \in Int /\ r[2] \in Int /\ r[1]..r[2] \subseteq Sort!Index /\ Sort!MergeMiddle(r) = Sort!Middle(r)
         /\ (r[1] < r[2] => Sort!Middle(r) \in r[1]..r[2] - 1)
<1>1. IsRange(r)
  BY CallTree
<1>2. r[1] < r[2] => Sort!Middle(r) \in r[1]..r[2] - 1
  BY <1>1, Halves DEF IsRange
<1>3. CASE r[1] < r[2]
  BY <1>1, <1>2, <1>3, Halves DEF IsRange, Sort!Index, Sort!SortAssumption
<1>4. CASE r[1] = r[2]
  <2>1. r[1] \in Int /\ (r[1] + r[1]) \div 2 = r[1] /\ (r[1] - r[1]) \div 2 = 0
    BY <1>1 DEF IsRange
  <2> QED
    BY <1>1, <1>4, <2>1 DEF IsRange, Sort!Index, Sort!SortAssumption, Sort!Middle, Sort!MergeMiddle
<1> QED
  BY <1>1, <1>3, <1>4 DEF IsRange, Sort!Index, Sort!SortAssumption

\* A step of a call keeps the types.
LEMMA SortTypesStep ==
  ASSUME Sort!SortAssumption, SortTypes, NEW r \in Sort!Calls, Merging(r), Copying(r), Sort!Step(r)
  PROVE  SortTypes'
<1> USE DEF SortTypes
<1>0. given' = given
  BY DEF Sort!Step, Sort!Nothing, Sort!Split, Sort!Join, Sort!Take, Sort!Merged, Sort!CopyBack
<1>i. r[1] \in Int /\ r[2] \in Int /\ r[1]..r[2] \subseteq Sort!Index /\ Sort!MergeMiddle(r) = Sort!Middle(r)
      /\ (r[1] < r[2] => Sort!Middle(r) \in r[1]..r[2] - 1)
  BY InArray
<1>1. CASE Sort!Nothing(r)
  BY <1>0, <1>1 DEF Sort!Nothing
<1>2. CASE Sort!Split(r)
  BY <1>0, <1>2 DEF Sort!Split
<1>3. CASE Sort!Join(r)
  <2>1. Sort!Middle(r) \in Int
    BY <1>i DEF Sort!Middle
  <2> QED
    BY <1>0, <1>i, <1>3, <2>1 DEF Sort!Join
<1>4. CASE Sort!Take(r)
  <2>1. /\ r[1] < r[2] /\ ai[r] \in r[1]..Sort!Middle(r) + 1 /\ mbi[r] \in Sort!Middle(r) + 1..r[2] + 1
    BY <1>4 DEF Sort!Take, Merging
  <2>2. ai[r] <= Sort!Middle(r) => ai[r] \in Sort!Index
    BY <1>i, <2>1
  <2>3. mbi[r] <= r[2] => mbi[r] \in Sort!Index
    BY <1>i, <2>1
  <2> DEFINE left == ai[r] <= Sort!MergeMiddle(r) /\ (mbi[r] <= r[2] => A[ai[r]] < A[mbi[r]])
             w == IF left THEN A[ai[r]] ELSE A[mbi[r]]
  <2>4. w \in Values
    BY <1>i, <1>4, <2>2, <2>3 DEF Sort!Take
  <2>5. tmp' = [tmp EXCEPT ![r] = Append(@, w)]
    BY <1>4 DEF Sort!Take
  <2>6. ai' \in [Sort!Calls -> Int] /\ mbi' \in [Sort!Calls -> Int] /\ A' = A /\ sat' = sat
    BY <1>4 DEF Sort!Take
  <2> HIDE DEF w
  <2>7. tmp' \in [Sort!Calls -> Seq(Values)]
    BY <2>4, <2>5
  <2> QED
    BY <1>0, <2>6, <2>7
<1>5. CASE Sort!Merged(r)
  BY <1>0, <1>i, <1>5 DEF Sort!Merged
<1>6. CASE Sort!CopyBack(r)
  <2>1. ai[r] \in r[1]..r[2] /\ Len(tmp[r]) = r[2] - r[1] + 1
    BY <1>6 DEF Sort!CopyBack, Copying
  <2>2. ai[r] - r[1] + 1 \in 1..Len(tmp[r])
    BY <1>i, <2>1
  <2>3. tmp[r][ai[r] - r[1] + 1] \in Values
    BY <2>2
  <2>4. A' \in [Sort!Index -> Values]
    BY <1>i, <1>6, <2>1, <2>3 DEF Sort!CopyBack
  <2>5. tmp' \in [Sort!Calls -> Seq(Values)]
    <3>1. <<>> \in Seq(Values)
      OBVIOUS
    <3> QED
      BY <1>6, <3>1 DEF Sort!CopyBack
  <2>6. ai' \in [Sort!Calls -> Int] /\ mbi' \in [Sort!Calls -> Int]
    BY <1>6 DEF Sort!CopyBack
  <2>7. sat' \in [Sort!Calls -> {"none", "entry", "halves", "merge", "copy", "done"}]
    BY <1>6 DEF Sort!CopyBack
  <2> QED
    BY <1>0, <2>4, <2>5, <2>6, <2>7
<1> QED
  BY <1>1, <1>2, <1>3, <1>4, <1>5, <1>6 DEF Sort!Step

\* A part that is quiet after a step was quiet before it.
LEMMA QuietBefore ==
  ASSUME Sort!SortAssumption, SortTypes, TreeKept, NEW r \in Sort!Calls, NEW s \in Sort!Calls,
         Sort!Step(r), sat[s] = "done", Quiet(s)'
  PROVE  Quiet(s)
<1> SUFFICES ASSUME NEW q \in Sort!Calls, Below(s, q) PROVE sat[q] \in {"halves", "merge"}
  BY DEF Quiet
<1>1. sat'[q] \in {"halves", "merge"}
  BY DEF Quiet
<1>2. CASE q = r
  <2>1. sat[r] # "entry"
    BY <1>2 DEF TreeKept
  <2> QED
    BY <1>1, <1>2, <2>1, OwnPlace DEF Sort!Step
<1>3. CASE q # r
  BY <1>1, <1>3, OwnVariables
<1> QED
  BY <1>2, <1>3

\* A step of one call does not touch the part of another that has not begun, that
\* merges or copies, or that is done and quiet.
LEMMA PartKept ==
  ASSUME Sort!SortAssumption, SortTypes, TreeKept, NEW r \in Sort!Calls, NEW s \in Sort!Calls, s # r,
         Copying(r), Sort!Step(r), sat[s] # "halves", sat[s] = "done" => Quiet(s)'
  PROVE  \A e \in s[1]..s[2] : A'[e] = A[e]
<1>1. CASE ~Sort!CopyBack(r)
  BY <1>1, OwnPlace DEF Sort!Step
<1>2. CASE Sort!CopyBack(r)
  <2>1. sat[r] = "copy" /\ sat'[r] \in {"copy", "done"}
    BY <1>2, OwnPlace
  <2>2. ai[r] \in r[1]..r[2] /\ \A e \in Sort!Index : e # ai[r] => A'[e] = A[e]
    BY <1>2, <2>1 DEF Sort!CopyBack, Copying, SortTypes
  <2>3. ~Below(r, s)
    BY <2>1, AboveWaits
  <2>4. ~Below(s, r)
    <3>1. Below(s, r) => sat[s] = "done"
      BY <2>1 DEF TreeKept
    <3> QED
      BY <2>1, <3>1 DEF Quiet
  <2>5. Apart(s, r)
    BY <2>3, <2>4, CallTree
  <2> QED
    BY <2>2, <2>5, InArray DEF Apart
<1> QED
  BY <1>1, <1>2

\* A step of one call keeps what holds of another.
LEMMA OtherCallsKept ==
  ASSUME Sort!SortAssumption, SortTypes, TreeKept, NEW r \in Sort!Calls, NEW s \in Sort!Calls, s # r,
         Copying(r), Sort!Step(r), ~(Sort!Split(r) /\ s \in {Sort!Left(r), Sort!Right(r)}),
         Untouched(s), Finished(s), Merging(s), Copying(s)
  PROVE  Untouched(s)' /\ Finished(s)' /\ Merging(s)' /\ Copying(s)'
<1>1. tmp'[s] = tmp[s] /\ ai'[s] = ai[s] /\ mbi'[s] = mbi[s] /\ given' = given /\ sat'[s] = sat[s]
  BY OwnVariables
<1>2. sat[s] # "halves" /\ (sat[s] = "done" => Quiet(s)') => \A e \in s[1]..s[2] : A'[e] = A[e]
  BY PartKept
<1>i. s[1] \in Int /\ s[2] \in Int /\ s \in Int \X Int
  BY InArray, CallTree DEF IsRange
<1>3. Untouched(s)'
  BY <1>1, <1>2 DEF Untouched
<1>4. Finished(s)'
  <2> SUFFICES ASSUME sat'[s] = "done", Quiet(s)'
               PROVE  SortedOn(A', s) /\ \A v \in Values : Sort!Occurs(A', s, v) = Sort!Occurs(given, s, v)
    BY <1>1 DEF Finished, SortedOn, Sort!Occurs
  <2>1. SortedOn(A, s) /\ \A v \in Values : Sort!Occurs(A, s, v) = Sort!Occurs(given, s, v)
    BY <1>1, QuietBefore DEF Finished
  <2>2. PICK B : B = A'
    OBVIOUS
  <2>3. \A e \in s[1]..s[2] : B[e] = A[e]
    BY <1>1, <1>2, <2>2
  <2>4. \A v : Sort!Occurs(B, s, v) = Sort!Occurs(A, s, v)
    BY <1>i, <2>3, OccursPart
  <2> QED
    BY <1>i, <2>1, <2>2, <2>3, <2>4 DEF SortedOn
<1>5. Merge(s)' = Merge(s) /\ MergedTo(s)' = MergedTo(s)
  BY <1>1 DEF Merge, MergedTo
<1>6. Merging(s)'
  <2>1. CASE sat[s] # "merge"
    BY <1>1, <2>1 DEF Merging
  <2>2. CASE sat[s] = "merge"
    <3> DEFINE mid == Sort!Middle(s)
    <3>1. /\ s[1] < s[2] /\ ai[s] \in s[1]..mid + 1 /\ mbi[s] \in mid + 1..s[2] + 1
          /\ Len(tmp[s]) = (ai[s] - s[1]) + (mbi[s] - (mid + 1))
          /\ SortedOn(Merge(s), MergedTo(s))
          /\ \A e \in s[1]..MergedTo(s)[2] : \A f \in ai[s]..mid \union mbi[s]..s[2] : Merge(s)[e] <= A[f]
          /\ \A v \in Values : Sort!Occurs(Merge(s), MergedTo(s), v)
               = Sort!Occurs(A, <<s[1], ai[s] - 1>>, v) + Sort!Occurs(A, <<mid + 1, mbi[s] - 1>>, v)
      BY <2>2 DEF Merging
    <3>2. mid \in s[1]..s[2] - 1
      BY <3>1, InArray
    <3>3. PICK B : B = A'
      OBVIOUS
    <3>4. \A e \in s[1]..s[2] : B[e] = A[e]
      BY <1>2, <2>2, <3>3
    <3> HIDE DEF mid
    <3>i. mid \in Int /\ ai[s] - 1 \in s[1] - 1..s[2] /\ mbi[s] - 1 \in mid..s[2]
      BY <1>i, <3>1, <3>2, SMTT(30)
    <3>j. ai[s] - 1 \in Int /\ mid + 1 \in Int /\ mbi[s] - 1 \in Int
      BY <1>i, <3>i
    <3>5. PICK L \in Int \X Int : L = <<s[1], ai[s] - 1>>
      BY <1>i, <3>j
    <3>6. PICK R \in Int \X Int : R = <<mid + 1, mbi[s] - 1>>
      BY <3>j
    <3>a. \A e \in L[1]..L[2] : B[e] = A[e]
      BY <1>i, <3>i, <3>4, <3>5
    <3>b. \A e \in R[1]..R[2] : B[e] = A[e]
      BY <1>i, <3>i, <3>2, <3>4, <3>6
    <3>7. (\A e \in L[1]..L[2] : B[e] = A[e]) /\ (\A e \in R[1]..R[2] : B[e] = A[e])
      BY <3>a, <3>b
    <3>8. \A v : Sort!Occurs(B, L, v) = Sort!Occurs(A, L, v) /\ Sort!Occurs(B, R, v) = Sort!Occurs(A, R, v)
      BY <3>7, OccursPart
    <3>9. \A f \in ai[s]..mid \union mbi[s]..s[2] : A'[f] = A[f]
      BY <1>i, <3>1, <3>2, <3>3, <3>4, SMTT(30)
    <3>10. \A v \in Values : Sort!Occurs(Merge(s), MergedTo(s), v)
               = Sort!Occurs(A', <<s[1], ai[s] - 1>>, v) + Sort!Occurs(A', <<mid + 1, mbi[s] - 1>>, v)
      BY <3>1, <3>3, <3>5, <3>6, <3>8
    <3>11. PICK F : F = Merge(s)
      OBVIOUS
    <3>12. PICK M : M = MergedTo(s)
      OBVIOUS
    <3>13. SortedOn(F, M) /\ F = Merge(s)' /\ M = MergedTo(s)'
      BY <1>5, <3>1, <3>11, <3>12
    <3> QED
      BY <1>1, <1>5, <2>2, <3>1, <3>9, <3>10, <3>11, <3>12, <3>13 DEF Merging, mid, SortedOn, Sort!Occurs
  <2> QED
    BY <2>1, <2>2
<1>7. Copying(s)'
  <2>1. CASE sat[s] # "copy"
    BY <1>1, <2>1 DEF Copying
  <2>2. CASE sat[s] = "copy"
    <3>1. /\ s[1] < s[2] /\ ai[s] \in s[1]..s[2] /\ Len(tmp[s]) = s[2] - s[1] + 1
          /\ SortedOn(Merge(s), s)
          /\ \A v \in Values : Sort!Occurs(Merge(s), s, v) = Sort!Occurs(given, s, v)
          /\ \A e \in s[1]..ai[s] - 1 : A[e] = Merge(s)[e]
      BY <2>2 DEF Copying
    <3>2. \A e \in s[1]..ai[s] - 1 : A'[e] = A[e]
      BY <1>i, <1>2, <2>2, <3>1
    <3> QED
      BY <1>1, <1>5, <2>2, <3>1, <3>2 DEF Copying, SortedOn, Sort!Occurs
  <2> QED
    BY <2>1, <2>2
<1> QED
  BY <1>3, <1>4, <1>6, <1>7

\* While a call merges, its halves are done and quiet: sorted and complete.
LEMMA HalvesReady ==
  ASSUME Sort!SortAssumption, SortTypes, TreeKept, \A q \in Sort!Calls : Finished(q),
         NEW r \in Sort!Calls, r[1] < r[2], sat[r] = "merge", NEW h \in {Sort!Left(r), Sort!Right(r)}
  PROVE  SortedOn(A, h) /\ \A v \in Values : Sort!Occurs(A, h, v) = Sort!Occurs(given, h, v)
<1>1. h \in Sort!Calls /\ Below(h, r)
  BY ItsHalves
<1>2. sat[h] = "done"
  BY <1>1 DEF TreeKept
<1>3. Quiet(h)
  <2> SUFFICES ASSUME NEW q \in Sort!Calls, Below(h, q) PROVE sat[q] \in {"halves", "merge"}
    BY DEF Quiet
  <2>1. q = r \/ Below(r, q)
    BY AboveHalf
  <2> QED
    BY <2>1, AboveWaits
<1> QED
  BY <1>1, <1>2, <1>3 DEF Finished

\* A call of one element returns.
LEMMA NothingKept ==
  ASSUME Sort!SortAssumption, SortTypes, NEW r \in Sort!Calls, Untouched(r), Sort!Nothing(r)
  PROVE  Untouched(r)' /\ Finished(r)' /\ Merging(r)' /\ Copying(r)'
<1>1. /\ sat[r] = "entry" /\ sat'[r] = "done" /\ r[1] >= r[2] /\ A' = A /\ given' = given
  BY OwnPlace DEF Sort!Nothing
<1>2. r \in Int \X Int /\ r[1] = r[2]
  BY <1>1, CallTree DEF IsRange
<1>3. \A v : Sort!Occurs(A, r, v) = Sort!Occurs(given, r, v)
  BY <1>1, <1>2, OccursPart DEF Untouched
<1>4. SortedOn(A, r)
  BY <1>2 DEF SortedOn
<1>5. Finished(r)'
  BY <1>1, <1>3, <1>4 DEF Finished, SortedOn, Sort!Occurs
<1> QED
  BY <1>1, <1>5 DEF Untouched, Merging, Copying

\* A call starts its halves.
LEMMA SplitKept ==
  ASSUME Sort!SortAssumption, SortTypes, TreeKept, NEW r \in Sort!Calls, Sort!Split(r),
         \A q \in Sort!Calls : Untouched(q) /\ Merging(q),
         NEW s \in {r, Sort!Left(r), Sort!Right(r)}
  PROVE  Untouched(s)' /\ Finished(s)' /\ Merging(s)' /\ Copying(s)'
<1>1. sat[r] = "entry" /\ sat'[r] = "halves" /\ r[1] < r[2] /\ A' = A /\ given' = given /\ tmp' = tmp
  BY OwnPlace DEF Sort!Split
<1>2. CASE s = r
  BY <1>1, <1>2 DEF Untouched, Finished, Merging, Copying
<1>3. CASE s # r
  <2>1. s \in Sort!Calls /\ Below(s, r)
    BY <1>1, <1>3, ItsHalves
  <2>2. sat[s] = "none" /\ sat'[s] = "entry"
    BY <1>1, <1>3, <2>1, OwnVariables DEF TreeKept, Sort!Step
  <2> QED
    BY <1>1, <2>1, <2>2 DEF Untouched, Finished, Merging, Copying
<1> QED
  BY <1>2, <1>3

\* A call begins to merge.
LEMMA JoinKept ==
  ASSUME Sort!SortAssumption, SortTypes, NEW r \in Sort!Calls, Merging(r), Sort!Join(r)
  PROVE  Untouched(r)' /\ Finished(r)' /\ Merging(r)' /\ Copying(r)'
<1>1. sat[r] = "halves" /\ sat'[r] = "merge" /\ A' = A /\ given' = given /\ tmp' = tmp
  BY OwnPlace DEF Sort!Join
<1>2. tmp[r] = <<>> /\ r[1] < r[2]
  BY <1>1 DEF Merging
<1>3. r[1] \in Int /\ r[2] \in Int /\ Sort!Middle(r) \in r[1]..r[2] - 1 /\ Sort!MergeMiddle(r) = Sort!Middle(r)
  BY <1>2, InArray
<1> DEFINE mid == Sort!Middle(r)
<1>4. ai'[r] = r[1] /\ mbi'[r] = mid + 1
  BY <1>3 DEF Sort!Join, SortTypes
<1>5. MergedTo(r)' = <<r[1], r[1] - 1>> /\ Len(tmp'[r]) = 0
  BY <1>1, <1>2, <1>3 DEF MergedTo
<1>6. \A v : \A f : Sort!Occurs(f, <<r[1], r[1] - 1>>, v) = 0
  BY <1>3, OccursNowhere
<1>7. \A v : \A f : Sort!Occurs(f, <<mid + 1, mid>>, v) = 0
  <2>1. mid + 1 \in Int /\ (mid + 1) - 1 = mid
    BY <1>3
  <2> QED
    BY <2>1, OccursNowhere
<1>8. PICK F : F = Merge(r)'
  OBVIOUS
<1>9. (mid + 1) - 1 = mid /\ mid \in Int
  BY <1>3
<1>10. (\A v \in Values : Sort!Occurs(Merge(r), MergedTo(r), v)
                  = Sort!Occurs(A, <<r[1], ai[r] - 1>>, v) + Sort!Occurs(A, <<mid + 1, mbi[r] - 1>>, v))'
  <2>1. \A v \in Values : Sort!Occurs(F, MergedTo(r)', v)
                  = Sort!Occurs(A, <<r[1], ai'[r] - 1>>, v) + Sort!Occurs(A, <<mid + 1, mbi'[r] - 1>>, v)
    <3> HIDE DEF mid
    <3> QED
      BY <1>4, <1>5, <1>6, <1>7, <1>9
  <2> QED
    BY <1>1, <1>8, <2>1 DEF Sort!Occurs
<1>11. SortedOn(Merge(r), MergedTo(r))'
  BY <1>3, <1>5 DEF SortedOn
<1>12. Merging(r)'
  <2>1. /\ ai'[r] \in r[1]..mid + 1 /\ mbi'[r] \in mid + 1..r[2] + 1
        /\ Len(tmp'[r]) = (ai'[r] - r[1]) + (mbi'[r] - (mid + 1))
    BY <1>3, <1>4, <1>5
  <2>2. r[1]..MergedTo(r)'[2] = {}
    BY <1>3, <1>5
  <2> QED
    BY <1>1, <1>2, <1>10, <1>11, <2>1, <2>2 DEF Merging
<1> QED
  BY <1>1, <1>12 DEF Untouched, Finished, Copying

\* One element more has been merged: the next of the left half or of the right.
LEMMA TakeKept ==
  ASSUME Sort!SortAssumption, SortTypes, TreeKept, \A q \in Sort!Calls : Finished(q),
         NEW r \in Sort!Calls, Merging(r), Sort!Take(r)
  PROVE  Untouched(r)' /\ Finished(r)' /\ Merging(r)' /\ Copying(r)'
<1> DEFINE mid == Sort!Middle(r)
           hi == r[1] + Len(tmp[r]) - 1
           left == ai[r] <= mid /\ (mbi[r] <= r[2] => A[ai[r]] < A[mbi[r]])
           w == IF left THEN A[ai[r]] ELSE A[mbi[r]]
<1>1. sat[r] = "merge" /\ sat'[r] = "merge" /\ A' = A /\ given' = given
  BY OwnPlace DEF Sort!Take
<1>2. /\ r[1] < r[2] /\ ai[r] \in r[1]..mid + 1 /\ mbi[r] \in mid + 1..r[2] + 1
      /\ Len(tmp[r]) = (ai[r] - r[1]) + (mbi[r] - (mid + 1))
      /\ SortedOn(Merge(r), MergedTo(r))
      /\ \A e \in r[1]..MergedTo(r)[2] : \A f \in ai[r]..mid \union mbi[r]..r[2] : Merge(r)[e] <= A[f]
      /\ \A v \in Values : Sort!Occurs(Merge(r), MergedTo(r), v)
           = Sort!Occurs(A, <<r[1], ai[r] - 1>>, v) + Sort!Occurs(A, <<mid + 1, mbi[r] - 1>>, v)
  BY <1>1 DEF Merging
<1>3. /\ r[1] \in Int /\ r[2] \in Int /\ r[1]..r[2] \subseteq Sort!Index
      /\ Sort!MergeMiddle(r) = mid /\ mid \in r[1]..r[2] - 1
  BY <1>2, InArray
<1>i. /\ ai[r] \in Int /\ mbi[r] \in Int /\ mid \in Int /\ r[1] \in Int /\ r[2] \in Int
      /\ r[1] <= ai[r] /\ ai[r] <= mid + 1 /\ mid + 1 <= mbi[r] /\ mbi[r] <= r[2] + 1
      /\ r[1] <= mid /\ mid < r[2]
      /\ Len(tmp[r]) = (ai[r] - r[1]) + (mbi[r] - (mid + 1))
  BY <1>2, <1>3
<1> HIDE DEF mid
<1>4. /\ ai[r] <= mid \/ mbi[r] <= r[2]
      /\ tmp'[r] = Append(tmp[r], w)
      /\ left => ai'[r] = ai[r] + 1 /\ mbi'[r] = mbi[r]
      /\ ~left => ai'[r] = ai[r] /\ mbi'[r] = mbi[r] + 1
  BY <1>3 DEF Sort!Take, SortTypes
<1>5. /\ SortedOn(A, <<r[1], mid>>) /\ SortedOn(A, <<mid + 1, r[2]>>)
  BY <1>1, <1>2, HalvesReady DEF Sort!Left, Sort!Right, mid
<1>v. \A e \in r[1]..r[2] : A[e] \in Values /\ A[e] \in Int
  BY <1>3 DEF SortTypes, Sort!SortAssumption
<1>6. ~left => mbi[r] <= r[2] /\ (ai[r] <= mid => A[mbi[r]] <= A[ai[r]])
  <2>1. ai[r] <= mid /\ mbi[r] <= r[2] => A[ai[r]] \in Int /\ A[mbi[r]] \in Int
    BY <1>2, <1>3, <1>v, SMTT(30)
  <2> QED
    BY <1>4, <2>1
<1>7. w \in Values /\ w \in Int
  <2>1. left => ai[r] \in r[1]..r[2]
    BY <1>i
  <2>2. ~left => mbi[r] \in r[1]..r[2]
    BY <1>i, <1>6
  <2> QED
    BY <1>v, <2>1, <2>2
<1>j. /\ left => ai'[r] = ai[r] + 1 /\ mbi'[r] = mbi[r] /\ ai[r] <= mid /\ w = A[ai[r]]
      /\ ~left => ai'[r] = ai[r] /\ mbi'[r] = mbi[r] + 1 /\ mbi[r] <= r[2] /\ w = A[mbi[r]]
  BY <1>4, <1>6
<1>8. Len(tmp[r]) \in Nat /\ Len(tmp'[r]) = Len(tmp[r]) + 1 /\ tmp[r] \in Seq(Values)
  BY <1>4, <1>7, AppendProperties DEF SortTypes
<1>9. /\ MergedTo(r) = <<r[1], hi>> /\ MergedTo(r)' = <<r[1], hi + 1>>
      /\ hi \in Int /\ r[1] - 1 <= hi /\ hi + 1 <= r[2]
  <2>1. hi \in Int /\ r[1] - 1 <= hi
    BY <1>3, <1>8
  <2>2. hi + 1 <= r[2]
    <3>1. ai[r] <= mid \/ mbi[r] <= r[2]
      BY <1>4
    <3>2. PICK o \in Nat : o = Len(tmp[r])
      BY <1>8
    <3>3. o < r[2] - r[1] + 1
      BY <1>i, <3>1, <3>2, SMTT(30)
    <3> QED
      BY <1>i, <3>2, <3>3
  <2>3. MergedTo(r)' = <<r[1], hi + 1>>
    BY <1>3, <1>8 DEF MergedTo
  <2> QED
    BY <2>1, <2>2, <2>3 DEF MergedTo
<1>10. PICK F : F = Merge(r)
  OBVIOUS
<1>11. PICK G : G = Merge(r)'
  OBVIOUS
<1> HIDE DEF w, left
<1>12. \A e \in r[1]..hi : G[e] = F[e] /\ F[e] \in Int
  <2> SUFFICES ASSUME NEW e \in r[1]..hi PROVE G[e] = F[e] /\ F[e] \in Int
    OBVIOUS
  <2>1. e \in Sort!Index
    BY <1>3, <1>9
  <2>2. e - r[1] + 1 \in 1..Len(tmp[r])
    <3>1. PICK o \in Nat : o = Len(tmp[r])
      BY <1>8
    <3>2. PICK d \in Int : d = r[1]
      BY <1>i
    <3>3. e \in Int /\ d <= e /\ e <= d + o - 1
      BY <3>1, <3>2
    <3>4. e - d + 1 \in 1..o
      BY <3>3
    <3> QED
      BY <3>1, <3>2, <3>4
  <2>3. tmp'[r][e - r[1] + 1] = tmp[r][e - r[1] + 1]
    BY <1>4, <1>7, <1>8, <2>2, AppendProperties
  <2>4. tmp[r][e - r[1] + 1] \in Values
    BY <1>8, <2>2
  <2> QED
    BY <1>10, <1>11, <2>1, <2>3, <2>4 DEF Merge, Sort!SortAssumption
<1>13. G[hi + 1] = w
  <2>1. hi + 1 \in Sort!Index /\ (hi + 1) - r[1] + 1 = Len(tmp[r]) + 1
    <3>1. PICK o \in Nat : o = Len(tmp[r])
      BY <1>8
    <3>2. hi + 1 \in r[1]..r[2]
      BY <1>i, <1>9, SMTT(30)
    <3>3. (r[1] + o - 1 + 1) - r[1] + 1 = o + 1
      BY <1>i
    <3> QED
      BY <1>3, <3>1, <3>2, <3>3
  <2>2. tmp'[r][Len(tmp[r]) + 1] = w
    BY <1>4, <1>7, <1>8, AppendProperties
  <2> QED
    BY <1>11, <2>1, <2>2 DEF Merge
<1>14. \A e \in r[1]..hi : \A f \in ai[r]..mid \union mbi[r]..r[2] : F[e] <= A[f]
  BY <1>2, <1>9, <1>10
<1>15. \A e \in r[1]..hi : F[e] <= w
  <2>1. left => ai[r] \in ai[r]..mid /\ w = A[ai[r]]
    BY <1>i, <1>j
  <2>2. ~left => mbi[r] \in mbi[r]..r[2] /\ w = A[mbi[r]]
    BY <1>i, <1>j
  <2> QED
    BY <1>14, <2>1, <2>2
<1>16. /\ SortedOn(G, <<r[1], hi + 1>>)
       /\ \A v : Sort!Occurs(G, <<r[1], hi + 1>>, v)
                   = Sort!Occurs(F, <<r[1], hi>>, v) + (IF w = v THEN 1 ELSE 0)
  <2>1. SortedOn(F, <<r[1], hi>>)
    BY <1>2, <1>9, <1>10
  <2>2. PICK M \in Int : M = hi
    BY <1>9
  <2>3. PICK W \in Int : W = w
    BY <1>7
  <2>4. PICK L \in Int : L = r[1]
    BY <1>i
  <2> HIDE DEF hi
  <2>5. /\ L - 1 <= M /\ SortedOn(F, <<L, M>>) /\ G[M + 1] = W
        /\ \A e \in L..M : G[e] = F[e] /\ F[e] \in Int /\ F[e] <= W
    BY <1>9, <1>12, <1>13, <1>15, <2>1, <2>2, <2>3, <2>4
  <2>6. /\ SortedOn(G, <<L, M + 1>>)
        /\ \A v : Sort!Occurs(G, <<L, M + 1>>, v) = Sort!Occurs(F, <<L, M>>, v) + (IF W = v THEN 1 ELSE 0)
    <3>1. Continues(G, F, L, M, W)
      BY <2>5 DEF Continues
    <3> QED
      BY <2>5, <3>1, OneMore
  <2> QED
    BY <2>2, <2>3, <2>4, <2>6
<1>17. \A f \in ai'[r]..mid \union mbi'[r]..r[2] : f \in ai[r]..mid \union mbi[r]..r[2] /\ w <= A[f]
  <2>1. CASE left
    <3>1. \A f \in ai[r] + 1..mid : f \in ai[r]..mid /\ A[ai[r]] <= A[f]
      <4> SUFFICES ASSUME NEW f \in ai[r] + 1..mid PROVE f \in ai[r]..mid /\ A[ai[r]] <= A[f]
        OBVIOUS
      <4>1. f \in ai[r]..mid /\ f \in r[1]..mid /\ ai[r] \in r[1]..mid /\ ai[r] < f
        BY <1>i
      <4> QED
        BY <1>5, <4>1 DEF SortedOn
    <3>2. \A f \in mbi[r]..r[2] : A[ai[r]] <= A[f]
      <4> SUFFICES ASSUME NEW f \in mbi[r]..r[2] PROVE A[ai[r]] <= A[f]
        OBVIOUS
      <4>1. mbi[r] <= r[2] /\ f \in mid + 1..r[2] /\ mbi[r] \in mid + 1..r[2] /\ ai[r] \in r[1]..mid
        BY <1>i, <1>j, <2>1
      <4>2. A[ai[r]] < A[mbi[r]]
        BY <2>1, <4>1 DEF left
      <4>3. A[mbi[r]] <= A[f]
        <5>1. mbi[r] = f \/ mbi[r] < f
          BY <1>3, <4>1
        <5> QED
          BY <1>3, <1>5, <1>v, <4>1, <5>1 DEF SortedOn
      <4>4. A[ai[r]] \in Int /\ A[mbi[r]] \in Int /\ A[f] \in Int
        BY <1>3, <1>v, <4>1
      <4> QED
        BY <4>2, <4>3, <4>4
    <3> QED
      BY <1>j, <2>1, <3>1, <3>2
  <2>2. CASE ~left
    <3>1. mbi[r] \in mid + 1..r[2] /\ w = A[mbi[r]]
      BY <1>i, <1>j, <2>2
    <3>2. \A f \in mbi[r] + 1..r[2] : f \in mbi[r]..r[2] /\ A[mbi[r]] <= A[f]
      <4> SUFFICES ASSUME NEW f \in mbi[r] + 1..r[2] PROVE f \in mbi[r]..r[2] /\ A[mbi[r]] <= A[f]
        OBVIOUS
      <4>1. f \in mbi[r]..r[2] /\ f \in mid + 1..r[2] /\ mbi[r] < f
        BY <1>i
      <4> QED
        BY <1>5, <3>1, <4>1 DEF SortedOn
    <3>3. \A f \in ai[r]..mid : A[mbi[r]] <= A[f]
      <4> SUFFICES ASSUME NEW f \in ai[r]..mid PROVE A[mbi[r]] <= A[f]
        OBVIOUS
      <4>1. ai[r] <= mid /\ f \in r[1]..mid /\ ai[r] \in r[1]..mid
        BY <1>2, <1>3
      <4>2. A[mbi[r]] <= A[ai[r]]
        BY <1>6, <2>2, <4>1
      <4>3. A[ai[r]] <= A[f]
        <5>1. ai[r] = f \/ ai[r] < f
          BY <1>3, <4>1
        <5> QED
          BY <1>3, <1>5, <1>v, <4>1, <5>1 DEF SortedOn
      <4>4. A[ai[r]] \in Int /\ A[mbi[r]] \in Int /\ A[f] \in Int
        BY <1>3, <1>v, <3>1, <4>1
      <4> QED
        BY <4>2, <4>3, <4>4
    <3> QED
      BY <1>j, <2>2, <3>1, <3>2, <3>3
  <2> QED
    BY <2>1, <2>2
<1>18. \A e \in r[1]..hi + 1 : \A f \in ai'[r]..mid \union mbi'[r]..r[2] : G[e] <= A[f]
  <2> SUFFICES ASSUME NEW e \in r[1]..hi + 1, NEW f \in ai'[r]..mid \union mbi'[r]..r[2] PROVE G[e] <= A[f]
    OBVIOUS
  <2>1. e = hi + 1 \/ e \in r[1]..hi
    BY <1>3, <1>9
  <2> QED
    BY <1>12, <1>13, <1>14, <1>17, <2>1
<1>19. /\ ai'[r] \in r[1]..mid + 1 /\ mbi'[r] \in mid + 1..r[2] + 1
       /\ Len(tmp'[r]) = (ai'[r] - r[1]) + (mbi'[r] - (mid + 1))
  <2>1. CASE left
    <3>1. ai'[r] = ai[r] + 1 /\ mbi'[r] = mbi[r] /\ ai[r] <= mid
      BY <1>j, <2>1
    <3>2. Len(tmp'[r]) = Len(tmp[r]) + 1
      BY <1>8
    <3>3. PICK a \in Int, b \in Int, c \in Int, d \in Int, o \in Int :
            a = ai[r] /\ b = mbi[r] /\ c = mid /\ d = r[1] /\ o = r[2]
      BY <1>i
    <3>4. /\ d <= a /\ a <= c + 1 /\ c + 1 <= b /\ b <= o + 1 /\ c < o /\ d <= c /\ a <= c
          /\ Len(tmp[r]) = (a - d) + (b - (c + 1)) /\ ai'[r] = a + 1 /\ mbi'[r] = b
      BY <1>i, <3>1, <3>3
    <3>5. /\ ai'[r] \in d..c + 1 /\ mbi'[r] \in c + 1..o + 1
          /\ Len(tmp'[r]) = (ai'[r] - d) + (mbi'[r] - (c + 1))
      BY <3>2, <3>4, SMTT(30)
    <3> QED
      BY <3>3, <3>5
  <2>2. CASE ~left
    <3>1. ai'[r] = ai[r] /\ mbi'[r] = mbi[r] + 1 /\ mbi[r] <= r[2]
      BY <1>j, <2>2
    <3>2. Len(tmp'[r]) = Len(tmp[r]) + 1
      BY <1>8
    <3>3. PICK a \in Int, b \in Int, c \in Int, d \in Int, o \in Int :
            a = ai[r] /\ b = mbi[r] /\ c = mid /\ d = r[1] /\ o = r[2]
      BY <1>i
    <3>4. /\ d <= a /\ a <= c + 1 /\ c + 1 <= b /\ b <= o + 1 /\ c < o /\ d <= c /\ b <= o
          /\ Len(tmp[r]) = (a - d) + (b - (c + 1)) /\ ai'[r] = a /\ mbi'[r] = b + 1
      BY <1>i, <3>1, <3>3
    <3>5. /\ ai'[r] \in d..c + 1 /\ mbi'[r] \in c + 1..o + 1
          /\ Len(tmp'[r]) = (ai'[r] - d) + (mbi'[r] - (c + 1))
      BY <3>2, <3>4, SMTT(30)
    <3> QED
      BY <3>3, <3>5
  <2> QED
    BY <2>1, <2>2
<1>20. \A v \in Values : Sort!Occurs(G, <<r[1], hi + 1>>, v)
           = Sort!Occurs(A, <<r[1], ai'[r] - 1>>, v) + Sort!Occurs(A, <<mid + 1, mbi'[r] - 1>>, v)
  <2> SUFFICES ASSUME NEW v \in Values
               PROVE  Sort!Occurs(G, <<r[1], hi + 1>>, v)
                        = Sort!Occurs(A, <<r[1], ai'[r] - 1>>, v) + Sort!Occurs(A, <<mid + 1, mbi'[r] - 1>>, v)
    OBVIOUS
  <2>1. Sort!Occurs(G, <<r[1], hi + 1>>, v)
          = Sort!Occurs(A, <<r[1], ai[r] - 1>>, v) + Sort!Occurs(A, <<mid + 1, mbi[r] - 1>>, v)
             + (IF w = v THEN 1 ELSE 0)
    BY <1>2, <1>9, <1>10, <1>16
  <2>2. PICK a \in Int : a = ai[r] - 1 /\ r[1] - 1 <= a
    BY <1>2, <1>3
  <2>3. PICK b \in Int : b = mbi[r] - 1 /\ mid <= b
    BY <1>2, <1>3
  <2>4. PICK o \in Int : o = mid + 1
    BY <1>3
  <2>5. Sort!Occurs(A, <<r[1], a + 1>>, v) = Sort!Occurs(A, <<r[1], a>>, v) + (IF A[a + 1] = v THEN 1 ELSE 0)
    BY <1>3, <2>2, OccursMore
  <2>6. Sort!Occurs(A, <<o, b + 1>>, v) = Sort!Occurs(A, <<o, b>>, v) + (IF A[b + 1] = v THEN 1 ELSE 0)
    BY <1>3, <2>3, <2>4, OccursMore
  <2>7. Sort!Occurs(A, <<r[1], a>>, v) \in Nat /\ Sort!Occurs(A, <<o, b>>, v) \in Nat
    <3>1. PICK L \in Int \X Int : L = <<r[1], a>>
      BY <1>3
    <3>2. PICK R \in Int \X Int : R = <<o, b>>
      OBVIOUS
    <3>3. Sort!Occurs(A, L, v) \in Nat /\ Sort!Occurs(A, R, v) \in Nat
      BY OccursPart
    <3> QED
      BY <3>1, <3>2, <3>3
  <2>8. a + 1 = ai[r] /\ b + 1 = mbi[r]
    BY <1>i, <2>2, <2>3, SMTT(30)
  <2>9. CASE left
    <3>1. w = A[ai[r]] /\ ai'[r] - 1 = a + 1 /\ mbi'[r] - 1 = b
      BY <1>j, <2>2, <2>3, <2>8, <2>9
    <3>2. /\ Sort!Occurs(A, <<r[1], ai'[r] - 1>>, v) = Sort!Occurs(A, <<r[1], a + 1>>, v)
          /\ Sort!Occurs(A, <<mid + 1, mbi'[r] - 1>>, v) = Sort!Occurs(A, <<o, b>>, v)
      BY <2>4, <3>1
    <3>3. Sort!Occurs(G, <<r[1], hi + 1>>, v)
          = Sort!Occurs(A, <<r[1], a>>, v) + Sort!Occurs(A, <<o, b>>, v) + (IF w = v THEN 1 ELSE 0)
      BY <2>1, <2>2, <2>3, <2>4
    <3> QED
      BY <2>5, <2>7, <2>8, <3>1, <3>2, <3>3
  <2>10. CASE ~left
    <3>1. w = A[mbi[r]] /\ mbi'[r] - 1 = b + 1 /\ ai'[r] - 1 = a
      BY <1>j, <2>2, <2>3, <2>8, <2>10
    <3>2. /\ Sort!Occurs(A, <<r[1], ai'[r] - 1>>, v) = Sort!Occurs(A, <<r[1], a>>, v)
          /\ Sort!Occurs(A, <<mid + 1, mbi'[r] - 1>>, v) = Sort!Occurs(A, <<o, b + 1>>, v)
      BY <2>4, <3>1
    <3>3. Sort!Occurs(G, <<r[1], hi + 1>>, v)
          = Sort!Occurs(A, <<r[1], a>>, v) + Sort!Occurs(A, <<o, b>>, v) + (IF w = v THEN 1 ELSE 0)
      BY <2>1, <2>2, <2>3, <2>4
    <3> QED
      BY <2>6, <2>7, <2>8, <3>1, <3>2, <3>3
  <2> QED
    BY <2>9, <2>10
<1>21. Merging(r)'
  <2> HIDE DEF hi
  <2>1. SortedOn(Merge(r), MergedTo(r))'
    BY <1>9, <1>11, <1>16 DEF SortedOn
  <2>2. (\A e \in r[1]..MergedTo(r)[2] : \A f \in ai[r]..mid \union mbi[r]..r[2] : Merge(r)[e] <= A[f])'
    BY <1>1, <1>9, <1>11, <1>18
  <2>3. (\A v \in Values : Sort!Occurs(Merge(r), MergedTo(r), v)
                  = Sort!Occurs(A, <<r[1], ai[r] - 1>>, v) + Sort!Occurs(A, <<mid + 1, mbi[r] - 1>>, v))'
    BY <1>1, <1>9, <1>11, <1>20 DEF Sort!Occurs
  <2> QED
    BY <1>1, <1>2, <1>19, <2>1, <2>2, <2>3 DEF Merging, mid
<1> QED
  BY <1>1, <1>21 DEF Untouched, Finished, Copying

\* Both halves are used up: the merge is sorted and complete.
LEMMA MergedKept ==
  ASSUME Sort!SortAssumption, SortTypes, TreeKept, \A q \in Sort!Calls : Finished(q),
         NEW r \in Sort!Calls, Merging(r), Sort!Merged(r)
  PROVE  Untouched(r)' /\ Finished(r)' /\ Merging(r)' /\ Copying(r)'
<1> DEFINE mid == Sort!Middle(r)
<1>1. /\ sat[r] = "merge" /\ sat'[r] = "copy" /\ A' = A /\ given' = given /\ tmp' = tmp
      /\ ai[r] > Sort!MergeMiddle(r) /\ mbi[r] > r[2] /\ ai'[r] = r[1]
  BY OwnPlace DEF Sort!Merged, SortTypes
<1>2. /\ r[1] < r[2] /\ ai[r] \in r[1]..mid + 1 /\ mbi[r] \in mid + 1..r[2] + 1
      /\ Len(tmp[r]) = (ai[r] - r[1]) + (mbi[r] - (mid + 1))
      /\ SortedOn(Merge(r), MergedTo(r))
      /\ \A v \in Values : Sort!Occurs(Merge(r), MergedTo(r), v)
           = Sort!Occurs(A, <<r[1], ai[r] - 1>>, v) + Sort!Occurs(A, <<mid + 1, mbi[r] - 1>>, v)
  BY <1>1 DEF Merging
<1>3. /\ r \in Int \X Int /\ r[1] \in Int /\ r[2] \in Int /\ r = <<r[1], r[2]>>
      /\ Sort!MergeMiddle(r) = mid /\ mid \in r[1]..r[2] - 1
  BY <1>2, InArray, CallTree DEF IsRange
<1>4. /\ SortedOn(A, <<r[1], mid>>) /\ SortedOn(A, <<mid + 1, r[2]>>)
      /\ \A v \in Values : /\ Sort!Occurs(A, <<r[1], mid>>, v) = Sort!Occurs(given, <<r[1], mid>>, v)
                           /\ Sort!Occurs(A, <<mid + 1, r[2]>>, v) = Sort!Occurs(given, <<mid + 1, r[2]>>, v)
  BY <1>1, <1>2, HalvesReady DEF Sort!Left, Sort!Right
<1> HIDE DEF mid
<1>5. ai[r] = mid + 1 /\ mbi[r] = r[2] + 1 /\ Len(tmp[r]) = r[2] - r[1] + 1
  <2>1. PICK a \in Int, b \in Int, c \in Int : a = ai[r] /\ b = mbi[r] /\ c = mid
    BY <1>2, <1>3
  <2>2. a > c /\ b > r[2] /\ a <= c + 1 /\ b <= r[2] + 1
    BY <1>1, <1>2, <1>3, <2>1
  <2>3. a = c + 1 /\ b = r[2] + 1 /\ (a - r[1]) + (b - (c + 1)) = r[2] - r[1] + 1
    BY <1>3, <2>2
  <2> QED
    BY <1>2, <2>1, <2>3
<1>6. ai[r] - 1 = mid /\ mbi[r] - 1 = r[2] /\ MergedTo(r) = r
  <2>1. r[1] + Len(tmp[r]) - 1 = r[2]
    BY <1>3, <1>5
  <2>2. (mid + 1) - 1 = mid /\ (r[2] + 1) - 1 = r[2]
    BY <1>3
  <2> QED
    BY <1>3, <1>5, <2>1, <2>2 DEF MergedTo
<1>7. \A v \in Values : Sort!Occurs(Merge(r), r, v) = Sort!Occurs(given, r, v)
  <2> SUFFICES ASSUME NEW v \in Values PROVE Sort!Occurs(Merge(r), r, v) = Sort!Occurs(given, r, v)
    OBVIOUS
  <2>1. mid \in Int /\ r[1] - 1 <= mid /\ mid <= r[2]
    BY <1>3
  <2>2. Sort!Occurs(given, r, v) = Sort!Occurs(given, <<r[1], mid>>, v) + Sort!Occurs(given, <<mid + 1, r[2]>>, v)
    BY <1>3, <2>1, OccursJoined
  <2> QED
    BY <1>2, <1>4, <1>6, <2>2
<1>8. Merge(r)' = Merge(r)
  BY <1>1 DEF Merge
<1>9. SortedOn(Merge(r), r)
  BY <1>2, <1>6
<1>10. ai'[r] \in r[1]..r[2] /\ r[1]..ai'[r] - 1 = {}
  BY <1>1, <1>2, <1>3, SMTT(30)
<1>11. Copying(r)'
  BY <1>1, <1>2, <1>5, <1>7, <1>8, <1>9, <1>10 DEF Copying, SortedOn, Sort!Occurs
<1> QED
  BY <1>1, <1>11 DEF Untouched, Finished, Merging

\* One element more is in its place; after the last the part is the merge.
LEMMA CopyBackKept ==
  ASSUME Sort!SortAssumption, SortTypes, NEW r \in Sort!Calls, Copying(r), Sort!CopyBack(r)
  PROVE  Untouched(r)' /\ Finished(r)' /\ Merging(r)' /\ Copying(r)'
<1>1. /\ sat[r] = "copy" /\ given' = given /\ ai'[r] = ai[r] + 1
      /\ A' = [A EXCEPT ![ai[r]] = tmp[r][ai[r] - r[1] + 1]]
      /\ ai[r] = r[2] => sat'[r] = "done"
      /\ ai[r] # r[2] => sat'[r] = "copy" /\ tmp' = tmp
  BY DEF Sort!CopyBack, SortTypes
<1>2. /\ r[1] < r[2] /\ ai[r] \in r[1]..r[2] /\ Len(tmp[r]) = r[2] - r[1] + 1
      /\ SortedOn(Merge(r), r)
      /\ \A v \in Values : Sort!Occurs(Merge(r), r, v) = Sort!Occurs(given, r, v)
      /\ \A e \in r[1]..ai[r] - 1 : A[e] = Merge(r)[e]
  BY <1>1 DEF Copying
<1>3. /\ r \in Int \X Int /\ r[1] \in Int /\ r[2] \in Int /\ r[1]..r[2] \subseteq Sort!Index
      /\ A \in [Sort!Index -> Values]
  BY InArray, CallTree DEF IsRange, SortTypes
<1>4. \A e \in r[1]..ai[r] : A'[e] = Merge(r)[e]
  <2> SUFFICES ASSUME NEW e \in r[1]..ai[r] PROVE A'[e] = Merge(r)[e]
    OBVIOUS
  <2>1. e \in Sort!Index
    BY <1>2, <1>3
  <2>2. CASE e = ai[r]
    BY <1>1, <1>3, <2>1, <2>2 DEF Merge
  <2>3. CASE e # ai[r]
    <3>1. e \in r[1]..ai[r] - 1
      BY <1>2, <1>3, <2>3
    <3> QED
      BY <1>1, <1>2, <1>3, <2>1, <2>3, <3>1
  <2> QED
    BY <2>2, <2>3
<1>5. CASE ai[r] = r[2]
  <2>1. PICK B : B = A'
    OBVIOUS
  <2>2. PICK F : F = Merge(r)
    OBVIOUS
  <2>3. \A e \in r[1]..r[2] : B[e] = F[e]
    BY <1>4, <1>5, <2>1, <2>2
  <2>4. \A v : Sort!Occurs(B, r, v) = Sort!Occurs(F, r, v)
    BY <1>3, <2>3, OccursPart
  <2>5. SortedOn(B, r) /\ \A v \in Values : Sort!Occurs(B, r, v) = Sort!Occurs(given, r, v)
    BY <1>2, <2>2, <2>3, <2>4 DEF SortedOn
  <2>6. Finished(r)'
    BY <1>1, <2>1, <2>5 DEF Finished, SortedOn, Sort!Occurs
  <2> QED
    BY <1>1, <1>5, <2>6 DEF Untouched, Merging, Copying
<1>6. CASE ai[r] # r[2]
  <2>1. ai'[r] \in r[1]..r[2] /\ ai'[r] - 1 = ai[r]
    <3>1. PICK a \in Int : a = ai[r] /\ a \in r[1]..r[2] /\ a # r[2] /\ ai'[r] = a + 1
      BY <1>1, <1>2, <1>3, <1>6
    <3>2. a + 1 \in r[1]..r[2] /\ (a + 1) - 1 = a
      BY <1>3, <3>1
    <3> QED
      BY <3>1, <3>2
  <2>2. sat'[r] = "copy" /\ tmp' = tmp
    BY <1>1, <1>6
  <2>3. Merge(r)' = Merge(r)
    BY <2>2 DEF Merge
  <2>4. Copying(r)'
    BY <1>1, <1>2, <1>4, <2>1, <2>2, <2>3 DEF Copying, SortedOn, Sort!Occurs
  <2> QED
    BY <2>2, <2>4 DEF Untouched, Finished, Merging
<1> QED
  BY <1>5, <1>6

\* The array is as given, and nobody but the first call has begun.
LEMMA SortInitially ==
  ASSUME Sort!SortAssumption, Sort!Init
  PROVE  SortInv
<1> USE DEF Sort!Init
<1>1. SortTypes
  <2>1. <<>> \in Seq(Values)
    OBVIOUS
  <2>2. tmp \in [Sort!Calls -> Seq(Values)]
    BY <2>1
  <2>3. ai \in [Sort!Calls -> Int] /\ mbi \in [Sort!Calls -> Int]
    OBVIOUS
  <2> QED
    BY <2>2, <2>3 DEF SortTypes
<1>2. TreeKept
  <2> SUFFICES ASSUME NEW q \in Sort!Calls, NEW r \in Sort!Calls, Below(r, q)
               PROVE  /\ sat[q] \in {"none", "entry"} => sat[r] = "none"
                      /\ sat[q] \in {"merge", "copy", "done"} => sat[r] = "done"
    BY DEF TreeKept
  <2>1. r # Sort!Root
    BY RootOnTop
  <2> QED
    BY <2>1
<1>3. \A r \in Sort!Calls : sat[r] \in {"none", "entry"} /\ tmp[r] = <<>> /\ A = given
  OBVIOUS
<1> QED
  BY <1>1, <1>2, <1>3 DEF SortInv, Untouched, Finished, Merging, Copying

\* Every step of every call keeps the invariant: no call needs a lock.
LEMMA SortStep ==
  ASSUME Sort!SortAssumption, SortInv, [Sort!Next]_(Sort!vars)
  PROVE  SortInv'
<1>0. /\ SortTypes /\ TreeKept
      /\ \A r \in Sort!Calls : Untouched(r) /\ Finished(r) /\ Merging(r) /\ Copying(r)
  BY DEF SortInv
<1>1. ASSUME NEW r \in Sort!Calls, Sort!Step(r) PROVE SortInv'
  <2>1. SortTypes' /\ TreeKept'
    BY <1>0, <1>1, SortTypesStep, TreeStep
  <2>2. ASSUME NEW s \in Sort!Calls PROVE Untouched(s)' /\ Finished(s)' /\ Merging(s)' /\ Copying(s)'
    <3>1. CASE s = r
      <4>1. Sort!Nothing(r) => Untouched(r)' /\ Finished(r)' /\ Merging(r)' /\ Copying(r)'
        BY <1>0, NothingKept
      <4>2. Sort!Split(r) => Untouched(r)' /\ Finished(r)' /\ Merging(r)' /\ Copying(r)'
        BY <1>0, SplitKept
      <4>3. Sort!Join(r) => Untouched(r)' /\ Finished(r)' /\ Merging(r)' /\ Copying(r)'
        BY <1>0, JoinKept
      <4>4. Sort!Take(r) => Untouched(r)' /\ Finished(r)' /\ Merging(r)' /\ Copying(r)'
        BY <1>0, TakeKept
      <4>5. Sort!Merged(r) => Untouched(r)' /\ Finished(r)' /\ Merging(r)' /\ Copying(r)'
        BY <1>0, MergedKept
      <4>6. Sort!CopyBack(r) => Untouched(r)' /\ Finished(r)' /\ Merging(r)' /\ Copying(r)'
        BY <1>0, CopyBackKept
      <4> QED
        BY <1>1, <3>1, <4>1, <4>2, <4>3, <4>4, <4>5, <4>6 DEF Sort!Step
    <3>2. CASE Sort!Split(r) /\ s \in {Sort!Left(r), Sort!Right(r)}
      BY <1>0, <3>2, SplitKept
    <3>3. CASE s # r /\ ~(Sort!Split(r) /\ s \in {Sort!Left(r), Sort!Right(r)})
      BY <1>0, <1>1, <3>3, OtherCallsKept
    <3> QED
      BY <3>1, <3>2, <3>3
  <2> QED
    BY <2>1, <2>2 DEF SortInv
<1>2. CASE UNCHANGED Sort!vars
  <2> USE <1>2 DEF Sort!vars
  <2>1. SortTypes' = SortTypes /\ TreeKept' = TreeKept
    BY DEF SortTypes, TreeKept
  <2>2. ASSUME NEW r \in Sort!Calls
        PROVE  Untouched(r)' = Untouched(r) /\ Finished(r)' = Finished(r) /\ Merging(r)' = Merging(r) /\ Copying(r)' = Copying(r)
    <3>1. Merge(r)' = Merge(r) /\ MergedTo(r)' = MergedTo(r)
      BY DEF Merge, MergedTo
    <3>2. Untouched(r)' = Untouched(r)
      BY DEF Untouched
    <3>3. Finished(r)' = Finished(r)
      BY DEF Finished, Quiet, SortedOn, Sort!Occurs
    <3>4. Merging(r)' = Merging(r)
      BY <3>1 DEF Merging, SortedOn, Sort!Occurs
    <3>5. Copying(r)' = Copying(r)
      BY <3>1 DEF Copying, SortedOn, Sort!Occurs
    <3> QED
      BY <3>2, <3>3, <3>4, <3>5
  <2> QED
    BY <1>0, <2>1, <2>2 DEF SortInv
<1> QED
  BY <1>1, <1>2 DEF Sort!Next, Sort!AnyStep, Sort!Finished

\* From the invariant: what a call that has returned promises its caller.
LEMMA SortPromises ==
  ASSUME Sort!SortAssumption, SortInv
  PROVE  Sort!SortsInPlace
<1> SUFFICES ASSUME NEW r \in Sort!Calls, sat[r] = "done",
                    \A q \in Sort!Calls : q # r /\ q[1] <= r[1] /\ r[2] <= q[2] => sat[q] \in {"halves", "merge"}
             PROVE  /\ \A e \in r[1]..r[2] - 1 : A[e] <= A[e + 1]
                    /\ \A v \in Values : Sort!Occurs(A, r, v) = Sort!Occurs(given, r, v)
  BY DEF Sort!SortsInPlace
<1>1. Quiet(r)
  <2> SUFFICES ASSUME NEW q \in Sort!Calls, Below(r, q) PROVE sat[q] \in {"halves", "merge"}
    BY DEF Quiet
  <2>1. q # r /\ Within(r, q)
    BY TwoCalls
  <2> QED
    BY <2>1 DEF Within
<1>2. SortedOn(A, r) /\ \A v \in Values : Sort!Occurs(A, r, v) = Sort!Occurs(given, r, v)
  BY <1>1 DEF SortInv, Finished
<1>3. r[1] \in Int /\ r[2] \in Int
  BY InArray
<1>4. ASSUME NEW e \in r[1]..r[2] - 1 PROVE A[e] <= A[e + 1]
  BY <1>2, <1>3 DEF SortedOn
<1> QED
  BY <1>2, <1>4

-----------------------------------------------------------------------------
(* The run *)

ThreadsInv ==
  /\ BatchInv /\ HandoffInv /\ WatchInv /\ SemInv /\ SortInv /\ LockedInv /\ JoinInv
  /\ CountsInv /\ SpawnInv

\* A step of the run is a step of one program and a stutter of the others.
LEMMA StepOfOne ==
  ASSUME [Next]_vars
  PROVE  /\ [Batch!Next]_(Batch!vars) /\ [Handoff!Next]_(Handoff!vars)
         /\ [Watch!Next]_(Watch!vars) /\ [Sem!Next]_(Sem!vars)
         /\ [Sort!Next]_(Sort!vars) /\ [Locked!Next]_(Locked!vars)
         /\ [TJoin!Next]_(TJoin!vars) /\ [Counts!Next]_(Counts!vars)
         /\ [Spawn!Next]_(Spawn!vars)
<1> USE DEF Next, vars, InBatch, InHandoff, InWatch, InSem, InSort, InLocked, InJoin, InCount, InSpawn
<1>1. [Batch!Next]_(Batch!vars)
  BY DEF batch, Batch!vars
<1>2. [Handoff!Next]_(Handoff!vars)
  BY DEF handoff, Handoff!vars
<1>3. [Watch!Next]_(Watch!vars)
  BY DEF watcher, Watch!vars
<1>4. [Sem!Next]_(Sem!vars)
  BY DEF sem, Sem!vars
<1>5. [Sort!Next]_(Sort!vars)
  BY DEF sort, Sort!vars
<1>6. [Locked!Next]_(Locked!vars)
  BY DEF locked, Locked!vars
<1>7. [TJoin!Next]_(TJoin!vars)
  BY DEF join, TJoin!vars
<1>8. [Counts!Next]_(Counts!vars)
  BY DEF counting, Counts!vars
<1>9. [Spawn!Next]_(Spawn!vars)
  BY DEF spawning, Spawn!vars
<1> QED
  BY <1>1, <1>2, <1>3, <1>4, <1>5, <1>6, <1>7, <1>8, <1>9

\* The conjunction of the programs' invariants is an invariant of the run.
LEMMA ThreadsInvariant == FairSpec => []ThreadsInv
<1>1. Init => ThreadsInv
  BY ThreadsAssumption, BatchInitially, HandoffInitially, WatchInitially, SemInitially,
     SortInitially, LockedInitially, JoinInitially, CountsInitially, SpawnInitially
     DEF Init, ThreadsInv, ThreadsAssumption
<1>2. ThreadsInv /\ [Next]_vars => ThreadsInv'
  BY ThreadsAssumption, StepOfOne, BatchStep, HandoffStep, WatchStep, SemStep, SortStep, LockedStep,
     JoinStep, CountsStep, SpawnStep
     DEF ThreadsInv, ThreadsAssumption
<1> QED
  BY <1>1, <1>2, PTL DEF FairSpec

\* Of the threads that wait on a condition variable none sleeps on when what it
\* waits for has happened and nobody is left to signal it, for every capacity,
\* limit and number of incrementing threads and any number of spurious wake-ups.
THEOREM NeverLostWakeup == FairSpec => []NoLostWakeup
<1>1. ThreadsInv => NoLostWakeup
  BY DEF ThreadsInv, BatchInv, HandoffInv, WatchInv, JoinInv, NoLostWakeup
<1> QED
  BY <1>1, ThreadsInvariant, PTL

\* producer_consumer1.c, myjoin.c and the programs that fork and wait end only after
\* the work they wait for, and report how the program they executed ended.
THEOREM AlwaysEndsAfterWork == FairSpec => []EndsAfterWork
<1>1. ThreadsInv => EndsAfterWork
  BY ThreadsAssumption, BatchPromises
     DEF ThreadsAssumption, ThreadsInv, JoinInv, SpawnInv, EndsAfterWork
<1> QED
  BY <1>1, ThreadsInvariant, PTL

\* examples/src/condition.c: for all limits each number is printed once, by the thread
\* whose range it is in, and the mutex one thread returns with is not wanted again.
THEOREM TurnsAlwaysKept == FairSpec => []TurnsKept
<1>1. ThreadsInv => TurnsKept
  BY HandoffPromises DEF ThreadsInv, HandoffInv, TurnsKept
<1> QED
  BY <1>1, ThreadsInvariant, PTL

\* No increment, push or count is lost, and merge_sort, whose calls share one array
\* without a lock, sorts it in place: for every number of threads, every array size
\* and every array.
THEOREM SharedDataAlwaysIntact == FairSpec => []SharedDataIntact
<1>1. ThreadsInv => Locked!NoPushLost /\ Sort!SortsInPlace /\ Counts!AllCounted
  BY ThreadsAssumption, LockedPromises, SortPromises, CountsPromises DEF ThreadsAssumption, ThreadsInv
<1>2. ThreadsInv => Counts!TypeOK /\ Watch!CountExact /\ Watch!BonusOnce
  BY DEF ThreadsInv, CountsInv, WatchInv, BonusEnds, Watch!BonusOnce
<1> QED
  BY <1>1, <1>2, ThreadsInvariant, PTL DEF SharedDataIntact

\* semaphore.txt keeps its promise as long as at most one thread more than it was
\* initialised for uses it (three threads and a count of one break it: the run
\* semaphore_three), and the counting programs keep theirs for any number of threads.
THEOREM ExclusionForFew ==
  Cardinality(Threads) <= Initial + 1 => (FairSpec => []MutualExclusion)
<1> SUFFICES ASSUME Cardinality(Threads) <= Initial + 1 PROVE FairSpec => []MutualExclusion
  OBVIOUS
<1>1. ThreadsInv => MutualExclusion
  BY DEF ThreadsInv, SemInv, CountsInv, CountLocked, MutualExclusion
<1> QED
  BY <1>1, ThreadsInvariant, PTL

=============================================================================
