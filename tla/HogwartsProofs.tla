--------------------------- MODULE HogwartsProofs ---------------------------
(***************************************************************************)
(* Proofs about Hogwarts for every number of elves, every batch size and    *)
(* every set of totals, negative ones included.                             *)
(***************************************************************************)
EXTENDS Hogwarts, FiniteSetTheorems, SequenceTheorems, TLAPS

\* The mutex belongs to the one elf inside the critical section.
MutexHeld ==
  \A e \in Elves :
    elf[e] \in {"take", "dec", "wake", "tell", "unlock"} <=> mutex = e

\* The life of the threads: elves start in the order of workers[], die only of
\* a cancellation, and are joined in the same order.
Lifecycle ==
  /\ dobby = "create" =>
       i <= NUM_ELVES /\ \A e \in Elves : elf[e] = "unborn" <=> e > i
  /\ dobby # "create" => \A e \in Elves : elf[e] # "unborn"
  /\ dobby \notin {"cancel", "join", "done"} => cancelled = {}
  /\ \A e \in Elves : elf[e] = "dead" => e \in cancelled
  /\ dobby \in {"cancel", "join", "done"} =>
       i <= NUM_ELVES /\ \A e \in Elves : e <= i => elf[e] = "dead"
  /\ dobby = "join" => i < NUM_ELVES
  /\ dobby = "done" => i = NUM_ELVES
  /\ main = "exited" => dobby = "done"

\* The inductive invariant.
IInv == TypeOK /\ MutexHeld /\ Lifecycle /\ Accounting /\ NeverTakesFromEmpty

-----------------------------------------------------------------------------
\* The set of permit holders is finite, and gaining or losing one holder
\* changes its size by one.
LEMMA PermitsFinite ==
  /\ IsFiniteSet(Permits)
  /\ Cardinality(Permits) \in Nat
  /\ Cardinality(Permits) = 0 <=> Permits = {}
<1>1. IsFiniteSet(Elves)
  BY FS_Interval, HogwartsAssumption DEF Elves
<1>2. IsFiniteSet(Permits)
  BY <1>1, FS_Subset DEF Permits
<1> QED
  BY <1>2, FS_CardinalityType, FS_EmptySet

\* An elf that comes back from sem_wait(&full_list) adds one permit.
LEMMA PermitGained ==
  ASSUME NEW e, e \notin Permits, Permits' = Permits \union {e}
  PROVE  Cardinality(Permits') = Cardinality(Permits) + 1
BY PermitsFinite, FS_AddElement

\* An elf that takes its task uses one permit up.
LEMMA PermitLost ==
  ASSUME NEW e, e \in Permits, Permits' = Permits \ {e}
  PROVE  Cardinality(Permits') = Cardinality(Permits) - 1
BY PermitsFinite, FS_RemoveElement

\* What take_task leaves of a list that is not empty.
LEMMA WithoutHead ==
  ASSUME NEW q \in Seq(Nat), q # <<>>
  PROVE  /\ q[Len(q)] \in Nat
         /\ SubSeq(q, 1, Len(q) - 1) \in Seq(Nat)
         /\ Len(SubSeq(q, 1, Len(q) - 1)) = Len(q) - 1
         /\ Len(q) > 0
<1>1. Len(q) \in Nat /\ Len(q) > 0
  OBVIOUS
<1>2. \A k \in 1..Len(q) - 1 : q[k] \in Nat
  BY <1>1
<1>3. Len(q) - 1 \in Int
  BY <1>1
<1>4. /\ SubSeq(q, 1, Len(q) - 1) \in Seq(Nat)
      /\ Len(SubSeq(q, 1, Len(q) - 1)) =
           IF 1 <= Len(q) - 1 THEN Len(q) - 1 - 1 + 1 ELSE 0
  BY <1>2, <1>3, SubSeqProperties
<1>5. q[Len(q)] \in Nat
  BY <1>1
<1>6. Len(SubSeq(q, 1, Len(q) - 1)) = Len(q) - 1
  <2> DEFINE m == Len(q)
             r == Len(SubSeq(q, 1, Len(q) - 1))
  <2>1. m \in Nat /\ m > 0 /\ r = IF 1 <= m - 1 THEN m - 1 - 1 + 1 ELSE 0
    BY <1>1, <1>4
  <2> HIDE DEF m, r
  <2>2. r = m - 1
    BY <2>1
  <2> QED
    BY <2>2 DEF m, r
<1> QED
  BY <1>1, <1>4, <1>5, <1>6

\* The globals as main initialises them satisfy the inductive invariant.
LEMMA InitIInv == Init => IInv
<1> SUFFICES ASSUME Init PROVE IInv
  OBVIOUS
<1> USE HogwartsAssumption DEF Init
<1>1. TypeOK
  BY DEF TypeOK, Elves, Free, NoTask, DobbyLocs, ElfLocs
<1>2. MutexHeld
  BY DEF MutexHeld, Elves, Free
<1>3. Lifecycle
  BY DEF Lifecycle, Elves
<1>4. Permits = {} /\ Uncounted = 0 /\ Waking = 0 /\ Owed = 0
  BY DEF Permits, Uncounted, Waking, Owed
<1>5. Accounting
  BY <1>4, PermitsFinite DEF Accounting
<1> QED
  BY <1>1, <1>2, <1>3, <1>5 DEF IInv, NeverTakesFromEmpty

-----------------------------------------------------------------------------
\* Every action keeps the types; SubSeq and Append stay within Seq(Nat).
LEMMA TypeStep == IInv /\ [Next]_vars => TypeOK'
<1> SUFFICES ASSUME IInv, [Next]_vars PROVE TypeOK'
  OBVIOUS
<1> USE HogwartsAssumption DEF IInv, TypeOK, Elves, Free, NoTask, DobbyLocs,
      ElfLocs, DobbyAt, ElfAt, shared, sems, locals
<1>1. CASE CreateElf
  BY <1>1 DEF CreateElf
<1>2. CASE ElvesCreated
  BY <1>2 DEF ElvesCreated
<1>3. CASE DobbyStops
  BY <1>3 DEF DobbyStops
<1>4. CASE DobbyRefills
  BY <1>4 DEF DobbyRefills, BatchOf
<1>5. CASE PostTask
  BY <1>5 DEF PostTask
<1>6. CASE TasksPosted
  BY <1>6 DEF TasksPosted
<1>7. CASE SignalFull
  BY <1>7 DEF SignalFull
<1>8. CASE FullSignalled
  BY <1>8 DEF FullSignalled
<1>9. CASE CancelElf
  BY <1>9 DEF CancelElf, Lifecycle
<1>10. CASE JoinElf
  BY <1>10 DEF JoinElf
<1>11. CASE DobbyReturns
  BY <1>11 DEF DobbyReturns
<1>12. CASE MainExit
  BY <1>12 DEF MainExit
<1>13. ASSUME NEW e \in Elves, ElfWakes(e) PROVE TypeOK'
  BY <1>13 DEF ElfWakes
<1>14. ASSUME NEW e \in Elves, ElfLocks(e) PROVE TypeOK'
  BY <1>14 DEF ElfLocks
<1>15. ASSUME NEW e \in Elves, TakeTask(e) PROVE TypeOK'
  <2>1. CASE list = <<>>
    BY <1>15, <2>1 DEF TakeTask
  <2>2. CASE list # <<>>
    BY <1>15, <2>2, WithoutHead DEF TakeTask
  <2> QED
    BY <2>1, <2>2
<1>16. ASSUME NEW e \in Elves, Decrement(e) PROVE TypeOK'
  BY <1>16 DEF Decrement
<1>17. ASSUME NEW e \in Elves, AnnounceWake(e) PROVE TypeOK'
  BY <1>17 DEF AnnounceWake
<1>18. ASSUME NEW e \in Elves, TellDobby(e) PROVE TypeOK'
  BY <1>18 DEF TellDobby
<1>19. ASSUME NEW e \in Elves, ElfUnlocks(e) PROVE TypeOK'
  BY <1>19 DEF ElfUnlocks
<1>20. ASSUME NEW e \in Elves, DoWork(e) PROVE TypeOK'
  BY <1>20 DEF DoWork
<1>21. ASSUME NEW e \in Elves, Die(e) PROVE TypeOK'
  BY <1>21 DEF Die
<1>22. CASE UNCHANGED vars
  BY <1>22 DEF vars
<1> QED
  BY <1>1, <1>2, <1>3, <1>4, <1>5, <1>6, <1>7, <1>8, <1>9, <1>10, <1>11, <1>12, <1>13, <1>14, <1>15, <1>16, <1>17, <1>18, <1>19, <1>20, <1>21, <1>22
     DEF Next, Dobby, Elf, Ended



\* The mutex invariant: an elf enters the critical section only through
\* ElfLocks and leaves it only through ElfUnlocks or a cancellation.
LEMMA MutexStep == IInv /\ [Next]_vars => MutexHeld'
<1> SUFFICES ASSUME IInv, [Next]_vars PROVE MutexHeld'
  OBVIOUS
<1> USE HogwartsAssumption DEF IInv, TypeOK, MutexHeld, Elves, Free, DobbyAt,
      ElfAt
<1>1. CASE CreateElf
  BY <1>1 DEF CreateElf, Lifecycle
<1>2. CASE UNCHANGED <<elf, mutex>>
  BY <1>2
<1>3. ASSUME NEW e \in Elves, ElfWakes(e) PROVE MutexHeld'
  BY <1>3 DEF ElfWakes
<1>4. ASSUME NEW e \in Elves, ElfLocks(e) PROVE MutexHeld'
  BY <1>4 DEF ElfLocks
<1>5. ASSUME NEW e \in Elves, TakeTask(e) PROVE MutexHeld'
  BY <1>5 DEF TakeTask
<1>6. ASSUME NEW e \in Elves, Decrement(e) PROVE MutexHeld'
  BY <1>6 DEF Decrement
<1>7. ASSUME NEW e \in Elves, AnnounceWake(e) PROVE MutexHeld'
  BY <1>7 DEF AnnounceWake
<1>8. ASSUME NEW e \in Elves, TellDobby(e) PROVE MutexHeld'
  BY <1>8 DEF TellDobby
<1>9. ASSUME NEW e \in Elves, ElfUnlocks(e) PROVE MutexHeld'
  BY <1>9 DEF ElfUnlocks
<1>10. ASSUME NEW e \in Elves, DoWork(e) PROVE MutexHeld'
  BY <1>10 DEF DoWork
<1>11. ASSUME NEW e \in Elves, Die(e) PROVE MutexHeld'
  <2>1. CASE elf[e] = "wake"
    BY <1>11, <2>1 DEF Die
  <2>2. CASE elf[e] # "wake"
    BY <1>11, <2>2 DEF Die
  <2> QED
    BY <2>1, <2>2
<1> QED
  BY <1>1, <1>2, <1>3, <1>4, <1>5, <1>6, <1>7, <1>8, <1>9, <1>10, <1>11
     DEF Next, Dobby, Elf, Ended, vars, ElvesCreated, DobbyStops, DobbyRefills, PostTask, TasksPosted, SignalFull, FullSignalled, CancelElf, JoinElf, DobbyReturns, MainExit

\* Threads are created, cancelled and joined in the order of workers[].
LEMMA LifecycleStep == IInv /\ [Next]_vars => Lifecycle'
<1> SUFFICES ASSUME IInv, [Next]_vars PROVE Lifecycle'
  OBVIOUS
<1> USE HogwartsAssumption DEF IInv, TypeOK, Lifecycle, Elves, DobbyAt, ElfAt,
      locals
<1>1. CASE CreateElf
  BY <1>1 DEF CreateElf
<1>2. CASE ElvesCreated
  BY <1>2 DEF ElvesCreated
<1>3. CASE DobbyStops
  BY <1>3 DEF DobbyStops
<1>4. CASE DobbyRefills
  BY <1>4 DEF DobbyRefills
<1>5. CASE PostTask
  BY <1>5 DEF PostTask
<1>6. CASE TasksPosted
  BY <1>6 DEF TasksPosted
<1>7. CASE SignalFull
  BY <1>7 DEF SignalFull
<1>8. CASE FullSignalled
  BY <1>8 DEF FullSignalled
<1>9. CASE CancelElf
  BY <1>9 DEF CancelElf
<1>10. CASE JoinElf
  BY <1>10 DEF JoinElf
<1>11. CASE DobbyReturns
  BY <1>11 DEF DobbyReturns
<1>12. CASE MainExit
  BY <1>12 DEF MainExit
<1>13. ASSUME NEW e \in Elves, ElfWakes(e) PROVE Lifecycle'
  BY <1>13 DEF ElfWakes
<1>14. ASSUME NEW e \in Elves, ElfLocks(e) PROVE Lifecycle'
  BY <1>14 DEF ElfLocks
<1>15. ASSUME NEW e \in Elves, TakeTask(e) PROVE Lifecycle'
  BY <1>15 DEF TakeTask
<1>16. ASSUME NEW e \in Elves, Decrement(e) PROVE Lifecycle'
  BY <1>16 DEF Decrement
<1>17. ASSUME NEW e \in Elves, AnnounceWake(e) PROVE Lifecycle'
  BY <1>17 DEF AnnounceWake
<1>18. ASSUME NEW e \in Elves, TellDobby(e) PROVE Lifecycle'
  BY <1>18 DEF TellDobby
<1>19. ASSUME NEW e \in Elves, ElfUnlocks(e) PROVE Lifecycle'
  BY <1>19 DEF ElfUnlocks
<1>20. ASSUME NEW e \in Elves, DoWork(e) PROVE Lifecycle'
  BY <1>20 DEF DoWork
<1>21. ASSUME NEW e \in Elves, Die(e) PROVE Lifecycle'
  BY <1>21 DEF Die
<1>22. CASE UNCHANGED vars
  BY <1>22 DEF vars
<1> QED
  BY <1>1, <1>2, <1>3, <1>4, <1>5, <1>6, <1>7, <1>8, <1>9, <1>10, <1>11, <1>12, <1>13, <1>14, <1>15, <1>16, <1>17, <1>18, <1>19, <1>20, <1>21, <1>22
     DEF Next, Dobby, Elf, Ended



-----------------------------------------------------------------------------
\* The three counts of Accounting depend on elf alone.
Counts == <<Permits, Uncounted, Waking>>

\* At most one elf at a time is counted as uncounted, or as waking Dobby.
LEMMA CountTypes == Uncounted \in {0, 1} /\ Waking \in {0, 1}
BY DEF Uncounted, Waking

\* A step that moves no elf changes none of the counts of Accounting.
LEMMA CountsKept ==
  ASSUME UNCHANGED elf
  PROVE  UNCHANGED Counts
BY DEF Counts, Permits, Uncounted, Waking

\* An elf that moves between locations none of the counts mention.
LEMMA CountsSame ==
  ASSUME TypeOK, NEW e \in Elves,
         NEW loc \in ElfLocs \ {"lock", "take", "dec", "wake", "tell"},
         elf[e] \notin {"lock", "take", "dec", "wake", "tell"},
         elf' = [elf EXCEPT ![e] = loc]
  PROVE  UNCHANGED Counts
<1>1. \A f \in Elves : elf'[f] = IF f = e THEN loc ELSE elf[f]
  BY DEF TypeOK
<1>2. Permits' = Permits
  BY <1>1 DEF Permits
<1>3. Uncounted' = Uncounted
  BY <1>1 DEF Uncounted
<1>4. Waking' = Waking
  BY <1>1 DEF Waking
<1> QED
  BY <1>2, <1>3, <1>4 DEF Counts

\* The elf inside the critical section is alone there.
LEMMA OwnerCounts ==
  ASSUME TypeOK, MutexHeld, NEW e \in Elves
  PROVE  /\ elf[e] = "take" => e \in Permits /\ Uncounted = 0 /\ Waking = 0
         /\ elf[e] = "dec" => Uncounted = 1 /\ Waking = 0
         /\ elf[e] \in {"wake", "tell"} => Uncounted = 0 /\ Waking = 1
<1>1. elf[e] \in {"take", "dec", "wake", "tell", "unlock"} =>
        \A f \in Elves : f # e => elf[f] \notin {"take", "dec", "wake", "tell", "unlock"}
  BY DEF MutexHeld
<1> QED
  BY <1>1 DEF Permits, Uncounted, Waking

\* How each step inside the critical section moves the counts.
LEMMA OwnerMoves ==
  ASSUME TypeOK, MutexHeld, NEW e \in Elves, NEW loc \in ElfLocs \ {"lock", "take"},
         elf' = [elf EXCEPT ![e] = loc],
         elf[e] \in {"take", "dec", "wake", "tell"}
  PROVE  /\ Permits' = IF elf[e] = "take" THEN Permits \ {e} ELSE Permits
         /\ Uncounted' = IF loc = "dec" THEN 1 ELSE 0
         /\ Waking' = IF loc \in {"wake", "tell"} THEN 1 ELSE 0
<1>1. \A f \in Elves : f # e => elf[f] \notin {"take", "dec", "wake", "tell", "unlock"}
  BY DEF MutexHeld
<1>2. \A f \in Elves : elf'[f] = IF f = e THEN loc ELSE elf[f]
  BY DEF TypeOK
<1>3. Permits' = IF elf[e] = "take" THEN Permits \ {e} ELSE Permits
  BY <1>2 DEF Permits
<1>4. Uncounted' = IF loc = "dec" THEN 1 ELSE 0
  BY <1>1, <1>2 DEF Uncounted
<1>5. Waking' = IF loc \in {"wake", "tell"} THEN 1 ELSE 0
  BY <1>1, <1>2 DEF Waking
<1> QED
  BY <1>3, <1>4, <1>5



\* take_task is never reached with an empty list: the permit the elf holds
\* stands for a task.
LEMMA PermitMeansTask ==
  ASSUME IInv, NEW e \in Elves, elf[e] = "take"
  PROVE  list # <<>> /\ dobby \in {"create", "wait", "signal"}
<1> USE DEF IInv
<1>1. e \in Permits
  BY OwnerCounts
<1>2. dobby \in {"create", "wait", "signal"}
  BY <1>1 DEF Accounting, TypeOK, DobbyLocs
<1>3. Cardinality(Permits) \in Nat \ {0}
  BY <1>1, PermitsFinite
<1>4. Owed \in Nat
  BY DEF Owed, TypeOK
<1>5. Len(list) = full_list + Cardinality(Permits) + Owed
  BY <1>2 DEF Accounting
<1>6. full_list \in Nat
  BY DEF TypeOK
<1>7. Len(list) > 0
  <2> DEFINE P == Cardinality(Permits)
             L == Len(list)
  <2>1. P \in Nat \ {0} /\ L = full_list + P + Owed
    BY <1>3, <1>5
  <2> HIDE DEF P, L
  <2>2. L > 0
    BY <2>1, <1>4, <1>6
  <2> QED
    BY <2>2 DEF L
<1> QED
  BY <1>2, <1>7

\* Every step of Dobby and of an elf keeps the books of the handshake.
LEMMA AccountingStep == IInv /\ [Next]_vars => Accounting'
<1> SUFFICES ASSUME IInv, [Next]_vars PROVE Accounting'
  OBVIOUS
<1> USE HogwartsAssumption, PermitsFinite, CountTypes
    DEF IInv, TypeOK, Accounting, Owed, DobbyAt, ElfAt, shared, sems, locals, Counts,
        DobbyLocs
<1>0. ASSUME UNCHANGED <<list, full_list, active_tasks, empty_list, dobby, n, i>>,
             UNCHANGED Counts
      PROVE  Accounting'
  BY <1>0
<1>1. CASE CreateElf
  <2>1. i + 1 \in Elves /\ elf[i + 1] = "unborn"
    BY <1>1 DEF CreateElf, Elves, Lifecycle
  <2>2. UNCHANGED Counts
    BY <1>1, <2>1, CountsSame DEF CreateElf, ElfLocs
  <2> QED
    BY <1>1, <2>2 DEF CreateElf
<1>2. CASE ElvesCreated
  <2>1. UNCHANGED Counts
    BY <1>2, CountsKept DEF ElvesCreated
  <2> QED
    BY <1>2, <2>1 DEF ElvesCreated
<1>3. CASE DobbyStops
  <2>1. UNCHANGED Counts
    BY <1>3, CountsKept DEF DobbyStops
  <2> QED
    BY <1>3, <2>1 DEF DobbyStops
<1>4. CASE DobbyRefills
  <2>1. UNCHANGED Counts
    BY <1>4, CountsKept DEF DobbyRefills
  <2> QED
    BY <1>4, <2>1 DEF DobbyRefills, BatchOf
<1>5. CASE PostTask
  <2>1. UNCHANGED Counts
    BY <1>5, CountsKept DEF PostTask
  <2> QED
    BY <1>5, <2>1 DEF PostTask
<1>6. CASE TasksPosted
  <2>1. UNCHANGED Counts
    BY <1>6, CountsKept DEF TasksPosted
  <2> QED
    BY <1>6, <2>1 DEF TasksPosted
<1>7. CASE SignalFull
  <2>1. UNCHANGED Counts
    BY <1>7, CountsKept DEF SignalFull
  <2> QED
    BY <1>7, <2>1 DEF SignalFull
<1>8. CASE FullSignalled
  <2>1. UNCHANGED Counts
    BY <1>8, CountsKept DEF FullSignalled
  <2> QED
    BY <1>8, <2>1 DEF FullSignalled
<1>9. CASE CancelElf
  <2>1. UNCHANGED Counts
    BY <1>9, CountsKept DEF CancelElf
  <2> QED
    BY <1>9, <2>1 DEF CancelElf
<1>10. CASE JoinElf
  <2>1. UNCHANGED Counts
    BY <1>10, CountsKept DEF JoinElf
  <2> QED
    BY <1>10, <2>1 DEF JoinElf
<1>11. CASE DobbyReturns
  <2>1. UNCHANGED Counts
    BY <1>11, CountsKept DEF DobbyReturns
  <2> QED
    BY <1>11, <2>1 DEF DobbyReturns
<1>12. CASE MainExit
  <2>1. UNCHANGED Counts
    BY <1>12, CountsKept DEF MainExit
  <2> QED
    BY <1>12, <2>1 DEF MainExit
<1>13. ASSUME NEW e \in Elves, ElfWakes(e) PROVE Accounting'
  <2>1. e \notin Permits /\ Permits' = Permits \union {e}
    BY <1>13 DEF ElfWakes, Permits
  <2>2. Cardinality(Permits') = Cardinality(Permits) + 1
    BY <2>1, PermitGained
  <2>3. Uncounted' = Uncounted /\ Waking' = Waking
    BY <1>13 DEF ElfWakes, Uncounted, Waking
  <2>4. dobby \in {"create", "wait", "signal"}
    BY <1>13 DEF ElfWakes
  <2>5. full_list' + Cardinality(Permits') = full_list + Cardinality(Permits)
    BY <1>13, <2>2 DEF ElfWakes
  <2>6. Len(list') = full_list' + Cardinality(Permits') + Owed'
    BY <1>13, <2>2, <2>4, <2>5 DEF ElfWakes
  <2> QED
    BY <1>13, <2>3, <2>4, <2>6 DEF ElfWakes
<1>14. ASSUME NEW e \in Elves, ElfLocks(e) PROVE Accounting'
  <2>1. UNCHANGED Counts
    BY <1>14 DEF ElfLocks, Permits, Uncounted, Waking
  <2> QED
    BY <1>14, <1>0, <2>1 DEF ElfLocks
<1>15. ASSUME NEW e \in Elves, TakeTask(e) PROVE Accounting'
  <2>1. list # <<>> /\ dobby \in {"create", "wait", "signal"}
    BY <1>15, PermitMeansTask DEF TakeTask
  <2>2. elf' = [elf EXCEPT ![e] = "dec"]
    BY <1>15, <2>1 DEF TakeTask
  <2>3. e \in Permits /\ Uncounted = 0 /\ Waking = 0
    BY <1>15, OwnerCounts DEF TakeTask
  <2>4. Permits' = Permits \ {e} /\ Uncounted' = 1 /\ Waking' = 0
    BY <1>15, <2>2, OwnerMoves DEF TakeTask, ElfLocs
  <2>5. Cardinality(Permits') = Cardinality(Permits) - 1
    BY <2>3, <2>4, PermitLost
  <2>6. Len(list') = Len(list) - 1
    BY <1>15, <2>1, WithoutHead DEF TakeTask
  <2>7. UNCHANGED <<active_tasks, full_list, empty_list, dobby, n, i, Owed>>
    BY <1>15 DEF TakeTask
  <2>8. Len(list') = full_list' + Cardinality(Permits') + Owed'
    <3> DEFINE P == Cardinality(Permits)
               L == Len(list)
    <3>1. L = full_list + P + Owed
      BY <2>1
    <3>2. L' = L - 1 /\ P' = P - 1 /\ full_list' = full_list /\ Owed' = Owed
      BY <2>5, <2>6, <2>7
    <3>3. L \in Int /\ P \in Int /\ full_list \in Int /\ Owed \in Int
      OBVIOUS
    <3> HIDE DEF P, L, Owed
    <3>4. L' = full_list' + P' + Owed'
      BY <3>1, <3>2, <3>3
    <3> QED
      BY <3>4 DEF P, L
  <2>9. active_tasks' = Len(list') + Uncounted'
    BY <2>1, <2>3, <2>4, <2>6, <2>7
  <2>10. empty_list' + Waking' = IF active_tasks' = 0 THEN 1 ELSE 0
    BY <2>1, <2>3, <2>4, <2>7
  <2> QED
    BY <2>1, <2>7, <2>8, <2>9, <2>10
<1>16. ASSUME NEW e \in Elves, Decrement(e) PROVE Accounting'
  <2>1. Uncounted = 1 /\ Waking = 0
    BY <1>16, OwnerCounts DEF Decrement
  <2>2. e \notin Permits
    BY <1>16 DEF Decrement, Permits
  <2>3. /\ Permits' = Permits /\ Uncounted' = 0
        /\ Waking' = IF active_tasks' = 0 THEN 1 ELSE 0
    <3>1. CASE active_tasks' = 0
      <4>1. elf' = [elf EXCEPT ![e] = "wake"]
        BY <1>16, <3>1 DEF Decrement
      <4> QED
        BY <1>16, <3>1, <4>1, OwnerMoves DEF Decrement, ElfLocs
    <3>2. CASE active_tasks' # 0
      <4>1. elf' = [elf EXCEPT ![e] = "unlock"]
        BY <1>16, <3>2 DEF Decrement
      <4> QED
        BY <1>16, <3>2, <4>1, OwnerMoves DEF Decrement, ElfLocs
    <3> QED
      BY <3>1, <3>2
  <2> QED
    BY <1>16, <2>1, <2>3 DEF Decrement
<1>17. ASSUME NEW e \in Elves, AnnounceWake(e) PROVE Accounting'
  <2>1. Uncounted = 0 /\ Waking = 1 /\ e \notin Permits
    BY <1>17, OwnerCounts DEF AnnounceWake, Permits
  <2>2. UNCHANGED Counts
    BY <1>17, <2>1, OwnerMoves DEF AnnounceWake, ElfLocs
  <2> QED
    BY <1>17, <1>0, <2>2 DEF AnnounceWake
<1>18. ASSUME NEW e \in Elves, TellDobby(e) PROVE Accounting'
  <2>1. Uncounted = 0 /\ Waking = 1 /\ e \notin Permits
    BY <1>18, OwnerCounts DEF TellDobby, Permits
  <2>2. Permits' = Permits /\ Uncounted' = 0 /\ Waking' = 0
    <3>1. elf[e] = "tell" /\ elf' = [elf EXCEPT ![e] = "unlock"]
      BY <1>18 DEF TellDobby
    <3>2. "unlock" \in ElfLocs \ {"lock", "take"}
      BY DEF ElfLocs
    <3>3. TypeOK /\ MutexHeld
      BY DEF IInv
    <3> HIDE DEF IInv, TypeOK, Accounting
    <3> QED
      BY <3>1, <3>2, <3>3, OwnerMoves
  <2> QED
    BY <1>18, <2>1, <2>2 DEF TellDobby
<1>19. ASSUME NEW e \in Elves, ElfUnlocks(e) PROVE Accounting'
  <2>1. UNCHANGED Counts
    BY <1>19, CountsSame DEF ElfUnlocks, ElfLocs
  <2> QED
    BY <1>19, <1>0, <2>1 DEF ElfUnlocks
<1>20. ASSUME NEW e \in Elves, DoWork(e) PROVE Accounting'
  <2>1. UNCHANGED Counts
    BY <1>20, CountsSame DEF DoWork, ElfLocs
  <2> QED
    BY <1>20, <1>0, <2>1 DEF DoWork
<1>21. ASSUME NEW e \in Elves, Die(e) PROVE Accounting'
  <2>1. elf[e] # "wake"
    BY <1>21, OwnerCounts DEF Die, Lifecycle
  <2>2. UNCHANGED Counts
    BY <1>21, <2>1, CountsSame DEF Die, ElfLocs
  <2> QED
    BY <1>21, <1>0, <2>2 DEF Die
<1>22. CASE UNCHANGED vars
  <2>1. UNCHANGED Counts
    BY <1>22, CountsKept DEF vars
  <2> QED
    BY <1>22, <1>0, <2>1 DEF vars
<1> QED
  BY <1>1, <1>2, <1>3, <1>4, <1>5, <1>6, <1>7, <1>8, <1>9, <1>10, <1>11, <1>12, <1>13, <1>14, <1>15, <1>16, <1>17, <1>18, <1>19, <1>20, <1>21, <1>22
     DEF Next, Dobby, Elf, Ended



-----------------------------------------------------------------------------
\* Every step of the program preserves the inductive invariant.
LEMMA StepIInv == IInv /\ [Next]_vars => IInv'
<1> SUFFICES ASSUME IInv, [Next]_vars PROVE IInv'
  OBVIOUS
<1>1. NeverTakesFromEmpty'
  <2> USE DEF NeverTakesFromEmpty, IInv
  <2>1. ASSUME NEW e \in Elves, TakeTask(e) PROVE main' # "aborted"
    BY <2>1, PermitMeansTask DEF TakeTask, ElfAt
  <2>2. CASE MainExit
    BY <2>2 DEF MainExit
  <2>3. CASE UNCHANGED main
    BY <2>3
  <2> QED
    BY <2>1, <2>2, <2>3
       DEF Next, Dobby, Elf, Ended, vars, CreateElf, ElvesCreated, DobbyStops,
           DobbyRefills, PostTask, TasksPosted, SignalFull, FullSignalled,
           CancelElf, JoinElf, DobbyReturns, ElfWakes, ElfLocks, Decrement,
           AnnounceWake, TellDobby, ElfUnlocks, DoWork, Die
<1> QED
  BY <1>1, TypeStep, MutexStep, LifecycleStep, AccountingStep DEF IInv

\* The handshake of the two semaphores keeps its books for every pool, batch
\* size and total: the invariant that the theorems below rest on.
THEOREM Invariance == Spec => []IInv
<1>1. Init => IInv
  BY InitIInv
<1>2. IInv /\ [Next]_vars => IInv'
  BY StepIInv
<1> QED
  BY <1>1, <1>2, PTL DEF Spec

\* The state of hogwarts.c keeps its types.
THEOREM TypeCorrect == Spec => []TypeOK
BY Invariance, PTL DEF IInv

\* The exit(-1) of take_task is dead code.
THEOREM ListNeverEmpty == Spec => []NeverTakesFromEmpty
BY Invariance, PTL DEF IInv

\* The semaphores and active_tasks agree with the list in every state.
THEOREM HandshakeAccounts == Spec => []Accounting
BY Invariance, PTL DEF IInv

\* post_tasks needs no mutex: while Dobby fills the list no elf is at it.
THEOREM RaceFree == Spec => []NoDataRace
<1>1. IInv => NoDataRace
  <2> SUFFICES ASSUME IInv, dobby = "post", NEW e \in Elves
               PROVE  elf[e] \notin {"take", "dec"}
    BY DEF NoDataRace
  <2>1. Permits = {} /\ Uncounted = 0
    BY DEF IInv, Accounting
  <2> QED
    BY <2>1 DEF Permits, Uncounted
<1> QED
  BY <1>1, Invariance, PTL

\* The claim of the comment above run_house_elf: the worker that sees zero is
\* the last of its batch, and only one worker wakes Dobby.
THEOREM LastWorkerWakesDobby == Spec => []LastOfBatch
<1>1. IInv => LastOfBatch
  <2> SUFFICES ASSUME IInv, NEW e \in Elves, elf[e] \in {"wake", "tell"}
               PROVE  /\ list = <<>> /\ full_list = 0 /\ empty_list = 0
                      /\ \A f \in Elves \ {e} :
                           elf[f] \notin {"lock", "take", "dec", "wake", "tell"}
    BY DEF LastOfBatch
  <2> USE DEF IInv
  <2>1. Uncounted = 0 /\ Waking = 1
    BY OwnerCounts
  <2>2. dobby \in {"create", "wait", "signal"}
    BY <2>1 DEF Accounting, TypeOK, DobbyLocs
  <2>3. active_tasks = 0 /\ empty_list = 0
    BY <2>1, <2>2 DEF Accounting, TypeOK
  <2>4. Len(list) = 0
    BY <2>1, <2>2, <2>3 DEF Accounting
  <2>5. full_list = 0 /\ Cardinality(Permits) = 0
    <3>1. Owed \in Nat /\ full_list \in Nat
      BY DEF Owed, TypeOK
    <3>2. full_list + Cardinality(Permits) + Owed = 0
      BY <2>2, <2>4 DEF Accounting
    <3> QED
      BY <3>1, <3>2, PermitsFinite
  <2>6. Permits = {}
    BY <2>5, PermitsFinite
  <2>7. \A f \in Elves \ {e} : elf[f] \notin {"take", "dec", "wake", "tell"}
    BY DEF MutexHeld
  <2>8. \A f \in Elves : elf[f] # "lock"
    BY <2>6 DEF Permits
  <2>9. list = <<>>
    BY <2>4 DEF TypeOK
  <2> QED
    BY <2>3, <2>5, <2>7, <2>8, <2>9
<1> QED
  BY <1>1, Invariance, PTL

\* A pending pthread_cancel never finds its elf between the count reaching
\* zero and the sem_post, the one cancellation point inside the mutex.
LEMMA NoCancelInWake == Spec => []CancelledOutsideWake
<1>1. IInv => CancelledOutsideWake
  <2> SUFFICES ASSUME IInv, NEW e \in cancelled
               PROVE  elf[e] \notin {"wake", "tell"}
    BY DEF CancelledOutsideWake
  <2>1. e \in Elves
    BY DEF IInv, TypeOK
  <2>2. Waking = 0
    BY DEF IInv, Lifecycle, Accounting
  <2> QED
    BY <2>1, <2>2 DEF Waking
<1> QED
  BY <1>1, Invariance, PTL

\* The day ends cleanly: no cancellation in the critical section, and main
\* destroys the semaphores after every elf is gone, with the mutex free and
\* nothing left on the list.
THEOREM DayEndsCleanly == Spec => []CleanEnd
<1>1. IInv /\ CancelledOutsideWake => CleanEnd
  <2> SUFFICES ASSUME IInv, CancelledOutsideWake, main = "exited"
               PROVE  /\ \A e \in Elves : elf[e] = "dead"
                      /\ mutex = Free
                      /\ list = <<>>
    BY DEF CleanEnd
  <2>1. dobby = "done" /\ i = NUM_ELVES
    BY DEF IInv, Lifecycle
  <2>2. \A e \in Elves : elf[e] = "dead"
    BY <2>1, HogwartsAssumption DEF IInv, Lifecycle, Elves
  <2>3. mutex = Free
    BY <2>2 DEF IInv, MutexHeld, TypeOK
  <2>4. list = <<>>
    BY <2>1 DEF IInv, Accounting
  <2> QED
    BY <2>2, <2>3, <2>4
<1> QED
  BY <1>1, NoCancelInWake, Invariance, PTL

-----------------------------------------------------------------------------
(* Where a task is: on the list, in one elf's hands, or completed *)

\* An elf has a task in its hands from take_task to the end of do_work.
TaskInHand ==
  \A e \in Elves :
    /\ elf[e] \in {"unborn", "sem", "lock", "take"} => todo[e] = NoTask
    /\ elf[e] \in {"dec", "wake", "tell", "unlock", "work"} => todo[e] # NoTask

\* The ids on the list.
Listed == {list[a] : a \in 1..Len(list)}

\* No id is on the list twice, and no two elves hold the same one.
NoneTwice ==
  /\ \A a, b \in 1..Len(list) : list[a] = list[b] => a = b
  /\ \A e, f \in Elves : todo[e] = todo[f] /\ todo[e] # NoTask => e = f

\* EachTaskOnce with its parts named.
LEMMA TaskPlaces ==
  EachTaskOnce <=> /\ NoneTwice
                   /\ Listed \union Held \union completed = 1..task_id_counter
                   /\ Listed \intersect Held = {}
                   /\ Listed \intersect completed = {}
                   /\ Held \intersect completed = {}
BY DEF EachTaskOnce, NoneTwice, Listed

\* post_tasks puts a node with a fresh id before the others.
LEMMA ListedGained ==
  ASSUME list \in Seq(Nat), NEW x \in Nat, list' = Append(list, x),
         x \notin Listed, NoneTwice, UNCHANGED todo
  PROVE  Listed' = Listed \union {x} /\ NoneTwice'
<1>1. Len(list) \in Nat /\ Len(list') = Len(list) + 1
  OBVIOUS
<1>2. \A a \in 1..Len(list) : list'[a] = list[a]
  OBVIOUS
<1>3. list'[Len(list) + 1] = x
  OBVIOUS
<1>4. 1..Len(list') = (1..Len(list)) \union {Len(list) + 1}
  BY <1>1
<1>5. Listed' = Listed \union {x}
  BY <1>2, <1>3, <1>4 DEF Listed
<1>6. \A a, b \in 1..Len(list') : list'[a] = list'[b] => a = b
  BY <1>2, <1>3, <1>4 DEF NoneTwice, Listed
<1> QED
  BY <1>5, <1>6 DEF NoneTwice

\* take_task unlinks list_head and nothing else.
LEMMA ListedLost ==
  ASSUME list \in Seq(Nat), list # <<>>, list' = SubSeq(list, 1, Len(list) - 1),
         NoneTwice
  PROVE  /\ list[Len(list)] \in Listed
         /\ Listed' = Listed \ {list[Len(list)]}
         /\ \A a, b \in 1..Len(list') : list'[a] = list'[b] => a = b
<1>1. Len(list) \in Nat /\ Len(list) > 0 /\ Len(list') = Len(list) - 1
  BY WithoutHead
<1>2. \A a \in 1..Len(list') : a \in 1..Len(list) /\ list'[a] = list[a]
  BY <1>1
<1>3. 1..Len(list) = (1..Len(list')) \union {Len(list)} /\ Len(list) \notin 1..Len(list')
  BY <1>1
<1>4. list[Len(list)] \in Listed
  BY <1>3 DEF Listed
<1>5. Listed' = Listed \ {list[Len(list)]}
  <2>1. \A a \in 1..Len(list') : list[a] # list[Len(list)]
    BY <1>2, <1>3 DEF NoneTwice
  <2>2. Listed = {list[a] : a \in 1..Len(list')} \union {list[Len(list)]}
    BY <1>2, <1>3, SMTT(30) DEF Listed
  <2>3. Listed' = {list[a] : a \in 1..Len(list')}
    BY <1>2 DEF Listed
  <2> QED
    BY <2>1, <2>2, <2>3
<1>6. \A a, b \in 1..Len(list') : list'[a] = list'[b] => a = b
  BY <1>2 DEF NoneTwice
<1> QED
  BY <1>4, <1>5, <1>6

\* An elf without a task takes one that nobody holds.
LEMMA HeldGained ==
  ASSUME TypeOK, NEW e \in Elves, NEW x \in Nat \ {NoTask}, todo[e] = NoTask,
         x \notin Held, todo' = [todo EXCEPT ![e] = x], NoneTwice
  PROVE  /\ Held' = Held \union {x}
         /\ \A f, g \in Elves : todo'[f] = todo'[g] /\ todo'[f] # NoTask => f = g
<1>1. \A f \in Elves : todo'[f] = IF f = e THEN x ELSE todo[f]
  BY DEF TypeOK
<1>2. Held' = Held \union {x}
  BY <1>1 DEF Held
<1>3. \A f \in Elves : f # e => todo'[f] # x
  BY <1>1 DEF Held, NoTask
<1> QED
  BY <1>1, <1>2, <1>3 DEF NoneTwice

\* do_work frees the task the elf holds and no other.
LEMMA HeldLost ==
  ASSUME TypeOK, NEW e \in Elves, todo[e] # NoTask,
         todo' = [todo EXCEPT ![e] = NoTask], NoneTwice
  PROVE  /\ todo[e] \in Held
         /\ Held' = Held \ {todo[e]}
         /\ \A f, g \in Elves : todo'[f] = todo'[g] /\ todo'[f] # NoTask => f = g
<1>1. \A f \in Elves : todo'[f] = IF f = e THEN NoTask ELSE todo[f]
  BY DEF TypeOK
<1>2. \A f \in Elves : todo[f] = todo[e] => f = e
  BY DEF NoneTwice
<1>3. Held' = Held \ {todo[e]}
  BY <1>1, <1>2 DEF Held
<1> QED
  BY <1>1, <1>3 DEF NoneTwice, Held

\* The invariant that EachTaskOnce needs.
TaskInv == IInv /\ TaskInHand /\ EachTaskOnce

\* Tasks enter an elf's hands in take_task and leave them in do_work only.
LEMMA TaskInHandStep == TaskInv /\ [Next]_vars => TaskInHand'
<1> SUFFICES ASSUME TaskInv, [Next]_vars PROVE TaskInHand'
  OBVIOUS
<1> USE HogwartsAssumption DEF TaskInv, IInv, TypeOK, TaskInHand, ElfAt, DobbyAt
<1>1. CASE CreateElf
  <2>1. i + 1 \in Elves /\ elf[i + 1] = "unborn"
    BY <1>1 DEF CreateElf, Elves, Lifecycle
  <2> QED
    BY <1>1, <2>1 DEF CreateElf
<1>2. CASE UNCHANGED <<elf, todo>>
  BY <1>2
<1>3. ASSUME NEW e \in Elves, ElfWakes(e) PROVE TaskInHand'
  BY <1>3 DEF ElfWakes
<1>4. ASSUME NEW e \in Elves, ElfLocks(e) PROVE TaskInHand'
  BY <1>4 DEF ElfLocks
<1>5. ASSUME NEW e \in Elves, TakeTask(e) PROVE TaskInHand'
  <2>1. list # <<>>
    BY <1>5, PermitMeansTask DEF TakeTask
  <2>2. list[Len(list)] \in Listed
    BY <2>1, WithoutHead DEF Listed
  <2>3. list[Len(list)] # NoTask
    BY <2>2, TaskPlaces DEF NoTask
  <2> QED
    BY <1>5, <2>1, <2>3 DEF TakeTask
<1>6. ASSUME NEW e \in Elves, Decrement(e) PROVE TaskInHand'
  BY <1>6 DEF Decrement
<1>7. ASSUME NEW e \in Elves, AnnounceWake(e) PROVE TaskInHand'
  BY <1>7 DEF AnnounceWake
<1>8. ASSUME NEW e \in Elves, TellDobby(e) PROVE TaskInHand'
  BY <1>8 DEF TellDobby
<1>9. ASSUME NEW e \in Elves, ElfUnlocks(e) PROVE TaskInHand'
  BY <1>9 DEF ElfUnlocks
<1>10. ASSUME NEW e \in Elves, DoWork(e) PROVE TaskInHand'
  BY <1>10 DEF DoWork
<1>11. ASSUME NEW e \in Elves, Die(e) PROVE TaskInHand'
  BY <1>11 DEF Die
<1> QED
  BY <1>1, <1>2, <1>3, <1>4, <1>5, <1>6, <1>7, <1>8, <1>9, <1>10, <1>11
     DEF Next, Dobby, Elf, Ended, vars, ElvesCreated, DobbyStops, DobbyRefills,
         PostTask, TasksPosted, SignalFull, FullSignalled, CancelElf, JoinElf,
         DobbyReturns, MainExit

\* Posting, taking and completing each move one id from one place to the next.
LEMMA EachTaskOnceStep == TaskInv /\ [Next]_vars => EachTaskOnce'
<1> SUFFICES ASSUME TaskInv, [Next]_vars PROVE EachTaskOnce'
  OBVIOUS
<1> USE DEF TaskInv, IInv
<1>0. /\ NoneTwice
      /\ Listed \union Held \union completed = 1..task_id_counter
      /\ Listed \intersect Held = {}
      /\ Listed \intersect completed = {}
      /\ Held \intersect completed = {}
  BY TaskPlaces
<1>1. CASE UNCHANGED <<list, todo, completed, task_id_counter>>
  <2>1. Held' = Held /\ Listed' = Listed /\ (NoneTwice' <=> NoneTwice)
    BY <1>1 DEF Held, Listed, NoneTwice
  <2>2. /\ NoneTwice'
        /\ Listed' \union Held' \union completed' = 1..task_id_counter'
        /\ Listed' \intersect Held' = {}
        /\ Listed' \intersect completed' = {}
        /\ Held' \intersect completed' = {}
    BY <1>0, <1>1, <2>1
  <2> QED
    BY <2>2, TaskPlaces DEF EachTaskOnce, NoneTwice, Listed
<1>2. CASE PostTask
  <2> DEFINE x == task_id_counter + 1
  <2>1. /\ x \in Nat /\ x \notin 1..task_id_counter
        /\ 1..x = (1..task_id_counter) \union {x}
    BY DEF TypeOK
  <2>2. /\ list' = Append(list, x) /\ task_id_counter' = x
        /\ UNCHANGED <<todo, completed>>
    BY <1>2 DEF PostTask
  <2>3. Listed' = Listed \union {x} /\ NoneTwice'
    BY <1>0, <2>1, <2>2, ListedGained DEF TypeOK
  <2>4. Held' = Held
    BY <2>2 DEF Held
  <2>5. x \notin Listed /\ x \notin Held /\ x \notin completed
    BY <1>0, <2>1
  <2> HIDE DEF x
  <2>6. /\ Listed' \union Held' \union completed' = 1..task_id_counter'
        /\ Listed' \intersect Held' = {}
        /\ Listed' \intersect completed' = {}
        /\ Held' \intersect completed' = {}
    BY <1>0, <2>1, <2>2, <2>3, <2>4, <2>5
  <2> QED
    BY <2>3, <2>6, TaskPlaces DEF EachTaskOnce, NoneTwice, Listed
<1>3. ASSUME NEW e \in Elves, TakeTask(e) PROVE EachTaskOnce'
  <2> DEFINE x == list[Len(list)]
  <2>1. list # <<>>
    BY <1>3, PermitMeansTask DEF TakeTask, ElfAt
  <2>2. /\ todo' = [todo EXCEPT ![e] = x]
        /\ list' = SubSeq(list, 1, Len(list) - 1)
        /\ UNCHANGED <<completed, task_id_counter>>
    BY <1>3, <2>1 DEF TakeTask
  <2>3. todo[e] = NoTask
    BY <1>3 DEF TakeTask, ElfAt, TaskInHand
  <2>4. /\ x \in Listed /\ Listed' = Listed \ {x}
        /\ \A a, b \in 1..Len(list') : list'[a] = list'[b] => a = b
    BY <1>0, <2>1, <2>2, ListedLost DEF TypeOK
  <2>5. x \in Nat \ {NoTask} /\ x \notin Held
    <3>1. x \in 1..task_id_counter
      BY <1>0, <2>4
    <3> QED
      BY <1>0, <2>4, <3>1 DEF NoTask, TypeOK
  <2>6. /\ Held' = Held \union {x}
        /\ \A f, g \in Elves : todo'[f] = todo'[g] /\ todo'[f] # NoTask => f = g
    BY <1>0, <2>2, <2>3, <2>5, HeldGained
  <2> HIDE DEF x
  <2>7. /\ Listed' \union Held' \union completed' = 1..task_id_counter'
        /\ Listed' \intersect Held' = {}
        /\ Listed' \intersect completed' = {}
        /\ Held' \intersect completed' = {}
    BY <1>0, <2>2, <2>4, <2>6
  <2> QED
    BY <2>4, <2>6, <2>7 DEF EachTaskOnce, Listed
<1>4. ASSUME NEW e \in Elves, DoWork(e) PROVE EachTaskOnce'
  <2>1. /\ todo' = [todo EXCEPT ![e] = NoTask]
        /\ completed' = completed \union {todo[e]}
        /\ UNCHANGED <<list, task_id_counter>>
    BY <1>4 DEF DoWork, shared
  <2>2. todo[e] # NoTask
    BY <1>4 DEF DoWork, ElfAt, TaskInHand
  <2>3. /\ todo[e] \in Held /\ Held' = Held \ {todo[e]}
        /\ \A f, g \in Elves : todo'[f] = todo'[g] /\ todo'[f] # NoTask => f = g
    BY <1>0, <2>1, <2>2, HeldLost
  <2>4. Listed' = Listed
    BY <2>1 DEF Listed
  <2>5. /\ Listed' \union Held' \union completed' = 1..task_id_counter'
        /\ Listed' \intersect Held' = {}
        /\ Listed' \intersect completed' = {}
        /\ Held' \intersect completed' = {}
    BY <1>0, <2>1, <2>3, <2>4
  <2>6. \A a, b \in 1..Len(list') : list'[a] = list'[b] => a = b
    BY <1>0, <2>1 DEF NoneTwice
  <2> QED
    BY <2>3, <2>5, <2>6 DEF EachTaskOnce, Listed
<1> QED
  BY <1>1, <1>2, <1>3, <1>4
     DEF Next, Dobby, Elf, Ended, vars, shared, CreateElf, ElvesCreated, DobbyStops,
         DobbyRefills, TasksPosted, SignalFull, FullSignalled, CancelElf, JoinElf,
         DobbyReturns, MainExit, ElfWakes, ElfLocks, Decrement, AnnounceWake,
         TellDobby, ElfUnlocks, Die

\* Every posted task is on the list, with one elf, or completed, and in no two of
\* these places: none is lost, taken twice or freed twice.
THEOREM TasksConserved == Spec => []EachTaskOnce
<1>1. Init => TaskInv
  <2> SUFFICES ASSUME Init PROVE TaskInv
    OBVIOUS
  <2>1. TaskInHand
    BY DEF Init, TaskInHand
  <2>2. Held = {} /\ Listed = {} /\ NoneTwice
    BY DEF Init, Held, Listed, NoneTwice
  <2>3. 1..task_id_counter = {} /\ completed = {}
    BY DEF Init
  <2>4. EachTaskOnce
    BY <2>2, <2>3, TaskPlaces
  <2> QED
    BY <2>1, <2>4, InitIInv DEF TaskInv
<1>2. TaskInv /\ [Next]_vars => TaskInv'
  BY StepIInv, TaskInHandStep, EachTaskOnceStep DEF TaskInv
<1>3. TaskInv => EachTaskOnce
  BY DEF TaskInv
<1> QED
  BY <1>1, <1>2, <1>3, PTL DEF Spec

=============================================================================
