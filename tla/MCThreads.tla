----------------------------- MODULE MCThreads -----------------------------
(***************************************************************************)
(* One run for the small programs of 05-threading, and for those that fork a *)
(* child and wait for it: the initial state picks one of them and only that  *)
(* one runs.                                                                 *)
(***************************************************************************)
EXTENDS Integers, FiniteSets, Sequences

CONSTANTS
  BUFCAP, FILLS, MaxSpurious,             \* producer_consumer1.c
  COUNT_HALT1, COUNT_HALT2, COUNT_DONE,   \* examples/src/condition.c
  TCOUNT, COUNT_LIMIT, Bonus, Incs,       \* class/condition.c
  Threads, Initial, Rounds,               \* semaphore.txt
  Size, Values,                           \* merge_sort.c
  Pushers, PUSHES,                        \* linkedlist.c
  NUMTHREADS,                             \* join.c, mutex.c, semaphores.c
  Codes                                   \* system.c, command.c, ...

VARIABLES
  program,
  n, bmutex, prod, cons, bi, done, drains, spurious,
  hcount, hmutex, hpc, printed,
  wcount, wmutex, watch, inc, reg, wi, added,
  scount, count_mut, spc, round,
  A, given, sat, tmp, ai, mbi,
  head, tail, size, next, lsem, lat, li, made, main, node, walked,
  jdone, m, parent, child,
  code, x, lock, cmain, k, thr, creg, prints,
  forker, wparent, wchild, how, execed, report

Batch == INSTANCE BatchBuffer WITH mutex <- bmutex, i <- bi
Handoff == INSTANCE CountHandoff WITH count <- hcount, mutex <- hmutex, pc <- hpc
Watch == INSTANCE WatchCount WITH count <- wcount, mutex <- wmutex, i <- wi
Sem == INSTANCE CondSemaphore WITH count <- scount, pc <- spc
Sort == INSTANCE MergeSort WITH at <- sat, bi <- mbi
Locked == INSTANCE LockedList WITH sem <- lsem, at <- lat, i <- li
TJoin == INSTANCE ThreadJoin WITH done <- jdone
Counts == INSTANCE JoinedCount WITH main <- cmain, reg <- creg, lines <- prints
Spawn == INSTANCE SpawnWait WITH parent <- wparent, child <- wchild

ASSUME ThreadsAssumption ==
  /\ Batch!BatchAssumption /\ Handoff!HandoffAssumption
  /\ Watch!WatchAssumption /\ Sem!SemaphoreAssumption
  /\ Sort!SortAssumption /\ Locked!ListAssumption
  /\ Counts!JoinedAssumption /\ Spawn!SpawnAssumption

batch == <<n, bmutex, prod, cons, bi, done, drains, spurious>>
handoff == <<hcount, hmutex, hpc, printed>>
watcher == <<wcount, wmutex, watch, inc, reg, wi, added>>
sem == <<scount, count_mut, spc, round>>
sort == <<A, given, sat, tmp, ai, mbi>>
locked == <<head, tail, size, next, lsem, lat, li, made, main, node, walked>>
join == <<jdone, m, parent, child>>
counting == <<code, x, lock, cmain, k, thr, creg, prints>>
spawning == <<forker, wparent, wchild, how, execed, report>>
vars ==
  <<program, batch, handoff, watcher, sem, sort, locked, join, counting, spawning>>

Init ==
  /\ program \in {"batch", "handoff", "watch", "sem", "sort", "locked", "join", "count",
                  "spawn"}
  \* one initial state of each program that does not run is enough
  /\ program # "sort" => given = [e \in 0..Size - 1 |-> CHOOSE v \in Values : TRUE]
  /\ program # "count" => code = "join"
  /\ program # "spawn" => forker = "system"
  /\ Batch!Init /\ Handoff!Init /\ Watch!Init /\ Sem!Init
  /\ Sort!Init /\ Locked!Init /\ TJoin!Init /\ Counts!Init /\ Spawn!Init

\* A step of one program leaves the others where they are.
InBatch(S) ==
  program = "batch" /\ S
  /\ UNCHANGED <<program, handoff, watcher, sem, sort, locked, join, counting, spawning>>
InHandoff(S) ==
  program = "handoff" /\ S
  /\ UNCHANGED <<program, batch, watcher, sem, sort, locked, join, counting, spawning>>
InWatch(S) ==
  program = "watch" /\ S
  /\ UNCHANGED <<program, batch, handoff, sem, sort, locked, join, counting, spawning>>
InSem(S) ==
  program = "sem" /\ S
  /\ UNCHANGED <<program, batch, handoff, watcher, sort, locked, join, counting, spawning>>
InSort(S) ==
  program = "sort" /\ S
  /\ UNCHANGED <<program, batch, handoff, watcher, sem, locked, join, counting, spawning>>
InLocked(S) ==
  program = "locked" /\ S
  /\ UNCHANGED <<program, batch, handoff, watcher, sem, sort, join, counting, spawning>>
InJoin(S) ==
  program = "join" /\ S
  /\ UNCHANGED <<program, batch, handoff, watcher, sem, sort, locked, counting, spawning>>
InCount(S) ==
  program = "count" /\ S
  /\ UNCHANGED <<program, batch, handoff, watcher, sem, sort, locked, join, spawning>>
InSpawn(S) ==
  program = "spawn" /\ S
  /\ UNCHANGED <<program, batch, handoff, watcher, sem, sort, locked, join, counting>>

Next ==
  \/ InBatch(Batch!Next) \/ InHandoff(Handoff!Next)
  \/ InWatch(Watch!Next) \/ InSem(Sem!Next)
  \/ InSort(Sort!Next) \/ InLocked(Locked!Next) \/ InJoin(TJoin!Next)
  \/ InCount(Counts!Next) \/ InSpawn(Spawn!Next)

\* The fairness of each program, while it runs.
Fairness ==
  /\ WF_vars(InBatch(Batch!Producer)) /\ WF_vars(InBatch(Batch!Consumer))
  /\ SF_vars(InBatch(Batch!ProducerLocks \/ Batch!ProducerRelocks))
  /\ SF_vars(InBatch(Batch!ConsumerLocks))
  /\ WF_vars(InHandoff(Handoff!Thread1)) /\ WF_vars(InHandoff(Handoff!Thread2))
  /\ SF_vars(InHandoff(Handoff!Lock(1))) /\ SF_vars(InHandoff(Handoff!Lock(2)))
  /\ WF_vars(InWatch(Watch!Watch)) /\ SF_vars(InWatch(Watch!WatchLocks \/ Watch!WatchBonus))
  /\ \A t \in Incs : WF_vars(InWatch(Watch!Inc(t))) /\ SF_vars(InWatch(Watch!IncLocks(t)))
  /\ WF_vars(InSort(Sort!AnyStep))
  /\ WF_vars(InLocked(Locked!Main)) /\ \A t \in Pushers : WF_vars(InLocked(Locked!Pusher(t)))
  /\ WF_vars(InJoin(TJoin!Parent)) /\ WF_vars(InJoin(TJoin!Child))
  /\ SF_vars(InJoin(TJoin!ChildLocks)) /\ SF_vars(InJoin(TJoin!ParentLocks))
  /\ WF_vars(InCount(Counts!Main)) /\ \A t \in 1..NUMTHREADS : WF_vars(InCount(Counts!Thread(t)))
  /\ WF_vars(InSpawn(Spawn!Fork \/ Spawn!Wait \/ Spawn!WaitStopped))
  /\ WF_vars(InSpawn(Spawn!Exec \/ Spawn!NoExec))

FairSpec == Init /\ [][Next]_vars /\ Fairness

-----------------------------------------------------------------------------
(* Properties *)

\* No thread of the four programs with condition variables sleeps in
\* pthread_cond_wait once what it waits for has happened and nobody is left to
\* signal it; their variables keep their types.
NoLostWakeup ==
  /\ Batch!TypeOK /\ Handoff!TypeOK /\ Watch!TypeOK
  /\ Batch!NoLostWakeup /\ Handoff!NoLostWakeup /\ Watch!NoLostWakeup /\ TJoin!NoLostWakeup

\* No process ends too early.  producer_consumer1.c, although nobody joins its
\* consumer, ends only after FILLS drains (or spurious wake-ups) and with
\* nothing left in the buffer; myjoin.c only after its child's thr_exit; a
\* program that forks a child and waits only after the child, unless command.c
\* has seen it stopped, and of a program that was executed it reports the end.
EndsAfterWork ==
  /\ Batch!NothingLeftBehind /\ Batch!FillsBeforeExit /\ TJoin!JoinsAfterExit
  /\ Spawn!TypeOK /\ Spawn!OutlivesChild /\ Spawn!ReportsEnd

\* examples/src/condition.c: each number is printed once, by the thread whose
\* range it is in, and the mutex funcCount2 returns with is never wanted again.
TurnsKept == Handoff!TurnsKept /\ Handoff!AbandonedMutexHarmless

\* What the threads share comes out right.  class/condition.c: no increment is
\* lost, and the bonus, added inside the loop that "handles spurious wakeups",
\* is added at most once.  linkedlist.c: no push is lost.  merge_sort.c: calls
\* that work on one array without a lock leave every part they have returned
\* from sorted and complete.  join.c, mutex.c and semaphores.c: every thread that
\* could be created has counted, and prints, in its turn.
SharedDataIntact ==
  /\ Counts!TypeOK /\ Counts!AllCounted
  /\ Watch!CountExact /\ Watch!BonusOnce /\ Locked!NoPushLost /\ Sort!SortsInPlace

\* semaphore.txt: no more threads than the semaphore was initialised for are in
\* the critical section.  It holds for two threads and not for three.  join.c,
\* mutex.c and semaphores.c: one thread is.
MutualExclusion == Sem!MutualExclusion /\ Counts!Exclusive

\* Every wait of producer_consumer1.c ends, and the programs that join their
\* threads, by pthread_join or by thr_join, or wait for a child that ends, come to
\* their end.
Progress ==
  /\ Batch!WaitsEnd
  /\ program = "handoff" => Handoff!Termination
  /\ program = "watch" => Watch!Termination
  /\ program = "sort" => Sort!Termination
  /\ program = "locked" => Locked!Termination
  /\ program = "join" => TJoin!Termination
  /\ program = "count" => Counts!Termination
  /\ Spawn!ParentEnds

=============================================================================
