------------------------------ MODULE Hogwarts ------------------------------
(***************************************************************************)
(* 05-threading/class/hogwarts/hogwarts.c: Dobby posts batches of tasks on  *)
(* a linked list, a pool of house elves takes and performs them.  Two       *)
(* semaphores hand the list back and forth, a mutex guards it among the     *)
(* elves, and Dobby cancels the elves at the end of the day.                *)
(*                                                                          *)
(* Dobby writes list_head and active_tasks WITHOUT the mutex: that this is  *)
(* no data race is a property of the protocol (NoDataRace), and it is what  *)
(* makes one step per loop iteration of Dobby fine enough.  The functions   *)
(* that POSIX lets act on a deferred cancellation are sem_wait and printf;  *)
(* pthread_mutex_lock is not one of them.                                   *)
(***************************************************************************)
EXTENDS Integers, Sequences, FiniteSets

CONSTANTS
  NUM_ELVES,   \* size of the pool (5 in the code)
  BATCH,       \* most tasks posted at once (10 in the code)
  Totals       \* the values atoi(argv[1]) may have

ASSUME HogwartsAssumption ==
  /\ NUM_ELVES \in Nat \ {0}
  /\ BATCH \in Nat \ {0}
  /\ Totals \subseteq Int

Elves == 1..NUM_ELVES
Free == 0      \* the mutex has no owner
NoTask == 0    \* todo of an elf without a task; ids start at 1

VARIABLES
  list,              \* task ids; list_head is the LAST element
  total_tasks,
  active_tasks,
  task_id_counter,
  empty_list,        \* value of the semaphore Dobby waits on
  full_list,         \* value of the semaphore the elves wait on
  mutex,             \* Free or the elf that owns it
  dobby,             \* where Dobby is in run_dobby
  n,                 \* Dobby's local: size of the current batch
  i,                 \* Dobby's local: loop counter
  elf,               \* where each elf is in run_house_elf
  todo,              \* each elf's local task
  cancelled,         \* elves with a pending pthread_cancel
  completed,         \* ids whose "was completed!" line was printed
  main               \* the process: running, exited, or aborted by exit(-1)

shared == <<list, active_tasks, task_id_counter>>
sems == <<empty_list, full_list>>
locals == <<n, i, dobby, total_tasks>>
vars == <<list, total_tasks, active_tasks, task_id_counter, empty_list,
          full_list, mutex, dobby, n, i, elf, todo, cancelled, completed, main>>

DobbyLocs == {"create", "wait", "post", "signal", "cancel", "join", "done"}
ElfLocs == {"unborn", "sem", "lock", "take", "dec", "wake", "tell", "unlock",
            "work", "dead"}

Init ==
  /\ list = <<>>
  /\ total_tasks \in Totals
  /\ active_tasks = 0
  /\ task_id_counter = 0
  /\ empty_list = 1
  /\ full_list = 0
  /\ mutex = Free
  /\ dobby = "create"
  /\ n = 0
  /\ i = 0
  /\ elf = [e \in Elves |-> "unborn"]
  /\ todo = [e \in Elves |-> NoTask]
  /\ cancelled = {}
  /\ completed = {}
  /\ main = "running"

\* A thread takes a step only while the process runs.
DobbyAt(loc) == main = "running" /\ dobby = loc
ElfAt(e, locs) == main = "running" /\ elf[e] \in locs

-----------------------------------------------------------------------------
(* Dobby: run_dobby and post_tasks *)

\* One pthread_create of the loop over workers[].
CreateElf ==
  /\ DobbyAt("create") /\ i < NUM_ELVES
  /\ elf' = [elf EXCEPT ![i + 1] = "sem"]
  /\ i' = i + 1
  /\ UNCHANGED <<shared, sems, dobby, total_tasks, n, mutex, todo, cancelled,
                 completed, main>>

ElvesCreated ==
  /\ DobbyAt("create") /\ i = NUM_ELVES
  /\ dobby' = "wait"
  /\ UNCHANGED <<shared, sems, total_tasks, n, i, mutex, elf, todo, cancelled,
                 completed, main>>

\* sem_wait(&empty_list) returns.  total_tasks is touched by Dobby alone, so
\* the test that follows belongs to the same step.
DobbyStops ==
  /\ DobbyAt("wait") /\ empty_list > 0
  /\ total_tasks = 0
  /\ empty_list' = empty_list - 1
  /\ dobby' = "cancel"
  /\ i' = 0
  /\ UNCHANGED <<shared, full_list, total_tasks, n, mutex, elf, todo, cancelled,
                 completed, main>>

BatchOf(total) == IF total >= BATCH THEN BATCH ELSE total

DobbyRefills ==
  /\ DobbyAt("wait") /\ empty_list > 0
  /\ total_tasks # 0
  /\ empty_list' = empty_list - 1
  /\ n' = BatchOf(total_tasks)
  /\ total_tasks' = total_tasks - n'
  /\ dobby' = "post"
  /\ i' = 0
  /\ UNCHANGED <<shared, full_list, mutex, elf, todo, cancelled, completed, main>>

\* One iteration of post_tasks: a new node becomes list_head.
PostTask ==
  /\ DobbyAt("post") /\ i < n
  /\ task_id_counter' = task_id_counter + 1
  /\ list' = Append(list, task_id_counter')
  /\ i' = i + 1
  /\ UNCHANGED <<active_tasks, sems, dobby, total_tasks, n, mutex, elf, todo,
                 cancelled, completed, main>>

\* Variant: the loop of sem_posts starts at one.
TasksPostedSkipsOne ==
  /\ DobbyAt("post") /\ i >= n
  /\ active_tasks' = n
  /\ i' = 1
  /\ dobby' = "signal"
  /\ UNCHANGED <<list, task_id_counter, sems, total_tasks, n, mutex, elf, todo,
                 cancelled, completed, main>>

\* post_tasks has returned: active_tasks = n.
TasksPosted ==
  /\ DobbyAt("post") /\ i >= n
  /\ active_tasks' = n
  /\ i' = 0
  /\ dobby' = "signal"
  /\ UNCHANGED <<list, task_id_counter, sems, total_tasks, n, mutex, elf, todo,
                 cancelled, completed, main>>

\* One sem_post(&full_list) of the loop over the batch.
SignalFull ==
  /\ DobbyAt("signal") /\ i < n
  /\ full_list' = full_list + 1
  /\ i' = i + 1
  /\ UNCHANGED <<shared, empty_list, dobby, total_tasks, n, mutex, elf, todo,
                 cancelled, completed, main>>

\* Variant: the loop posts the semaphore once more when it ends.
FullSignalledOnceMore ==
  /\ DobbyAt("signal") /\ i >= n
  /\ full_list' = full_list + 1
  /\ dobby' = "wait"
  /\ UNCHANGED <<shared, empty_list, total_tasks, n, i, mutex, elf, todo,
                 cancelled, completed, main>>

FullSignalled ==
  /\ DobbyAt("signal") /\ i >= n
  /\ dobby' = "wait"
  /\ UNCHANGED <<shared, sems, total_tasks, n, i, mutex, elf, todo, cancelled,
                 completed, main>>

\* Variant: the loop over workers[] runs once too often.
CancelElfOnceMore ==
  /\ DobbyAt("cancel") /\ i <= NUM_ELVES
  /\ cancelled' = cancelled \union {i + 1}
  /\ dobby' = "join"
  /\ UNCHANGED <<shared, sems, total_tasks, n, i, mutex, elf, todo, completed, main>>

\* pthread_cancel(workers[i])
CancelElf ==
  /\ DobbyAt("cancel") /\ i < NUM_ELVES
  /\ cancelled' = cancelled \union {i + 1}
  /\ dobby' = "join"
  /\ UNCHANGED <<shared, sems, total_tasks, n, i, mutex, elf, todo, completed, main>>

\* Variant: Dobby does not wait for the thread he cancelled.
JoinElfEarly ==
  /\ DobbyAt("join")
  /\ dobby' = "cancel"
  /\ i' = i + 1
  /\ UNCHANGED <<shared, sems, total_tasks, n, mutex, elf, todo, cancelled,
                 completed, main>>

\* pthread_join(workers[i], NULL)
JoinElf ==
  /\ DobbyAt("join") /\ elf[i + 1] = "dead"
  /\ dobby' = "cancel"
  /\ i' = i + 1
  /\ UNCHANGED <<shared, sems, total_tasks, n, mutex, elf, todo, cancelled,
                 completed, main>>

DobbyReturns ==
  /\ DobbyAt("cancel") /\ i = NUM_ELVES
  /\ dobby' = "done"
  /\ UNCHANGED <<shared, sems, total_tasks, n, i, mutex, elf, todo, cancelled,
                 completed, main>>

\* main: pthread_join(dobby) returns, the semaphores are destroyed, return 0.
MainExit ==
  /\ DobbyAt("done")
  /\ main' = "exited"
  /\ UNCHANGED <<shared, sems, locals, mutex, elf, todo, cancelled, completed>>

-----------------------------------------------------------------------------
(* A house elf: run_house_elf, take_task, do_work, house_elf_cleanup *)

\* sem_wait(&full_list) returns.
ElfWakes(e) ==
  /\ ElfAt(e, {"sem"}) /\ full_list > 0
  /\ full_list' = full_list - 1
  /\ elf' = [elf EXCEPT ![e] = "lock"]
  /\ UNCHANGED <<shared, empty_list, locals, mutex, todo, cancelled, completed, main>>

\* pthread_cleanup_push; pthread_mutex_lock
ElfLocks(e) ==
  /\ ElfAt(e, {"lock"}) /\ mutex = Free
  /\ mutex' = e
  /\ elf' = [elf EXCEPT ![e] = "take"]
  /\ UNCHANGED <<shared, sems, locals, todo, cancelled, completed, main>>

\* Variant: take_task does not advance list_head.
TakeTaskKeepsNode(e) ==
  /\ ElfAt(e, {"take"})
  /\ todo' = [todo EXCEPT ![e] = list[Len(list)]]
  /\ elf' = [elf EXCEPT ![e] = "dec"]
  /\ UNCHANGED <<shared, sems, locals, mutex, cancelled, completed, main>>

\* take_task: list_head leaves the list; on an empty list, exit(-1).
TakeTask(e) ==
  /\ ElfAt(e, {"take"})
  /\ IF list = <<>>
       THEN /\ main' = "aborted"
            /\ UNCHANGED <<list, elf, todo>>
       ELSE /\ todo' = [todo EXCEPT ![e] = list[Len(list)]]
            /\ list' = SubSeq(list, 1, Len(list) - 1)
            /\ elf' = [elf EXCEPT ![e] = "dec"]
            /\ UNCHANGED main
  /\ UNCHANGED <<active_tasks, task_id_counter, sems, locals, mutex, cancelled,
                 completed>>

\* Variant: the elf tells Dobby one task too early.
DecrementWakesEarly(e) ==
  /\ ElfAt(e, {"dec"})
  /\ active_tasks' = active_tasks - 1
  /\ elf' = [elf EXCEPT ![e] = IF active_tasks' <= 1 THEN "wake" ELSE "unlock"]
  /\ UNCHANGED <<list, task_id_counter, sems, locals, mutex, todo, cancelled,
                 completed, main>>

\* --active_tasks and the test for the last task of the batch.
Decrement(e) ==
  /\ ElfAt(e, {"dec"})
  /\ active_tasks' = active_tasks - 1
  /\ elf' = [elf EXCEPT ![e] = IF active_tasks' = 0 THEN "wake" ELSE "unlock"]
  /\ UNCHANGED <<list, task_id_counter, sems, locals, mutex, todo, cancelled,
                 completed, main>>

\* printf("Waking Dobby\n")
AnnounceWake(e) ==
  /\ ElfAt(e, {"wake"})
  /\ elf' = [elf EXCEPT ![e] = "tell"]
  /\ UNCHANGED <<shared, sems, locals, mutex, todo, cancelled, completed, main>>

\* sem_post(&empty_list)
TellDobby(e) ==
  /\ ElfAt(e, {"tell"})
  /\ empty_list' = empty_list + 1
  /\ elf' = [elf EXCEPT ![e] = "unlock"]
  /\ UNCHANGED <<shared, full_list, locals, mutex, todo, cancelled, completed, main>>

\* pthread_mutex_unlock; pthread_cleanup_pop(0)
ElfUnlocks(e) ==
  /\ ElfAt(e, {"unlock"})
  /\ mutex' = Free
  /\ elf' = [elf EXCEPT ![e] = "work"]
  /\ UNCHANGED <<shared, sems, locals, todo, cancelled, completed, main>>

\* do_work: hash, print "Task %d was completed!", free the task.
DoWork(e) ==
  /\ ElfAt(e, {"work"})
  /\ completed' = completed \union {todo[e]}
  /\ todo' = [todo EXCEPT ![e] = NoTask]
  /\ elf' = [elf EXCEPT ![e] = "sem"]
  /\ UNCHANGED <<shared, sems, locals, mutex, cancelled, main>>

\* A pending cancellation acts in sem_wait or in a printf.  Outside the
\* critical section no handler is on the stack, and a task in hand is
\* abandoned; inside it house_elf_cleanup unlocks the mutex.
Die(e) ==
  /\ ElfAt(e, {"sem", "wake", "work"}) /\ e \in cancelled
  /\ elf' = [elf EXCEPT ![e] = "dead"]
  /\ mutex' = IF elf[e] = "wake" THEN Free ELSE mutex
  /\ UNCHANGED <<shared, sems, locals, todo, cancelled, completed, main>>

-----------------------------------------------------------------------------
Dobby ==
  \/ CreateElf \/ ElvesCreated \/ DobbyStops \/ DobbyRefills \/ PostTask
  \/ TasksPosted \/ SignalFull \/ FullSignalled \/ CancelElf \/ JoinElf
  \/ DobbyReturns

Elf(e) ==
  \/ ElfWakes(e) \/ ElfLocks(e) \/ TakeTask(e) \/ Decrement(e)
  \/ AnnounceWake(e) \/ TellDobby(e) \/ ElfUnlocks(e)
  \/ DoWork(e) \/ Die(e)

\* The process has ended; nothing runs any more.
Ended == main # "running" /\ UNCHANGED vars

Next == Dobby \/ MainExit \/ Ended \/ \E e \in Elves : Elf(e)

Spec == Init /\ [][Next]_vars

\* The kernel runs every runnable thread sooner or later.  The number of lock
\* acquisitions is finite, so no thread can be overtaken for ever.
Fairness ==
  /\ WF_vars(Dobby)
  /\ WF_vars(MainExit)
  /\ \A e \in Elves : WF_vars(Elf(e))

FairSpec == Spec /\ Fairness

-----------------------------------------------------------------------------
(* Properties *)

\* The globals, semaphores, mutex and thread positions have their types.
TypeOK ==
  /\ list \in Seq(Nat)
  /\ total_tasks \in Int
  /\ active_tasks \in Int
  /\ task_id_counter \in Nat
  /\ empty_list \in Nat
  /\ full_list \in Nat
  /\ mutex \in Elves \union {Free}
  /\ dobby \in DobbyLocs
  /\ n \in Int
  /\ i \in Nat
  /\ elf \in [Elves -> ElfLocs]
  /\ todo \in [Elves -> Nat]
  /\ cancelled \in SUBSET Elves
  /\ completed \in SUBSET Nat
  /\ main \in {"running", "exited", "aborted"}

\* "Something has gone wrong": no elf ever reaches the exit(-1) of take_task,
\* although it tests nothing but its semaphore before it takes a task.
NeverTakesFromEmpty == main # "aborted"

\* Dobby fills the list and sets active_tasks without the mutex.  While he
\* does, no elf is where it reads or writes them.
NoDataRace ==
  dobby = "post" => \A e \in Elves : elf[e] \notin {"take", "dec"}

\* The comment above run_house_elf: a worker that sees zero is the last of its
\* batch.  When an elf is about to wake Dobby, nothing is left on the list or
\* in the semaphore, no other elf is on its way to the list, and Dobby has not
\* been woken already.
LastOfBatch ==
  \A e \in Elves : elf[e] \in {"wake", "tell"} =>
    /\ list = <<>> /\ full_list = 0 /\ empty_list = 0
    /\ \A f \in Elves \ {e} :
         elf[f] \notin {"lock", "take", "dec", "wake", "tell"}

\* The critical section contains a cancellation point, the printf before the
\* sem_post; a cancelled elf is never there, so the cleanup handler that would
\* unlock the mutex while the batch is half accounted for never runs.
CancelledOutsideWake == \A e \in cancelled : elf[e] \notin {"wake", "tell"}

\* Ids in somebody's hands.
Held == {todo[e] : e \in Elves} \ {NoTask}

\* Every posted task is in exactly one place: on the list, with exactly one
\* elf, or completed.  No task is lost, taken twice or freed twice.
EachTaskOnce ==
  /\ \A a, b \in 1..Len(list) : list[a] = list[b] => a = b
  /\ \A e, f \in Elves : todo[e] = todo[f] /\ todo[e] # NoTask => e = f
  /\ LET listed == {list[a] : a \in 1..Len(list)}
     IN /\ listed \union Held \union completed = 1..task_id_counter
        /\ listed \intersect Held = {}
        /\ listed \intersect completed = {}
        /\ Held \intersect completed = {}

\* Elves that hold a permit of full_list and have not used it yet.
Permits == {e \in Elves : elf[e] \in {"lock", "take"}}

\* One if an elf has taken a task it has not counted yet.
Uncounted == IF \E e \in Elves : elf[e] = "dec" THEN 1 ELSE 0

\* One if an elf is about to wake Dobby.
Waking == IF \E e \in Elves : elf[e] \in {"wake", "tell"} THEN 1 ELSE 0

\* Posts of full_list that Dobby still owes for the tasks on the list.
Owed == IF dobby = "signal" /\ i < n THEN n - i ELSE 0

\* Why the handshake works.  While elves may be at the list, every task on it
\* is matched by a value of full_list, a permit in an elf's hands or a post to
\* come, active_tasks counts the list, and Dobby's wake-up exists exactly when
\* the count is zero.  (A negative argument posts nothing and leaves a negative
\* count behind.)  While Dobby is at the list, or after the last batch, all
\* of these are used up.
Accounting ==
  /\ dobby \in {"create", "wait", "signal"} =>
       /\ Len(list) = full_list + Cardinality(Permits) + Owed
       /\ \/ active_tasks = Len(list) + Uncounted
          \/ active_tasks < 0 /\ list = <<>> /\ Uncounted = 0
       /\ empty_list + Waking = IF active_tasks = 0 THEN 1 ELSE 0
  /\ dobby \in {"post", "cancel", "join", "done"} =>
       /\ full_list = 0 /\ empty_list = 0 /\ active_tasks = 0
       /\ Permits = {} /\ Uncounted = 0 /\ Waking = 0
  /\ dobby = "post" => n # 0 /\ Len(list) = i /\ (i <= n \/ i = 0)
  /\ dobby = "signal" => i <= n \/ (n < 0 /\ i = 0)
  /\ dobby \in {"cancel", "join", "done"} => list = <<>>

\* A clean end of the day: no cancelled elf is in the critical section, where
\* the printf before the sem_post is a cancellation point and the cleanup
\* handler would leave the batch half accounted for; and main destroys the
\* semaphores only when no thread can touch them, with the mutex unlocked and
\* nothing on the list.
CleanEnd ==
  /\ CancelledOutsideWake
  /\ main = "exited" => /\ \A e \in Elves : elf[e] = "dead"
                        /\ mutex = Free
                        /\ list = <<>>

\* "eventually dobby wakes up with total tasks equal to zero": the program ends,
\* unless it was asked for a negative number of tasks.  (Then nothing is posted,
\* active_tasks stays negative and nobody wakes Dobby again.)
Termination == total_tasks >= 0 => <>(main = "exited")

\* "all others area working on their task and will loop back to the
\* semaphore": when the program ends, every task that was posted has been
\* completed, but for that of the last worker itself.
OthersLoopBack == main = "exited" => Cardinality((1..task_id_counter) \ completed) <= 1

=============================================================================
