# A verification project for linux-system-programming

The repository is a collection of small, independent programs, each written to try
one part of the Linux system interface: threads, processes, pipes, sockets, files.
There is no large system, but many small protocols, and most of them are concurrent.
This directory holds TLA+ models of the programs that have a protocol worth checking,
TLC configurations that check them on small instances, and TLAPS proofs, for every
value of the constants, of all the safety properties those runs check.

`PROJECT.json` lists the components, the runs, which source lines each definition
stands for, and the hazards the properties are aimed at.

## 1. Inventory

The programs do not call each other. Within each program the parts interact as
follows. Paths are relative to `src/`.

| Component | State | Operations | What interacts | What makes it correct |
|---|---|---|---|---|
| Thread pool, `05-threading/class/hogwarts/hogwarts.c` | task list, two counters, two semaphores, a mutex | post a batch, take a task, count it, wake Dobby, cancel and join | Dobby and the elves share the list; Dobby writes it without the mutex | no elf finds the list empty, no race, each task in one place, clean end |
| Bounded buffer, `examples/src/producer_consumer2.c` | ring, count, two pointers | put, get | two threads, a mutex, two conditions | it is a FIFO; no lost wake-up |
| Fill-and-drain buffer, `examples/src/producer_consumer1.c` | buffer index | fill, drain | producer, detached consumer, end of the process | nothing left when the process ends |
| Counting in turns, `examples/src/condition.c` | a count | count in one's range | two threads, one condition, a signal outside the mutex, a return with the mutex locked | each number once, by the right thread |
| Watched counter, `class/condition.c` | a count | increment, watch, add a bonus | two incrementers, one watcher | nothing lost, bonus once |
| Semaphore sketch, `examples/src/semaphore.txt` | a count | wait, post | any number of threads | mutual exclusion |
| Merge sort, `class/merge_sort.c` | one array | split, join, merge | one thread per left half, no lock | every part sorted when its call returns |
| Locked list, `class/linkedlist.c` | a list | push under a semaphore, walk, free | two threads and main | no push lost |
| Home-made join, `examples/src/myjoin.c` | a flag | exit, join | two threads, spurious wake-ups | main waits for the child |
| Forking server, `00-network-programming/examples/server.c` | descriptors, children, SIGCHLD | accept, fork, greet, reap | parent, children, signal handler, clients | no zombie, no foreign descriptor, one greeting each |
| Chat client, `chat/client.c` and `chat/llist.c` | message list, pipe | read a line, hand it over, send it, stop | main and the event loop share the list without a lock | order; no crash unless two messages are outstanding or memory is short |
| Select client, `select_client.py` | queue, mutex, indicator socket | append, indicate, drain, receive | main and the event loop | no message is slept on; all are sent in order |
| Write loops in six files | bytes written so far | write or send until done | the kernel may take less than it is given | the buffer, whole and once |
| Pipe, `04-process-management/pipe.c` | pipe, growing buffer, descriptors | write, read, grow, close | parent and child | stream intact, buffer large enough, the end is seen |
| Shell pipeline, `shell_pipe.c` | descriptor table, pipe | redirect, fork, wait, restore | shell, ls, cat | all output shown, everything closed |
| File server, `file_server.c` | connection, growing buffer, open files | accept, read a line, send a file | one client at a time | whole file, right buffer, next client served |
| UDP listener and talker, `listener.c`, `talker.c` | socket, growing buffer | take a datagram, read a reply, send it | over an unreliable network | the reply goes to who asked |
| Shell, `shell.c` | line buffer, token array, child | read, split, run, wait | shell and child | argv is the line; no child left at the prompt |
| TCP clients, `client1.c`, `client2.c`, `select_client.c` | a descriptor, a thread | try an address, send, receive, cancel and join | main and the receiving thread; the server | one connection's data, what was opened is closed, no receive after the close |
| Message queue, `misc/mqueue` | the queue, its name, a flag | open, send, receive with a timeout, print, unlink | sender and receiver through a queue that outlives both; SIGINT; kills | order, nothing twice, every loss accounted for, the receiver stops |
| Dish table, `09-memory/feast.c` | platters with uses | serve an order | reads standard input | least frequently used is replaced |
| KMP search, `02-file-io/kmp.c` | text, prefix table | read, build, search | writes a line per match | every occurrence, once |
| Insertion sort, `class/insertion_sort.c` | an array | insert | none | the range sorted, the rest untouched |
| Read loops, `cat.c`, `echo.c`, `read_fifo.c`, `fgetc_buffer.c`, `fwrite_copy.c` | a buffer | read, store, pass on | the kernel gives less than asked for; `printf` stops at a byte 0 | exactly what is passed on, stores inside the buffer |
| Fork and wait, `system.c`, `command.c`, `fork_exec.c`, `wait.c`, `misc/forkexec.c` | a child, its status | fork, exec, wait, report | parent, child, signals | the end of the program is what is reported |
| Threads joined, `join.c`, `mutex.c`, `class/semaphores.c` | a count, a lock | create, count, join | main and its threads | every thread counted |

Hard behaviours: interleavings of threads that share data with and without locks;
condition variables with spurious wake-ups; deferred cancellation; signals that are
not queued; descriptors inherited over fork; programs killed and started again with
a queue that outlives them; a timeout that has to notice a signal; short reads and writes; lost and doubled
datagrams; clients that hang up; buffers at the moment they grow.

Not modelled, with the reason: see section 8.

## 2. Modules

| Module | Models | Proofs |
|---|---|---|
| `Hogwarts` | hogwarts.c | `HogwartsProofs` |
| `Fifo` | abstract: a bounded first-in-first-out queue | |
| `BoundedBuffer` | producer_consumer2.c; refines `Fifo` | `BoundedBufferProofs` |
| `BatchBuffer`, `CountHandoff`, `WatchCount`, `CondSemaphore`, `MergeSort`, `LockedList`, `ThreadJoin` | the small threaded programs | `ThreadsProofs` |
| `JoinedCount` | join.c, mutex.c, class/semaphores.c | `ThreadsProofs` |
| `SpawnWait` | system.c, command.c, fork_exec.c, wait.c, misc/forkexec.c | `ThreadsProofs` |
| `ForkServer` | server.c | `ServersProofs` |
| `ChatClient`, `LList`, `SelectClient` | chat/client.c, chat/llist.c, select_client.py | `ClientsProofs` |
| `TcpClients` | client1.c, client2.c, select_client.c | `ClientsProofs` |
| `MQueue` | misc/mqueue: sender.c and receiver.c | `ClientsProofs` |
| `WriteLoop` | five loops around write and send | `StreamsProofs` |
| `ReadLoop` | five loops that read to the end of a file | `StreamsProofs` |
| `KmpSearch`, `InsertionSort` | kmp.c, insertion_sort.c | `StreamsProofs` |
| `Lfu` | abstract: a table with least-frequently-used replacement | |
| `Feast` | feast.c; refines `Lfu` | `FeastProofs`, `ServersProofs` |
| `PipeStream` | pipe.c | `StreamsProofs` |
| `ShellPipe` | shell_pipe.c | `StreamsProofs` |
| `FileServer`, `UdpTalk`, `EzShell` | file_server.c, listener.c with talker.c, shell.c | `ServersProofs` |
| `Induction` | induction over the naturals for sets, used by the proofs | |
| `MCHogwarts` | an instance of `Hogwarts` | |
| `MCThreads`, `MCClients`, `MCStreams`, `MCServers` | groups of programs checked in one run | |

**How state and actions correspond to the code.** Shared variables keep their names.
A thread's program counter is a variable whose values name the statement it is about
to execute. A step is the code between two points at which another thread, process or
peer can tell the difference: a lock, a wait, a system call, or one access to data
that no lock protects. `++count` is a load and a store where it matters
(`WatchCount`, `ChatClient`). A wait on a condition variable is three steps: release
and sleep, be woken (by a signal or spuriously), get the mutex again. A system call
that may fail has an action for each outcome the code treats differently.

**Grouped runs.** The programs of a group are independent. The `MC` module declares
the variables of all of them and its initial state picks one `program`; only that one
takes steps. Every property of the group is checked on every program's states, and the
state spaces add up instead of multiplying. The constants' assumptions of the modules
used through INSTANCE are operators (`PipeAssumption`, ...) which the `MC` module
assumes and TLC evaluates.

**Variants.** A definition commented "Variant" is a plausible bug (a forgotten join, a
dropped check). It is not part of any specification. For every property of every
passing run there is a variant that TLC rejects when it takes the place of the
correct definition.

### Points where model and source need explaining

- *Hogwarts*: Dobby's loops take one step per iteration, which is fine enough because
  no elf is at the list then (`NoDataRace`, proved). Cancellation acts at `sem_wait`
  and `printf` and not at `pthread_mutex_lock`. The source has two slips that keep it
  from compiling (line 170, `b = 1;`, and line 228, `todo - > id`); they are read as
  what is obviously meant.
- *BatchBuffer*: the producer counts returns of its wait. A drain it did not sleep
  through is not counted, so the program may drain any number of times.
- *CondSemaphore*: the pseudo code is used in the loop a caller would write. Both
  threads can fall asleep for good: one posts and decrements again before the one it
  woke has the mutex back. No progress is claimed.
- *ChatClient*: reading the list's head and clearing it is one step; a finer model gives
  the same results. After the server has closed, the event loop is gone, nobody
  reads the pipe, and main may block in `write` when it is full. `send` waits while the
  server does not read (`room`). Both mallocs for a message may fail: without its copy
  `strncpy` writes to NULL, without its node `llist_addl` returns -1, which main ignores.
- *LList*: the caller may mix all operations. `fault` marks the first read of a freed node;
  nothing is said of what comes after it. Memory that was freed is not handed out again.
- *MergeSort*: a call is identified with its range. The two functions compute the middle
  differently, one in doubles, one in integers; the model keeps both.
- *FileServer*: `send` puts the byte into the client's buffer at once: a client that never
  reads would stop the server, like one that never sends.
- *UdpTalk*: a talker ends after one datagram, so a reply that arrives twice is not
  modelled. Datagrams have the size the talker gives them.
- *TcpClients*: `client1.c` tries addresses; the two others have one. `pthread_create` in
  `select_client.c`, unchecked there, is assumed to succeed.
- *MQueue*: a point is identified with the character typed for it. `signal` installs the
  handler with SA_RESTART, so SIGINT does not end `mq_timedreceive`; the timeout does. A queue
  without a name that nobody has open is removed with its points (`dropped`). A receiver may be
  killed anywhere, also between `mq_timedreceive` and `printf` (`unprinted`); what `printf` has
  been given counts as printed, as on a terminal, where every line ends with a newline.
- *Feast*: an order scanf did not read is any dish, or -1: the local is never stored to.
- *KmpSearch*: bytes of value 0 are left out of file and pattern. `read_str_buf` compares the
  result of `read`, not `errno`, with EINTR, so an interrupted read is a failure.
- *ReadLoop*: what is modelled of a buffer is its size and the last index stored to. Which
  bytes of the input are 0 is chosen at the start; `printf("%s")` passes on what comes
  before the first 0 of what it is given, so what is lost depends on how the reads fall.
- *SpawnWait*: `exit(-1)` is the code 255 to the parent.
- *JoinedCount*: no result of `pthread_create` is acted on; joining an id that was never set
  may return or crash.
- *EzShell* and *UdpTalk* contain stores outside allocated memory. The model marks them
  (`wild`); afterwards the program may go on as if nothing had happened or die.

## 3. Runs

All bounds are constants in the `.cfg` files.

| Run | Instance | States | Shows |
|---|---|---|---|
| `hogwarts` | 4 elves, batches of 3, totals -1..7 | 148190 | the whole protocol. A negative total hangs, as it does in the code; totals up to 7 give no batch, one partial batch, exact batches, and two full ones with a rest; with more elves than tasks some elves are idle |
| `bounded_buffer` | ring of 3, 7 items | 410 | FIFO, no lost wake-up, everything consumed. The pointers wrap twice, the ring is both full and empty |
| `threads` | seven programs with threads of their own protocol; sort of 4 elements from 3 values; 2 pushes of 2 threads; 3 threads created and joined; five that fork and wait | 17358 | the properties of section 4 for the small programs on threads and children |
| `clients` | 3 messages, pipe of 2, indicator of 1, 4 list nodes; queue of 2, 4 points, each program started twice; 3 addresses, 3 bytes | 95588 | the chat clients and the list, beyond the capacity of pipe and indicator, with failing mallocs and every mix of list operations; a queue that fills, is inherited, is unlinked under its receiver and is removed with points in it; servers that send nothing |
| `streams` | 7 bytes, BUFSIZE 2, pipe of 3, up to 5 bytes of ls; inputs up to 7 with any bytes 0 and blocks of 3; all texts up to 6 and patterns up to 4 over two letters; all ranges of all arrays of 4 from 3 values | 167949 | short reads and writes of every size, two doublings of each buffer, a pipe that fills; patterns with borders that overlap themselves in the text |
| `servers` | 2 clients, 1 failing accept; lines of 1 and 3, 2 descriptors; 2 talkers, 2 addresses, 1 doubled datagram, replies up to 3; 2 shell lines of up to 5 characters; 2 platters, 3 dishes, 5 orders | 105292 | two children dying together with signals merged; every buffer just full, one below and one above its capacity; descriptors used up by the first file; dishes replaced and fetched again |
| `hogwarts_work` | 2 elves, one batch of 2 | violation | finding 1 |
| `watch_final` | the constants of the code | violation | finding 2 |
| `semaphore_three` | 3 threads | violation | finding 3 |
| `write_all` | 3 bytes | violation | finding 4 |
| `shell_split` | CAPINIT 2, one line | violation | finding 5 |
| `system_errors` | two exit codes | violation | finding 6 |

Deadlock is checked except where the system may really stop: `hogwarts` (a negative total), `servers` (nobody need connect), `clients` (the user may stop typing), `streams` (a parent whose child
failed may wait for room in a pipe it also reads), and `semaphore_three`.

## 4. Properties

- **hogwarts** `NeverTakesFromEmpty`, `NoDataRace`, `LastOfBatch`, `EachTaskOnce`,
  `Accounting`, `CleanEnd`, `Termination`. `Accounting` is the argument for the
  handshake: every task on the list is matched by a value of `full_list`, a permit in an
  elf's hands or a post still owed; `active_tasks` counts the list; Dobby's wake-up
  exists exactly when that count is zero.
- **bounded_buffer** `NoLostWakeup`; `ImplementsFifo`, a refinement with the live part of
  the ring, read around the wrap, as the queue; `AllConsumed`.
- **threads** `NoLostWakeup` for the four programs with condition variables;
  `EndsAfterWork` (no process ends while its other thread, or the child it waits for,
  still has to do something, and how a program that was executed ended is what is
  reported of it; a program that was not is the subject of finding 6);
  `TurnsKept`; `SharedDataIntact` (counts, bonus, list and array); `MutualExclusion` for
  two threads at the sketched semaphore and for the joined ones; `Progress`.
- **clients** `CrashNeedsCrowd` states how far the unlocked list of the chat client is
  safe: with one message outstanding at a time and enough memory. `SentInOrder` is about
  the two chat clients and about the message queue: whichever program was killed and
  started again, points are received in order and once, each one sent is received, in a
  queue or gone with a queue that was removed, and each killed receiver keeps at most one
  it has not printed. `NoStuckMessage`. `ListSound`: used at one end the list is a stack and,
  at the front, leaks nothing; `size` is right for every caller; exactly which mixtures of
  calls can meet a freed node (add at the back twice, remove at the front, then twice at
  the back).
  `ConnectionsSound`: the TCP clients leave open only the connections of servers that
  gave `client1.c` nothing, print one connection's data, and do not receive after the
  close. `ChatProgress`, which includes that main gets room in the pipe while the
  server stays and reads; `ClientsGoOn`, which includes that SIGINT stops a receiver nobody
  sends to.
- **streams** `WholeBuffer` states under which condition each of five loops is right:
  only pipe.c's survives a short write. `BufferFits`, `StreamIntact`, `PipelineDone`, and
  `StreamsEnd`, which for shell_pipe.c holds only if the output of ls fits into the pipe:
  the shell waits for ls before it starts cat. `InputPassedOn` states exactly which read
  loop stores behind its buffer, which bytes a byte 0 costs each of them, and which loses
  the end of its input.
  `AlgorithmsExact`: at every step of kmp.c the table holds longest borders, the state of
  the search is the longest prefix the text ends in, and the lines written are the
  occurrences; after every round of insertion_sort.c the range is sorted and complete.
- **servers** `LinesFit` (when exactly each reader leaves its buffer); for the forking
  server `ZombiesNoticed` (SIGCHLD is not queued), `NoForeignConnection` and
  `GreetedOnce`; `RequestsServed`; `CleanedUp`, which includes that the descriptors the
  file server leaks are those of files, one per request; `TableIsLfu`, a refinement of
  `Lfu` with the dishes on the platters and their uses as the table; `ServersGoOn`.

## 5. Fairness

The kernel runs every runnable thread or process sooner or later: weak fairness of each
one's steps. Failing calls are never forced: where a failure could be the only enabled
step of a process it is outside the fair action. Strong fairness is used for getting
a mutex in programs where spurious wake-ups may recur for ever: there another
thread can take and release the mutex infinitely often, and weak fairness would let it
always win. In `Hogwarts` and `LockedList` the acquisitions are finite and weak
fairness is enough. Environment assumptions are explicit: the peer of
`select_client.py` reads now and then, the server of `chat/client.c` reads what it is sent as
long as it stays connected, clients of the file server go on sending
their lines, the listener's user answers, commands of the shell end. Users are
never forced to type, clients never to connect or to hang up.

## 6. Findings

1. **Work that is never done** (`hogwarts_work`). The comment in hogwarts.c:150-152 says
   the other elves "will loop back to the semaphore". The last elf of the last batch wakes
   Dobby before the others have finished; he cancels them, and the `printf` in `do_work`
   is a cancellation point. Posted tasks stay undone: in the trace that of the last
   worker and that of the other one.
2. **145 or 20** (`watch_final`). class/condition.c:65 promises a final value of 145. If
   the counting threads pass the limit before the watcher locks the mutex, it is 20.
3. **A semaphore for two** (`semaphore_three`). `while count == -1` lets the third
   thread, which takes the count to -2, into the critical section.
4. **write_all** (`write_all`). After a short write kmp.c:165 gives the start of the
   buffer again.
5. **The ninth word** (`shell_split`). shell.c:131 assigns the new array to `token`
   instead of `tokens`: the word is replaced by an address.
6. **An error that looks like a command's** (`system_errors`). system.c:8 promises "-1 for any
   error, otherwise the exit code of the command". When execv fails the child exits with -1,
   the parent sees 255 and my_system returns 255.

Seen while modelling, without a run of its own: a negative argument makes hogwarts hang
(nothing is posted and nobody wakes Dobby); `listener.c` stores one byte behind its buffer
when a reply has exactly as many characters as the buffer (`OverrunsExactly`);
`file_server.c` never closes a file and dies of SIGPIPE when a client hangs up on it;
feast.c:90 never looks at the result of scanf: after the last number and a newline an unset
local is served, where feast.c:18 promises "next int from stdin, -1 on eof"; `llist_addl` does
not link the old tail, and a list emptied from both ends leads to freed nodes
(`NoUseAfterFree`); `cat.c`, `echo.c`, `read_fifo.c` and `fgetc_buffer.c` lose what follows a byte 0
in what they print at once; `read_fifo.c` stores the final 0 behind a full buffer and
`fwrite_copy.c` loses what does not fill a block (`InputPassedOn`); `client1.c` does not close
the connection of a server that sends nothing (`LeaksOnlySilent`); `wait.c`
prints a status it never got when fork fails (`ReportsEnd`).

## 7. Proofs

All theorems are checked by TLAPS without any unproved step. Between them they state
every invariant and every refinement that a passing run checks, for every value of
the constants that satisfies the named assumptions. Each inductive invariant was
checked with TLC on the instance of its run before it was proved.

**Layout.** `HogwartsProofs`, `BoundedBufferProofs` and `FeastProofs` are about one program
each. `ThreadsProofs`, `ClientsProofs`, `StreamsProofs` and `ServersProofs` extend the `MC` module
of a grouped run. In them every program has an inductive invariant (`BatchInv`, `MQInv`,
`KmpInv`, ...) with a lemma for its initial states (`...Initially`), lemmas for its steps
(`...Step`, one case per action, one lemma per conjunct where that matters) and a lemma for
what follows from it (`...Promises`). `StepOfOne` says that a step of the run is a step of one
program and a stutter of the others; hence the conjunction of the invariants is an
invariant of the run, and each theorem `FairSpec => []P` follows from that. The
assumptions are those of the `MC` module (`ThreadsAssumption`, ...): sizes and counts are natural
numbers, not 0 where the code cannot have 0, sets of threads are finite, names are
distinct from the markers the models use. TLC evaluates them in the runs.

**Induction.** The provers cannot instantiate an induction principle that takes a predicate.
`Induction` states it for sets instead: a set of naturals that contains 0 and is closed
under successor contains all (`NatSetInduction`), and the same for strong induction and for
least elements. What is to be shown becomes the set of the numbers it holds for. This is
how the prefix table of kmp.c, the doubling capacities of listener.c, the walk over the
list of linkedlist.c and the tree of calls of merge_sort.c are treated for inputs of
every size; that the recursive functions in these models are defined at all is proved first
(`BackEquation`, `CapacityDef`, `CallLevels`).

**HogwartsProofs**, for every pool size, every batch size and every set of totals,
negative ones included. The inductive invariant is

    IInv == TypeOK /\ MutexHeld /\ Lifecycle /\ Accounting /\ NeverTakesFromEmpty

`MutexHeld` says who is inside the critical section; `Lifecycle` ties the places of the
elves to Dobby's loops over `workers[]`. Without `Accounting` nothing is inductive: that
the list is not empty when an elf takes from it follows from its permit being matched
with a task. One lemma per conjunct shows that each action preserves it; the
cardinality of the set of permits is treated in lemmas of its own. From `IInv` follow
`TypeCorrect`, `HandshakeAccounts`, `ListNeverEmpty`, `RaceFree`, `LastWorkerWakesDobby`
and `DayEndsCleanly`. `TasksConserved` (`EachTaskOnce`) needs in addition
which elves have a task in their hands (`TaskInHand`): posting, taking and completing each
move one id from one place to the next. The assumption is `HogwartsAssumption`: a pool and a
batch of at least one, integer totals.

**BoundedBufferProofs**, for every ring size and number of items. `IInv` adds to the types
the consistency of `count` with both pointers, `NoLostWakeup`, ownership of the mutex
and what the while loops have established at the point where the ring is touched.
`Refinement` shows that the specification implements `Fifo`: put is a send, get a
receive, everything else stutters. Its core are two lemmas on the live part of the
ring (`PutAppends`, `GetTakesHead`), which rest on the arithmetic of the wrap (`Wrap`,
`DistinctSlots`).

**FeastProofs**, under `FeastAssumption`. `Refinement`: the platters implement `Lfu` for every
table space. The invariant is that no dish is on two platters and that a platter is
empty in both fields or in neither. A dish on a platter is a `Use`; a fetch is an `Add`
if the least used platter is empty, which the -1 uses of an empty one guarantee, and
a `Replace` otherwise. That there is a least used platter at all rests on the
well-foundedness of the natural numbers (`LeastNatural`); `FullTable` and `RoomOnTable`
count the dishes by a bijection and an injection. `TableAlwaysLfu` in `ServersProofs`
carries the result over to the run.

**ThreadsProofs.**
- *merge_sort.c* (`SortInv`) is the longest argument. The ranges merge_sort is called with form a
  tree (`CallTree`): two of them are apart, or one is below the other, and the two
  formulas for the middle agree (`Halves`). `TreeKept`: nothing below a call has begun before
  it splits, and everything below it is done once it merges. So a step of one call never
  writes into the part of another that has not begun, merges, copies or is done and not
  yet overwritten by a caller (`PartKept`), which is why no lock is needed. `Merging` and `Copying`
  are the loop invariants: what is in `tmp` is sorted, not greater than anything left, and
  together with the rest has the values the halves had.
- *linkedlist.c* (`LockedInv`): the list is a function from positions to nodes, newest first;
  `Chained` ties `next`, `head` and `size` to it, `InHand` are the nodes between creation and linking.
- *the condition variables* (`BatchInv`, `HandoffInv`, `WatchInv`, `JoinInv`): who owns the mutex where, what is
  known at each place, and `NoLostWakeup` itself. The count of class/condition.c is the number
  of increments made plus the bonus (`CountExact`), by the cardinality of the set of increments.
- *join.c, mutex.c, semaphores.c* (`CountsInv`): the count is the number of threads that
  counted, and the lines printed are the counts in turn.
- *semaphore.txt* (`SemInv`): `count` is `Initial` minus the threads inside. `ExclusionForFew` is
  conditional, `Cardinality(Threads) <= Initial + 1`: finding 3 shows that one thread more breaks it.
- *fork and wait* (`SpawnInv`): the child exists from fork to wait, what it leaves behind is how
  it ended, and the report is set from that and from nothing else.

**ClientsProofs.**
- `ChatInv`: bytes in the pipe, messages on the list and the newest at its head are counted
  against each other; with one message at a time and no failed malloc the loop never
  meets an empty list.
- `SelectInv`: a message on the queue has a byte in the indicator, or a thread on its way to
  write or to drain it.
- `MQInv`: what was received and what is in the queues, oldest queue first, is one increasing
  sequence; with the points that were never sent and those of removed queues it makes up
  everything typed (`QueueReleased`, `LastReceived`). `Counted`: every receiver but the one running has
  kept at most one point to itself, by the cardinality of the set.
- `ListInv`: for a caller that stays at one end, the links are the caller's own list
  (`StackKept`). For one that mixes, an end is sound as long as nothing is removed at the
  other (`EndsSound`): links lead to older nodes, no two nodes that are left lead to the
  same, and none leads to a freed one. `SizeCounts` counts the nodes not yet freed.
  `FrontChain` and `ChainLives` say what `llist_destroy` finds on its way.
- `TcpInv`: which descriptors are open where.

**StreamsProofs.** `LoopInv`, `StreamInv`, `ReadInv`, `ShellInv`: what has been taken, is under way and has
arrived, byte by byte; that doubling is enough rests on `GrownFits`: a read brings at most
BUFSIZE bytes and the capacity is at least that. `ReadInv` says of every
byte read and not passed on that it is a byte 0 or has one less than a block before it. `KmpInv`: the table holds longest borders
(`TableBuilt`) and the state of the search is the longest prefix the text read so far ends in
(`Searched`). `BackFinds` shows that following borders visits every candidate; `LongestIs`
connects this with the reference definition. `InsertionInv`: the part before the gap
and the part behind it are sorted, and with the element in hand they are complete.

**ServersProofs.** `ForkInv`: one child per accepted connection, the descriptors each process has
open at each place, and that a zombie always has a signal or a handler on its way.
`FileInv`: how much of the line and of the file has been passed, and how many descriptors the
files sent have cost. `TalkInv`: every reply under way is for the datagram it answers; capacities
are powers of two times the first. `EzInv`: what the token array holds, and that no child
is left when the prompt returns.

**Model-checked only**: everything about fairness (`Termination`, `AllConsumed`, `Progress`, `ChatProgress`,
`ClientsGoOn`, `StreamsEnd`, `ServersGoOn`), which TLAPS cannot prove; and the six violations,
which are counterexamples and need no proof.

## 8. Not modelled

- `find_ip.c`, `test.c`: one call of getaddrinfo and the formatting of what it returns.
- The three spikes beside the chat client: what they try out is in `ChatClient` and
  `PipeStream`.
- The examples of file, buffered and process calls, of signals and of single threads
  that have neither a loop nor shared state: straight-line code.
- In modelled programs: formatting and printing, addresses, the SHA-256 in hogwarts.c,
  the redirection of output in fork_exec.c, the detaching in unix_daemon.c.

## 9. Plan

Every program with a protocol is modelled, and every safety property of a passing run
is proved. What could still be proved: that the refinements of the abstract tables and
queues carry action properties (nothing received is taken back, no file descriptor of a
served client is reopened) of their own; that `CrashNeedsCrowd` and `WholeBuffer` are sharp, which
TLC shows on instances. Liveness stays with TLC.
