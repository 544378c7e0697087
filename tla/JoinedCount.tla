---------------------------- MODULE JoinedCount ----------------------------
(***************************************************************************)
(* Three programs of 05-threading that create threads, let each pass once      *)
(* through a critical section, and join them:                                  *)
(*   join     examples/src/join.c: ++x under a mutex, main prints x             *)
(*   mutex    examples/src/mutex.c: ++x and its value printed under a mutex     *)
(*   sem      class/semaphores.c: nothing but messages between sem_wait and     *)
(*            sem_post; main destroys the semaphore                            *)
(* Main looks at no result of pthread_create (mutex.c only reports it): after  *)
(* a failure it joins a thread it has no id of.                                *)
(***************************************************************************)
EXTENDS Integers, Sequences, FiniteSets

CONSTANT NUMTHREADS     \* 10 in join.c, 2 in the others

\* What the model assumes of its constants.
JoinedAssumption == NUMTHREADS \in Nat \ {0}

Pool == 1..NUMTHREADS

VARIABLES
  code,       \* "join", "mutex" or "sem"
  x,
  lock,       \* the mutex or semaphore is free
  main,       \* "create", "join", "returned" or "crashed"
  k,          \* the thread main is about to create or join
  thr,        \* "none", "lock", "load", "store", "unlock" or "ended"
  reg,        \* a thread's copy of x inside x++
  lines       \* values printed

vars == <<code, x, lock, main, k, thr, reg, lines>>

Init ==
  /\ code \in {"join", "mutex", "sem"}
  /\ x = 0 /\ lock = TRUE /\ main = "create" /\ k = 1
  /\ thr = [t \in Pool |-> "none"] /\ reg = [t \in Pool |-> 0] /\ lines = <<>>

Alive == main \in {"create", "join"}

\* pthread_create, which may fail
Create ==
  /\ main = "create"
  /\ thr' \in {thr, [thr EXCEPT ![k] = "lock"]}
  /\ k' = IF k < NUMTHREADS THEN k + 1 ELSE 1
  /\ main' = IF k < NUMTHREADS THEN "create" ELSE "join"
  /\ UNCHANGED <<code, x, lock, reg, lines>>

\* The last pthread_join is behind main: it prints x, or destroys the
\* semaphore, and returns.
Joined ==
  /\ k' = k + 1
  /\ main' = IF k < NUMTHREADS THEN "join" ELSE "returned"
  /\ lines' = IF k = NUMTHREADS /\ code = "join" THEN Append(lines, x) ELSE lines

Join ==
  /\ main = "join" /\ thr[k] = "ended"
  /\ Joined
  /\ UNCHANGED <<code, x, lock, thr, reg>>

\* pthread_join of an id that was never set: undefined
JoinGarbage ==
  /\ main = "join" /\ thr[k] = "none"
  /\ \/ Joined
     \/ main' = "crashed" /\ UNCHANGED <<k, lines>>
  /\ UNCHANGED <<code, x, lock, thr, reg>>

Step(t, from, to) == Alive /\ thr[t] = from /\ thr' = [thr EXCEPT ![t] = to]

Lock(t) ==
  /\ Step(t, "lock", IF code = "sem" THEN "unlock" ELSE "load") /\ lock
  /\ lock' = FALSE
  /\ UNCHANGED <<code, x, main, k, reg, lines>>

Load(t) ==
  /\ Step(t, "load", "store")
  /\ reg' = [reg EXCEPT ![t] = x]
  /\ UNCHANGED <<code, x, lock, main, k, lines>>

\* x++, and the printf of mutex.c
Store(t) ==
  /\ Step(t, "store", "unlock")
  /\ x' = reg[t] + 1
  /\ lines' = IF code = "mutex" THEN Append(lines, x') ELSE lines
  /\ UNCHANGED <<code, lock, main, k, reg>>

Unlock(t) ==
  /\ Step(t, "unlock", "ended")
  /\ lock' = TRUE
  /\ UNCHANGED <<code, x, main, k, reg, lines>>

Ended == ~Alive /\ UNCHANGED vars

Main == Create \/ Join \/ JoinGarbage
Thread(t) == Lock(t) \/ Load(t) \/ Store(t) \/ Unlock(t)

Next == Main \/ (\E t \in Pool : Thread(t)) \/ Ended

Spec == Init /\ [][Next]_vars

\* Every thread runs, and none waits for ever for the lock that others take
\* once.
Fairness == WF_vars(Main) /\ \A t \in Pool : WF_vars(Thread(t))

-----------------------------------------------------------------------------
(* Properties *)

Created == {t \in Pool : thr[t] # "none"}

\* Each variable has its type.
TypeOK ==
  /\ code \in {"join", "mutex", "sem"} /\ x \in 0..NUMTHREADS /\ lock \in BOOLEAN
  /\ main \in {"create", "join", "returned", "crashed"} /\ k \in 1..NUMTHREADS + 1
  /\ thr \in [Pool -> {"none", "lock", "load", "store", "unlock", "ended"}]
  /\ reg \in [Pool -> 0..NUMTHREADS] /\ lines \in Seq(0..NUMTHREADS)

\* One thread at a time is in the critical section.
Exclusive ==
  \A t, u \in Pool : {thr[t], thr[u]} \subseteq {"load", "store", "unlock"} => t = u

\* No increment is lost: every thread that was created has counted when main
\* is through, join.c prints that number, mutex.c every number up to it in
\* order, and nobody holds or wants the semaphore main destroys.
AllCounted ==
  main = "returned" =>
    /\ \A t \in Created : thr[t] = "ended"
    /\ code # "sem" => x = Cardinality(Created)
    /\ code = "join" => lines = <<x>>
    /\ code = "mutex" => lines = [l \in 1..x |-> l]

\* The program ends.
Termination == <>~Alive

=============================================================================
