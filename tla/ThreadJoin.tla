----------------------------- MODULE ThreadJoin -----------------------------
(***************************************************************************)
(* 05-threading/examples/src/myjoin.c: a join made of a flag, a mutex and a    *)
(* condition variable.  main waits for the flag in thr_join and ends the       *)
(* process; the child sets it in thr_exit.                                     *)
(***************************************************************************)
EXTENDS Integers

VARIABLES
  done,       \* the flag
  m,          \* who holds the mutex: "parent", "child" or "free"
  parent,     \* "lock", "test", "asleep", "unlock", "ended"
  child       \* "lock", "set", "signal", "unlock", "ended"

vars == <<done, m, parent, child>>

Init == done = 0 /\ m = "free" /\ parent = "lock" /\ child = "lock"

\* thr_exit: pthread_mutex_lock
ChildLocks ==
  /\ child = "lock" /\ m = "free" /\ parent # "ended"
  /\ m' = "child" /\ child' = "set"
  /\ UNCHANGED <<done, parent>>

\* done = 1
SetDone ==
  /\ child = "set" /\ parent # "ended"
  /\ done' = 1 /\ child' = "signal"
  /\ UNCHANGED <<m, parent>>

\* pthread_cond_signal: a sleeping parent has to get the mutex again.
Signal ==
  /\ child = "signal" /\ parent # "ended"
  /\ parent' = IF parent = "asleep" THEN "lock" ELSE parent
  /\ child' = "unlock"
  /\ UNCHANGED <<done, m>>

\* pthread_mutex_unlock; the thread returns.
ChildUnlocks ==
  /\ child = "unlock" /\ parent # "ended"
  /\ m' = "free" /\ child' = "ended"
  /\ UNCHANGED <<done, parent>>

\* thr_join locks the mutex, or gets it again in pthread_cond_wait.
ParentLocks ==
  /\ parent = "lock" /\ m = "free"
  /\ m' = "parent" /\ parent' = "test"
  /\ UNCHANGED <<done, child>>

\* while(!done) pthread_cond_wait: the mutex is released as the thread sleeps.
Test ==
  /\ parent = "test"
  /\ IF done = 0 THEN m' = "free" /\ parent' = "asleep"
                 ELSE m' = m /\ parent' = "unlock"
  /\ UNCHANGED <<done, child>>

\* pthread_cond_wait may return without a signal.
Spurious ==
  /\ parent = "asleep" /\ parent' = "lock"
  /\ UNCHANGED <<done, m, child>>

\* pthread_mutex_unlock; main prints and returns, which ends the process.
ParentUnlocks ==
  /\ parent = "unlock" /\ m' = "free" /\ parent' = "ended"
  /\ UNCHANGED <<done, child>>

Exited == parent = "ended" /\ UNCHANGED vars

Parent == ParentLocks \/ Test \/ ParentUnlocks
Child == ChildLocks \/ SetDone \/ Signal \/ ChildUnlocks

Next == Parent \/ Child \/ Spurious \/ Exited

Spec == Init /\ [][Next]_vars

-----------------------------------------------------------------------------
(* Properties *)

\* The parent does not sleep once the child has signalled.
NoLostWakeup == parent = "asleep" => child \in {"lock", "set", "signal"}

\* main goes on only when the child is done with the mutex and the flag: the
\* end of the process does not cut thr_exit short.
JoinsAfterExit == parent \in {"unlock", "ended"} => done = 1 /\ child = "ended"

\* thr_join returns.
Termination == <>(parent = "ended")

=============================================================================
