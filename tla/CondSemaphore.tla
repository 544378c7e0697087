---------------------------- MODULE CondSemaphore ----------------------------
(***************************************************************************)
(* 05-threading/examples/src/semaphore.txt: a sketch of a semaphore made of   *)
(* a counter, a mutex and a condition variable, used by threads that pass     *)
(* through a critical section Rounds times.                                   *)
(***************************************************************************)
EXTENDS Integers, FiniteSets

CONSTANTS
  Threads,
  Initial,     \* initial count: how many threads may be inside
  Rounds       \* bound: passes per thread

\* What the model assumes of its constants.
SemaphoreAssumption ==
  IsFiniteSet(Threads) /\ Initial \in Nat /\ Rounds \in Nat

VARIABLES
  count,
  count_mut,   \* the set of owners of the mutex: empty or a singleton
  pc,
  round        \* passes each thread has completed

vars == <<count, count_mut, pc, round>>

Init ==
  /\ count = Initial /\ count_mut = {}
  /\ pc = [t \in Threads |-> "enter"]
  /\ round = [t \in Threads |-> 0]

Move(t, from, to) == pc[t] = from /\ pc' = [pc EXCEPT ![t] = to]

\* sem_wait: lock(count_mut); --count
Enter(t) ==
  /\ Move(t, "enter", "test") /\ round[t] < Rounds
  /\ count_mut = {} /\ count_mut' = {t}
  /\ count' = count - 1
  /\ UNCHANGED round

\* Variant: one count too many passes.
TestLenient(t) ==
  /\ IF count < -1 THEN Move(t, "test", "waiting") ELSE Move(t, "test", "critical")
  /\ count_mut' = {}
  /\ UNCHANGED <<count, round>>

\* while count == -1: wait(inc_cond, count_mut); then unlock
Test(t) ==
  /\ IF count = -1 THEN Move(t, "test", "waiting") ELSE Move(t, "test", "critical")
  /\ count_mut' = {}
  /\ UNCHANGED <<count, round>>

Relock(t) ==
  /\ Move(t, "woken", "test")
  /\ count_mut = {} /\ count_mut' = {t}
  /\ UNCHANGED <<count, round>>

\* wait may return without a signal.
Spurious(t) == Move(t, "waiting", "woken") /\ UNCHANGED <<count, count_mut, round>>

\* sem_post: lock(count_mut); ++count
Leave(t) ==
  /\ Move(t, "critical", "signal")
  /\ count_mut = {} /\ count_mut' = {t}
  /\ count' = count + 1
  /\ UNCHANGED round

\* signal(inc_cond) wakes one waiter, if there is one; unlock
Signal(t) ==
  /\ pc[t] = "signal"
  /\ LET waiters == {u \in Threads : pc[u] = "waiting"}
         moved(q) == [q EXCEPT ![t] = "enter"]
     IN \/ waiters = {} /\ pc' = moved(pc)
        \/ \E u \in waiters : pc' = moved([pc EXCEPT ![u] = "woken"])
  /\ count_mut' = {}
  /\ round' = [round EXCEPT ![t] = @ + 1]
  /\ UNCHANGED count

\* Every thread has made its passes or sleeps, with nobody left to signal it: a
\* thread that posts and decrements again before the one it woke has the mutex
\* back sends both to sleep.
Settled ==
  /\ \A t \in Threads : pc[t] = "waiting" \/ (pc[t] = "enter" /\ round[t] = Rounds)
  /\ UNCHANGED vars

Step(t) == Enter(t) \/ Test(t) \/ Relock(t) \/ Spurious(t) \/ Leave(t) \/ Signal(t)

Next == (\E t \in Threads : Step(t)) \/ Settled

Spec == Init /\ [][Next]_vars

-----------------------------------------------------------------------------
(* Properties *)

\* The critical section between sem_wait and sem_post holds no more threads
\* than the semaphore was initialised for.
MutualExclusion ==
  Cardinality({t \in Threads : pc[t] = "critical"}) <= Initial

=============================================================================
