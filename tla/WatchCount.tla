----------------------------- MODULE WatchCount -----------------------------
(***************************************************************************)
(* 05-threading/class/condition.c: two threads increment a counter TCOUNT    *)
(* times each and signal when it reaches COUNT_LIMIT; a third waits for that  *)
(* and adds a bonus inside its while loop, once per wake-up.                  *)
(***************************************************************************)
EXTENDS Integers, FiniteSets

CONSTANTS
  TCOUNT,       \* 10 in the code
  COUNT_LIMIT,  \* 12 in the code
  Bonus,        \* 125 in the code
  Incs          \* the two threads that run inc_count

\* What the model assumes of its constants.
WatchAssumption ==
  /\ TCOUNT \in Nat /\ COUNT_LIMIT \in Nat \ {0} /\ Bonus \in Nat
  /\ COUNT_LIMIT <= Bonus          \* one bonus passes the limit
  /\ IsFiniteSet(Incs) /\ COUNT_LIMIT <= TCOUNT * Cardinality(Incs)
  /\ "free" \notin Incs /\ "watch" \notin Incs

VARIABLES
  count,
  mutex,     \* "free", "watch" or a member of Incs
  watch,     \* where watch_count is
  inc,       \* where each inc_count is
  reg,       \* the value of count each inc_count has loaded
  i,         \* iterations each inc_count has completed
  added      \* bonuses added

vars == <<count, mutex, watch, inc, reg, i, added>>

Init ==
  /\ count = 0 /\ mutex = "free" /\ added = 0
  /\ watch = "lock"
  /\ inc = [t \in Incs |-> "lock"]
  /\ reg = [t \in Incs |-> 0]
  /\ i = [t \in Incs |-> 0]

\* pthread_mutex_lock
IncLocks(t) ==
  /\ inc[t] = "lock" /\ mutex = "free"
  /\ mutex' = t
  /\ inc' = [inc EXCEPT ![t] = "load"]
  /\ UNCHANGED <<count, watch, reg, i, added>>

\* ++count loads ...
Load(t) ==
  /\ inc[t] = "load"
  /\ reg' = [reg EXCEPT ![t] = count]
  /\ inc' = [inc EXCEPT ![t] = "store"]
  /\ UNCHANGED <<count, mutex, watch, i, added>>

\* ... and stores; if (++count == COUNT_LIMIT) pthread_cond_signal(&cond)
Store(t) ==
  /\ inc[t] = "store"
  /\ count' = reg[t] + 1
  /\ watch' = IF count' = COUNT_LIMIT /\ watch = "waiting" THEN "relock" ELSE watch
  /\ inc' = [inc EXCEPT ![t] = "unlock"]
  /\ UNCHANGED <<mutex, reg, i, added>>

\* Unlock, sleep, and pthread_exit after TCOUNT iterations.
IncUnlocks(t) ==
  /\ inc[t] = "unlock"
  /\ mutex' = "free"
  /\ i' = [i EXCEPT ![t] = @ + 1]
  /\ inc' = [inc EXCEPT ![t] = IF i'[t] = TCOUNT THEN "exited" ELSE "lock"]
  /\ UNCHANGED <<count, watch, reg, added>>

WatchLocks ==
  /\ watch = "lock" /\ mutex = "free"
  /\ mutex' = "watch"
  /\ watch' = "test"
  /\ UNCHANGED <<count, inc, reg, i, added>>

\* while (count < COUNT_LIMIT) pthread_cond_wait
WatchWaits ==
  /\ watch = "test" /\ count < COUNT_LIMIT
  /\ mutex' = "free"
  /\ watch' = "waiting"
  /\ UNCHANGED <<count, inc, reg, i, added>>

\* The wait returns with the mutex held; the body of the loop adds the bonus.
WatchBonus ==
  /\ watch = "relock" /\ mutex = "free"
  /\ mutex' = "watch"
  /\ count' = count + Bonus
  /\ added' = added + 1
  /\ watch' = "test"
  /\ UNCHANGED <<inc, reg, i>>

\* The loop is left: unlock, pthread_exit.
WatchExits ==
  /\ watch = "test" /\ count >= COUNT_LIMIT
  /\ mutex' = "free"
  /\ watch' = "exited"
  /\ UNCHANGED <<count, inc, reg, i, added>>

SpuriousWakeup ==
  /\ watch = "waiting"
  /\ watch' = "relock"
  /\ UNCHANGED <<count, mutex, inc, reg, i, added>>

AllJoined == watch = "exited" /\ \A t \in Incs : inc[t] = "exited"
Joined == AllJoined /\ UNCHANGED vars

Inc(t) == IncLocks(t) \/ Load(t) \/ Store(t) \/ IncUnlocks(t)
Watch == WatchLocks \/ WatchWaits \/ WatchBonus \/ WatchExits

Next == Watch \/ SpuriousWakeup \/ Joined \/ \E t \in Incs : Inc(t)

Spec == Init /\ [][Next]_vars

\* Threads run, and nobody is kept from the mutex for ever.
Fairness ==
  /\ WF_vars(Watch) /\ SF_vars(WatchLocks \/ WatchBonus)
  /\ \A t \in Incs : WF_vars(Inc(t)) /\ SF_vars(IncLocks(t))

FairSpec == Spec /\ Fairness

-----------------------------------------------------------------------------
(* Properties *)

\* Each variable has its type: inc_count runs TCOUNT iterations at most.
TypeOK ==
  /\ count \in Nat /\ added \in Nat
  /\ mutex \in {"free", "watch"} \union Incs
  /\ watch \in {"lock", "test", "waiting", "relock", "exited"}
  /\ inc \in [Incs -> {"lock", "load", "store", "unlock", "exited"}]
  /\ reg \in [Incs -> Nat]
  /\ i \in [Incs -> 0..TCOUNT]

\* "while loop handles spurious wakeups": the bonus is added at most once,
\* although it is added in the body of that loop and before the test.
BonusOnce == added <= 1

\* The increments made so far: a thread, and which of its iterations made it.
Increments ==
  {p \in Incs \X (1..TCOUNT) : p[2] <= i[p[1]] + (IF inc[p[1]] = "unlock" THEN 1 ELSE 0)}

\* No increment and no bonus is lost: the loads and stores of ++count and the
\* += of the watcher never overlap.
CountExact == count = Cardinality(Increments) + Bonus * added

\* The watcher sleeps below the limit only.
NoLostWakeup == watch = "waiting" => count < COUNT_LIMIT

\* All three threads are joined.
Termination == <>AllJoined

\* "main will see a final value of 145 when all threads are joined".
FinalValue == AllJoined => count = TCOUNT * Cardinality(Incs) + Bonus

=============================================================================
