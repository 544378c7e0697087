---------------------------- MODULE CountHandoff ----------------------------
(***************************************************************************)
(* 05-threading/examples/src/condition.c: two threads count to COUNT_DONE;   *)
(* funcCount1 stays out of COUNT_HALT1..COUNT_HALT2, funcCount2 stays inside, *)
(* and each wakes the other at the border.  funcCount2 may return with the    *)
(* mutex locked.                                                              *)
(***************************************************************************)
EXTENDS Integers, Sequences

CONSTANTS COUNT_HALT1, COUNT_HALT2, COUNT_DONE   \* 3, 6 and 10 in the code

\* What the model assumes of its constants.
HandoffAssumption ==
  /\ COUNT_HALT1 \in Nat \ {0} /\ COUNT_HALT2 \in Nat /\ COUNT_DONE \in Nat
  /\ COUNT_HALT1 <= COUNT_HALT2 /\ COUNT_HALT2 + 1 < COUNT_DONE

VARIABLES
  count,
  mutex,     \* 0 or the thread that holds cond1_mutex
  pc,        \* where each thread is
  printed    \* who printed each count, in order

vars == <<count, mutex, pc, printed>>

\* The threads that run funcCount1 and funcCount2.
Pair == {1, 2}

\* Variant: the upper border is exclusive.
Halt1Exclusive == COUNT_HALT1 <= count /\ count < COUNT_HALT2
\* while(count >= COUNT_HALT1 && count <= COUNT_HALT2)
Halt1 == COUNT_HALT1 <= count /\ count <= COUNT_HALT2
\* while(count < COUNT_HALT1 || (count > COUNT_HALT2 && count < COUNT_DONE))
Halt2 == count < COUNT_HALT1 \/ (count > COUNT_HALT2 /\ count < COUNT_DONE)
MustWait(t) == IF t = 1 THEN Halt1 ELSE Halt2

Init ==
  /\ count = 0 /\ mutex = 0 /\ printed = <<>>
  /\ pc = [t \in Pair |-> "lock"]

\* pthread_mutex_lock, or the end of pthread_cond_wait
Lock(t) ==
  /\ pc[t] \in {"lock", "relock"} /\ mutex = 0
  /\ mutex' = t
  /\ pc' = [pc EXCEPT ![t] = "test"]
  /\ UNCHANGED <<count, printed>>

\* Thread 1 waits on cond1, thread 2 on cond2.
Wait(t) ==
  /\ pc[t] = "test" /\ MustWait(t)
  /\ mutex' = 0
  /\ pc' = [pc EXCEPT ![t] = "waiting"]
  /\ UNCHANGED <<count, printed>>

Signalled(q, t) == IF q[t] = "waiting" THEN [q EXCEPT ![t] = "relock"] ELSE q

\* The body of funcCount1 up to the unlock: print, ++count, signal cond2 when
\* the count has entered thread 2's range.
Count1 ==
  /\ pc[1] = "test" /\ ~Halt1
  /\ printed' = Append(printed, 1)
  /\ count' = count + 1
  /\ pc' = [(IF Halt1' THEN Signalled(pc, 2) ELSE pc) EXCEPT ![1] = "unlock"]
  /\ UNCHANGED mutex

\* if(count == COUNT_DONE) return NULL, with the mutex locked
Return2 ==
  /\ pc[2] = "test" /\ ~Halt2 /\ count = COUNT_DONE
  /\ pc' = [pc EXCEPT ![2] = "returned"]
  /\ UNCHANGED <<count, mutex, printed>>

\* The rest of the body of funcCount2 up to the unlock.
Count2 ==
  /\ pc[2] = "test" /\ ~Halt2 /\ count # COUNT_DONE
  /\ printed' = Append(printed, 2)
  /\ count' = count + 1
  /\ pc' = [(IF count' < COUNT_HALT1 \/ count' > COUNT_HALT2
               THEN Signalled(pc, 1) ELSE pc) EXCEPT ![2] = "unlock"]
  /\ UNCHANGED mutex

\* Unlock.  done was set inside the critical section, by the value of count at
\* that time, which nobody has changed since: thread 1 goes on to signal cond2
\* once more, thread 2 would return.
Unlock(t) ==
  /\ pc[t] = "unlock"
  /\ mutex' = 0
  /\ pc' = [pc EXCEPT ![t] =
              IF count < COUNT_DONE THEN "lock"
              ELSE IF t = 1 THEN "farewell" ELSE "returned"]
  /\ UNCHANGED <<count, printed>>

\* Variant: thread 1 returns without waking thread 2.
FarewellSilent ==
  /\ pc[1] = "farewell"
  /\ pc' = [pc EXCEPT ![1] = "returned"]
  /\ UNCHANGED <<count, mutex, printed>>

\* if(done) signal cond2, outside the mutex, and return
Farewell ==
  /\ pc[1] = "farewell"
  /\ pc' = [Signalled(pc, 2) EXCEPT ![1] = "returned"]
  /\ UNCHANGED <<count, mutex, printed>>

SpuriousWakeup(t) ==
  /\ pc[t] = "waiting"
  /\ pc' = [pc EXCEPT ![t] = "relock"]
  /\ UNCHANGED <<count, mutex, printed>>

Joined == pc = [t \in Pair |-> "returned"] /\ UNCHANGED vars

Thread1 == Lock(1) \/ Wait(1) \/ Count1 \/ Unlock(1) \/ Farewell
Thread2 == Lock(2) \/ Wait(2) \/ Count2 \/ Return2 \/ Unlock(2)

Next == Thread1 \/ Thread2 \/ Joined \/ \E t \in Pair : SpuriousWakeup(t)

Spec == Init /\ [][Next]_vars

\* Threads run, and a mutex that keeps becoming free is got in the end.
Fairness == /\ WF_vars(Thread1) /\ WF_vars(Thread2)
            /\ \A t \in Pair : SF_vars(Lock(t))

FairSpec == Spec /\ Fairness

-----------------------------------------------------------------------------
(* Properties *)

\* Each variable has its type: nobody counts past COUNT_DONE.
TypeOK ==
  /\ count \in 0..COUNT_DONE
  /\ mutex \in {0} \union Pair
  /\ pc \in [Pair -> {"lock", "test", "waiting", "relock", "unlock",
                         "farewell", "returned"}]
  /\ printed \in Seq(Pair)

\* Each number is printed once, by the thread whose range it is in.
TurnsKept ==
  /\ Len(printed) = count
  /\ \A k \in 1..count :
       printed[k] = IF COUNT_HALT1 <= k - 1 /\ k - 1 <= COUNT_HALT2 THEN 2 ELSE 1

\* funcCount2 returns with the mutex locked; by then thread 1 never locks again.
AbandonedMutexHarmless ==
  pc[2] = "returned" /\ mutex = 2 => pc[1] \in {"farewell", "returned"}

\* When a thread sleeps although it is its turn, or thread 2 although the
\* count is done, the other one still has a signal to send.
NoLostWakeup ==
  /\ pc[1] = "waiting" => Halt1
  /\ pc[2] = "waiting" => Halt2 \/ (count = COUNT_DONE /\ pc[1] \in {"unlock", "farewell"})

\* Both threads return.
Termination == <>(\A t \in Pair : pc[t] = "returned")

=============================================================================
