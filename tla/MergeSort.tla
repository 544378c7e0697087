------------------------------ MODULE MergeSort ------------------------------
(***************************************************************************)
(* 05-threading/class/merge_sort.c: merge_sort sorts A[start..end] in place;  *)
(* it starts a thread for the left half, sorts the right half itself, joins    *)
(* the thread and merges.  Nothing is locked: every call works on its own part *)
(* of the array, and the two functions compute the middle in different ways.   *)
(*                                                                            *)
(* A call is known by its range <<start, end>>; reading, filling tmp and       *)
(* copying it back are steps of their own, interleaved with all other calls.   *)
(***************************************************************************)
EXTENDS Integers, Sequences, FiniteSets

CONSTANTS
  Size,     \* elements of A (8 in the code)
  Values    \* what the elements may be

\* What the model assumes of its constants.
SortAssumption == Size \in Nat \ {0} /\ Values \subseteq Int

Index == 0..Size - 1
Root == <<0, Size - 1>>

\* merge_sort: start + (end - start) / 2, in doubles and then truncated
Middle(r) == r[1] + (r[2] - r[1]) \div 2
Left(r) == <<r[1], Middle(r)>>
Right(r) == <<Middle(r) + 1, r[2]>>

\* Ranges merge_sort is called with.
Calls ==
  LET level[d \in 0..Size] ==
        IF d = 0 THEN {Root}
        ELSE level[d - 1] \union
             UNION {{Left(r), Right(r)} : r \in {q \in level[d - 1] : q[1] < q[2]}}
  IN level[Size]

VARIABLES
  A,        \* the array
  given,    \* what it was at the start
  at,       \* where each call is
  tmp,      \* each call's tmp[0..i-1]
  ai, bi    \* a_index and b_index of each call; ai counts the copy loop too

vars == <<A, given, at, tmp, ai, bi>>

Init ==
  /\ given \in [Index -> Values]
  /\ A = given
  /\ at = [r \in Calls |-> IF r = Root THEN "entry" ELSE "none"]
  /\ tmp = [r \in Calls |-> <<>>]
  /\ ai = [r \in Calls |-> 0] /\ bi = [r \in Calls |-> 0]

\* merge: (start + end) / 2
MergeMiddle(r) == (r[1] + r[2]) \div 2

\* A range of one element, or an empty one: return NULL.
Nothing(r) ==
  /\ at[r] = "entry" /\ r[1] >= r[2]
  /\ at' = [at EXCEPT ![r] = "done"]
  /\ UNCHANGED <<A, given, tmp, ai, bi>>

\* pthread_create for the left half, merge_sort(&arg2) for the right one
Split(r) ==
  /\ at[r] = "entry" /\ r[1] < r[2]
  /\ at' = [at EXCEPT ![r] = "halves", ![Left(r)] = "entry", ![Right(r)] = "entry"]
  /\ UNCHANGED <<A, given, tmp, ai, bi>>

\* Variant: the thread is not joined.
JoinNotAwaited(r) ==
  /\ at[r] = "halves" /\ at[Right(r)] = "done"
  /\ at' = [at EXCEPT ![r] = "merge"]
  /\ ai' = [ai EXCEPT ![r] = r[1]]
  /\ bi' = [bi EXCEPT ![r] = MergeMiddle(r) + 1]
  /\ UNCHANGED <<A, given, tmp>>

\* merge_sort(&arg2) has returned, pthread_join returns; merge begins.
Join(r) ==
  /\ at[r] = "halves" /\ at[Left(r)] = "done" /\ at[Right(r)] = "done"
  /\ at' = [at EXCEPT ![r] = "merge"]
  /\ ai' = [ai EXCEPT ![r] = r[1]]
  /\ bi' = [bi EXCEPT ![r] = MergeMiddle(r) + 1]
  /\ UNCHANGED <<A, given, tmp>>

\* One element goes to tmp: the smaller front, or what one side has left.
Take(r) ==
  /\ at[r] = "merge" /\ (ai[r] <= MergeMiddle(r) \/ bi[r] <= r[2])
  /\ LET left == /\ ai[r] <= MergeMiddle(r)
                 /\ bi[r] <= r[2] => A[ai[r]] < A[bi[r]]
     IN /\ tmp' = [tmp EXCEPT ![r] = Append(@, IF left THEN A[ai[r]] ELSE A[bi[r]])]
        /\ ai' = IF left THEN [ai EXCEPT ![r] = @ + 1] ELSE ai
        /\ bi' = IF left THEN bi ELSE [bi EXCEPT ![r] = @ + 1]
  /\ UNCHANGED <<A, given, at>>

\* for(i=start; i<=end; ++i) begins.
Merged(r) ==
  /\ at[r] = "merge" /\ ai[r] > MergeMiddle(r) /\ bi[r] > r[2]
  /\ at' = [at EXCEPT ![r] = "copy"]
  /\ ai' = [ai EXCEPT ![r] = r[1]]
  /\ UNCHANGED <<A, given, tmp, bi>>

\* A[i] = tmp[i - start]; after the last one, free(tmp) and return
CopyBack(r) ==
  /\ at[r] = "copy"
  /\ A' = [A EXCEPT ![ai[r]] = tmp[r][ai[r] - r[1] + 1]]
  /\ ai' = [ai EXCEPT ![r] = @ + 1]
  /\ at' = IF ai[r] = r[2] THEN [at EXCEPT ![r] = "done"] ELSE at
  /\ tmp' = IF ai[r] = r[2] THEN [tmp EXCEPT ![r] = <<>>] ELSE tmp
  /\ UNCHANGED <<given, bi>>

\* main prints the array.
Finished == at[Root] = "done" /\ UNCHANGED vars

Step(r) == Nothing(r) \/ Split(r) \/ Join(r) \/ Take(r) \/ Merged(r) \/ CopyBack(r)

AnyStep == \E r \in Calls : Step(r)

Next == AnyStep \/ Finished

Spec == Init /\ [][Next]_vars

-----------------------------------------------------------------------------
(* Properties *)

\* Occurrences of v in f between two indices.
Occurs(f, r, v) == Cardinality({k \in r[1]..r[2] : f[k] = v})

\* A call that has returned leaves its part sorted and with the values it was
\* given, and no call of another branch disturbs it before its caller copies
\* the merged halves back: the calls need no lock.
SortsInPlace ==
  \A r \in Calls :
    at[r] = "done" /\ (\A q \in Calls : q # r /\ q[1] <= r[1] /\ r[2] <= q[2] => at[q] \in {"halves", "merge"})
      => /\ \A k \in r[1]..r[2] - 1 : A[k] <= A[k + 1]
         /\ \A v \in Values : Occurs(A, r, v) = Occurs(given, r, v)

\* The array gets sorted.  Every step is one of finitely many, so it is enough
\* that some thread runs as long as one can.
Termination == <>(at[Root] = "done")

=============================================================================
