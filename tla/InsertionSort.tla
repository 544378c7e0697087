--------------------------- MODULE InsertionSort ---------------------------
(***************************************************************************)
(* 05-threading/class/insertion_sort.c: insertion_sort(arr, a, b) sorts        *)
(* arr[a], ..., arr[b - 1].  An element is inserted inside the loop that       *)
(* shifts the greater ones, or behind it if it is the least so far.            *)
(***************************************************************************)
EXTENDS Integers, FiniteSets

CONSTANTS Size, Values    \* length of the array, what it holds

\* What the model assumes of its constants.
InsertionAssumption == Size \in Nat \ {0} /\ Values \subseteq Int

Indices == 0..Size - 1

VARIABLES
  arr, a, b,
  given,        \* the array as it was passed
  i, j, tmp,
  at            \* "outer", "inner", "least" or "done"

args == <<a, b, given>>
vars == <<arr, a, b, given, i, j, tmp, at>>

Init ==
  /\ given \in [Indices -> Values] /\ arr = given
  /\ a \in Indices /\ b \in 0..Size
  /\ i = a + 1 /\ j = 0 /\ tmp = arr[a] /\ at = "outer"

\* The head of the outer loop
Outer ==
  /\ at = "outer"
  /\ IF i < b THEN at' = "inner" /\ tmp' = arr[i] /\ j' = i
              ELSE at' = "done" /\ UNCHANGED <<tmp, j>>
  /\ UNCHANGED <<arr, args, i>>

Shift ==
  /\ at = "inner" /\ j > a /\ arr[j - 1] > tmp
  /\ arr' = [arr EXCEPT ![j] = arr[j - 1]]
  /\ j' = j - 1
  /\ UNCHANGED <<args, i, tmp, at>>

\* arr[j] = tmp and break, or the end of the inner loop
Insert ==
  /\ at = "inner" /\ (j > a => arr[j - 1] <= tmp)
  /\ arr' = IF j > a THEN [arr EXCEPT ![j] = tmp] ELSE arr
  /\ at' = "least"
  /\ UNCHANGED <<args, i, j, tmp>>

\* if (arr[a] > tmp) arr[a] = tmp, and ++i
Least ==
  /\ at = "least"
  /\ arr' = IF arr[a] > tmp THEN [arr EXCEPT ![a] = tmp] ELSE arr
  /\ i' = i + 1 /\ at' = "outer"
  /\ UNCHANGED <<args, j, tmp>>

Done == at = "done" /\ UNCHANGED vars

Next == Outer \/ Shift \/ Insert \/ Least \/ Done

Spec == Init /\ [][Next]_vars

-----------------------------------------------------------------------------
(* Properties *)

\* Each variable has its type; the inner loop stays between a and b.
TypeOK ==
  /\ arr \in [Indices -> Values] /\ a \in Indices /\ b \in 0..Size /\ i \in 1..Size + 1
  /\ j \in 0..Size /\ tmp \in Values /\ at \in {"outer", "inner", "least", "done"}
  /\ at \in {"inner", "least"} => j \in a..i /\ i < b

Sorted(f, S) == \A x, y \in S : x < y => f[x] <= f[y]
Occurs(f, S, v) == Cardinality({x \in S : f[x] = v})

\* "If tmp was already inserted, it cannot be < arr[a]": each round leaves the
\* part before i sorted, made of the elements it had, and everything from i on
\* and before a as it was, although an element is twice in the array while
\* others are shifted over it.
SortsRange ==
  at \in {"outer", "done"} =>
    /\ Sorted(arr, a..i - 1)
    /\ \A v \in Values : Occurs(arr, a..i - 1, v) = Occurs(given, a..i - 1, v)
    /\ \A x \in Indices \ a..i - 1 : arr[x] = given[x]
    /\ at = "done" => i >= b

=============================================================================
