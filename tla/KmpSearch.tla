----------------------------- MODULE KmpSearch -----------------------------
(***************************************************************************)
(* 02-file-io/kmp.c: the file is read into a buffer that is doubled one read   *)
(* ahead, the prefix table of the pattern is built, and the text is searched;  *)
(* every match writes a line.  Positions count from 0 as in the code.  The     *)
(* line is written in one step (WriteLoop looks inside write_all).             *)
(***************************************************************************)
EXTENDS Integers, Sequences, FiniteSets

CONSTANTS
  READ_SIZE,           \* 512 in the code
  Letters,             \* the bytes of file and pattern, 0 excluded
  MaxText, MaxPattern  \* bounds: lengths of file and pattern

\* What the model assumes of its constants.
KmpAssumption == READ_SIZE \in Nat \ {0} /\ MaxText \in Nat /\ MaxPattern \in Nat

Strings(max) == UNION {[1..l -> Letters] : l \in 0..max}

VARIABLES
  file, pattern,
  state,          \* "read", "table", "search", "done", or "failed"
  n, capacity,    \* of read_str_buf; sb->length is n in the end
  A,              \* prefix_table
  i, j,           \* of build_prefix_table, then of kmp_search
  found           \* lines written

input == <<file, pattern>>
vars == <<file, pattern, state, n, capacity, A, i, j, found>>

m == Len(pattern)

Init ==
  /\ file \in Strings(MaxText) /\ pattern \in Strings(MaxPattern)
  /\ state = "read" /\ n = 0 /\ capacity = READ_SIZE
  /\ A = [k \in {0} |-> -1] /\ i = 0 /\ j = -1 /\ found = 0

\* if (capacity < n + READ_SIZE) capacity *= 2
Grown(size) == IF capacity < size + READ_SIZE THEN 2 * capacity ELSE capacity

\* read gives r bytes
Read(r) ==
  /\ state = "read" /\ n + r <= Len(file)
  /\ n' = n + r /\ capacity' = Grown(n + r)
  /\ UNCHANGED <<input, state, A, i, j, found>>

\* The end of the file; find gives up if the pattern is longer than the text.
ReadEnd ==
  /\ state = "read" /\ n = Len(file)
  /\ state' = IF m > n THEN "done" ELSE "table"
  /\ UNCHANGED <<input, n, capacity, A, i, j, found>>

\* open, read, close or write_all fails, or open for the result.  So does an
\* interrupted read: the test for EINTR looks at the result of read, not at
\* errno.
Fails ==
  /\ state \in {"read", "search"}
  /\ state' = "failed"
  /\ UNCHANGED <<input, n, capacity, A, i, j, found>>

\* while (j != -1 && c != pattern[j]) j = A[j]; pattern[m] is 0
Back(c, from) ==
  LET back[k \in {-1} \union DOMAIN A] ==
        IF k # -1 /\ (k = m \/ pattern[k + 1] # c) THEN back[A[k]] ELSE k
  IN back[from]

\* One round of build_prefix_table: A[i + 1] = ++j
Prefix ==
  /\ state = "table" /\ i < m
  /\ j' = Back(pattern[i + 1], j) + 1
  /\ A' = [k \in DOMAIN A \union {i + 1} |-> IF k = i + 1 THEN j' ELSE A[k]]
  /\ i' = i + 1
  /\ UNCHANGED <<input, state, n, capacity, found>>

StartSearch ==
  /\ state = "table" /\ i = m
  /\ state' = "search" /\ i' = 0 /\ j' = 0
  /\ UNCHANGED <<input, n, capacity, A, found>>

\* Variant: the search starts afresh behind a match.
SearchDisjoint ==
  /\ state = "search" /\ i < n
  /\ LET k == Back(file[i + 1], j) + 1
     IN IF k = m THEN found' = found + 1 /\ j' = 0
                 ELSE j' = k /\ UNCHANGED found
  /\ i' = i + 1
  /\ UNCHANGED <<input, state, n, capacity, A>>

\* One round of kmp_search
Search ==
  /\ state = "search" /\ i < n
  /\ LET k == Back(file[i + 1], j) + 1
     IN IF k = m THEN found' = found + 1 /\ j' = A[m]
                 ELSE j' = k /\ UNCHANGED found
  /\ i' = i + 1
  /\ UNCHANGED <<input, state, n, capacity, A>>

Close ==
  /\ state = "search" /\ i = n
  /\ state' = "done"
  /\ UNCHANGED <<input, n, capacity, A, i, j, found>>

Ended == state \in {"done", "failed"} /\ UNCHANGED vars

Next ==
  \/ (\E r \in 1..READ_SIZE : Read(r)) \/ ReadEnd \/ Fails
  \/ Prefix \/ StartSearch \/ Search \/ Close \/ Ended

Spec == Init /\ [][Next]_vars

-----------------------------------------------------------------------------
(* Properties *)

Ends(s, len) == SubSeq(s, Len(s) - len + 1, Len(s))

\* The longest l < limit such that s ends in the first l letters of the pattern
Longest(s, limit) ==
  LET fits == {l \in 0..limit - 1 : l <= Len(s) /\ Ends(s, l) = SubSeq(pattern, 1, l)}
  IN IF fits = {} THEN -1 ELSE CHOOSE l \in fits : \A k \in fits : k <= l

\* Each variable has its type, and the buffer always has room for another read.
TypeOK ==
  /\ state \in {"read", "table", "search", "done", "failed"}
  /\ n \in 0..Len(file) /\ i \in Nat /\ j \in -1..m /\ found \in 0..Len(file)
  /\ DOMAIN A \subseteq 0..m /\ n + READ_SIZE <= capacity

\* The table and the search are right at every position: an entry is the
\* longest proper border of its prefix, j the longest proper prefix of the
\* pattern the text ends in so far, and one line has been written for every
\* occurrence, overlapping ones included.  (An empty pattern occurs once per
\* byte.)  A text that was not read to its end is never searched.
MatchesFound ==
  /\ \A k \in DOMAIN A : A[k] = Longest(SubSeq(pattern, 1, k), k)
  /\ state = "search" =>
       LET seen == SubSeq(file, 1, i)
           hits == {k \in m..i : k > 0 /\ SubSeq(file, k - m + 1, k) = pattern}
       IN /\ n = Len(file)
          /\ found = Cardinality(hits)
          /\ m > 0 => j = Longest(seen, m)
  /\ state = "done" /\ m > n => found = 0

=============================================================================
