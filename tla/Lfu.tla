-------------------------------- MODULE Lfu --------------------------------
(***************************************************************************)
(* What the comment above serve_dishes in 09-memory/feast.c promises: a       *)
(* table of bounded size whose replacement strategy is least frequently       *)
(* used, and a count of the fetches.  Which of several least used dishes has  *)
(* to go is left open.                                                        *)
(***************************************************************************)
EXTENDS Integers, FiniteSets

CONSTANTS Space, Dishes

VARIABLES
  table,       \* the uses of every dish on the table since it was fetched
  fetches

vars == <<table, fetches>>

Init == table = [d \in {} |-> 0] /\ fetches = 0

OnTable == DOMAIN table

\* The table with d fetched in the place of the dishes in gone.
Fetched(d, gone) ==
  [x \in (OnTable \ gone) \union {d} |-> IF x = d THEN 0 ELSE table[x]]

Use(d) ==
  /\ d \in OnTable
  /\ table' = [table EXCEPT ![d] = @ + 1]
  /\ UNCHANGED fetches

Add(d) ==
  /\ d \notin OnTable /\ Cardinality(OnTable) < Space
  /\ table' = Fetched(d, {})
  /\ fetches' = fetches + 1

Replace(d) ==
  /\ d \notin OnTable /\ Cardinality(OnTable) = Space
  /\ \E v \in OnTable : /\ \A u \in OnTable : table[v] <= table[u]
                        /\ table' = Fetched(d, {v})
  /\ fetches' = fetches + 1

Next == \E d \in Dishes : Use(d) \/ Add(d) \/ Replace(d)

Spec == Init /\ [][Next]_vars

=============================================================================
