------------------------------- MODULE Feast -------------------------------
(***************************************************************************)
(* 09-memory/feast.c: orders are read from standard input; a dish that is on   *)
(* the table is used once more, any other is fetched onto the first platter    *)
(* of the least used.                                                          *)
(*                                                                            *)
(* get_next_dish_order looks at feof before it calls scanf and never at the    *)
(* result of scanf: when there is no number to read (nothing but white space   *)
(* is left, say) it returns whatever its local happened to hold, and that is   *)
(* served as an order nobody gave.                                            *)
(***************************************************************************)
EXTENDS Integers

CONSTANTS
  TABLE_SPACE,     \* 5 in the code
  Dishes,          \* dish numbers, -1 is none of them
  MaxOrders        \* bound: orders served

None == -1

\* What the model assumes of its constants.
FeastAssumption ==
  TABLE_SPACE \in Nat \ {0} /\ Dishes \subseteq Int \ {None} /\ MaxOrders \in Nat

Platters == 1..TABLE_SPACE

VARIABLES
  platters,     \* dish and uses
  fetches,
  eof,          \* feof(stdin)
  state,        \* "serving" or "done"
  served        \* how many orders were served

vars == <<platters, fetches, eof, state, served>>

Init ==
  /\ platters = [i \in Platters |-> [dish |-> None, uses |-> -1]]
  /\ fetches = 0 /\ eof = FALSE /\ state = "serving"
  /\ served = 0

\* exists
Holding(d) == {i \in Platters : platters[i].dish = d}

\* least: the scan keeps the first of several
Least ==
  CHOOSE i \in Platters :
    /\ \A k \in Platters : platters[i].uses <= platters[k].uses
    /\ \A k \in 1..i - 1 : platters[i].uses < platters[k].uses

\* Variant: a fetched dish inherits the uses of the dish it replaces.
FetchKeepsUses(d) ==
  /\ fetches' = fetches + 1
  /\ platters' = [platters EXCEPT ![Least].dish = d, ![Least].uses = IF @ = -1 THEN 0 ELSE @]

Fetch(d) ==
  /\ fetches' = fetches + 1
  /\ platters' = [platters EXCEPT ![Least] = [dish |-> d, uses |-> 0]]

\* The body of the loop for order d
Serve(d) ==
  /\ served' = served + 1
  /\ \/ \E i \in Holding(d) : platters' = [platters EXCEPT ![i].uses = @ + 1] /\ UNCHANGED fetches
     \/ Holding(d) = {} /\ Fetch(d)

\* scanf reads a number, which may be the last thing in the input.  Or it reads
\* nothing, at the end of the input or, every time again, at something that is
\* no number: the local nobody has stored to looks like order d ...
Order(d) ==
  /\ state = "serving" /\ ~eof /\ served < MaxOrders
  /\ eof' \in BOOLEAN
  /\ Serve(d)
  /\ UNCHANGED state

\* ... or like -1; so does a -1 in the input, and the next call after feof.
Stop ==
  /\ state = "serving"
  /\ state' = "done"
  /\ UNCHANGED <<platters, fetches, eof, served>>

Done == state = "done" /\ UNCHANGED vars

Next == (\E d \in Dishes : Order(d)) \/ Stop \/ Done

Spec == Init /\ [][Next]_vars

-----------------------------------------------------------------------------
(* Properties *)

\* Each variable has its type; a platter is empty in both fields or in neither.
TypeOK ==
  /\ \A i \in Platters : \/ platters[i] = [dish |-> None, uses |-> -1]
                         \/ platters[i].dish \in Dishes /\ platters[i].uses \in Nat
  /\ fetches \in Nat /\ eof \in BOOLEAN /\ state \in {"serving", "done"}
  /\ served \in 0..MaxOrders

\* The dishes on the platters, with their uses.
Table ==
  [d \in {platters[i].dish : i \in Platters} \ {None} |->
     platters[CHOOSE i \in Holding(d) : TRUE].uses]

LFU == INSTANCE Lfu WITH Space <- TABLE_SPACE, table <- Table

\* "The replacement strategy is LEAST FREQUENTLY USED": the platters, scanned
\* once per order, implement a table that replaces a least used dish, and only
\* when it is full; no dish is on two platters, and every fetch is counted.
ImplementsLfu == LFU!Spec

=============================================================================
